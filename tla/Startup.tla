------------------------------- MODULE Startup -------------------------------
(***************************************************************************)
(* From main to the event loop: init_server, register_route and            *)
(* init_listener of src/src/http.c, s_listen of src/src/cnet.c and         *)
(* route.c's registration, each failing as it may, and the release of      *)
(* everything when the loop is not entered or is left at once.             *)
(*                                                                         *)
(* server_t is a local of main: a field nothing was assigned to is "junk", *)
(* and main does not learn that init_server gave up.  Server takes over    *)
(* where pc is "serving".                                                  *)
(*                                                                         *)
(* Definitions marked Defective are no part of Next: each is the           *)
(* definition that follows it with a plausible mistake.                    *)
(***************************************************************************)
EXTENDS Integers, Sequences

CONSTANTS Routes,   \* the <<path, handler>>s main registers, in order
          Path, Handler

ASSUME RoutesAssumption == Routes \in Seq(Path \X Handler)

Fields == {"route", "pool", "efd", "client_list"}

VARIABLES
  pc,       \* where main is
  field,    \* [Fields -> "junk", "null" (NULL or -1), "live", "gone"]
  caught,   \* signals that shut_down_server handles
  stop,     \* server->shutdown_signal
  taken,    \* history: shut_down_server has run
  ln,       \* server->ln: its descriptor's state, err; history: s_listen succeeded
  table,    \* server->route: [paths -> Handler]
  i,        \* the registration main is at
  refused,  \* history: the registrations that found no memory
  ub        \* history: a junk pointer was followed

vars == <<pc, field, caught, stop, taken, ln, table, i, refused, ub>>
others == <<caught, stop, taken, ln, table, i, refused, ub>>

Init == /\ pc = "init_route"
        /\ field = [f \in Fields |-> "junk"]
        /\ caught = {}
        /\ stop \in BOOLEAN
        /\ taken = FALSE
        /\ ln = [fd |-> "none", err |-> 0, listens |-> FALSE]
        /\ table = << >>
        /\ i = 1
        /\ refused = {}
        /\ ub = FALSE
-----------------------------------------------------------------------------
(* init_server *)
init_route == /\ pc = "init_route"
              /\ field' = [field EXCEPT !["route"] = "live"]
              /\ pc' = "create_pool"
              /\ UNCHANGED others

create_pool == /\ pc = "create_pool"
               /\ field' = [field EXCEPT !["pool"] = "live"]
               /\ stop' = FALSE
               /\ pc' = "SIGINT"
               /\ UNCHANGED <<caught, taken, ln, table, i, refused, ub>>

sigaction(s) == /\ pc = s /\ s \in {"SIGINT", "SIGTERM"}
                /\ caught' = caught \cup {s}
                /\ pc' = IF s = "SIGINT" THEN "SIGTERM" ELSE "kqueue"
                /\ UNCHANGED <<field, stop, taken, ln, table, i, refused, ub>>

(* Defective: the flag is cleared last. *)
kqueue_ClearsStop == /\ pc = "kqueue"
                     /\ field' = [field EXCEPT !["efd"] = "live", !["client_list"] = "live"]
                     /\ stop' = FALSE
                     /\ pc' = "register"
                     /\ UNCHANGED <<caught, taken, ln, table, i, refused, ub>>

(* Defective: the list is left as it is. *)
kqueue_NoList == /\ pc = "kqueue"
                 /\ field' = [field EXCEPT !["efd"] = "live"]
                 /\ pc' = "register"
                 /\ UNCHANGED others

kqueue == /\ pc = "kqueue"
          /\ field' = [field EXCEPT !["efd"] = "live", !["client_list"] = "live"]
          /\ pc' = "register"
          /\ UNCHANGED others

(* Any of its calls fails: init_server returns, main goes on. *)
init_server_fails == /\ pc \in {"init_route", "create_pool", "SIGINT", "SIGTERM", "kqueue"}
                     /\ field' = CASE pc = "create_pool" -> [field EXCEPT !["pool"] = "null"]
                                   [] pc = "kqueue" -> [field EXCEPT !["efd"] = "null"]
                                   [] OTHER -> field
                     /\ pc' = "register"
                     /\ UNCHANGED others
-----------------------------------------------------------------------------
(* register_route: main's calls, in order. *)
registering == pc = "register" /\ i <= Len(Routes)

(* Defective: a path that exists gets the new handler. *)
kh_put_Overwrites(path, handler) ==
  [p \in DOMAIN table \cup {path} |-> IF p = path THEN handler ELSE table[p]]

(* kh_put with its value: a path that exists keeps its handler. *)
kh_put(path, handler) ==
  [p \in DOMAIN table \cup {path} |-> IF p \in DOMAIN table THEN table[p] ELSE handler]

route_register == /\ registering
                  /\ field["route"] = "live"
                  /\ table' = kh_put(Routes[i][1], Routes[i][2])
                  /\ i' = i + 1
                  /\ UNCHANGED <<pc, field, caught, stop, taken, ln, refused, ub>>

(* kh_put cannot grow the table: -1, which nobody looks at. *)
route_register_fails == /\ registering
                        /\ field["route"] = "live"
                        /\ refused' = refused \cup {i}
                        /\ i' = i + 1
                        /\ UNCHANGED <<pc, field, caught, stop, taken, ln, table, ub>>

(* strdup fails: kh_put hashes the null pointer. *)
route_register_crashes == /\ registering
                          /\ pc' = "crashed"
                          /\ UNCHANGED <<field, others>>

(* The table is junk: kh_put crashes, or happens to return. *)
route_register_junk == /\ registering
                       /\ field["route"] = "junk"
                       /\ ub' = TRUE
                       /\ \/ pc' = "crashed" /\ UNCHANGED i
                          \/ i' = i + 1 /\ UNCHANGED pc
                       /\ UNCHANGED <<field, caught, stop, taken, ln, table, refused>>

registered == /\ pc = "register"
              /\ i > Len(Routes)
              /\ pc' = "s_listen"
              /\ UNCHANGED <<field, others>>
-----------------------------------------------------------------------------
(* init_listener *)
leave(p, l) == /\ pc' = p
               /\ ln' = l
               /\ UNCHANGED <<field, caught, stop, taken, table, i, refused, ub>>

s_listen == /\ pc = "s_listen"
            /\ leave("set_fd_nonblock", [fd |-> "open", err |-> 0, listens |-> TRUE])

(* Defective: s_listen's err is left as it is. *)
s_listen_fails_KeepsErr ==
  /\ pc = "s_listen"
  /\ \E err \in {-1, 2, 3, 5, 6} :
       leave("LISTENER_ERR", [fd |-> IF err < 3 THEN "none" ELSE "open",
                              err |-> err, listens |-> FALSE])

(* s_listen's errors: -1 no port in the address, 2 socket, 3 setsockopt,   *)
(* 5 bind, 6 listen.  All become 1; from 3 on there is a descriptor.       *)
s_listen_fails == /\ pc = "s_listen"
                  /\ \E err \in {-1, 2, 3, 5, 6} :
                       leave("LISTENER_ERR", [fd |-> IF err < 3 THEN "none" ELSE "open",
                                              err |-> 1, listens |-> FALSE])

set_fd_nonblock == /\ pc = "set_fd_nonblock"
                   /\ leave("kevent", ln)

(* Defective: reported as s_listen's failure. *)
set_fd_nonblock_fails_As1 == /\ pc = "set_fd_nonblock"
                             /\ leave("LISTENER_ERR", [ln EXCEPT !.err = 1])

set_fd_nonblock_fails == /\ pc = "set_fd_nonblock"
                         /\ leave("LISTENER_ERR", [ln EXCEPT !.err = 2])

(* Defective: kevent's result is not tested. *)
kevent_adds_Untested == pc = "kevent" /\ leave("loop", ln)

(* EV_ADD needs a kqueue: junk and -1 are none. *)
kevent_adds == /\ pc = "kevent"
               /\ field["efd"] = "live"
               /\ leave("loop", ln)

kevent_fails == /\ pc = "kevent"
                /\ leave("LISTENER_ERR", [ln EXCEPT !.err = 3])
-----------------------------------------------------------------------------
(* serve_and_listen *)
enter_loop == /\ pc = "loop"
              /\ ~stop
              /\ leave("serving", ln)

leave_loop == /\ pc = "loop"
              /\ stop
              /\ leave("destroy_route", [ln EXCEPT !.fd = "closed"])

LISTENER_ERR == /\ pc = "LISTENER_ERR"
                /\ leave("destroy_route",
                         IF ln.err # 1 THEN [ln EXCEPT !.fd = "closed"] ELSE ln)

(* A live field is released and NULL left alone; junk is followed, which   *)
(* crashes or happens to do nothing.                                       *)
release(f, p) ==
  \/ /\ field[f] # "junk"
     /\ field' = [field EXCEPT ![f] = IF @ = "live" THEN "gone" ELSE @]
     /\ pc' = p
     /\ UNCHANGED others
  \/ /\ field[f] = "junk"
     /\ ub' = TRUE
     /\ pc' \in {p, "crashed"}
     /\ UNCHANGED <<field, caught, stop, taken, ln, table, i, refused>>

destroy_route == pc = "destroy_route" /\ release("route", "destroy_pool")
destroy_pool == pc = "destroy_pool" /\ release("pool", "free_list")
free_list == pc = "free_list" /\ release("client_list", "returned")
-----------------------------------------------------------------------------
Ended == {"serving", "returned", "crashed", "killed"}

(* SIGINT or SIGTERM: the default action until it is caught. *)
shut_down_server(s) == /\ pc \notin Ended
                       /\ IF s \in caught THEN stop' = TRUE /\ taken' = TRUE /\ UNCHANGED pc
                                          ELSE pc' = "killed" /\ UNCHANGED <<stop, taken>>
                       /\ UNCHANGED <<field, caught, ln, table, i, refused, ub>>

init_server == \/ init_route \/ create_pool
               \/ sigaction("SIGINT") \/ sigaction("SIGTERM") \/ kqueue
               \/ init_server_fails

register_route == \/ route_register \/ route_register_fails
                  \/ route_register_crashes \/ route_register_junk
                  \/ registered

init_listener == \/ s_listen \/ s_listen_fails
                 \/ set_fd_nonblock \/ set_fd_nonblock_fails
                 \/ kevent_adds \/ kevent_fails

serve_and_listen == \/ enter_loop \/ leave_loop \/ LISTENER_ERR
                    \/ destroy_route \/ destroy_pool \/ free_list

Next == \/ init_server \/ register_route \/ init_listener \/ serve_and_listen
        \/ shut_down_server("SIGINT") \/ shut_down_server("SIGTERM")

Spec == Init /\ [][Next]_vars
-----------------------------------------------------------------------------
Points == {"init_route", "create_pool", "SIGINT", "SIGTERM", "kqueue", "register", "s_listen",
           "set_fd_nonblock", "kevent", "loop", "LISTENER_ERR", "destroy_route",
           "destroy_pool", "free_list"} \cup Ended

TypeOK == /\ pc \in Points
          /\ field \in [Fields -> {"junk", "null", "live", "gone"}]
          /\ caught \subseteq {"SIGINT", "SIGTERM"}
          /\ stop \in BOOLEAN /\ taken \in BOOLEAN /\ ub \in BOOLEAN
          /\ ln \in [fd : {"none", "open", "closed"}, err : 0..3, listens : BOOLEAN]
          /\ DOMAIN table \subseteq Path /\ \A p \in DOMAIN table : table[p] \in Handler
          /\ i \in 1..Len(Routes)+1 /\ refused \subseteq 1..i-1

(* init_server's failures are silent (http.c:396), yet the loop is never   *)
(* entered on a server with an unassigned part: registering the listener   *)
(* fails for want of the kqueue, the last thing init_server acquires.      *)
ServingIsReady ==
  pc \in {"loop", "serving"} => /\ \A f \in Fields : field[f] = "live"
                                /\ ln = [fd |-> "open", err |-> 0, listens |-> TRUE]
                                /\ caught = {"SIGINT", "SIGTERM"}

(* A signal caught before the loop (http.c:372) is still seen by its first *)
(* test: nothing clears the flag after the handler is installed.           *)
EarlySignalStops == pc = "serving" => ~taken

(* Junk is followed only after init_server failed: once the kqueue exists, *)
(* every failure of init_listener finds what LISTENER_ERR releases in      *)
(* place.                                                                  *)
StartedIsDefined == field["efd"] = "live" => ~ub

(* http.c:339: a start that fails after a complete init_server releases    *)
(* the table, the pool and the list, and closes the listener if and only   *)
(* if s_listen succeeded: after its own failures, err 1 tells LISTENER_ERR *)
(* that there is nothing to close, though from setsockopt on there is.     *)
FailedStartReleases ==
  pc = "returned" /\ field["efd"] = "live" =>
    /\ \A f \in Fields \ {"efd"} : field[f] = "gone"
    /\ ln.fd = "closed" <=> ln.listens

(* A path leads to the handler it was first registered with, whatever else *)
(* was registered or refused before or after (route.c:20-30).              *)
FirstRegistrationCounts ==
  field["route"] \in {"live", "gone"} =>
    \A k \in 1..i-1 : k \notin refused =>
      /\ Routes[k][1] \in DOMAIN table
      /\ (\A j \in 1..k-1 : j \in refused \/ Routes[j][1] # Routes[k][1])
           => table[Routes[k][1]] = Routes[k][2]
=============================================================================
