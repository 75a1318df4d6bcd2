----------------------------- MODULE StartupProofs -----------------------------
(***************************************************************************)
(* Proofs about Startup, for any routes and any points of failure: what    *)
(* the event loop finds, what a failed start releases, which handler a     *)
(* path leads to.                                                          *)
(***************************************************************************)
EXTENDS Startup, SequenceTheorems, TLAPS

Signals == {"SIGINT", "SIGTERM"}

InitServer == {"init_route", "create_pool", "SIGINT", "SIGTERM", "kqueue"}

(* init_server's fields while it runs; efd is the last one it assigns. *)
InitInv ==
  /\ pc \in InitServer => i = 1 /\ ~ub /\ field["efd"] = "junk"
  /\ pc \in InitServer \ {"init_route"} => field["route"] = "live"
  /\ pc \in {"SIGINT", "SIGTERM", "kqueue"} => field["pool"] = "live"
  /\ pc \in {"init_route", "create_pool", "SIGINT"} => caught = {}
  /\ pc = "SIGTERM" => caught = {"SIGINT"}
  /\ pc = "kqueue" => caught = Signals

(* The handler is installed after the flag is cleared. *)
SignalInv == taken => caught # {} /\ stop

(* With the kqueue there is everything, until it is released in order. *)
FieldInv ==
  field["efd"] = "live" =>
    /\ ~ub /\ caught = Signals
    /\ pc \notin {"crashed", "killed"} =>
         /\ field["route"] = IF pc \in {"destroy_pool", "free_list", "returned"} THEN "gone" ELSE "live"
         /\ field["pool"] = IF pc \in {"free_list", "returned"} THEN "gone" ELSE "live"
         /\ field["client_list"] = IF pc = "returned" THEN "gone" ELSE "live"

ListenerInv ==
  /\ pc \in InitServer \cup {"register", "s_listen"} =>
       ln = [fd |-> "none", err |-> 0, listens |-> FALSE]
  /\ pc \in {"set_fd_nonblock", "kevent", "loop", "serving"} =>
       ln = [fd |-> "open", err |-> 0, listens |-> TRUE]
  /\ pc \in {"loop", "serving"} => field["efd"] = "live"
  /\ pc = "LISTENER_ERR" => ln.fd # "closed" /\ (ln.listens <=> ln.err # 1)
  /\ pc \in {"destroy_route", "destroy_pool", "free_list", "returned"} =>
       (ln.fd = "closed" <=> ln.listens)

(* A path is in the table because a registration put it there. *)
TableInv == \A p \in DOMAIN table : \E k \in 1..i-1 : k \notin refused /\ Routes[k][1] = p

(* All but the table: what the fields, the flag and the listener obey. *)
Control == InitInv /\ SignalInv /\ FieldInv /\ ListenerInv /\ EarlySignalStops

Registered == TableInv /\ FirstRegistrationCounts

LEMMA InitIInv == Init => TypeOK /\ Control /\ Registered
<1> SUFFICES ASSUME Init
             PROVE  TypeOK /\ Control /\ Registered
  OBVIOUS
<1>1. Len(Routes) \in Nat
  BY RoutesAssumption, LenProperties
<1>2. DOMAIN table = {}
  BY DEF Init
<1>3. TypeOK
  <2>1. pc \in Points /\ field \in [Fields -> {"junk", "null", "live", "gone"}]
    BY DEF Init, Points
  <2>2. ln \in [fd : {"none", "open", "closed"}, err : 0..3, listens : BOOLEAN]
    BY DEF Init
  <2>3. DOMAIN table \subseteq Path /\ \A p \in DOMAIN table : table[p] \in Handler
    BY <1>2
  <2>4. i \in 1..Len(Routes)+1 /\ refused \subseteq 1..i-1
    BY <1>1 DEF Init
  <2> QED
    BY <2>1, <2>2, <2>3, <2>4 DEF Init, TypeOK
<1>4. Control
  BY DEF Init, Control, InitInv, SignalInv, FieldInv, ListenerInv, EarlySignalStops, Fields,
         InitServer, Signals
<1>5. Registered
  BY <1>2 DEF Init, Registered, TableInv, FirstRegistrationCounts
<1> QED
  BY <1>3, <1>4, <1>5
-----------------------------------------------------------------------------
(* The table is a matter of route_register only. *)
LEMMA TableUntouched ==
  ASSUME TypeOK, Registered, UNCHANGED <<i, refused, table>>,
         field'["route"] \in {"live", "gone"} => field["route"] \in {"live", "gone"} \/ i = 1
  PROVE  Registered'
BY DEF TypeOK, Registered, TableInv, FirstRegistrationCounts

LEMMA InitServerStep ==
  ASSUME TypeOK, Control, Registered, init_server
  PROVE  (TypeOK /\ Control /\ Registered)'
<1> USE DEF init_server, init_route, create_pool, sigaction, kqueue, init_server_fails, others
<1>1. TypeOK'
  BY DEF TypeOK, Fields, Points, Ended
<1>2. InitInv' /\ SignalInv'
  BY DEF TypeOK, Fields, Control, InitInv, SignalInv, InitServer, Signals
<1>3. FieldInv'
  BY DEF TypeOK, Fields, Control, InitInv, FieldInv, InitServer, Signals
<1>4. ListenerInv' /\ EarlySignalStops'
  BY DEF TypeOK, Control, ListenerInv, EarlySignalStops, InitServer
<1>5. Registered'
  <2>1. UNCHANGED <<i, refused, table>> /\ i = 1
    BY DEF Control, InitInv, InitServer
  <2> QED
    BY <2>1, TableUntouched
<1> QED
  BY <1>1, <1>2, <1>3, <1>4, <1>5 DEF Control
-----------------------------------------------------------------------------
(* A registration that succeeds. *)
LEMMA RouteRegistered ==
  ASSUME TypeOK, Control, Registered, route_register
  PROVE  (TypeOK /\ Control /\ Registered)'
<1> DEFINE path == Routes[i][1]
           handler == Routes[i][2]
           live == field["route"] \in {"live", "gone"}
<1>1. /\ Len(Routes) \in Nat /\ i \in 1..Len(Routes)
      /\ path \in Path /\ handler \in Handler
  BY RoutesAssumption, LenProperties, ElementOfSeq DEF route_register, registering, TypeOK
<1>2. /\ DOMAIN table' = DOMAIN table \cup {path}
      /\ \A p \in DOMAIN table : table'[p] = table[p]
      /\ path \notin DOMAIN table => table'[path] = handler
  BY DEF route_register, kh_put
<1>3. TypeOK'
  <2>1. DOMAIN table' \subseteq Path /\ \A p \in DOMAIN table' : table'[p] \in Handler
    BY <1>1, <1>2 DEF TypeOK
  <2>2. i' \in 1..Len(Routes)+1 /\ refused' \subseteq 1..i'-1
    BY <1>1 DEF TypeOK, route_register
  <2> QED
    BY <2>1, <2>2 DEF TypeOK, route_register
<1>4. Control'
  BY DEF Control, InitInv, SignalInv, FieldInv, ListenerInv, EarlySignalStops, InitServer,
         route_register, registering
<1>5. TableInv'
  <2> SUFFICES ASSUME NEW p \in DOMAIN table'
               PROVE  \E k \in 1..i'-1 : k \notin refused' /\ Routes[k][1] = p
    BY DEF TableInv
  <2>1. CASE p \in DOMAIN table
    BY <1>1, <2>1 DEF Registered, TableInv, route_register
  <2>2. CASE p = path
    BY <1>1, <2>2 DEF TypeOK, route_register
  <2> QED
    BY <1>2, <2>1, <2>2
<1>6. FirstRegistrationCounts'
  <2> SUFFICES ASSUME NEW k \in 1..i, k \notin refused
               PROVE  /\ Routes[k][1] \in DOMAIN table'
                      /\ (\A j \in 1..k-1 : j \in refused \/ Routes[j][1] # Routes[k][1])
                           => table'[Routes[k][1]] = Routes[k][2]
    BY <1>1 DEF FirstRegistrationCounts, route_register
  <2>1. CASE k = i
    <3>1. Routes[k][1] \in DOMAIN table'
      BY <1>2, <2>1
    <3>2. ASSUME \A j \in 1..k-1 : j \in refused \/ Routes[j][1] # Routes[k][1]
          PROVE  table'[Routes[k][1]] = Routes[k][2]
      <4>1. path \notin DOMAIN table
        BY <2>1, <3>2 DEF Registered, TableInv
      <4> QED
        BY <1>2, <2>1, <4>1
    <3> QED
      BY <3>1, <3>2
  <2>2. CASE k # i
    <3>1. k \in 1..i-1 /\ live
      BY <1>1, <2>2 DEF route_register
    <3> QED
      BY <1>2, <3>1 DEF Registered, FirstRegistrationCounts
  <2> QED
    BY <2>1, <2>2
<1> QED
  BY <1>3, <1>4, <1>5, <1>6 DEF Registered

(* One that is refused, meets junk, or crashes. *)
LEMMA RouteNotRegistered ==
  ASSUME TypeOK, Control, Registered,
         route_register_fails \/ route_register_crashes \/ route_register_junk \/ registered
  PROVE  (TypeOK /\ Control /\ Registered)'
<1>0. Len(Routes) \in Nat
  BY RoutesAssumption, LenProperties
<1>1. CASE route_register_fails
  <2>1. TypeOK'
    BY <1>0, <1>1 DEF route_register_fails, registering, TypeOK
  <2>2. Control'
    BY <1>1 DEF route_register_fails, registering, Control, InitInv, SignalInv, FieldInv,
                ListenerInv, EarlySignalStops, InitServer
  <2>3. Registered'
    BY <1>0, <1>1 DEF route_register_fails, TypeOK, Registered, TableInv, FirstRegistrationCounts
  <2> QED
    BY <2>1, <2>2, <2>3
<1>2. CASE route_register_junk
  <2>1. TypeOK'
    BY <1>0, <1>2 DEF route_register_junk, registering, TypeOK, Points, Ended
  <2>2. Control'
    BY <1>2 DEF route_register_junk, registering, Control, InitInv, SignalInv, FieldInv,
                ListenerInv, EarlySignalStops, InitServer
  <2>3. Registered'
    BY <1>0, <1>2 DEF route_register_junk, TypeOK, Registered, TableInv, FirstRegistrationCounts
  <2> QED
    BY <2>1, <2>2, <2>3
<1>3. CASE route_register_crashes \/ registered
  <2>1. TypeOK'
    BY <1>3 DEF route_register_crashes, registered, others, TypeOK, Points, Ended
  <2>2. Control'
    BY <1>3 DEF route_register_crashes, registered, registering, others, Control, InitInv,
                SignalInv, FieldInv, ListenerInv, EarlySignalStops, InitServer
  <2>3. Registered'
    BY <1>3, TableUntouched DEF route_register_crashes, registered, others
  <2> QED
    BY <2>1, <2>2, <2>3
<1> QED
  BY <1>1, <1>2, <1>3
-----------------------------------------------------------------------------
LEMMA InitListenerStep ==
  ASSUME TypeOK, Control, Registered, init_listener
  PROVE  (TypeOK /\ Control /\ Registered)'
<1> USE DEF init_listener, s_listen, s_listen_fails, set_fd_nonblock, set_fd_nonblock_fails,
            kevent_adds, kevent_fails, leave
<1>1. TypeOK'
  <2>1. ln' \in [fd : {"none", "open", "closed"}, err : 0..3, listens : BOOLEAN]
    <3>1. CASE s_listen_fails
      <4>1. PICK err \in {-1, 2, 3, 5, 6} :
              ln' = [fd |-> IF err < 3 THEN "none" ELSE "open", err |-> 1, listens |-> FALSE]
        BY <3>1, Zenon
      <4>2. (IF err < 3 THEN "none" ELSE "open") \in {"none", "open", "closed"}
        OBVIOUS
      <4> HIDE DEF init_listener
      <4> QED
        BY <4>1, <4>2
    <3>2. CASE s_listen
      BY <3>2
    <3>3. CASE set_fd_nonblock \/ set_fd_nonblock_fails \/ kevent_adds \/ kevent_fails
      BY <3>3 DEF TypeOK
    <3> QED
      BY <3>1, <3>2, <3>3, Zenon
  <2>2. pc' \in Points /\ UNCHANGED <<field, caught, stop, taken, table, i, refused, ub>>
    BY DEF Points
  <2> QED
    BY <2>1, <2>2 DEF TypeOK
<1>2. InitInv' /\ SignalInv' /\ FieldInv'
  BY DEF Control, InitInv, SignalInv, FieldInv, InitServer
<1>3. ListenerInv' /\ EarlySignalStops'
  BY DEF TypeOK, Control, ListenerInv, EarlySignalStops, InitServer
<1>4. Registered'
  BY TableUntouched
<1> QED
  BY <1>1, <1>2, <1>3, <1>4 DEF Control

LEMMA ServeStep ==
  ASSUME TypeOK, Control, Registered, enter_loop \/ leave_loop \/ LISTENER_ERR
  PROVE  (TypeOK /\ Control /\ Registered)'
<1> USE DEF enter_loop, leave_loop, LISTENER_ERR, leave
<1>1. TypeOK'
  BY DEF TypeOK, Points, Ended
<1>2. InitInv' /\ SignalInv' /\ FieldInv'
  BY DEF Control, InitInv, SignalInv, FieldInv, InitServer
<1>3. ListenerInv' /\ EarlySignalStops'
  BY DEF TypeOK, Control, SignalInv, ListenerInv, EarlySignalStops, InitServer
<1>4. Registered'
  BY TableUntouched
<1> QED
  BY <1>1, <1>2, <1>3, <1>4 DEF Control

(* The three releases, in order. *)
LEMMA ReleaseStep ==
  ASSUME TypeOK, Control, Registered, destroy_route \/ destroy_pool \/ free_list
  PROVE  (TypeOK /\ Control /\ Registered)'
<1> USE DEF destroy_route, destroy_pool, free_list, release, others
<1>1. TypeOK'
  BY DEF TypeOK, Fields, Points, Ended
<1>2. InitInv' /\ SignalInv'
  BY DEF Control, InitInv, SignalInv, InitServer
<1>3. FieldInv'
  BY DEF TypeOK, Fields, Control, FieldInv
<1>4. ListenerInv' /\ EarlySignalStops'
  BY DEF TypeOK, Fields, Control, ListenerInv, EarlySignalStops, InitServer
<1>5. Registered'
  BY TableUntouched DEF TypeOK, Fields
<1> QED
  BY <1>1, <1>2, <1>3, <1>4, <1>5 DEF Control

LEMMA SignalStep ==
  ASSUME TypeOK, Control, Registered, NEW s \in Signals, shut_down_server(s)
  PROVE  (TypeOK /\ Control /\ Registered)'
<1> USE DEF shut_down_server, Signals
<1>1. TypeOK'
  BY DEF TypeOK, Points, Ended
<1>2. InitInv' /\ SignalInv' /\ FieldInv'
  BY DEF TypeOK, Control, InitInv, SignalInv, FieldInv, InitServer
<1>3. ListenerInv' /\ EarlySignalStops'
  BY DEF Control, ListenerInv, EarlySignalStops, InitServer, Ended
<1>4. Registered'
  BY TableUntouched
<1> QED
  BY <1>1, <1>2, <1>3, <1>4 DEF Control
-----------------------------------------------------------------------------
(* Everything the start keeps true, in one invariant of every step of      *)
(* main, of its failures and of signals.                                   *)
THEOREM Inductive == Spec => [](TypeOK /\ Control /\ Registered)
<1>1. TypeOK /\ Control /\ Registered /\ [Next]_vars => (TypeOK /\ Control /\ Registered)'
  <2> SUFFICES ASSUME TypeOK, Control, Registered, [Next]_vars
               PROVE  (TypeOK /\ Control /\ Registered)'
    OBVIOUS
  <2>1. CASE init_server
    BY <2>1, InitServerStep
  <2>2. CASE register_route
    BY <2>2, RouteRegistered, RouteNotRegistered DEF register_route
  <2>3. CASE init_listener
    BY <2>3, InitListenerStep
  <2>4. CASE serve_and_listen
    BY <2>4, ServeStep, ReleaseStep DEF serve_and_listen
  <2>5. CASE shut_down_server("SIGINT") \/ shut_down_server("SIGTERM")
    BY <2>5, SignalStep DEF Signals
  <2>6. CASE UNCHANGED vars
    BY <2>6 DEF vars, TypeOK, Control, Registered, InitInv, SignalInv, FieldInv, ListenerInv,
                EarlySignalStops, TableInv, FirstRegistrationCounts
  <2> QED
    BY <2>1, <2>2, <2>3, <2>4, <2>5, <2>6 DEF Next
<1> QED
  BY <1>1, InitIInv, PTL DEF Spec

(* Type correctness of the start, whatever main registers and whatever     *)
(* fails.                                                                  *)
THEOREM StartTypeCorrect == Spec => []TypeOK
BY Inductive, PTL

(* init_server may fail without a word (http.c:396): the event loop is     *)
(* entered only with everything in place and the listener registered.      *)
THEOREM LoopFindsAll == Spec => []ServingIsReady
<1>1. Control => ServingIsReady
  BY DEF Control, FieldInv, ListenerInv, ServingIsReady, Fields, Signals
<1> QED
  BY <1>1, Inductive, PTL

(* A signal caught before the loop keeps the server from serving.          *)
THEOREM NoSignalForgotten == Spec => []EarlySignalStops
<1>1. Control => EarlySignalStops
  BY DEF Control
<1> QED
  BY <1>1, Inductive, PTL

(* No unassigned field is used once init_server has succeeded.             *)
THEOREM NoJunkAfterStart == Spec => []StartedIsDefined
<1>1. Control => StartedIsDefined
  BY DEF Control, FieldInv, StartedIsDefined
<1> QED
  BY <1>1, Inductive, PTL

(* A start that fails after init_server releases what it has (http.c:339), *)
(* the listener only if s_listen succeeded.                                *)
THEOREM FailureReleases == Spec => []FailedStartReleases
<1>1. Control => FailedStartReleases
  BY DEF Control, FieldInv, ListenerInv, FailedStartReleases, Fields
<1> QED
  BY <1>1, Inductive, PTL

(* For any sequence of routes and any refused ones, a path leads to the    *)
(* handler of its first registration that succeeded (route.c:20-30).       *)
THEOREM RoutesAreFirst == Spec => []FirstRegistrationCounts
<1>1. Registered => FirstRegistrationCounts
  BY DEF Registered
<1> QED
  BY <1>1, Inductive, PTL
=============================================================================
