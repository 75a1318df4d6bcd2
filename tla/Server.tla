------------------------------- MODULE Server -------------------------------
(***************************************************************************)
(* The server of src/src/http.c: the event loop of serve_and_listen in the *)
(* main thread, the handlers it calls (accept_client, read_from_client,    *)
(* write_to_client), handle_conn in the pool's workers, the signal         *)
(* handler, and the client list of src/src/ds/llist.c.  It runs on Kernel  *)
(* (sockets and kqueue) and on TaskPool, which ThreadPool implements.      *)
(*                                                                         *)
(* A connection c names its list node as well; a thread_node_t is its      *)
(* number in allocation order, and is also the task given to the pool.     *)
(* The model starts where init_server and init_listener have succeeded.    *)
(*                                                                         *)
(* Definitions marked Defective are no part of Next: each is the           *)
(* definition that follows it with a plausible mistake.                    *)
(***************************************************************************)
EXTENDS Kernel

CONSTANTS BadConn,     \* connections whose request the parser rejects: not HTTP,
                       \* or a URL that decode_url refuses
          NThreads,    \* MAX_THREAD_COUNT
          QueueCap,    \* a shorter work queue never refuses
          RespLen,     \* chunks in a response
          MaxTn,       \* bound: thread_node_t allocations
          MaxAgain,    \* bound: sends that would block half-way
          MaxFaults    \* bound: system calls and allocations that fail

ASSUME BadConnAssumption == BadConn \subseteq Conn
ASSUME PoolAssumption == NThreads \in Nat \ {0} /\ QueueCap \in Nat
ASSUME RespLenAssumption == RespLen \in Nat \ {0}
ASSUME BoundsAssumption == MaxTn \in Nat /\ MaxAgain \in Nat /\ MaxFaults \in Nat

VARIABLES
  pc,       \* where serve_and_listen is
  stop,     \* server->shutdown_signal
  batch,    \* the entries of server->events still to be handled
  list,     \* server->client_list: nodes, head first
  cfd,      \* node->client.fd: [Conn -> descriptor or None]
  tn,       \* the thread_node_t's allocated so far
  route,    \* server->route is allocated
  ub,       \* history: undefined behaviour met, {"node", "route"}
  lost,     \* history: connections a failing call left to themselves
  again,    \* sends that would have blocked so far
  faults,   \* failed calls so far
  phase, queue, running, done   \* server->pool: see TaskPool

pool == <<phase, queue, running, done>>
bounds == <<again, faults>>
vars == <<kernel, pc, stop, batch, list, cfd, tn, route, ub, lost, bounds, pool>>

Tn == 1..MaxTn
Pool == INSTANCE TaskPool WITH Task <- Tn

(* A thread_node_t: the descriptor in its copy of client_t, the connection *)
(* whose bytes it carries (what a response should go back to), what the    *)
(* bytes are, and whether it still is to be answered ("read"), holds a     *)
(* response ("built") or was freed ("freed").                              *)
TnRecord == [fd : Fd, conn : Conn,
             data : {"empty", "request", "prefix", "part", "bad"},
             st : {"read", "built", "freed"}]

Node == {list[i] : i \in 1..Len(list)}

Init == /\ KernelInit
        /\ pc = "loop"
        /\ stop = FALSE
        /\ batch = {}
        /\ list = << >>
        /\ cfd = [c \in Conn |-> None]
        /\ tn = << >>
        /\ route = TRUE
        /\ ub = {}
        /\ lost = {}
        /\ again = 0
        /\ faults = 0
        /\ phase = "open" /\ queue = << >> /\ running = {} /\ done = {}

fault == faults < MaxFaults /\ faults' = faults + 1
-----------------------------------------------------------------------------
(* llist.c *)
(* The i-th node is the first one that has f. *)
search_client(f, i) == /\ i \in 1..Len(list)
                       /\ cfd[list[i]] = f
                       /\ \A j \in 1..i-1 : cfd[list[j]] # f

search_fails(f) == \A i \in 1..Len(list) : cfd[list[i]] # f

insert_client(c) == list' = Append(list, c)

(* s without its i-th element. *)
Without(s, i) == [k \in 1..Len(s)-1 |-> IF k < i THEN s[k] ELSE s[k + 1]]

remove_client_node(i) == list' = Without(list, i)

(* Defective: the node stays in the list. *)
remove_client_KeepsNode(f, net0) ==
  \/ /\ search_fails(f)
     /\ net' = net0
     /\ UNCHANGED <<fdt, files, rk, wk, list>>
  \/ /\ ~search_fails(f)
     /\ close({f}, net0)
     /\ UNCHANGED list

(* remove_client: close the descriptor and drop the first node that has    *)
(* it.  A descriptor no node has is left alone.                            *)
remove_client(f, net0) ==
  \/ /\ search_fails(f)
     /\ net' = net0
     /\ UNCHANGED <<fdt, files, rk, wk, list>>
  \/ \E i \in 1..Len(list) : /\ search_client(f, i)
                             /\ close({f}, net0)
                             /\ remove_client_node(i)
-----------------------------------------------------------------------------
(* shut_down_server.  A kevent call under way in the main thread returns   *)
(* EINTR and the flag is tested; delivered to a worker, or between the     *)
(* test and the call, the signal is not noticed until kevent returns.      *)
shut_down_server == /\ ~stop
                    /\ pc # "stopped" /\ pc # "crashed"
                    /\ stop' = TRUE
                    /\ pc' \in {pc} \cup (IF pc = "kevent" THEN {"loop"} ELSE {})
                    /\ UNCHANGED <<kernel, batch, list, cfd, tn, route, ub, lost, bounds, pool>>

(* while (server->shutdown_signal == false); leaving the loop closes the   *)
(* listener first.                                                         *)
enter_kevent == /\ pc = "loop"
                /\ ~stop
                /\ pc' = "kevent"
                /\ UNCHANGED <<kernel, stop, batch, list, cfd, tn, route, ub, lost, bounds, pool>>

leave_loop == /\ pc = "loop"
              /\ stop
              /\ close_listener
              /\ pc' = "destroy_route"
              /\ UNCHANGED <<fdt, files, rk, wk, stop, batch, list, cfd, tn, route, ub, lost,
                             bounds, pool>>

(* Any error but EINTR leaves the loop too. *)
kevent_fails == /\ pc = "kevent"
                /\ fault
                /\ close_listener
                /\ pc' = "destroy_route"
                /\ UNCHANGED <<fdt, files, rk, wk, stop, batch, list, cfd, tn, route, ub, lost,
                               again, pool>>

(* Defective: WRITE registered without EV_ONESHOT stays after its event. *)
return_from_kevent_NoOneshot ==
                      /\ pc = "kevent"
                      /\ ReadyEvents # {}
                      /\ lnReady' = FALSE
                      /\ batch' = ReadyEvents
                      /\ pc' = "dispatch"
                      /\ UNCHANGED <<net, fdt, files, rk, wk, backlog, lnOpen, stop, list, cfd,
                                     tn, route, ub, lost, bounds, pool>>

(* kevent returns what is ready into server->events. *)
return_from_kevent == /\ pc = "kevent"
                      /\ kevent_report
                      /\ batch' = ReadyEvents
                      /\ pc' = "dispatch"
                      /\ UNCHANGED <<stop, list, cfd, tn, route, ub, lost, bounds, pool>>

end_of_batch == /\ pc = "dispatch"
                /\ batch = {}
                /\ pc' = "loop"
                /\ UNCHANGED <<kernel, stop, batch, list, cfd, tn, route, ub, lost, bounds, pool>>

(* The for loop over the batch, whose order is the kernel's. *)
take(e) == /\ pc = "dispatch"
           /\ e \in batch
           /\ batch' = batch \ {e}
-----------------------------------------------------------------------------
(* accept_client, one iteration of its loop per step. *)
start_accept(e) == /\ take(e)
                   /\ e.filter = "READ" /\ e.fd = LnFd
                   /\ pc' = "accept"
                   /\ UNCHANGED <<kernel, stop, list, cfd, tn, route, ub, lost, bounds, pool>>

accepted_state(c) == [net EXCEPT ![c].st = "open"]

(* A new client: listed, then registered for READ with its node. *)
accept_client(c, f) == /\ pc = "accept"
                       /\ accept(c, f)
                       /\ fdt' = [fdt EXCEPT ![f] = c]
                       /\ net' = accepted_state(c)
                       /\ insert_client(c)
                       /\ cfd' = [cfd EXCEPT ![c] = f]
                       /\ rk' = [rk EXCEPT ![f] = c]
                       /\ UNCHANGED <<files, wk, lnReady, lnOpen, pc, stop, batch, tn, route,
                                      ub, lost, bounds, pool>>

(* fcntl fails: the client is closed and the loop goes on. *)
accept_client_nonblock_fails(c, f) ==
                       /\ pc = "accept"
                       /\ accept(c, f)
                       /\ fault
                       /\ net' = [net EXCEPT ![c].st = "closed"]
                       /\ UNCHANGED <<fdt, files, rk, wk, lnReady, lnOpen, pc, stop, batch, list,
                                      cfd, tn, route, ub, lost, again, pool>>

(* EV_ADD fails: the descriptor is closed, the node stays in the list. *)
accept_client_register_fails(c, f) ==
                       /\ pc = "accept"
                       /\ accept(c, f)
                       /\ fault
                       /\ net' = [net EXCEPT ![c].st = "closed"]
                       /\ insert_client(c)
                       /\ cfd' = [cfd EXCEPT ![c] = f]
                       /\ UNCHANGED <<fdt, files, rk, wk, lnReady, lnOpen, pc, stop, batch, tn,
                                      route, ub, lost, again, pool>>

(* The process dies: every connection is gone. *)
crash == /\ pc' = "crashed"
         /\ net' = [c \in Conn |-> IF net[c].st \in {"backlog", "open"}
                                  THEN [net[c] EXCEPT !.st = "closed"] ELSE net[c]]
         /\ fdt' = [f \in Fd |-> None]
         /\ UNCHANGED <<files, rk, wk, backlog, lnReady, lnOpen, stop, batch, list, cfd, tn,
                        route, lost, again, pool>>

(* insert_client clears the node before it tests malloc's result. *)
accept_client_malloc_fails == /\ pc = "accept"
                              /\ backlog # << >> /\ FreeFds # {}
                              /\ fault
                              /\ crash
                              /\ UNCHANGED ub

(* Defective: leaves the loop after any accept. *)
accept_client_returns_Early == /\ pc = "accept"
                               /\ pc' = "dispatch"
                               /\ UNCHANGED <<kernel, stop, batch, list, cfd, tn, route, ub, lost,
                                              bounds, pool>>

Pending == {backlog[i] : i \in 1..Len(backlog)}

(* accept returns -1, EAGAIN or EMFILE alike: back to the batch.  The      *)
(* clients still pending wait for another one to connect.                  *)
accept_client_returns == /\ pc = "accept"
                         /\ backlog = << >> \/ FreeFds = {}
                         /\ lost' = lost \cup Pending
                         /\ pc' = "dispatch"
                         /\ UNCHANGED <<kernel, stop, batch, list, cfd, tn, route, ub, bounds, pool>>

(* Any other error does the same: ENOBUFS, or ECONNABORTED for a client    *)
(* that has closed its socket, which the kernel drops.                     *)
accept_client_fails == /\ pc = "accept"
                       /\ backlog # << >> /\ FreeFds # {}
                       /\ fault
                       /\ \/ UNCHANGED <<net, backlog>>
                          \/ /\ net[Head(backlog)].hup = "gone"
                             /\ net' = [net EXCEPT ![Head(backlog)].st = "closed"]
                             /\ backlog' = Tail(backlog)
                       /\ lost' = lost \cup Pending
                       /\ pc' = "dispatch"
                       /\ UNCHANGED <<fdt, files, rk, wk, lnReady, lnOpen, stop, batch, list, cfd,
                                      tn, route, ub, again, pool>>
-----------------------------------------------------------------------------
(* What a worker will find in the chunks read at once from c: a "part" is  *)
(* the rest of a request, or the beginning of one that would be rejected.  *)
Data(c) == LET from == net[c].rcvd
               to == net[c].sent
           IN IF from = to THEN "empty"
              ELSE IF from > 0 \/ (c \in BadConn /\ to < Parts) THEN "part"
              ELSE IF c \in BadConn THEN "bad"
              ELSE IF to = Parts THEN "request" ELSE "prefix"

received_upto(c, n) == [net EXCEPT ![c].rcvd = n]
all_received(c) == received_upto(c, net[c].sent)

conn_at(f) == IF f \in Fd THEN fdt[f] ELSE None

(* read_from_client reads until EAGAIN and hands a thread_node_t to the    *)
(* pool, whose answer it ignores: a refused one is never freed.            *)
read_request(f) == LET c == conn_at(f)
                       t == Len(tn) + 1
                   IN /\ c # None /\ net[c].hup = "no"
                      /\ t \in Tn
                      /\ net' = all_received(c)
                      /\ tn' = Append(tn, [fd |-> f, conn |-> c, data |-> Data(c), st |-> "read"])
                      /\ \/ Pool!Submit(t) /\ UNCHANGED lost
                         \/ Pool!Refuse(t) /\ lost' = lost \cup {c}
                      /\ UNCHANGED <<fdt, files, rk, wk, list, faults>>

(* An allocation fails: an append, after which the rest stays unread, or   *)
(* one of the thread_node_t.  What was read is dropped.                    *)
read_request_malloc_fails(f) ==
  LET c == conn_at(f)
  IN /\ c # None
     /\ fault
     /\ \/ \E n \in net[c].rcvd + 1..net[c].sent : net' = received_upto(c, n)
        \/ net[c].hup = "no" /\ net' = all_received(c)
     /\ lost' = lost \cup {c}
     /\ UNCHANGED <<fdt, files, rk, wk, list, tn, pool>>

(* recv returns 0, after the bytes that were still unread. *)
read_disconnected(f) == /\ conn_at(f) # None /\ net[conn_at(f)].hup # "no"
                        /\ remove_client(f, all_received(conn_at(f)))
                        /\ UNCHANGED <<tn, lost, faults, pool>>

(* recv fails: the descriptor is not open, or a file's, or the client      *)
(* reset it.  The function returns at once.                                *)
read_error(f) == /\ conn_at(f) # None => net[conn_at(f)].hup = "gone"
                 /\ UNCHANGED <<net, fdt, files, rk, wk, list, tn, lost, faults, pool>>

read_from_client(f) == read_request(f) \/ read_request_malloc_fails(f)
                       \/ read_disconnected(f) \/ read_error(f)

handle_read(e) == /\ take(e)
                  /\ e.filter = "READ" /\ e.fd # LnFd /\ ~e.eof
                  /\ e.udata \in Node
                  /\ read_from_client(cfd[e.udata])
                  /\ UNCHANGED <<backlog, lnReady, lnOpen, pc, stop, cfd, route, ub, again>>

(* The event's node was freed by an earlier event of the batch: whatever   *)
(* the freed block holds is taken for a descriptor.                        *)
handle_read_freed(e) == /\ take(e)
                        /\ e.filter = "READ" /\ e.fd # LnFd /\ ~e.eof
                        /\ e.udata \notin Node
                        /\ ub' = ub \cup {"node"}
                        /\ \E f \in Fd \cup {None} : read_from_client(f)
                        /\ UNCHANGED <<backlog, lnReady, lnOpen, pc, stop, cfd, route, again>>

handle_read_freed_crashes(e) == /\ pc = "dispatch" /\ e \in batch
                                /\ e.filter = "READ" /\ e.fd # LnFd /\ ~e.eof
                                /\ e.udata \notin Node
                                /\ ub' = ub \cup {"node"}
                                /\ crash
                                /\ UNCHANGED faults

(* EV_EOF: the client is removed, whatever it sent before. *)
handle_eof(e) == /\ take(e)
                 /\ e.filter = "READ" /\ e.eof
                 /\ remove_client(e.fd, net)
                 /\ UNCHANGED <<backlog, lnReady, lnOpen, pc, stop, cfd, tn, route, ub, lost,
                                bounds, pool>>
-----------------------------------------------------------------------------
(* handle_conn, in the worker that runs task t.                            *)
start_task == /\ pc \notin {"stopped", "crashed"}
              /\ Pool!Start
              /\ UNCHANGED <<kernel, pc, stop, batch, list, cfd, tn, route, ub, lost, bounds>>

working(t) == /\ pc \notin {"stopped", "crashed"}
              /\ t \in running

(* llhttp accepts every prefix of a request and nothing at all, and        *)
(* decode_url every prefix of a URL it decodes.                            *)
Parses(t) == tn[t].data \in {"request", "prefix", "empty", "part"}
Rejected(t) == tn[t].data \in {"bad", "part"}

(* 400 Bad Request: the worker returns and forgets the thread_node_t. *)
handle_conn_rejects(t) == /\ working(t)
                          /\ tn[t].st = "read"
                          /\ Rejected(t)
                          /\ Pool!Finish(t)
                          /\ UNCHANGED <<kernel, pc, stop, batch, list, cfd, tn, route, ub, lost,
                                         bounds>>

(* A static file is opened and never closed. *)
may_open_file(t) == \/ UNCHANGED files
                    \/ tn[t].data # "empty" /\ open_file

(* The request is parsed, its handler found and the response generated.    *)
(* POST and unknown methods answer without a look at the route table.      *)
handle_conn_builds(t) == /\ working(t)
                         /\ tn[t].st = "read"
                         /\ Parses(t)
                         /\ may_open_file(t)
                         /\ tn' = [tn EXCEPT ![t].st = "built"]
                         /\ UNCHANGED <<net, fdt, rk, wk, backlog, lnReady, lnOpen, pc, stop,
                                        batch, list, cfd, route, ub, lost, bounds, pool>>

(* GET looks its path up in a table that destroy_route has freed. *)
LooksUpFreedRoute(t) == /\ working(t)
                        /\ tn[t].st = "read"
                        /\ Parses(t) /\ tn[t].data # "empty"
                        /\ ~route
                        /\ ub' = ub \cup {"route"}

handle_conn_freed_route(t) == /\ LooksUpFreedRoute(t)
                              /\ may_open_file(t)
                              /\ tn' = [tn EXCEPT ![t].st = "built"]
                              /\ UNCHANGED <<net, fdt, rk, wk, backlog, lnReady, lnOpen, pc, stop,
                                             batch, list, cfd, route, lost, bounds, pool>>

handle_conn_crashes(t) == /\ LooksUpFreedRoute(t)
                          /\ crash
                          /\ UNCHANGED faults

(* Defective: the registration carries the client, not its response. *)
handle_conn_registers_Client(t) ==
                            /\ working(t)
                            /\ tn[t].st = "built"
                            /\ wk' = IF fdt[tn[t].fd] = None THEN wk
                                     ELSE [wk EXCEPT ![tn[t].fd] = tn[t].conn]
                            /\ Pool!Finish(t)
                            /\ UNCHANGED <<net, fdt, files, rk, backlog, lnReady, lnOpen, pc, stop,
                                           batch, list, cfd, tn, route, ub, lost, bounds>>

(* EV_ADD of the WRITE registration for the descriptor the request came    *)
(* in on, whatever that descriptor is by now: on a closed one it fails, on *)
(* a file's it need not.                                                   *)
handle_conn_registers(t) == LET f == tn[t].fd IN
                            /\ working(t)
                            /\ tn[t].st = "built"
                            /\ \/ (fdt[f] # None \/ f \in files) /\ wk' = [wk EXCEPT ![f] = t]
                               \/ fdt[f] = None /\ UNCHANGED wk
                            /\ Pool!Finish(t)
                            /\ UNCHANGED <<net, fdt, files, rk, backlog, lnReady, lnOpen, pc, stop,
                                           batch, list, cfd, tn, route, ub, lost, bounds>>

(* EV_ADD fails for an open connection: "what to do..:0)", and nothing is. *)
handle_conn_register_fails(t) ==
                            /\ working(t)
                            /\ tn[t].st = "built"
                            /\ fdt[tn[t].fd] # None
                            /\ fault
                            /\ lost' = lost \cup {fdt[tn[t].fd]}
                            /\ Pool!Finish(t)
                            /\ UNCHANGED <<kernel, pc, stop, batch, list, cfd, tn, route, ub, again>>
-----------------------------------------------------------------------------
(* write_to_client: the chunks of response t from the first one on. *)
sent_to(c, t, n) == [net EXCEPT ![c].got = @ \o [k \in 1..n |-> <<t, k>>]]

(* Defective: the connection is shut down for writing but not removed. *)
write_all_KeepsClient(t) ==
                LET c == fdt[tn[t].fd] IN
                /\ c # None
                /\ net' = sent_to(c, t, RespLen)
                /\ tn' = [tn EXCEPT ![t].st = "freed"]
                /\ UNCHANGED <<fdt, files, rk, wk, list, lost, bounds>>

(* All of it is sent: close the connection, free the thread_node_t. *)
write_all(t) == LET c == fdt[tn[t].fd] IN
                /\ c # None
                /\ remove_client(tn[t].fd, sent_to(c, t, RespLen))
                /\ tn' = [tn EXCEPT ![t].st = "freed"]
                /\ UNCHANGED <<lost, bounds>>

(* send would block after n chunks.  total_send is a local variable. *)
send_some(t, n) == LET c == fdt[tn[t].fd]
                   IN /\ c # None
                      /\ again < MaxAgain
                      /\ again' = again + 1
                      /\ net' = sent_to(c, t, n)
                      /\ UNCHANGED <<fdt, files, rk, list, tn>>

(* Defective: returns on EAGAIN without registering again. *)
write_some_Unregistered(t, n) == /\ send_some(t, n)
                                 /\ UNCHANGED <<wk, lost, faults>>

(* It registers again ... *)
write_some(t, n) == /\ send_some(t, n)
                    /\ wk' = [wk EXCEPT ![tn[t].fd] = t]
                    /\ UNCHANGED <<lost, faults>>

(* ... and ignores that EV_ADD fails. *)
write_some_register_fails(t, n) == /\ send_some(t, n)
                                   /\ fault
                                   /\ lost' = lost \cup {fdt[tn[t].fd]}
                                   /\ UNCHANGED wk

(* send fails, EPIPE or EBADF or ENOTSOCK: the thread_node_t is not freed. *)
write_error(t) == /\ fdt[tn[t].fd] # None => net[fdt[tn[t].fd]].hup = "gone"
                  /\ remove_client(tn[t].fd, net)
                  /\ UNCHANGED <<tn, lost, bounds>>

write_to_client(t) == \/ write_all(t)
                      \/ \E n \in 0..RespLen-1 : \/ write_some(t, n)
                                                \/ write_some_register_fails(t, n)
                      \/ write_error(t)

handle_write(e) == /\ take(e)
                   /\ e.filter = "WRITE"
                   /\ write_to_client(e.udata)
                   /\ UNCHANGED <<backlog, lnReady, lnOpen, pc, stop, cfd, route, ub, pool>>
-----------------------------------------------------------------------------
(* After the loop: destroy_route, destroy_pool, free_list. *)
destroy_route == /\ pc = "destroy_route"
                 /\ route' = FALSE
                 /\ pc' = "destroy_pool"
                 /\ UNCHANGED <<kernel, stop, batch, list, cfd, tn, ub, lost, bounds, pool>>

(* Defective: the workers are never told to shut down. *)
destroy_pool_Unsignalled == /\ pc = "destroy_pool"
                            /\ pc' = "join"
                            /\ UNCHANGED <<kernel, stop, batch, list, cfd, tn, route, ub, lost,
                                           bounds, pool>>

destroy_pool == /\ pc = "destroy_pool"
                /\ Pool!Close
                /\ pc' = "join"
                /\ UNCHANGED <<kernel, stop, batch, list, cfd, tn, route, ub, lost, bounds>>

join == /\ pc = "join"
        /\ Pool!Retire
        /\ pc' = "free_list"
        /\ UNCHANGED <<kernel, stop, batch, list, cfd, tn, route, ub, lost, bounds>>

(* Defective: frees the nodes and leaves their descriptors open. *)
free_list_NodesOnly == /\ pc = "free_list"
                       /\ list' = << >>
                       /\ pc' = "stopped"
                       /\ UNCHANGED <<kernel, stop, batch, cfd, tn, route, ub, lost, bounds, pool>>

free_list == /\ pc = "free_list"
             /\ close({cfd[c] : c \in Node}, net)
             /\ list' = << >>
             /\ pc' = "stopped"
             /\ UNCHANGED <<backlog, lnReady, lnOpen, stop, batch, cfd, tn, route, ub, lost, bounds,
                            pool>>
-----------------------------------------------------------------------------
accepting == \E c \in Conn, f \in Fd : \/ accept_client(c, f)
                                       \/ accept_client_nonblock_fails(c, f)
                                       \/ accept_client_register_fails(c, f)

handling == \E e \in batch : \/ start_accept(e)
                             \/ handle_read(e)
                             \/ handle_read_freed(e)
                             \/ handle_read_freed_crashes(e)
                             \/ handle_eof(e)
                             \/ handle_write(e)

serve_and_listen == \/ enter_kevent \/ leave_loop \/ kevent_fails
                    \/ return_from_kevent \/ end_of_batch
                    \/ handling
                    \/ accepting \/ accept_client_malloc_fails
                    \/ accept_client_returns \/ accept_client_fails
                    \/ destroy_route \/ destroy_pool \/ join \/ free_list

handle_conn(t) == \/ handle_conn_rejects(t)
                  \/ handle_conn_builds(t)
                  \/ handle_conn_freed_route(t)
                  \/ handle_conn_crashes(t)
                  \/ handle_conn_registers(t)
                  \/ handle_conn_register_fails(t)

clients == /\ pc # "crashed" /\ client
           /\ UNCHANGED <<pc, stop, batch, list, cfd, tn, route, ub, lost, bounds, pool>>

Next == \/ serve_and_listen
        \/ start_task
        \/ \E t \in Tn : handle_conn(t)
        \/ shut_down_server
        \/ clients

Spec == Init /\ [][Next]_vars

(* The main thread runs when it can; an idle worker takes the oldest task  *)
(* and a worker carries on with the one it has (ThreadPool's               *)
(* AcceptedTasksRun).  Clients and signals owe nothing, and no call owes a *)
(* failure: an idle kevent need not fail.                                  *)
Fairness == /\ WF_vars(serve_and_listen /\ faults' = faults)
            /\ WF_vars(start_task)
            /\ \A t \in Tn : WF_vars(handle_conn(t))

FairSpec == Spec /\ Fairness
-----------------------------------------------------------------------------
Points == {"loop", "kevent", "dispatch", "accept", "destroy_route", "destroy_pool",
           "join", "free_list", "stopped", "crashed"}
Tns == 1..Len(tn)

LoopTypes ==
  /\ pc \in Points
  /\ stop \in BOOLEAN /\ route \in BOOLEAN
  /\ list \in Seq(Conn) /\ cfd \in [Conn -> Fd \cup {None}]
  /\ tn \in Seq(TnRecord) /\ Len(tn) <= MaxTn
  /\ fdt \in [Fd -> Conn \cup {None}] /\ rk \in [Fd -> Conn \cup {None}]
  /\ wk \in [Fd -> Tns \cup {None}]
  /\ \A e \in batch : /\ e.filter \in {"READ", "WRITE"} /\ e.fd \in Fd \cup {LnFd}
                      /\ e.filter = "WRITE" => e.udata \in Tns
  /\ running \subseteq Tns /\ Pool!Queued \subseteq Tns
  /\ Cardinality(running) <= NThreads
  /\ again \in 0..MaxAgain /\ faults \in 0..MaxFaults

(* Types of the loop's and the kernel's state. *)
TypeOK == LoopTypes /\ lost \subseteq Conn /\ files \subseteq Fd

(* The places that hold a pointer to thread_node_t t. *)
Holders(t) == {h \in {<<"queue", LnFd>>} : t \in Pool!Queued}
              \cup {h \in {<<"worker", LnFd>>} : t \in running}
              \cup {<<"batch", e.fd>> : e \in {b \in batch : b.filter = "WRITE" /\ b.udata = t}}
              \cup {<<"registered", f>> : f \in {g \in Fd : wk[g] = t}}

(* "who owns tnode ??" (http.c:171): the queue, a worker, a WRITE          *)
(* registration or the batch, at most one of them at a time, and none once *)
(* write_to_client has freed it: no use after free, no double free.        *)
OneOwner == \A t \in Tns : /\ Cardinality(Holders(t)) <= 1
                           /\ tn[t].st = "freed" => Holders(t) = {}

(* The client list and the descriptor table agree: an open descriptor is   *)
(* the one its own node names, so free_list and remove_client reach it;    *)
(* and while no call has failed every node's descriptor is open.  A reused *)
(* descriptor, a stale WRITE registration or a freed node never breaks it. *)
ListCoversDescriptors ==
  pc # "crashed" =>
    /\ \A f \in Fd : fdt[f] # None => fdt[f] \in Node /\ cfd[fdt[f]] = f
    /\ faults = 0 => \A c \in Node : fdt[cfd[c]] = c
    /\ \A c \in Conn : net[c].st = "open" => \E f \in Fd : fdt[f] = c

(* c was sent the end of a response. *)
Answered(c) == \E i \in 1..Len(net[c].got) : net[c].got[i][2] = RespLen

(* README, "Connections are closed after every response.": a client that   *)
(* was sent the end of a response is not left connected.                   *)
ClosedAfterResponse ==
  \A c \in Conn : Answered(c) => net[c].st = "closed"

(* The thread_node_t's made of c's bytes all stopped at the parser. *)
AllRejected(c) == \A t \in Tns : tn[t].conn = c => /\ Rejected(t) /\ tn[t].st = "read"
                                                  /\ Holders(t) = {}

(* Once bytes of an open connection are read, a thread_node_t that will    *)
(* answer on its descriptor is held somewhere, unless a failing call left  *)
(* the connection to itself or all it led to was rejected: no order of     *)
(* segments, hang-ups, EAGAIN and reused descriptors forgets a client.     *)
OpenIsServed ==
  \A f \in Fd : fdt[f] # None /\ net[fdt[f]].rcvd > 0 =>
    \/ \E t \in Tns : tn[t].fd = f /\ Holders(t) # {}
    \/ fdt[f] \in lost
    \/ \E t \in Tns : tn[t].conn = fdt[f] /\ AllRejected(fdt[f])

(* The listener's event is edge triggered: while clients are pending it is *)
(* still to come, in the batch or being handled, or accept failed on them. *)
PendingNoticed ==
  pc # "crashed" =>
    \A c \in Pending : \/ c \in lost
                      \/ lnReady \/ pc = "accept"
                      \/ \E e \in batch : e.filter = "READ" /\ e.fd = LnFd

(* When serve_and_listen returns, no connection is left open and the pool  *)
(* has executed everything it had accepted.  (Files stay open.)            *)
StoppedIsClean ==
  pc = "stopped" => /\ \A f \in Fd : fdt[f] = None
                    /\ \A c \in Conn : net[c].st \in {"out", "closed"}
                    /\ phase = "gone" /\ queue = << >> /\ running = {}
                    /\ ~route

(* The loop was left, will be, or died. *)
Gone == stop \/ pc \notin {"loop", "kevent", "dispatch", "accept"}

(* A client whose bytes the parser accepts, all of a request or not, has   *)
(* its connection closed, after the end of an answer unless some client    *)
(* hung up; so it does not hang.                                           *)
ConnectionsEnd ==
  \A c \in Conn \ BadConn :
    (net[c].st = "open" /\ net[c].sent > 0)
      ~> \/ net[c].st = "closed" /\ (Answered(c) \/ Hungup # {})
         \/ c \in lost \/ Gone

(* Once the loop is left, serve_and_listen returns. *)
ShutdownCompletes == pc = "destroy_route" ~> pc \in {"stopped", "crashed"}

(* A client that connects is accepted, or closed, without another one's    *)
(* help, unless accept failed while it was pending.                        *)
PendingAccepted ==
  \A c \in Conn : (net[c].st = "backlog") ~> (net[c].st # "backlog" \/ c \in lost \/ Gone)
-----------------------------------------------------------------------------
(* What the repository says of the server and the code does not do.        *)

(* README:43, "EventLoop->>Client: send(response)": a response goes to the *)
(* client whose request it answers.                                        *)
ResponseReachesRequester ==
  \A c \in Conn : \A i \in 1..Len(net[c].got) : tn[net[c].got[i][1]].conn = c

(* The same line: no chunk of a response is sent twice. *)
ResponseSentOnce ==
  \A c \in Conn : \A i, j \in 1..Len(net[c].got) : net[c].got[i] = net[c].got[j] => i = j

(* http.c:173, "read request and pass it to worker thread to parse,        *)
(* process and response generate": what a client is answered is a whole    *)
(* request of its own or somebody's, never the first segment of one.       *)
WholeRequestAnswered ==
  \A c \in Conn : \A i \in 1..Len(net[c].got) : tn[net[c].got[i][1]].data # "prefix"

(* http.c:132, "list's node is allocated on heap, kqueue keeps the node":  *)
(* the node an event carries is still allocated when it is used.           *)
NodeOutlivesEvents == "node" \notin ub

(* http.c:92, "400 Bad Request": a client whose request is rejected gets   *)
(* an answer or loses its connection.                                      *)
BadRequestEnds ==
  \A c \in BadConn :
    (net[c].st = "open" /\ net[c].sent > 0) ~> (net[c].st = "closed" \/ Gone)
=============================================================================
