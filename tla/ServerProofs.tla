----------------------------- MODULE ServerProofs -----------------------------
(***************************************************************************)
(* Proofs about Server, for any clients, descriptors, workers, queue,      *)
(* faults and requests: the client list and the descriptor table agree,    *)
(* every thread_node_t has one owner, a client is not forgotten, and what  *)
(* a shutdown leaves behind.                                               *)
(***************************************************************************)
EXTENDS Server, SequenceTheorems, FiniteSetTheorems, TLAPS

-----------------------------------------------------------------------------
(* The parts of the inductive invariant, IInv below. *)

Connection == [st : {"out", "backlog", "open", "closed"}, sent : Nat, rcvd : Nat,
               hup : {"no", "half", "gone"}, got : Seq(Nat \X Nat)]

(* What LoopTypes leaves out, and that only descriptors of clients have       *)
(* EV_EOF events.                                                          *)
Types == /\ LoopTypes
         /\ net \in [Conn -> Connection]
         /\ backlog \in Seq(Conn)
         /\ lnReady \in BOOLEAN /\ lnOpen \in BOOLEAN
         /\ queue \in Seq(Tn)
         /\ IsFiniteSet(running)
         /\ phase \in {"open", "draining", "gone"}
         /\ \A e \in batch : e.eof => e.fd \in Fd

Distinct(s) == \A i, j \in 1..Len(s) : s[i] = s[j] => i = j

(* The pending connections, in the order they are accepted in. *)
BacklogInv == /\ Distinct(backlog)
              /\ \A i \in 1..Len(backlog) : net[backlog[i]].st = "backlog"

(* A node is listed, and a thread_node_t made, for accepted connections    *)
(* only.  Once listed, a connection's descriptor is in its node for good.  *)
ListInv == /\ Distinct(list)
           /\ \A c \in Node : cfd[c] \in Fd /\ net[c].st \in {"open", "closed"}
           /\ \A t \in Tns : /\ net[tn[t].conn].st \in {"open", "closed"}
                             /\ cfd[tn[t].conn] = tn[t].fd

Listing == /\ pc # "crashed" => BacklogInv
           /\ ListInv
           /\ ListCoversDescriptors

(* A thread_node_t is in one place at a time: queue, worker, the WRITE     *)
(* registration of its own descriptor, or that registration's event.       *)
WriteEvent(t) == Event("WRITE", tn[t].fd, t, FALSE)

OwnerInv ==
  /\ Distinct(queue)
  /\ Pool!Queued \cap running = {}
  /\ \A t \in Pool!Queued : tn[t].st = "read"
  /\ \A t \in running : tn[t].st # "freed"
  /\ \A f \in Fd : wk[f] # None =>
       /\ tn[wk[f]].fd = f /\ tn[wk[f]].st = "built"
       /\ wk[f] \notin Pool!Queued \cup running
       /\ WriteEvent(wk[f]) \notin batch
  /\ \A e \in batch : e.filter = "WRITE" =>
       /\ e = WriteEvent(e.udata) /\ tn[e.udata].st = "built"
       /\ e.udata \notin Pool!Queued \cup running

(* Some thread_node_t holds a response for the connection at f, or none    *)
(* was ever built for it, those the pool no longer has being rejected; or  *)
(* a failing call left the connection to itself.                           *)
Held(t) == \/ t \in Pool!Queued \cup running
           \/ WriteEvent(t) \in batch
           \/ wk[tn[t].fd] = t

ServedInv ==
  \A f \in Fd : fdt[f] # None =>
    \/ \E t \in Tns : tn[t].fd = f /\ tn[t].st = "built" /\ Held(t)
    \/ \A t \in Tns : tn[t].conn = fdt[f] =>
         tn[t].st = "read" /\ (t \in Pool!Queued \cup running \/ Rejected(t))
    \/ fdt[f] \in lost

(* What the main thread's place says of the rest. *)
Leaving == {"destroy_route", "destroy_pool", "join", "free_list", "stopped"}

StageInv ==
  /\ pc \in {"loop", "kevent"} => batch = {}
  /\ pc \in {"loop", "kevent", "dispatch", "accept", "destroy_route", "destroy_pool"}
       => phase = "open"
  /\ pc \in Leaving => ~lnOpen /\ \A c \in Conn : net[c].st # "backlog"
  /\ pc \in {"destroy_pool", "join", "free_list", "stopped"} => ~route
  /\ pc = "join" => phase = "draining"
  /\ pc \in {"free_list", "stopped"} => phase = "gone" /\ queue = << >> /\ running = {}
  /\ pc = "stopped" => /\ \A f \in Fd : fdt[f] = None
                       /\ \A c \in Conn : net[c].st # "open"
  /\ pc = "crashed" => \A f \in Fd : fdt[f] = None

(* The inductive invariant. *)
IInv == /\ Types
        /\ StageInv
        /\ Listing
        /\ OwnerInv
        /\ ServedInv
        /\ ClosedAfterResponse
-----------------------------------------------------------------------------
(* Sequences. *)
LEMMA WithoutSeq ==
  ASSUME NEW S, NEW s \in Seq(S), NEW i \in 1..Len(s)
  PROVE  /\ Without(s, i) \in Seq(S)
         /\ Len(Without(s, i)) = Len(s) - 1
         /\ \A k \in 1..Len(s)-1 : Without(s, i)[k] = IF k < i THEN s[k] ELSE s[k + 1]
<1>1. Len(s) - 1 \in Nat
  OBVIOUS
<1>2. \A k \in 1..Len(s)-1 : (IF k < i THEN s[k] ELSE s[k + 1]) \in S
  OBVIOUS
<1> QED
  BY <1>1, <1>2, IsASeq, LenProperties DEF Without

(* Without(s, i) has the elements of s, but for s[i] when it has no double. *)
LEMMA WithoutElements ==
  ASSUME NEW S, NEW s \in Seq(S), NEW i \in 1..Len(s), Distinct(s)
  PROVE  /\ Distinct(Without(s, i))
         /\ \A k \in 1..Len(s)-1 : \E j \in 1..Len(s) : Without(s, i)[k] = s[j] /\ j # i
         /\ \A j \in 1..Len(s) : j # i => \E k \in 1..Len(s)-1 : Without(s, i)[k] = s[j]
<1> DEFINE w == Without(s, i)
<1>1. /\ w \in Seq(S) /\ Len(w) = Len(s) - 1
      /\ \A k \in 1..Len(s)-1 : w[k] = IF k < i THEN s[k] ELSE s[k + 1]
  BY WithoutSeq
<1> HIDE DEF w
<1>2. \A k \in 1..Len(s)-1 : \E j \in 1..Len(s) : w[k] = s[j] /\ j # i
  <2> SUFFICES ASSUME NEW k \in 1..Len(s)-1
               PROVE  \E j \in 1..Len(s) : w[k] = s[j] /\ j # i
    OBVIOUS
  <2>1. CASE k < i
    BY <1>1, <2>1
  <2>2. CASE ~(k < i)
    BY <1>1, <2>2, k + 1 \in 1..Len(s)
  <2> QED
    BY <2>1, <2>2
<1>3. ASSUME NEW j \in 1..Len(s), j # i
      PROVE  \E k \in 1..Len(s)-1 : w[k] = s[j]
  <2>1. CASE j < i
    BY <1>1, <2>1, j \in 1..Len(s)-1
  <2>2. CASE j > i
    <3>1. j - 1 \in 1..Len(s)-1 /\ ~(j - 1 < i) /\ (j - 1) + 1 = j
      BY <2>2
    <3>2. w[j - 1] = s[j]
      BY <1>1, <3>1
    <3> QED
      BY <3>1, <3>2
  <2> QED
    BY <1>3, <2>1, <2>2
<1>4. ASSUME NEW k \in 1..Len(s)-1, NEW m \in 1..Len(s)-1, w[k] = w[m]
      PROVE  k = m
  <2>1. s[IF k < i THEN k ELSE k + 1] = s[IF m < i THEN m ELSE m + 1]
    BY <1>1, <1>4
  <2>2. (IF k < i THEN k ELSE k + 1) \in 1..Len(s) /\ (IF m < i THEN m ELSE m + 1) \in 1..Len(s)
    OBVIOUS
  <2>3. (IF k < i THEN k ELSE k + 1) = (IF m < i THEN m ELSE m + 1)
    BY <2>1, <2>2 DEF Distinct
  <2> QED
    BY <2>3
<1> QED
  BY <1>1, <1>2, <1>3, <1>4 DEF Distinct, w

LEMMA WithoutRange ==
  ASSUME NEW S, NEW s \in Seq(S), NEW i \in 1..Len(s), Distinct(s)
  PROVE  {Without(s, i)[k] : k \in 1..Len(Without(s, i))} = {s[j] : j \in 1..Len(s)} \ {s[i]}
<1> DEFINE w == Without(s, i)
           I == 1..Len(s)
           K == 1..Len(s)-1
<1>1. Len(w) = Len(s) - 1
  BY WithoutSeq
<1>2. /\ \A k \in K : \E j \in I : w[k] = s[j] /\ j # i
      /\ \A j \in I : j # i => \E k \in K : w[k] = s[j]
      /\ \A j \in I : s[j] = s[i] => j = i
  BY WithoutElements DEF Distinct
<1>3. {w[k] : k \in 1..Len(w)} = {w[k] : k \in K}
  BY <1>1
<1> HIDE DEF w, I, K
<1>4. {w[k] : k \in K} = {s[j] : j \in I} \ {s[i]}
  BY <1>2
<1> QED
  BY <1>3, <1>4 DEF w, I, K

LEMMA TailElements ==
  ASSUME NEW S, NEW s \in Seq(S), s # << >>
  PROVE  /\ Head(s) \in S /\ Head(s) = s[1]
         /\ Tail(s) \in Seq(S) /\ Len(Tail(s)) = Len(s) - 1 /\ 1 \in 1..Len(s)
         /\ \A k \in 1..Len(s)-1 : Tail(s)[k] = s[k + 1]
BY HeadTailProperties, EmptySeq

(* The head of a sequence without doubles is not in its tail. *)
LEMMA TailDistinct ==
  ASSUME NEW S, NEW s \in Seq(S), s # << >>, Distinct(s)
  PROVE  /\ Distinct(Tail(s))
         /\ \A k \in 1..Len(s)-1 : Tail(s)[k] # Head(s)
<1>1. \A k \in 1..Len(s)-1 : k + 1 \in 1..Len(s) /\ k + 1 # 1 /\ k \in Nat
  OBVIOUS
<1>2. /\ Head(s) = s[1] /\ Len(Tail(s)) = Len(s) - 1 /\ 1 \in 1..Len(s)
      /\ \A k \in 1..Len(s)-1 : Tail(s)[k] = s[k + 1]
  BY TailElements
<1>3. \A k \in 1..Len(s)-1 : Tail(s)[k] # Head(s)
  BY <1>1, <1>2 DEF Distinct
<1>4. ASSUME NEW i \in 1..Len(s)-1, NEW j \in 1..Len(s)-1, Tail(s)[i] = Tail(s)[j]
      PROVE  i = j
  <2>1. s[i + 1] = s[j + 1]
    BY <1>2, <1>4
  <2>2. i + 1 = j + 1
    BY <1>1, <2>1 DEF Distinct
  <2> QED
    BY <1>1, <2>2
<1> QED
  BY <1>2, <1>3, <1>4 DEF Distinct

LEMMA AppendDistinct ==
  ASSUME NEW S, NEW s \in Seq(S), NEW x \in S, Distinct(s), \A i \in 1..Len(s) : s[i] # x
  PROVE  Distinct(Append(s, x))
BY AppendProperties DEF Distinct
-----------------------------------------------------------------------------
(* Types. *)
LEMMA TypesInit == Init => Types
<1> SUFFICES ASSUME Init
             PROVE  Types
  OBVIOUS
<1>1. LoopTypes
  <2>1. pc \in Points /\ stop \in BOOLEAN /\ route \in BOOLEAN
    BY DEF Init, Points
  <2>2. list \in Seq(Conn) /\ tn \in Seq(TnRecord) /\ Len(tn) <= MaxTn
    BY BoundsAssumption DEF Init
  <2>3. cfd \in [Conn -> Fd \cup {None}]
    BY DEF Init
  <2>4. /\ fdt \in [Fd -> Conn \cup {None}] /\ rk \in [Fd -> Conn \cup {None}]
        /\ wk \in [Fd -> Tns \cup {None}]
    BY DEF Init, KernelInit
  <2>5. running \subseteq Tns /\ Pool!Queued \subseteq Tns /\ Cardinality(running) <= NThreads
    BY FS_EmptySet, PoolAssumption DEF Init, Pool!Queued
  <2>6. again \in 0..MaxAgain /\ faults \in 0..MaxFaults
    BY BoundsAssumption DEF Init
  <2> QED
    BY <2>1, <2>2, <2>3, <2>4, <2>5, <2>6 DEF Init, LoopTypes
<1>2. Fresh \in Connection
  BY EmptySeq DEF Fresh, Connection
<1>3. net \in [Conn -> Connection]
  BY <1>2 DEF Init, KernelInit
<1>4. /\ lnReady \in BOOLEAN /\ lnOpen \in BOOLEAN
      /\ phase \in {"open", "draining", "gone"}
  BY DEF Init, KernelInit
<1>5. backlog \in Seq(Conn) /\ queue \in Seq(Tn)
  BY EmptySeq DEF Init, KernelInit
<1>6. IsFiniteSet(running)
  BY FS_EmptySet DEF Init
<1>7. \A e \in batch : e.eof => e.fd \in Fd
  BY DEF Init
<1> QED
  BY <1>1, <1>3, <1>4, <1>5, <1>6, <1>7, Zenon DEF Types

(* What close does to the descriptor table, the registrations and the      *)
(* connections.                                                            *)
LEMMA CloseFacts ==
  ASSUME Types, NEW F, NEW net0 \in [Conn -> Connection], close(F, net0)
  PROVE  /\ fdt' \in [Fd -> Conn \cup {None}] /\ rk' \in [Fd -> Conn \cup {None}]
         /\ wk' \in [Fd -> Tns \cup {None}] /\ net' \in [Conn -> Connection]
         /\ \A f \in Fd : /\ fdt'[f] = IF f \in F THEN None ELSE fdt[f]
                          /\ wk'[f] = IF f \in F THEN None ELSE wk[f]
         /\ \A c \in Conn : /\ net'[c].st = IF \E f \in F : fdt[f] = c
                                            THEN "closed" ELSE net0[c].st
                            /\ net'[c].got = net0[c].got
                            /\ net'[c].rcvd = net0[c].rcvd
<1>1. fdt' \in [Fd -> Conn \cup {None}] /\ rk' \in [Fd -> Conn \cup {None}]
  BY DEF Types, LoopTypes, close
<1>2. wk' \in [Fd -> Tns \cup {None}]
  BY DEF Types, LoopTypes, close
<1>3. \A c \in Conn : [net0[c] EXCEPT !.st = "closed"] \in Connection
  BY DEF Connection
<1>4. net' \in [Conn -> Connection]
  BY <1>3 DEF close
<1>5. \A c \in Conn : /\ net'[c].st = IF \E f \in F : fdt[f] = c THEN "closed" ELSE net0[c].st
                      /\ net'[c].got = net0[c].got /\ net'[c].rcvd = net0[c].rcvd
  BY DEF close, Connection
<1>6. \A f \in Fd : /\ fdt'[f] = IF f \in F THEN None ELSE fdt[f]
                    /\ wk'[f] = IF f \in F THEN None ELSE wk[f]
  BY DEF close
<1> QED
  BY <1>1, <1>2, <1>4, <1>5, <1>6

LEMMA ListFacts ==
  ASSUME Types
  PROVE  /\ Len(list) \in Nat
         /\ \A i \in 1..Len(list) : list[i] \in Conn
         /\ Node \subseteq Conn
         /\ Len(tn) \in Nat /\ \A t \in Tns : tn[t] \in TnRecord
         /\ Len(backlog) \in Nat /\ \A i \in 1..Len(backlog) : backlog[i] \in Conn
BY LenProperties, ElementOfSeq DEF Types, LoopTypes, Node, Tns

(* remove_client: the descriptor is closed and its first node dropped, or  *)
(* no node has it.                                                         *)
LEMMA DropTypes ==
  ASSUME Types, NEW f, NEW net0 \in [Conn -> Connection], remove_client(f, net0)
  PROVE  /\ fdt' \in [Fd -> Conn \cup {None}] /\ rk' \in [Fd -> Conn \cup {None}]
         /\ wk' \in [Fd -> Tns \cup {None}] /\ net' \in [Conn -> Connection]
         /\ list' \in Seq(Conn)
<1>1. CASE search_fails(f) /\ net' = net0 /\ UNCHANGED <<fdt, files, rk, wk, list>>
  BY <1>1 DEF Types, LoopTypes
<1>2. ASSUME NEW i \in 1..Len(list), close({f}, net0), remove_client_node(i)
      PROVE  /\ fdt' \in [Fd -> Conn \cup {None}] /\ rk' \in [Fd -> Conn \cup {None}]
             /\ wk' \in [Fd -> Tns \cup {None}] /\ net' \in [Conn -> Connection]
             /\ list' \in Seq(Conn)
  BY <1>2, CloseFacts, WithoutSeq DEF remove_client_node, Types, LoopTypes
<1> QED
  BY <1>1, <1>2 DEF remove_client

(* The rest of Types, for steps that leave the thread_node_t's and the     *)
(* pool alone.                                                             *)
LEMMA TypesFrom ==
  ASSUME Types,
         fdt' \in [Fd -> Conn \cup {None}], rk' \in [Fd -> Conn \cup {None}],
         wk' \in [Fd -> Tns \cup {None}], net' \in [Conn -> Connection],
         list' \in Seq(Conn), cfd' \in [Conn -> Fd \cup {None}], backlog' \in Seq(Conn),
         batch' \subseteq batch, pc' \in Points,
         stop' \in BOOLEAN, route' \in BOOLEAN, lnReady' \in BOOLEAN, lnOpen' \in BOOLEAN,
         faults' \in 0..MaxFaults, again' \in 0..MaxAgain,
         phase' \in {"open", "draining", "gone"}, UNCHANGED <<tn, queue, running>>
  PROVE  Types'
BY DEF Types, LoopTypes, Tns, Pool!Queued

LEMMA NetUpdate ==
  ASSUME Types, NEW c \in Conn, NEW x \in Connection
  PROVE  [net EXCEPT ![c] = x] \in [Conn -> Connection]
BY DEF Types

LEMMA NetClosed ==
  ASSUME Types, NEW c \in Conn
  PROVE  [net[c] EXCEPT !.st = "closed"] \in Connection
BY DEF Types, Connection

(* The ways in which the steps change connections. *)
LEMMA NetTypes ==
  ASSUME Types
  PROVE  /\ \A c \in Conn : accepted_state(c) \in [Conn -> Connection]
         /\ \A c \in Conn : [net EXCEPT ![c].st = "closed"] \in [Conn -> Connection]
         /\ \A c \in Conn : all_received(c) \in [Conn -> Connection]
         /\ \A c \in Conn, n \in Nat : received_upto(c, n) \in [Conn -> Connection]
         /\ \A c \in Conn, t \in Tns, n \in Nat : sent_to(c, t, n) \in [Conn -> Connection]
<1>1. \A c \in Conn : net[c] \in Connection
  BY DEF Types
<1>2. ASSUME NEW c \in Conn
      PROVE  /\ accepted_state(c) \in [Conn -> Connection]
             /\ [net EXCEPT ![c].st = "closed"] \in [Conn -> Connection]
             /\ \A n \in Nat : received_upto(c, n) \in [Conn -> Connection]
             /\ all_received(c) \in [Conn -> Connection]
  <2>1. /\ [net[c] EXCEPT !.st = "open"] \in Connection
        /\ \A n \in Nat : [net[c] EXCEPT !.rcvd = n] \in Connection
        /\ net[c].sent \in Nat
    BY <1>1 DEF Connection
  <2>2. /\ accepted_state(c) = [net EXCEPT ![c] = [net[c] EXCEPT !.st = "open"]]
        /\ \A n \in Nat : received_upto(c, n) = [net EXCEPT ![c] = [net[c] EXCEPT !.rcvd = n]]
        /\ all_received(c) = received_upto(c, net[c].sent)
    BY DEF accepted_state, received_upto, all_received
  <2>3. [net EXCEPT ![c].st = "closed"] = [net EXCEPT ![c] = [net[c] EXCEPT !.st = "closed"]]
    OBVIOUS
  <2> QED
    BY <2>1, <2>2, <2>3, NetClosed, NetUpdate
<1>3. ASSUME NEW c \in Conn, NEW t \in Tns, NEW n \in Nat
      PROVE  sent_to(c, t, n) \in [Conn -> Connection]
  <2> DEFINE new == [k \in 1..n |-> <<t, k>>]
  <2>1. new \in Seq(Nat \X Nat)
    <3>1. \A k \in 1..n : <<t, k>> \in Nat \X Nat
      BY ListFacts DEF Tns
    <3> QED
      BY <3>1, IsASeq
  <2> HIDE DEF new
  <2>2. net[c].got \o new \in Seq(Nat \X Nat)
    BY <1>1, <2>1, ConcatProperties DEF Connection
  <2>3. [net[c] EXCEPT !.got = net[c].got \o new] \in Connection
    BY <1>1, <2>2 DEF Connection
  <2>4. sent_to(c, t, n) = [net EXCEPT ![c] = [net[c] EXCEPT !.got = net[c].got \o new]]
    BY DEF sent_to, new
  <2> QED
    BY <2>3, <2>4, NetUpdate
<1> QED
  BY <1>2, <1>3

(* Steps of the loop and of the shutdown. *)
LEMMA TypesLoop ==
  ASSUME Types, \/ shut_down_server \/ enter_kevent \/ leave_loop \/ kevent_fails \/ end_of_batch
                \/ accept_client_returns \/ destroy_route \/ destroy_pool
                \/ \E e \in batch : start_accept(e)
  PROVE  Types'
<1> USE DEF kernel, pool, bounds, Types, LoopTypes, Points
<1>1. CASE leave_loop \/ kevent_fails
  <2>1. net' \in [Conn -> Connection]
    BY <1>1, NetClosed DEF leave_loop, kevent_fails, close_listener
  <2>2. backlog' \in Seq(Conn)
    BY <1>1, EmptySeq DEF leave_loop, kevent_fails, close_listener
  <2>3. faults' \in 0..MaxFaults
    BY <1>1, BoundsAssumption DEF leave_loop, kevent_fails, fault
  <2> QED
    BY <1>1, <2>1, <2>2, <2>3, TypesFrom DEF leave_loop, kevent_fails, close_listener
<1>2. CASE shut_down_server
  BY <1>2, TypesFrom DEF shut_down_server
<1>3. CASE enter_kevent \/ end_of_batch \/ accept_client_returns
  BY <1>3, TypesFrom DEF enter_kevent, end_of_batch, accept_client_returns
<1>4. CASE destroy_route
  BY <1>4, TypesFrom DEF destroy_route
<1>5. CASE destroy_pool
  BY <1>5, TypesFrom DEF destroy_pool, Pool!Close
<1>6. CASE \E e \in batch : start_accept(e)
  BY <1>6, TypesFrom DEF start_accept, take
<1> QED
  BY <1>1, <1>2, <1>3, <1>4, <1>5, <1>6

LEMMA TypesRelease ==
  ASSUME Types, join \/ free_list
  PROVE  Types'
<1> USE DEF kernel, pool, bounds, Points
<1>1. CASE join
  BY <1>1, TypesFrom DEF join, Pool!Retire, Types, LoopTypes
<1>2. CASE free_list
  <2>1. /\ fdt' \in [Fd -> Conn \cup {None}] /\ rk' \in [Fd -> Conn \cup {None}]
        /\ wk' \in [Fd -> Tns \cup {None}] /\ net' \in [Conn -> Connection]
    BY <1>2, CloseFacts DEF free_list, Types
  <2>2. list' \in Seq(Conn)
    BY <1>2, EmptySeq DEF free_list
  <2> QED
    BY <1>2, <2>1, <2>2, TypesFrom DEF free_list, Types, LoopTypes
<1> QED
  BY <1>1, <1>2

LEMMA TypesReport ==
  ASSUME Types, return_from_kevent
  PROVE  Types'
<1>1. wk' = [f \in Fd |-> None] /\ batch' = ReadyEvents /\ pc' = "dispatch" /\ lnReady' = FALSE
      /\ UNCHANGED <<net, fdt, rk, backlog, lnOpen, stop, list, cfd, tn, route, ub, bounds, pool>>
  BY DEF return_from_kevent, kevent_report
<1>2. \A e \in ReadyEvents : /\ e.filter \in {"READ", "WRITE"} /\ e.fd \in Fd \cup {LnFd}
                             /\ e.filter = "WRITE" => e.udata \in Tns
                             /\ e.eof => e.fd \in Fd
  <2> SUFFICES ASSUME NEW e \in ReadyEvents
               PROVE  /\ e.filter \in {"READ", "WRITE"} /\ e.fd \in Fd \cup {LnFd}
                      /\ e.filter = "WRITE" => e.udata \in Tns
                      /\ e.eof => e.fd \in Fd
    OBVIOUS
  <2>1. CASE \E f \in Fd : e = Event("READ", f, rk[f], net[fdt[f]].hup # "no")
    BY <2>1 DEF Event
  <2>2. CASE \E f \in Fd : wk[f] # None /\ e = Event("WRITE", f, wk[f], FALSE)
    BY <2>2 DEF Event, Types, LoopTypes
  <2>3. CASE e = Event("READ", LnFd, None, FALSE)
    BY <2>3 DEF Event
  <2> QED
    BY <2>1, <2>2, <2>3 DEF ReadyEvents
<1> QED
  BY <1>1, <1>2 DEF Types, LoopTypes, Points, Tns, bounds, pool, Pool!Queued

(* accept_client's loop. *)
LEMMA TypesAccept ==
  ASSUME Types, NEW c \in Conn, NEW f \in Fd,
         \/ accept_client(c, f) \/ accept_client_nonblock_fails(c, f)
         \/ accept_client_register_fails(c, f)
  PROVE  Types'
<1> USE DEF Types, LoopTypes, Points, pool, bounds
<1>1. backlog' \in Seq(Conn)
  <2>1. backlog # << >> /\ backlog' = Tail(backlog)
    BY DEF accept, accept_client, accept_client_nonblock_fails, accept_client_register_fails
  <2> QED
    BY <2>1, TailElements
<1>2. net' \in [Conn -> Connection]
  <2>1. net' = accepted_state(c) \/ net' = [net EXCEPT ![c].st = "closed"]
    BY Zenon DEF accept_client, accept_client_nonblock_fails, accept_client_register_fails
  <2> QED
    BY <2>1, NetTypes, Zenon
<1>3. Append(list, c) \in Seq(Conn)
  BY AppendProperties
<1>4. faults' \in 0..MaxFaults
  BY BoundsAssumption DEF accept_client, accept_client_nonblock_fails,
                          accept_client_register_fails, fault
<1>5. CASE accept_client(c, f)
  BY <1>1, <1>2, <1>3, <1>4, <1>5, TypesFrom DEF accept_client, insert_client
<1>6. CASE accept_client_nonblock_fails(c, f)
  BY <1>1, <1>2, <1>4, <1>6, TypesFrom DEF accept_client_nonblock_fails
<1>7. CASE accept_client_register_fails(c, f)
  BY <1>1, <1>2, <1>3, <1>4, <1>7, TypesFrom DEF accept_client_register_fails, insert_client
<1> QED
  BY <1>5, <1>6, <1>7

LEMMA TypesAcceptError ==
  ASSUME Types, accept_client_fails
  PROVE  Types'
<1> USE DEF Types, LoopTypes, Points, pool
<1>1. /\ backlog # << >> /\ fault /\ pc' = "dispatch"
      /\ UNCHANGED <<fdt, rk, wk, lnReady, lnOpen, stop, batch, list, cfd, tn, route, again,
                     phase, queue, running>>
  BY DEF accept_client_fails
<1>2. /\ Head(backlog) \in Conn
      /\ Tail(backlog) \in Seq(Conn)
  BY <1>1, TailElements
<1>3. backlog' \in Seq(Conn) /\ net' \in [Conn -> Connection]
  <2>1. CASE UNCHANGED <<net, backlog>>
    BY <2>1
  <2>2. CASE net' = [net EXCEPT ![Head(backlog)].st = "closed"] /\ backlog' = Tail(backlog)
    BY <1>2, <2>2, NetTypes
  <2> QED
    BY <2>1, <2>2 DEF accept_client_fails
<1>4. faults' \in 0..MaxFaults
  BY <1>1, BoundsAssumption DEF fault
<1> QED
  BY <1>1, <1>3, <1>4, TypesFrom

LEMMA TypesCrash ==
  ASSUME Types, crash, faults' \in 0..MaxFaults
  PROVE  Types'
<1>1. net' \in [Conn -> Connection]
  BY NetClosed DEF crash, Types
<1> QED
  BY <1>1, TypesFrom DEF crash, Types, LoopTypes, Points, pool

LEMMA TypesCrashes ==
  ASSUME Types, \/ accept_client_malloc_fails
                \/ \E e \in batch : handle_read_freed_crashes(e)
                \/ \E t \in Tn : handle_conn_crashes(t)
  PROVE  Types'
<1>1. crash /\ (fault \/ UNCHANGED faults)
  BY DEF accept_client_malloc_fails, handle_read_freed_crashes, handle_conn_crashes
<1>2. faults' \in 0..MaxFaults
  BY <1>1, BoundsAssumption DEF fault, Types, LoopTypes
<1> QED
  BY <1>1, <1>2, TypesCrash

(* What a read, of whatever descriptor, leaves alone or well typed. *)
ReadFrame == UNCHANGED <<backlog, lnReady, lnOpen, pc, stop, cfd, route, again>>

LEMMA ConnAt ==
  ASSUME Types, NEW f, conn_at(f) # None
  PROVE  f \in Fd /\ conn_at(f) = fdt[f] /\ conn_at(f) \in Conn
BY DEF conn_at, Types, LoopTypes

(* A new thread_node_t, queued or not. *)
NewTask(f) == [fd |-> f, conn |-> fdt[f], data |-> Data(fdt[f]), st |-> "read"]

LEMMA RequestFacts ==
  ASSUME Types, NEW f, read_request(f)
  PROVE  /\ f \in Fd /\ fdt[f] \in Conn
         /\ NewTask(f) \in TnRecord /\ Len(tn) + 1 \in Tn
         /\ tn' = Append(tn, NewTask(f)) /\ Len(tn') = Len(tn) + 1 /\ tn' \in Seq(TnRecord)
         /\ \A t \in Tns : tn'[t] = tn[t]
         /\ tn'[Len(tn) + 1] = NewTask(f)
         /\ UNCHANGED <<fdt, rk, wk, list, faults, phase, running>>
         /\ \/ queue' = Append(queue, Len(tn) + 1) /\ lost' = lost
            \/ queue' = queue /\ lost' = lost \cup {fdt[f]}
         /\ net' = all_received(fdt[f])
<1>1. f \in Fd /\ fdt[f] \in Conn /\ conn_at(f) = fdt[f]
  BY ConnAt DEF read_request
<1>2. /\ tn' = Append(tn, NewTask(f)) /\ Len(tn) + 1 \in Tn /\ net' = all_received(fdt[f])
      /\ UNCHANGED <<fdt, rk, wk, list, faults>>
      /\ \/ Pool!Submit(Len(tn) + 1) /\ UNCHANGED lost
         \/ Pool!Refuse(Len(tn) + 1) /\ lost' = lost \cup {fdt[f]}
  BY <1>1 DEF read_request, NewTask
<1>3. /\ UNCHANGED <<phase, running>>
      /\ \/ queue' = Append(queue, Len(tn) + 1) /\ lost' = lost
         \/ queue' = queue /\ lost' = lost \cup {fdt[f]}
  BY <1>2 DEF Pool!Submit, Pool!Refuse, Pool!vars
<1>4. NewTask(f) \in TnRecord
  BY <1>1 DEF NewTask, TnRecord, Data
<1>5. tn \in Seq(TnRecord)
  BY DEF Types, LoopTypes
<1>6. /\ Len(tn') = Len(tn) + 1 /\ tn' \in Seq(TnRecord)
      /\ \A t \in Tns : tn'[t] = tn[t]
      /\ tn'[Len(tn) + 1] = NewTask(f)
  BY <1>2, <1>4, <1>5, AppendProperties DEF Tns
<1> QED
  BY <1>1, <1>2, <1>3, <1>4, <1>6

LEMMA TypesRequest ==
  ASSUME Types, NEW f, read_request(f), ReadFrame, batch' \subseteq batch
  PROVE  Types'
<1> USE RequestFacts
<1>1. Len(tn) \in Nat /\ Tns \subseteq Tns' /\ Len(tn) + 1 \in Tns'
  BY ListFacts DEF Tns
<1>2. queue' \in Seq(Tn)
  <2>1. queue \in Seq(Tn) /\ Len(tn) + 1 \in Tn
    BY DEF Types
  <2>2. Append(queue, Len(tn) + 1) \in Seq(Tn)
    BY <2>1, AppendProperties
  <2>3. queue' = Append(queue, Len(tn) + 1) \/ queue' = queue
    OBVIOUS
  <2> QED
    BY <2>1, <2>2, <2>3
<1>3. Pool!Queued' \subseteq Tns'
  <2>1. CASE queue' = queue
    BY <1>1, <2>1 DEF Types, LoopTypes, Pool!Queued
  <2>2. CASE queue' = Append(queue, Len(tn) + 1)
    <3> SUFFICES ASSUME NEW i \in 1..Len(queue')
                 PROVE  queue'[i] \in Tns'
      BY DEF Pool!Queued
    <3>1. CASE i \in 1..Len(queue)
      BY <1>1, <2>2, <3>1, AppendProperties DEF Types, LoopTypes, Pool!Queued
    <3>2. CASE i = Len(queue) + 1
      BY <1>1, <2>2, <3>2, AppendProperties DEF Types
    <3> QED
      BY <2>2, <3>1, <3>2, AppendProperties DEF Types
  <2> QED
    BY <2>1, <2>2
<1>4. Len(tn') <= MaxTn
  BY BoundsAssumption DEF Tn
<1>5. net' \in [Conn -> Connection]
  BY NetTypes
<1>6. running' \subseteq Tns' /\ wk' \in [Fd -> Tns' \cup {None}]
  BY <1>1 DEF Types, LoopTypes
<1>7. \A e \in batch' : /\ e.filter \in {"READ", "WRITE"} /\ e.fd \in Fd \cup {LnFd}
                        /\ e.filter = "WRITE" => e.udata \in Tns'
                        /\ e.eof => e.fd \in Fd
  BY <1>1 DEF Types, LoopTypes
<1> QED
  BY <1>2, <1>3, <1>4, <1>5, <1>6, <1>7 DEF Types, LoopTypes, ReadFrame

(* Both ways to handle a READ event read from some descriptor. *)
LEMMA ReadFactors ==
  ASSUME NEW e, handle_read(e) \/ handle_read_freed(e)
  PROVE  /\ \E f : read_from_client(f)
         /\ ReadFrame /\ pc = "dispatch"
         /\ e \in batch /\ e.filter = "READ" /\ batch' = batch \ {e}
<1>1. CASE handle_read(e)
  BY <1>1 DEF handle_read, take, ReadFrame
<1>2. CASE handle_read_freed(e)
  BY <1>2 DEF handle_read_freed, take, ReadFrame
<1> QED
  BY <1>1, <1>2

(* A failed allocation while reading: some of the bytes are gone. *)
LEMMA DroppedFacts ==
  ASSUME Types, NEW f, read_request_malloc_fails(f)
  PROVE  /\ conn_at(f) \in Conn /\ f \in Fd /\ conn_at(f) = fdt[f]
         /\ \E n \in Nat : net' = received_upto(conn_at(f), n)
         /\ net' \in [Conn -> Connection]
         /\ lost' = lost \cup {conn_at(f)}
         /\ fault /\ UNCHANGED <<fdt, files, rk, wk, list, tn, phase, queue, running>>
<1>1. conn_at(f) \in Conn /\ f \in Fd /\ conn_at(f) = fdt[f]
  BY ConnAt DEF read_request_malloc_fails
<1>2. net[conn_at(f)].sent \in Nat /\ net[conn_at(f)].rcvd \in Nat
  BY <1>1 DEF Types, Connection
<1>3. \E n \in Nat : net' = received_upto(conn_at(f), n)
  <2>1. CASE net' = all_received(conn_at(f))
    BY <1>2, <2>1 DEF all_received
  <2>2. ASSUME NEW n \in net[conn_at(f)].rcvd + 1..net[conn_at(f)].sent,
               net' = received_upto(conn_at(f), n)
        PROVE  \E m \in Nat : net' = received_upto(conn_at(f), m)
    <3>1. n \in Nat
      BY <1>2
    <3> QED
      BY <2>2, <3>1
  <2> QED
    BY <2>1, <2>2 DEF read_request_malloc_fails
<1>4. net' \in [Conn -> Connection]
  BY <1>1, <1>3, NetTypes
<1> QED
  BY <1>1, <1>3, <1>4 DEF read_request_malloc_fails, pool

LEMMA TypesReadOther ==
  ASSUME Types, NEW f, ReadFrame, batch' \subseteq batch,
         read_request_malloc_fails(f) \/ read_disconnected(f) \/ read_error(f)
  PROVE  Types'
<1> USE DEF Types, LoopTypes, ReadFrame, pool
<1>1. CASE read_request_malloc_fails(f)
  <2>1. net' \in [Conn -> Connection]
    BY <1>1, DroppedFacts
  <2>2. faults' \in 0..MaxFaults
    BY <1>1, BoundsAssumption DEF read_request_malloc_fails, fault
  <2> QED
    BY <1>1, <2>1, <2>2, TypesFrom DEF read_request_malloc_fails
<1>2. CASE read_disconnected(f)
  <2>1. all_received(conn_at(f)) \in [Conn -> Connection]
    BY <1>2, ConnAt, NetTypes DEF read_disconnected
  <2>2. /\ fdt' \in [Fd -> Conn \cup {None}] /\ rk' \in [Fd -> Conn \cup {None}]
        /\ wk' \in [Fd -> Tns \cup {None}] /\ net' \in [Conn -> Connection]
        /\ list' \in Seq(Conn)
    BY <1>2, <2>1, DropTypes DEF read_disconnected
  <2> QED
    BY <1>2, <2>2, TypesFrom DEF read_disconnected
<1>3. CASE read_error(f)
  BY <1>3, TypesFrom DEF read_error
<1> QED
  BY <1>1, <1>2, <1>3

LEMMA TypesRead ==
  ASSUME Types, NEW e, handle_read(e) \/ handle_read_freed(e)
  PROVE  Types'
<1>1. PICK f : read_from_client(f)
  BY ReadFactors
<1>2. ReadFrame /\ batch' \subseteq batch
  BY ReadFactors
<1> QED
  BY <1>1, <1>2, TypesRequest, TypesReadOther DEF read_from_client

LEMMA TypesEof ==
  ASSUME Types, NEW e, handle_eof(e)
  PROVE  Types'
<1>1. net \in [Conn -> Connection] /\ remove_client(e.fd, net)
  BY DEF Types, handle_eof
<1>2. /\ fdt' \in [Fd -> Conn \cup {None}] /\ rk' \in [Fd -> Conn \cup {None}]
      /\ wk' \in [Fd -> Tns \cup {None}] /\ net' \in [Conn -> Connection]
      /\ list' \in Seq(Conn)
  BY <1>1, DropTypes
<1> QED
  BY <1>2, TypesFrom DEF handle_eof, take, bounds, pool, Types, LoopTypes

(* Workers. *)
LEMMA QueueFacts ==
  ASSUME Types
  PROVE  /\ Len(queue) \in Nat /\ \A i \in 1..Len(queue) : queue[i] \in Tns
         /\ Pool!Queued = {queue[i] : i \in 1..Len(queue)}
         /\ running \subseteq Tns
BY LenProperties DEF Types, LoopTypes, Pool!Queued

LEMMA StartFacts ==
  ASSUME Types, Pool!Start
  PROVE  /\ queue # << >> /\ 1 \in 1..Len(queue)
         /\ running' = running \cup {queue[1]} /\ queue[1] \in Tns
         /\ queue' = Tail(queue) /\ queue' \in Seq(Tn) /\ Len(queue') = Len(queue) - 1
         /\ \A k \in 1..Len(queue)-1 : queue'[k] = queue[k + 1] /\ k + 1 \in 1..Len(queue)
         /\ Cardinality(running) < NThreads
<1>1. queue # << >> /\ queue \in Seq(Tn)
  BY DEF Types, Pool!Start
<1>2. /\ Head(queue) = queue[1] /\ Tail(queue) \in Seq(Tn) /\ Len(Tail(queue)) = Len(queue) - 1
      /\ 1 \in 1..Len(queue) /\ \A k \in 1..Len(queue)-1 : Tail(queue)[k] = queue[k + 1]
  BY <1>1, TailElements
<1>3. Len(queue) \in Nat /\ queue[1] \in Tns
  BY <1>2, QueueFacts
<1>4. \A k \in 1..Len(queue)-1 : k + 1 \in 1..Len(queue)
  BY <1>3
<1>5. /\ running' = running \cup {Head(queue)} /\ queue' = Tail(queue)
      /\ Cardinality(running) < NThreads
  BY Zenon DEF Pool!Start, Pool!Cardinality, Cardinality
<1> QED
  BY <1>1, <1>2, <1>3, <1>4, <1>5

LEMMA TypesStart ==
  ASSUME Types, start_task
  PROVE  Types'
<1>1. Pool!Start
  BY DEF start_task
<1>2. running' \subseteq Tns
  BY <1>1, StartFacts, QueueFacts
<1>3. \A k \in 1..Len(queue') : queue'[k] \in Tns
  BY <1>1, StartFacts, QueueFacts
<1>4. IsFiniteSet(running') /\ Cardinality(running') <= NThreads
  <2>1. IsFiniteSet(running) /\ Cardinality(running) \in Nat
    BY FS_CardinalityType DEF Types
  <2>2. /\ IsFiniteSet(running')
        /\ Cardinality(running') = Cardinality(running) \/ Cardinality(running') = Cardinality(running) + 1
    <3>1. running' = running \cup {queue[1]}
      BY <1>1, StartFacts
    <3> QED
      BY <2>1, <3>1, FS_AddElement
  <2> QED
    BY <1>1, <2>1, <2>2, StartFacts, PoolAssumption
<1>5. queue' \in Seq(Tn)
  BY <1>1, StartFacts
<1>6. UNCHANGED <<kernel, pc, stop, batch, list, cfd, tn, route, ub, bounds, phase>>
  BY <1>1 DEF start_task, Pool!Start
<1> QED
  BY <1>2, <1>3, <1>4, <1>5, <1>6 DEF Types, LoopTypes, Tns, Pool!Queued, kernel, bounds

LEMMA FinishFacts ==
  ASSUME Types, NEW t, Pool!Finish(t)
  PROVE  /\ t \in running /\ t \in Tns /\ running' = running \ {t}
         /\ UNCHANGED <<phase, queue>>
         /\ IsFiniteSet(running') /\ Cardinality(running') <= NThreads
<1>1. t \in running /\ running' = running \ {t} /\ UNCHANGED <<phase, queue>>
  BY DEF Pool!Finish
<1>2. IsFiniteSet(running) /\ Cardinality(running) <= NThreads /\ Cardinality(running) \in Nat
  BY FS_CardinalityType DEF Types, LoopTypes
<1>3. IsFiniteSet(running') /\ Cardinality(running') = Cardinality(running) - 1
  BY <1>1, <1>2, FS_RemoveElement
<1> QED
  BY <1>1, <1>2, <1>3, PoolAssumption, QueueFacts

(* A thread_node_t gets its response, or is freed. *)
LEMMA StateFacts ==
  ASSUME Types, NEW t \in Tns, NEW v \in {"built", "freed"}, tn' = [tn EXCEPT ![t].st = v]
  PROVE  /\ tn' \in Seq(TnRecord) /\ Len(tn') = Len(tn)
         /\ \A s \in Tns : /\ tn'[s].fd = tn[s].fd /\ tn'[s].conn = tn[s].conn
                           /\ tn'[s].data = tn[s].data
                           /\ tn'[s].st = IF s = t THEN v ELSE tn[s].st
<1>1. \A s \in Tns : tn[s] \in TnRecord
  BY ListFacts
<1>2. [tn[t] EXCEPT !.st = v] \in TnRecord
  BY <1>1 DEF TnRecord
<1>3. tn' \in Seq(TnRecord) /\ Len(tn') = Len(tn)
  BY <1>2, ExceptSeq DEF Types, LoopTypes, Tns
<1>4. \A s \in Tns : tn'[s] = IF s = t THEN [tn[t] EXCEPT !.st = v] ELSE tn[s]
  BY ExceptSeq DEF Types, LoopTypes, Tns
<1> QED
  BY <1>1, <1>3, <1>4 DEF TnRecord

LEMMA TypesWorker ==
  ASSUME Types, NEW t \in Tn, \/ handle_conn_rejects(t) \/ handle_conn_builds(t)
                              \/ handle_conn_freed_route(t) \/ handle_conn_registers(t)
                              \/ handle_conn_register_fails(t)
  PROVE  Types'
<1>1. CASE handle_conn_rejects(t)
  BY <1>1, FinishFacts DEF handle_conn_rejects, Types, LoopTypes, Tns, Pool!Queued, kernel, bounds
<1>4. CASE handle_conn_register_fails(t)
  <2>1. faults' \in 0..MaxFaults
    BY <1>4, BoundsAssumption DEF handle_conn_register_fails, fault, Types, LoopTypes
  <2>2. /\ UNCHANGED <<kernel, pc, stop, batch, list, cfd, tn, route, ub, again>>
        /\ Pool!Finish(t)
    BY <1>4 DEF handle_conn_register_fails
  <2>3. /\ running' \subseteq running /\ UNCHANGED <<phase, queue>>
        /\ IsFiniteSet(running') /\ Cardinality(running') <= NThreads
    BY <2>2, FinishFacts
  <2> QED
    BY <2>1, <2>2, <2>3 DEF Types, LoopTypes, Tns, Pool!Queued, kernel
<1>2. CASE handle_conn_builds(t) \/ handle_conn_freed_route(t)
  <2>1. /\ tn' = [tn EXCEPT ![t].st = "built"]
        /\ t \in Tns
        /\ UNCHANGED <<net, fdt, rk, wk, backlog, lnReady, lnOpen, pc, stop, batch, list, cfd,
                       route, bounds, pool>>
    BY <1>2, QueueFacts DEF handle_conn_builds, handle_conn_freed_route, LooksUpFreedRoute, working
  <2>2. tn' \in Seq(TnRecord) /\ Len(tn') = Len(tn)
    BY <2>1, StateFacts
  <2> QED
    BY <2>1, <2>2 DEF Types, LoopTypes, Tns, Pool!Queued, bounds, pool
<1>3. CASE handle_conn_registers(t)
  <2>1. wk' \in [Fd -> Tns \cup {None}]
    <3>1. t \in Tns /\ (wk' = wk \/ wk' = [wk EXCEPT ![tn[t].fd] = t])
      BY <1>3, FinishFacts DEF handle_conn_registers
    <3> QED
      BY <3>1 DEF Types, LoopTypes
  <2> QED
    BY <1>3, <2>1, FinishFacts DEF handle_conn_registers, Types, LoopTypes, Tns, Pool!Queued, bounds
<1> QED
  BY <1>1, <1>2, <1>3, <1>4

(* write_to_client: all of a response, a part of it, or an error.          *)
LEMMA WriteFacts ==
  ASSUME Types, NEW e, handle_write(e)
  PROVE  /\ e \in batch /\ e.filter = "WRITE" /\ e.udata \in Tns /\ pc = "dispatch"
         /\ batch' = batch \ {e} /\ write_to_client(e.udata)
         /\ tn[e.udata] \in TnRecord /\ tn[e.udata].fd \in Fd
         /\ fdt[tn[e.udata].fd] \in Conn \cup {None}
         /\ UNCHANGED <<backlog, lnReady, lnOpen, pc, stop, cfd, route, ub,
                        phase, queue, running, done>>
<1>1. e \in batch /\ e.filter = "WRITE" /\ e.udata \in Tns
  BY DEF handle_write, take, Types, LoopTypes
<1>2. tn[e.udata] \in TnRecord /\ tn[e.udata].fd \in Fd
  BY <1>1, ListFacts DEF TnRecord
<1>3. fdt[tn[e.udata].fd] \in Conn \cup {None}
  BY <1>2 DEF Types, LoopTypes
<1> QED
  BY <1>1, <1>2, <1>3 DEF handle_write, take, pool

LEMMA TypesWrite ==
  ASSUME Types, NEW e, handle_write(e)
  PROVE  Types'
<1> DEFINE t == e.udata
           f == tn[t].fd
           c == fdt[f]
<1>1. /\ t \in Tns /\ f \in Fd /\ c \in Conn \cup {None} /\ batch' \subseteq batch
      /\ UNCHANGED <<backlog, lnReady, lnOpen, pc, stop, cfd, route, ub,
                     phase, queue, running, done>>
  BY WriteFacts
<1>2. \A n \in Nat : c # None => sent_to(c, t, n) \in [Conn -> Connection]
  BY <1>1, NetTypes
<1>3. CASE write_all(t)
  <2>1. remove_client(f, sent_to(c, t, RespLen)) /\ tn' = [tn EXCEPT ![t].st = "freed"]
        /\ UNCHANGED <<again, faults>> /\ c # None
    BY <1>3 DEF write_all, bounds
  <2>2. sent_to(c, t, RespLen) \in [Conn -> Connection]
    BY <1>2, <2>1, RespLenAssumption
  <2> HIDE DEF f, c, t
  <2>3. /\ fdt' \in [Fd -> Conn \cup {None}] /\ rk' \in [Fd -> Conn \cup {None}]
        /\ wk' \in [Fd -> Tns \cup {None}] /\ net' \in [Conn -> Connection]
        /\ list' \in Seq(Conn)
    BY <2>1, <2>2, DropTypes
  <2>4. tn' \in Seq(TnRecord) /\ Len(tn') = Len(tn)
    BY <1>1, <2>1, StateFacts
  <2> QED
    BY <1>1, <2>1, <2>3, <2>4 DEF Types, LoopTypes, Tns, Pool!Queued
<1>4. CASE \E n \in 0..RespLen-1 : write_some(t, n) \/ write_some_register_fails(t, n)
  <2>1. PICK n \in 0..RespLen-1 : write_some(t, n) \/ write_some_register_fails(t, n)
    BY <1>4
  <2>2. c # None /\ again < MaxAgain /\ again' = again + 1 /\ net' = sent_to(c, t, n)
        /\ (wk' = [wk EXCEPT ![f] = t] \/ wk' = wk)
        /\ UNCHANGED <<fdt, rk, list, tn>>
    BY <2>1 DEF write_some, write_some_register_fails, send_some
  <2>6. faults' \in 0..MaxFaults
    BY <2>1, BoundsAssumption DEF write_some, write_some_register_fails, fault, Types, LoopTypes
  <2>3. net' \in [Conn -> Connection]
    BY <1>2, <2>2, RespLenAssumption
  <2> HIDE DEF f, c, t
  <2>4. wk' \in [Fd -> Tns \cup {None}]
    BY <1>1, <2>2 DEF Types, LoopTypes
  <2>5. again' \in 0..MaxAgain
    BY <2>2, BoundsAssumption DEF Types, LoopTypes
  <2> QED
    BY <1>1, <2>2, <2>3, <2>4, <2>5, <2>6, TypesFrom DEF Types, LoopTypes
<1>5. CASE write_error(t)
  <2>1. remove_client(f, net) /\ UNCHANGED <<tn, again, faults>> /\ net \in [Conn -> Connection]
    BY <1>5 DEF write_error, bounds, Types
  <2> HIDE DEF f, c, t
  <2>2. /\ fdt' \in [Fd -> Conn \cup {None}] /\ rk' \in [Fd -> Conn \cup {None}]
        /\ wk' \in [Fd -> Tns \cup {None}] /\ net' \in [Conn -> Connection]
        /\ list' \in Seq(Conn)
    BY <2>1, DropTypes
  <2> QED
    BY <1>1, <2>1, <2>2, TypesFrom DEF Types, LoopTypes
<1> QED
  BY <1>3, <1>4, <1>5, WriteFacts DEF write_to_client

(* What clients do. *)
LEMMA ClientFacts ==
  ASSUME Types, clients
  PROVE  \E c \in Conn :
           /\ pc # "crashed"
           /\ UNCHANGED <<fdt, files, rk, wk, lnOpen, pc, stop, batch, list, cfd, tn, route, ub,
                          lost, again, faults, phase, queue, running, done>>
           /\ net' \in [Conn -> Connection]
           /\ \A d \in Conn : net'[d].got = net[d].got /\ net'[d].rcvd = net[d].rcvd
           /\ \/ /\ lnOpen /\ net[c].st = "out" /\ backlog' = Append(backlog, c)
                 /\ lnReady' = TRUE
                 /\ \A d \in Conn : net'[d].st = IF d = c THEN "backlog" ELSE net[d].st
              \/ /\ UNCHANGED <<backlog, lnReady>>
                 /\ \A d \in Conn : net'[d].st = net[d].st
<1>1. PICK c \in Conn : connect(c) \/ send_chunk(c) \/ hang_up(c)
  BY DEF clients, client
<1>2. /\ pc # "crashed"
      /\ UNCHANGED <<pc, stop, batch, list, cfd, tn, route, ub, lost, again, faults,
                     phase, queue, running, done>>
  BY DEF clients, bounds, pool
<1>3. UNCHANGED <<fdt, files, rk, wk, lnOpen>>
  BY <1>1 DEF connect, send_chunk, hang_up
<1>4. CASE connect(c)
  <2>1. lnOpen /\ net[c].st = "out" /\ backlog' = Append(backlog, c) /\ lnReady' = TRUE
        /\ net' = [net EXCEPT ![c].st = "backlog"]
    BY <1>4 DEF connect
  <2>2. /\ net' \in [Conn -> Connection]
        /\ \A d \in Conn : net'[d].got = net[d].got /\ net'[d].rcvd = net[d].rcvd
        /\ \A d \in Conn : net'[d].st = IF d = c THEN "backlog" ELSE net[d].st
    BY <2>1 DEF Types, Connection
  <2> QED
    BY <1>2, <1>3, <2>1, <2>2
<1>5. CASE send_chunk(c)
  <2>1. net' = [net EXCEPT ![c].sent = @ + 1] /\ UNCHANGED <<backlog, lnReady>>
    BY <1>5 DEF send_chunk
  <2>2. net[c] \in Connection /\ net \in [Conn -> Connection]
    BY DEF Types
  <2>3. net[c].sent + 1 \in Nat
    BY <2>2 DEF Connection
  <2>4. /\ [net[c] EXCEPT !.sent = net[c].sent + 1] \in Connection
        /\ [net[c] EXCEPT !.sent = net[c].sent + 1].st = net[c].st
        /\ [net[c] EXCEPT !.sent = net[c].sent + 1].got = net[c].got
        /\ [net[c] EXCEPT !.sent = net[c].sent + 1].rcvd = net[c].rcvd
    BY <2>2, <2>3 DEF Connection
  <2>5. net' = [net EXCEPT ![c] = [net[c] EXCEPT !.sent = net[c].sent + 1]]
    BY <2>1, <2>2
  <2>6. /\ net' \in [Conn -> Connection]
        /\ \A d \in Conn : net'[d].got = net[d].got /\ net'[d].rcvd = net[d].rcvd
        /\ \A d \in Conn : net'[d].st = net[d].st
    BY <2>2, <2>4, <2>5
  <2> QED
    BY <1>2, <1>3, <2>1, <2>6
<1>6. CASE hang_up(c)
  <2>1. PICK h \in {"half", "gone"} : net' = [net EXCEPT ![c].hup = h]
    BY <1>6 DEF hang_up
  <2>2. UNCHANGED <<backlog, lnReady>>
    BY <1>6 DEF hang_up
  <2>3. net[c] \in Connection /\ net \in [Conn -> Connection]
    BY DEF Types
  <2>4. /\ [net[c] EXCEPT !.hup = h] \in Connection
        /\ [net[c] EXCEPT !.hup = h].st = net[c].st
        /\ [net[c] EXCEPT !.hup = h].got = net[c].got
        /\ [net[c] EXCEPT !.hup = h].rcvd = net[c].rcvd
    BY <2>3 DEF Connection
  <2>5. net' = [net EXCEPT ![c] = [net[c] EXCEPT !.hup = h]]
    BY <2>1, <2>3
  <2>6. /\ net' \in [Conn -> Connection]
        /\ \A d \in Conn : net'[d].got = net[d].got /\ net'[d].rcvd = net[d].rcvd
        /\ \A d \in Conn : net'[d].st = net[d].st
    BY <2>3, <2>4, <2>5
  <2> QED
    BY <1>2, <1>3, <2>2, <2>6
<1> QED
  BY <1>1, <1>4, <1>5, <1>6

LEMMA TypesClients ==
  ASSUME Types, clients
  PROVE  Types'
<1>1. PICK c \in Conn :
           /\ UNCHANGED <<fdt, rk, wk, lnOpen, pc, stop, batch, list, cfd, tn, route, ub,
                          again, faults, phase, queue, running, done>>
           /\ net' \in [Conn -> Connection]
           /\ \/ backlog' = Append(backlog, c) /\ lnReady' = TRUE
              \/ UNCHANGED <<backlog, lnReady>>
  BY ClientFacts
<1>2. backlog' \in Seq(Conn)
  BY <1>1, AppendProperties DEF Types
<1>3. lnReady' \in BOOLEAN
  BY <1>1 DEF Types
<1> QED
  BY <1>1, <1>2, <1>3, TypesFrom DEF Types, LoopTypes
-----------------------------------------------------------------------------
(* The list, the descriptor table and the backlog. *)
SameTasks == /\ Len(tn') = Len(tn)
             /\ \A t \in Tns : /\ tn'[t].fd = tn[t].fd /\ tn'[t].conn = tn[t].conn
                               /\ tn'[t].data = tn[t].data

(* What is enough for a step to keep Listing. *)
ListQuiet == /\ UNCHANGED <<fdt, list, cfd, backlog>>
             /\ SameTasks
             /\ \A c \in Conn : net'[c].st = net[c].st
             /\ faults' >= faults
             /\ pc = "crashed" => pc' = "crashed"

LEMMA TaskConn ==
  ASSUME Types
  PROVE  \A t \in Tns : tn[t].conn \in Conn /\ tn[t].fd \in Fd /\ tn[t] \in TnRecord
BY ListFacts DEF TnRecord

LEMMA NoFault ==
  ASSUME Types, faults' >= faults, faults' = 0
  PROVE  faults = 0
BY DEF Types, LoopTypes

LEMMA ListingQuiet ==
  ASSUME Types, Listing, ListQuiet
  PROVE  Listing'
<1> USE DEF ListQuiet
<1>1. Tns' = Tns /\ Node' = Node
  BY DEF Tns, Node, SameTasks
<1>2. (pc # "crashed" => BacklogInv)'
  BY ListFacts DEF Listing, BacklogInv, Distinct
<1>3. ListInv'
  <2>1. Distinct(list)' /\ \A c \in Node' : cfd'[c] \in Fd /\ net'[c].st \in {"open", "closed"}
    BY <1>1, ListFacts DEF Listing, ListInv, Distinct
  <2>2. \A t \in Tns' : /\ net'[tn'[t].conn].st \in {"open", "closed"}
                        /\ cfd'[tn'[t].conn] = tn'[t].fd
    BY <1>1, TaskConn DEF Listing, ListInv, SameTasks
  <2> QED
    BY <2>1, <2>2 DEF ListInv
<1>4. ListCoversDescriptors'
  <2> SUFFICES ASSUME pc' # "crashed"
               PROVE  /\ \A f \in Fd : fdt'[f] # None => fdt'[f] \in Node' /\ cfd'[fdt'[f]] = f
                      /\ faults' = 0 => \A c \in Node' : fdt'[cfd'[c]] = c
                      /\ \A c \in Conn : net'[c].st = "open" => \E f \in Fd : fdt'[f] = c
    BY DEF ListCoversDescriptors
  <2>1. /\ \A f \in Fd : fdt[f] # None => fdt[f] \in Node /\ cfd[fdt[f]] = f
        /\ faults = 0 => \A c \in Node : fdt[cfd[c]] = c
        /\ \A c \in Conn : net[c].st = "open" => \E f \in Fd : fdt[f] = c
    BY DEF Listing, ListCoversDescriptors
  <2> QED
    BY <1>1, <2>1, NoFault
<1> QED
  BY <1>2, <1>3, <1>4 DEF Listing

(* While the process lives, an open descriptor's node is listed, one and   *)
(* only one node has that descriptor and is connected.                     *)
LEMMA ListingUse ==
  ASSUME Types, Listing, pc # "crashed"
  PROVE  /\ \A f \in Fd : fdt[f] # None => fdt[f] \in Node /\ cfd[fdt[f]] = f
         /\ faults = 0 => \A c \in Node : fdt[cfd[c]] = c
         /\ \A c \in Conn : net[c].st = "open" => \E f \in Fd : fdt[f] = c
         /\ Distinct(backlog) /\ \A i \in 1..Len(backlog) : net[backlog[i]].st = "backlog"
         /\ Distinct(list) /\ \A c \in Node : cfd[c] \in Fd /\ net[c].st \in {"open", "closed"}
         /\ \A t \in Tns : /\ net[tn[t].conn].st \in {"open", "closed"}
                           /\ cfd[tn[t].conn] = tn[t].fd
BY Zenon DEF Listing, ListCoversDescriptors, BacklogInv, ListInv

(* A step that only removes the pending connections. *)
LEMMA ListingLeave ==
  ASSUME Types, Listing, leave_loop \/ kevent_fails
  PROVE  Listing'
<1>1. /\ backlog' = << >> /\ UNCHANGED <<fdt, list, cfd, tn>> /\ pc # "crashed"
      /\ faults' = faults \/ faults' = faults + 1
      /\ net' = [c \in Conn |-> IF net[c].st = "backlog"
                               THEN [net[c] EXCEPT !.st = "closed"] ELSE net[c]]
  BY DEF leave_loop, kevent_fails, fault, close_listener, bounds
<1>7. faults' = 0 => faults = 0
  BY <1>1 DEF Types, LoopTypes
<1>2. \A c \in Conn : net'[c].st = IF net[c].st = "backlog" THEN "closed" ELSE net[c].st
  BY <1>1 DEF Types, Connection
<1>3. BacklogInv'
  BY <1>1 DEF BacklogInv, Distinct
<1>4. Tns' = Tns /\ Node' = Node
  BY <1>1 DEF Tns, Node
<1>5. ListInv'
  <2>1. Distinct(list)' /\ \A c \in Node' : cfd'[c] \in Fd /\ net'[c].st \in {"open", "closed"}
    BY <1>1, <1>2, <1>4, ListFacts, ListingUse DEF Distinct
  <2>2. \A t \in Tns' : /\ net'[tn'[t].conn].st \in {"open", "closed"}
                        /\ cfd'[tn'[t].conn] = tn'[t].fd
    BY <1>1, <1>2, <1>4, TaskConn, ListingUse
  <2> QED
    BY <2>1, <2>2 DEF ListInv
<1>6. ListCoversDescriptors'
  <2>1. /\ \A f \in Fd : fdt[f] # None => fdt[f] \in Node /\ cfd[fdt[f]] = f
        /\ faults = 0 => \A c \in Node : fdt[cfd[c]] = c
        /\ \A c \in Conn : net[c].st = "open" => \E f \in Fd : fdt[f] = c
    BY <1>1, ListingUse
  <2> QED
    BY <1>1, <1>2, <1>4, <1>7, <2>1 DEF ListCoversDescriptors
<1> QED
  BY <1>3, <1>5, <1>6 DEF Listing

LEMMA ListingConnect ==
  ASSUME Types, Listing, clients
  PROVE  Listing'
<1>1. PICK c \in Conn :
        /\ pc # "crashed"
        /\ UNCHANGED <<fdt, pc, list, cfd, tn, faults>>
        /\ \/ /\ net[c].st = "out" /\ backlog' = Append(backlog, c)
              /\ \A d \in Conn : net'[d].st = IF d = c THEN "backlog" ELSE net[d].st
           \/ backlog' = backlog /\ \A d \in Conn : net'[d].st = net[d].st
  BY ClientFacts
<1>2. CASE backlog' = backlog /\ \A d \in Conn : net'[d].st = net[d].st
  <2>1. faults' >= faults
    BY <1>1 DEF Types, LoopTypes
  <2> QED
    BY <1>1, <1>2, <2>1, ListingQuiet DEF ListQuiet, SameTasks
<1>3. CASE /\ net[c].st = "out" /\ backlog' = Append(backlog, c)
           /\ \A d \in Conn : net'[d].st = IF d = c THEN "backlog" ELSE net[d].st
  <2>1. Tns' = Tns /\ Node' = Node
    BY <1>1 DEF Tns, Node
  <2>2. \A i \in 1..Len(backlog) : backlog[i] \in Conn /\ backlog[i] # c
    BY <1>1, <1>3, ListFacts, ListingUse
  <2>3. Distinct(backlog')
    BY <1>1, <1>3, <2>2, AppendDistinct, ListingUse DEF Types
  <2>4. \A i \in 1..Len(backlog') : net'[backlog'[i]].st = "backlog"
    <3> SUFFICES ASSUME NEW i \in 1..Len(backlog')
                 PROVE  net'[backlog'[i]].st = "backlog"
      OBVIOUS
    <3>1. Len(backlog') = Len(backlog) + 1 /\ Len(backlog) \in Nat
          /\ backlog'[Len(backlog) + 1] = c
          /\ \A k \in 1..Len(backlog) : backlog'[k] = backlog[k]
      BY <1>3, ListFacts, AppendProperties DEF Types
    <3>2. CASE i = Len(backlog) + 1
      BY <1>3, <3>1, <3>2
    <3>3. CASE i \in 1..Len(backlog)
      BY <1>1, <1>3, <2>2, <3>1, <3>3, ListingUse
    <3> QED
      BY <3>1, <3>2, <3>3
  <2>5. BacklogInv'
    BY <2>3, <2>4 DEF BacklogInv
  <2>6. ListInv'
    <3>1. Distinct(list)'
      BY <1>1, ListingUse DEF Distinct
    <3>2. \A d \in Node' : cfd'[d] \in Fd /\ net'[d].st \in {"open", "closed"}
      BY <1>1, <1>3, <2>1, ListFacts, ListingUse
    <3>3. \A t \in Tns' : /\ net'[tn'[t].conn].st \in {"open", "closed"}
                          /\ cfd'[tn'[t].conn] = tn'[t].fd
      BY <1>1, <1>3, <2>1, TaskConn, ListingUse
    <3> QED
      BY <3>1, <3>2, <3>3 DEF ListInv
  <2>7. ListCoversDescriptors'
    BY <1>1, <1>3, <2>1, ListingUse DEF ListCoversDescriptors
  <2> QED
    BY <2>5, <2>6, <2>7 DEF Listing
<1> QED
  BY <1>1, <1>2, <1>3

(* accept_client: the oldest pending connection is in no node and in no    *)
(* thread_node_t, and it gets a descriptor nobody has.                     *)
Accepts(c, f) == \/ accept_client(c, f)
                 \/ accept_client_nonblock_fails(c, f)
                 \/ accept_client_register_fails(c, f)

LEMMA AcceptFacts ==
  ASSUME Types, Listing, NEW c \in Conn, NEW f \in Fd, Accepts(c, f)
  PROVE  /\ pc = "accept" /\ pc' = "accept"
         /\ fdt[f] = None /\ net[c].st = "backlog" /\ c \notin Node
         /\ \A t \in Tns : tn[t].conn # c
         /\ BacklogInv'
         /\ UNCHANGED <<tn, wk, batch, queue, running>>
         /\ \A d \in Conn : net'[d].got = net[d].got
         /\ \A d \in Conn : d # c => net'[d].st = net[d].st
         /\ net'[c].st \in {"open", "closed"}
<1> USE DEF Accepts
<1>1. /\ pc = "accept" /\ pc' = "accept" /\ accept(c, f)
      /\ UNCHANGED <<tn, wk, batch, queue, running>>
  BY DEF accept_client, accept_client_nonblock_fails, accept_client_register_fails, pool
<1>2. /\ backlog # << >> /\ c = Head(backlog) /\ backlog' = Tail(backlog) /\ fdt[f] = None
  BY <1>1 DEF accept, lowest, FreeFds
<1>3. \/ net' = [net EXCEPT ![c].st = "open"]
      \/ net' = [net EXCEPT ![c].st = "closed"]
  BY Zenon DEF accept_client, accept_client_nonblock_fails, accept_client_register_fails,
               accepted_state
<1>4. /\ \A d \in Conn : net'[d].got = net[d].got
      /\ \A d \in Conn : d # c => net'[d].st = net[d].st
      /\ net'[c].st \in {"open", "closed"}
  <2>1. net \in [Conn -> Connection]
    BY DEF Types
  <2>2. CASE net' = [net EXCEPT ![c].st = "open"]
    BY <2>1, <2>2 DEF Connection
  <2>3. CASE net' = [net EXCEPT ![c].st = "closed"]
    BY <2>1, <2>3 DEF Connection
  <2> QED
    BY <1>3, <2>2, <2>3
<1>5. /\ backlog \in Seq(Conn) /\ c = backlog[1] /\ 1 \in 1..Len(backlog)
      /\ Len(backlog') = Len(backlog) - 1
      /\ \A k \in 1..Len(backlog)-1 : backlog'[k] = backlog[k + 1]
  BY <1>2, TailElements DEF Types
<1>6. /\ Distinct(backlog) /\ \A i \in 1..Len(backlog) : net[backlog[i]].st = "backlog"
      /\ \A d \in Node : net[d].st # "backlog"
      /\ \A t \in Tns : net[tn[t].conn].st # "backlog"
  BY <1>1, ListingUse
<1>7. net[c].st = "backlog" /\ c \notin Node /\ \A t \in Tns : tn[t].conn # c
  BY <1>5, <1>6
<1>8. Distinct(backlog')
  BY <1>2, <1>5, <1>6, TailDistinct
<1>9. \A i \in 1..Len(backlog') : net'[backlog'[i]].st = "backlog"
  <2> SUFFICES ASSUME NEW i \in 1..Len(backlog')
               PROVE  net'[backlog'[i]].st = "backlog"
    OBVIOUS
  <2>1. i \in 1..Len(backlog)-1 /\ i + 1 \in 1..Len(backlog)
    BY <1>5, ListFacts
  <2>2. backlog'[i] # c
    BY <1>2, <1>5, <1>6, <2>1, TailDistinct
  <2>3. backlog'[i] = backlog[i + 1] /\ backlog'[i] \in Conn
    BY <1>5, <2>1, ListFacts
  <2> QED
    BY <1>4, <1>6, <2>1, <2>2, <2>3
<1> QED
  BY <1>1, <1>2, <1>4, <1>7, <1>8, <1>9 DEF BacklogInv

(* The node accept_client adds. *)
LEMMA ListedFacts ==
  ASSUME Types, Listing, NEW c \in Conn, NEW f \in Fd, Accepts(c, f),
         insert_client(c), cfd' = [cfd EXCEPT ![c] = f]
  PROVE  /\ ListInv' /\ Node' = Node \cup {c}
         /\ cfd'[c] = f /\ \A d \in Conn : d # c => cfd'[d] = cfd[d]
<1>1. /\ c \notin Node /\ \A t \in Tns : tn[t].conn # c
      /\ UNCHANGED tn /\ net'[c].st \in {"open", "closed"} /\ pc # "crashed"
      /\ \A d \in Conn : d # c => net'[d].st = net[d].st
  BY AcceptFacts
<1>2. cfd'[c] = f /\ \A d \in Conn : d # c => cfd'[d] = cfd[d]
  BY DEF Types, LoopTypes
<1>3. list' = Append(list, c) /\ list \in Seq(Conn)
  BY DEF insert_client, Types, LoopTypes
<1>4. Node' = Node \cup {c}
  BY <1>3, ListFacts, AppendProperties DEF Node
<1>5. Distinct(list')
  <2>1. Distinct(list) /\ \A i \in 1..Len(list) : list[i] # c
    BY <1>1, ListingUse DEF Node
  <2> QED
    BY <1>3, <2>1, AppendDistinct
<1>6. \A d \in Node' : cfd'[d] \in Fd /\ net'[d].st \in {"open", "closed"}
  BY <1>1, <1>2, <1>4, ListFacts, ListingUse
<1>7. \A t \in Tns' : /\ net'[tn'[t].conn].st \in {"open", "closed"}
                      /\ cfd'[tn'[t].conn] = tn'[t].fd
  <2>1. Tns' = Tns
    BY <1>1 DEF Tns
  <2> QED
    BY <1>1, <1>2, <2>1, TaskConn, ListingUse
<1> QED
  BY <1>2, <1>4, <1>5, <1>6, <1>7 DEF ListInv

LEMMA ListingAccept ==
  ASSUME Types, Listing, NEW c \in Conn, NEW f \in Fd, accept_client(c, f)
  PROVE  Listing' /\ fdt' = [fdt EXCEPT ![f] = c]
<1> USE KernelAssumption
<1>1. /\ insert_client(c) /\ cfd' = [cfd EXCEPT ![c] = f] /\ fdt' = [fdt EXCEPT ![f] = c]
      /\ faults' = faults /\ Accepts(c, f)
  BY DEF accept_client, bounds, Accepts
<1>2. /\ BacklogInv' /\ ListInv' /\ Node' = Node \cup {c} /\ pc # "crashed"
      /\ cfd'[c] = f /\ fdt[f] = None /\ c \notin Node
      /\ \A d \in Conn : d # c => cfd'[d] = cfd[d] /\ net'[d].st = net[d].st
  <2>1. /\ BacklogInv' /\ pc = "accept" /\ fdt[f] = None /\ c \notin Node
        /\ \A d \in Conn : d # c => net'[d].st = net[d].st
    BY <1>1, AcceptFacts
  <2>2. /\ ListInv' /\ Node' = Node \cup {c} /\ cfd'[c] = f
        /\ \A d \in Conn : d # c => cfd'[d] = cfd[d]
    BY <1>1, ListedFacts
  <2> QED
    BY <2>1, <2>2
<1>3. /\ fdt'[f] = c /\ \A g \in Fd : g # f => fdt'[g] = fdt[g]
      /\ \A g \in Fd : fdt[g] \in Conn \cup {None}
  BY <1>1 DEF Types, LoopTypes
<1>4. \A g \in Fd : fdt'[g] # None => fdt'[g] \in Node' /\ cfd'[fdt'[g]] = g
  BY <1>2, <1>3, ListFacts, ListingUse
<1>5. faults' = 0 => \A d \in Node' : fdt'[cfd'[d]] = d
  <2> SUFFICES ASSUME faults' = 0, NEW d \in Node', d # c
               PROVE  fdt'[cfd'[d]] = d
    BY <1>2, <1>3
  <2>1. d \in Node /\ d \in Conn /\ fdt[cfd[d]] = d /\ cfd[d] \in Fd
    BY <1>1, <1>2, ListFacts, ListingUse
  <2> QED
    BY <1>2, <1>3, <2>1
<1>6. \A d \in Conn : net'[d].st = "open" => \E g \in Fd : fdt'[g] = d
  <2> SUFFICES ASSUME NEW d \in Conn, d # c, net'[d].st = "open"
               PROVE  \E g \in Fd : fdt'[g] = d
    BY <1>3
  <2>1. PICK g \in Fd : fdt[g] = d
    BY <1>2, ListingUse
  <2> QED
    BY <1>2, <1>3, <2>1
<1> QED
  BY <1>1, <1>2, <1>4, <1>5, <1>6 DEF Listing, ListCoversDescriptors

LEMMA ListingAcceptFails ==
  ASSUME Types, Listing, NEW c \in Conn, NEW f \in Fd,
         accept_client_nonblock_fails(c, f) \/ accept_client_register_fails(c, f)
  PROVE  Listing' /\ fdt' = fdt
<1>1. /\ fdt' = fdt /\ faults' = faults + 1 /\ Accepts(c, f) /\ net' = [net EXCEPT ![c].st = "closed"]
      /\ \/ UNCHANGED <<list, cfd>>
         \/ insert_client(c) /\ cfd' = [cfd EXCEPT ![c] = f]
  BY Zenon DEF accept_client_nonblock_fails, accept_client_register_fails, fault, Accepts
<1>2. /\ BacklogInv' /\ pc # "crashed" /\ c \notin Node /\ UNCHANGED tn
      /\ \A d \in Conn : d # c => net'[d].st = net[d].st
      /\ \A t \in Tns : tn[t].conn # c
  BY <1>1, AcceptFacts
<1>3. net'[c].st = "closed"
  BY <1>1 DEF Types, Connection
<1>4. /\ ListInv' /\ Node \subseteq Node'
      /\ \A d \in Node : cfd'[d] = cfd[d]
  <2>1. CASE UNCHANGED <<list, cfd>>
    <3>1. Node' = Node /\ Tns' = Tns
      BY <1>2, <2>1 DEF Node, Tns
    <3>2. Distinct(list)' /\ \A d \in Node' : cfd'[d] \in Fd /\ net'[d].st \in {"open", "closed"}
      BY <1>2, <2>1, <3>1, ListFacts, ListingUse DEF Distinct
    <3>3. \A t \in Tns' : /\ net'[tn'[t].conn].st \in {"open", "closed"}
                          /\ cfd'[tn'[t].conn] = tn'[t].fd
      BY <1>2, <2>1, <3>1, TaskConn, ListingUse
    <3> QED
      BY <2>1, <3>1, <3>2, <3>3 DEF ListInv
  <2>2. CASE insert_client(c) /\ cfd' = [cfd EXCEPT ![c] = f]
    BY <1>1, <1>2, <2>2, ListedFacts, ListFacts
  <2> QED
    BY <1>1, <2>1, <2>2
<1>5. \A g \in Fd : fdt'[g] # None => fdt'[g] \in Node' /\ cfd'[fdt'[g]] = g
  BY <1>1, <1>2, <1>4, ListingUse
<1>6. \A d \in Conn : net'[d].st = "open" => \E g \in Fd : fdt'[g] = d
  BY <1>1, <1>2, <1>3, ListingUse
<1>7. faults' # 0
  BY <1>1 DEF Types, LoopTypes
<1> QED
  BY <1>1, <1>2, <1>4, <1>5, <1>6, <1>7 DEF Listing, ListCoversDescriptors

LEMMA ListingCrash ==
  ASSUME Types, Listing, crash, pc # "crashed"
  PROVE  Listing'
<1>1. /\ pc' = "crashed" /\ UNCHANGED <<list, cfd, tn>>
      /\ net' = [c \in Conn |-> IF net[c].st \in {"backlog", "open"}
                               THEN [net[c] EXCEPT !.st = "closed"] ELSE net[c]]
  BY DEF crash
<1>2. \A c \in Conn : net'[c].st = net[c].st \/ net'[c].st = "closed"
  BY <1>1 DEF Types, Connection
<1>3. Node' = Node /\ Tns' = Tns
  BY <1>1 DEF Node, Tns
<1>4. Distinct(list)' /\ \A d \in Node' : cfd'[d] \in Fd /\ net'[d].st \in {"open", "closed"}
  BY <1>1, <1>2, <1>3, ListFacts, ListingUse DEF Distinct
<1>5. \A t \in Tns' : /\ net'[tn'[t].conn].st \in {"open", "closed"}
                      /\ cfd'[tn'[t].conn] = tn'[t].fd
  BY <1>1, <1>2, <1>3, TaskConn, ListingUse
<1> QED
  BY <1>1, <1>4, <1>5 DEF Listing, ListInv, ListCoversDescriptors

(* accept_client leaves its loop after an error: the client at the head of *)
(* the backlog may be gone.                                                *)
LEMMA AcceptErrorFacts ==
  ASSUME Types, Listing, accept_client_fails
  PROVE  /\ pc = "accept" /\ pc' = "dispatch" /\ faults' = faults + 1
         /\ UNCHANGED <<fdt, wk, batch, list, cfd, tn, queue, running, phase, lnOpen, route>>
         /\ lost \subseteq lost'
         /\ BacklogInv'
         /\ \A d \in Conn : net'[d].got = net[d].got
         /\ \A d \in Conn : \/ net'[d].st = net[d].st
                            \/ net[d].st = "backlog" /\ net'[d].st = "closed"
<1>1. /\ pc = "accept" /\ pc' = "dispatch" /\ faults' = faults + 1 /\ backlog # << >>
      /\ UNCHANGED <<fdt, wk, batch, list, cfd, tn, queue, running, phase, lnOpen, route>>
      /\ lost' = lost \cup Pending
  BY DEF accept_client_fails, fault, pool
<1>2. /\ Distinct(backlog) /\ \A i \in 1..Len(backlog) : net[backlog[i]].st = "backlog"
  BY <1>1, ListingUse
<1>3. CASE UNCHANGED <<net, backlog>>
  BY <1>1, <1>2, <1>3 DEF BacklogInv, Distinct
<1>4. CASE net' = [net EXCEPT ![Head(backlog)].st = "closed"] /\ backlog' = Tail(backlog)
  <2> DEFINE c == Head(backlog)
  <2>1. /\ backlog \in Seq(Conn) /\ c = backlog[1] /\ 1 \in 1..Len(backlog) /\ c \in Conn
        /\ Len(backlog') = Len(backlog) - 1
        /\ \A k \in 1..Len(backlog)-1 : backlog'[k] = backlog[k + 1]
    BY <1>1, <1>4, TailElements DEF Types
  <2>2. Distinct(backlog') /\ \A k \in 1..Len(backlog)-1 : backlog'[k] # c
    BY <1>1, <1>2, <1>4, <2>1, TailDistinct
  <2>3. net' = [net EXCEPT ![c].st = "closed"] /\ net[c].st = "backlog"
    BY <1>2, <1>4, <2>1
  <2> HIDE DEF c
  <2>4. /\ \A d \in Conn : net'[d].got = net[d].got
        /\ \A d \in Conn : net'[d].st = IF d = c THEN "closed" ELSE net[d].st
    BY <2>1, <2>3 DEF Types, Connection
  <2>5. \A i \in 1..Len(backlog') : net'[backlog'[i]].st = "backlog"
    <3> SUFFICES ASSUME NEW i \in 1..Len(backlog')
                 PROVE  net'[backlog'[i]].st = "backlog"
      OBVIOUS
    <3>1. i \in 1..Len(backlog)-1 /\ i + 1 \in 1..Len(backlog)
      BY <2>1, ListFacts
    <3>2. backlog'[i] = backlog[i + 1] /\ backlog'[i] \in Conn /\ backlog'[i] # c
      BY <2>1, <2>2, <3>1, ListFacts
    <3> QED
      BY <1>2, <2>4, <3>1, <3>2
  <2> QED
    BY <1>1, <2>2, <2>3, <2>4, <2>5 DEF BacklogInv
<1> QED
  BY <1>3, <1>4 DEF accept_client_fails

LEMMA ListingAcceptError ==
  ASSUME Types, Listing, accept_client_fails
  PROVE  Listing'
<1>1. /\ pc # "crashed" /\ BacklogInv' /\ UNCHANGED <<fdt, list, cfd, tn>> /\ faults' = faults + 1
      /\ \A d \in Conn : \/ net'[d].st = net[d].st
                         \/ net[d].st = "backlog" /\ net'[d].st = "closed"
  BY AcceptErrorFacts
<1>2. faults' # 0
  BY <1>1 DEF Types, LoopTypes
<1>3. Node' = Node /\ Tns' = Tns
  BY <1>1 DEF Node, Tns
<1>4. Distinct(list)' /\ \A d \in Node' : cfd'[d] \in Fd /\ net'[d].st \in {"open", "closed"}
  BY <1>1, <1>3, ListFacts, ListingUse DEF Distinct
<1>5. \A t \in Tns' : /\ net'[tn'[t].conn].st \in {"open", "closed"}
                      /\ cfd'[tn'[t].conn] = tn'[t].fd
  BY <1>1, <1>3, TaskConn, ListingUse
<1>6. \A g \in Fd : fdt'[g] # None => fdt'[g] \in Node' /\ cfd'[fdt'[g]] = g
  BY <1>1, <1>3, ListingUse
<1>7. \A d \in Conn : net'[d].st = "open" => \E g \in Fd : fdt'[g] = d
  BY <1>1, ListingUse
<1> QED
  BY <1>1, <1>2, <1>4, <1>5, <1>6, <1>7 DEF Listing, ListInv, ListCoversDescriptors

(* remove_client when it finds a node.  The node may be an older one that  *)
(* never had the descriptor: accept_client's failed EV_ADD leaves those.   *)
LEMMA RemovedFacts ==
  ASSUME Types, Listing, pc # "crashed", NEW f, NEW net0 \in [Conn -> Connection],
         \A c \in Conn : net0[c].st = net[c].st,
         NEW i \in 1..Len(list), search_client(f, i), close({f}, net0), remove_client_node(i)
  PROVE  /\ f \in Fd /\ cfd[list[i]] = f
         /\ fdt'[f] = None /\ \A g \in Fd : g # f => fdt'[g] = fdt[g] /\ wk'[g] = wk[g]
         /\ wk'[f] = None
         /\ \A c \in Conn : /\ net'[c].st = IF fdt[f] = c THEN "closed" ELSE net[c].st
                            /\ net'[c].got = net0[c].got
         /\ Node' = Node \ {list[i]}
         /\ Distinct(list')
<1>1. cfd[list[i]] = f /\ list[i] \in Node
  BY DEF search_client, Node
<1>2. f \in Fd
  BY <1>1, ListingUse
<1>3. /\ fdt'[f] = None /\ \A g \in Fd : g # f => fdt'[g] = fdt[g] /\ wk'[g] = wk[g]
      /\ wk'[f] = None
      /\ \A c \in Conn : /\ net'[c].st = IF fdt[f] = c THEN "closed" ELSE net[c].st
                         /\ net'[c].got = net0[c].got
  BY <1>2, CloseFacts
<1>4. Distinct(list) /\ list \in Seq(Conn)
  BY ListingUse DEF Types, LoopTypes
<1>5. list' = Without(list, i)
  BY DEF remove_client_node
<1>6. Distinct(Without(list, i))
  BY <1>4, WithoutElements
<1>7. {Without(list, i)[k] : k \in 1..Len(Without(list, i))} = Node \ {list[i]}
  BY <1>4, WithoutRange DEF Node
<1>8. Distinct(list')
  BY <1>5, <1>6 DEF Distinct
<1>9. Node' = Node \ {list[i]}
  BY <1>5, <1>7 DEF Node
<1> QED
  BY <1>1, <1>2, <1>3, <1>8, <1>9

LEMMA ListingRemove ==
  ASSUME Types, Listing, pc # "crashed", NEW f, NEW net0 \in [Conn -> Connection],
         \A c \in Conn : net0[c].st = net[c].st,
         remove_client(f, net0), UNCHANGED <<cfd, backlog>>, SameTasks, faults' >= faults
  PROVE  Listing'
<1>1. CASE search_fails(f) /\ net' = net0 /\ UNCHANGED <<fdt, files, rk, wk, list>>
  BY <1>1, ListingQuiet DEF ListQuiet
<1>2. ASSUME NEW i \in 1..Len(list), search_client(f, i), close({f}, net0), remove_client_node(i)
      PROVE  Listing'
  <2>1. /\ f \in Fd /\ cfd[list[i]] = f /\ fdt'[f] = None
        /\ \A g \in Fd : g # f => fdt'[g] = fdt[g]
        /\ \A c \in Conn : net'[c].st = IF fdt[f] = c THEN "closed" ELSE net[c].st
        /\ Node' = Node \ {list[i]}
        /\ Distinct(list')
    <3>1. /\ f \in Fd /\ cfd[list[i]] = f
          /\ fdt'[f] = None /\ \A g \in Fd : g # f => fdt'[g] = fdt[g] /\ wk'[g] = wk[g]
          /\ wk'[f] = None
          /\ \A c \in Conn : /\ net'[c].st = IF fdt[f] = c THEN "closed" ELSE net[c].st
                             /\ net'[c].got = net0[c].got
          /\ Node' = Node \ {list[i]}
          /\ Distinct(list')
      BY <1>2, RemovedFacts, Zenon
    <3> QED
      BY <3>1
  <2>2. BacklogInv'
    <3>1. \A k \in 1..Len(backlog) : net[backlog[k]].st = "backlog" /\ backlog[k] # fdt[f]
      BY <2>1, ListFacts, ListingUse, KernelAssumption
    <3> QED
      BY <2>1, <3>1, ListFacts, ListingUse DEF BacklogInv, Distinct
  <2>3. ListInv'
    <3>1. \A c \in Node' : cfd'[c] \in Fd /\ net'[c].st \in {"open", "closed"}
      BY <2>1, ListFacts, ListingUse
    <3>2. Tns' = Tns
      BY DEF Tns, SameTasks
    <3>3. \A t \in Tns' : /\ net'[tn'[t].conn].st \in {"open", "closed"}
                          /\ cfd'[tn'[t].conn] = tn'[t].fd
      BY <2>1, <3>2, TaskConn, ListingUse DEF SameTasks
    <3> QED
      BY <2>1, <3>1, <3>3 DEF ListInv
  <2>4. \A g \in Fd : fdt'[g] # None => fdt'[g] \in Node' /\ cfd'[fdt'[g]] = g
    BY <2>1, ListingUse
  <2>5. faults' = 0 => \A c \in Node' : fdt'[cfd'[c]] = c
    <3> SUFFICES ASSUME faults' = 0, NEW c \in Node'
                 PROVE  fdt'[cfd'[c]] = c
      OBVIOUS
    <3>1. /\ c \in Node /\ fdt[cfd[c]] = c /\ cfd[c] \in Fd
          /\ fdt[cfd[list[i]]] = list[i] /\ c # list[i]
      <4>1. c \in Node /\ c # list[i] /\ list[i] \in Node /\ faults = 0
        BY <2>1, NoFault DEF Node
      <4> QED
        BY <4>1, ListingUse
    <3> QED
      BY <2>1, <3>1
  <2>6. \A c \in Conn : net'[c].st = "open" => \E g \in Fd : fdt'[g] = c
    BY <2>1, ListingUse
  <2> QED
    BY <2>2, <2>3, <2>4, <2>5, <2>6 DEF Listing, ListCoversDescriptors
<1> QED
  BY <1>1, <1>2 DEF remove_client

(* free_list: no descriptor stays open. *)
LEMMA FreeListFacts ==
  ASSUME Types, Listing, free_list
  PROVE  /\ \A f \in Fd : fdt'[f] = None /\ wk'[f] \in {wk[f], None}
         /\ \A c \in Conn : net'[c].st # "open" /\ net'[c].got = net[c].got
         /\ \A c \in Conn : net'[c].st = net[c].st \/ net'[c].st = "closed"
<1>1. close({cfd[c] : c \in Node}, net) /\ pc # "crashed" /\ net \in [Conn -> Connection]
  BY DEF free_list, Types
<1>2. /\ \A f \in Fd : /\ fdt'[f] = IF f \in {cfd[c] : c \in Node} THEN None ELSE fdt[f]
                       /\ wk'[f] = IF f \in {cfd[c] : c \in Node} THEN None ELSE wk[f]
      /\ \A c \in Conn : /\ net'[c].st = IF \E f \in {cfd[d] : d \in Node} : fdt[f] = c
                                         THEN "closed" ELSE net[c].st
                         /\ net'[c].got = net[c].got
  BY <1>1, CloseFacts
<1>3. \A f \in Fd : fdt[f] # None => f \in {cfd[c] : c \in Node}
  BY <1>1, ListingUse
<1>4. \A f \in Fd : fdt'[f] = None
  BY <1>2, <1>3
<1>5. \A c \in Conn : net'[c].st # "open"
  <2> SUFFICES ASSUME NEW c \in Conn, net'[c].st = "open"
               PROVE  FALSE
    OBVIOUS
  <2>1. net[c].st = "open" /\ \A f \in {cfd[d] : d \in Node} : fdt[f] # c
    BY <1>2
  <2>2. PICK f \in Fd : fdt[f] = c
    BY <1>1, <2>1, ListingUse
  <2> QED
    BY <1>3, <2>1, <2>2, KernelAssumption
<1> QED
  BY <1>2, <1>4, <1>5

LEMMA ListingFree ==
  ASSUME Types, Listing, StageInv, free_list
  PROVE  Listing'
<1>1. /\ UNCHANGED <<cfd, backlog, tn>> /\ list' = << >> /\ pc = "free_list"
      /\ \A f \in Fd : fdt'[f] = None
      /\ \A c \in Conn : net'[c].st # "open"
      /\ \A c \in Conn : net'[c].st = net[c].st \/ net'[c].st = "closed"
  BY FreeListFacts DEF free_list
<1>2. backlog' = << >>
  <2>1. \A c \in Conn : net[c].st # "backlog"
    BY <1>1 DEF StageInv, Leaving
  <2>2. ~(1 \in 1..Len(backlog))
    BY <1>1, <2>1, ListFacts, ListingUse
  <2> QED
    BY <1>1, <2>2, EmptySeq DEF Types
<1>3. BacklogInv'
  BY <1>2 DEF BacklogInv, Distinct
<1>4. ListInv'
  <2>1. Distinct(list') /\ Node' = {}
    BY <1>1 DEF Distinct, Node
  <2>2. \A t \in Tns' : /\ net'[tn'[t].conn].st \in {"open", "closed"}
                        /\ cfd'[tn'[t].conn] = tn'[t].fd
    <3>1. Tns' = Tns
      BY <1>1 DEF Tns
    <3> QED
      BY <1>1, <3>1, TaskConn, ListingUse
  <2> QED
    BY <2>1, <2>2 DEF ListInv
<1>5. ListCoversDescriptors'
  BY <1>1 DEF ListCoversDescriptors, Node
<1> QED
  BY <1>3, <1>4, <1>5 DEF Listing

(* read_request: the new thread_node_t is of the connection it read. *)
LEMMA ReceivedSame ==
  ASSUME Types, NEW c \in Conn
  PROVE  \A d \in Conn : /\ all_received(c)[d].st = net[d].st
                         /\ all_received(c)[d].got = net[d].got
BY DEF all_received, received_upto, Types, Connection

LEMMA ListingRequest ==
  ASSUME Types, Listing, pc # "crashed", NEW f, read_request(f), ReadFrame
  PROVE  Listing'
<1>1. /\ f \in Fd /\ fdt[f] \in Conn /\ net' = all_received(fdt[f])
      /\ Len(tn) \in Nat /\ Len(tn') = Len(tn) + 1 /\ \A t \in Tns : tn'[t] = tn[t]
      /\ tn'[Len(tn) + 1] = NewTask(f)
      /\ UNCHANGED <<fdt, list, faults, cfd, backlog>>
  BY RequestFacts, ListFacts DEF ReadFrame
<1>2. \A c \in Conn : net'[c].st = net[c].st
  BY <1>1, ReceivedSame
<1>3. Node' = Node /\ \A t \in Tns' : t \in Tns \/ t = Len(tn) + 1
  BY <1>1 DEF Node, Tns
<1>4. BacklogInv'
  BY <1>1, <1>2, ListFacts, ListingUse DEF BacklogInv, Distinct
<1>5. Distinct(list)' /\ \A d \in Node' : cfd'[d] \in Fd /\ net'[d].st \in {"open", "closed"}
  BY <1>1, <1>2, <1>3, ListFacts, ListingUse DEF Distinct
<1>6. \A t \in Tns' : /\ net'[tn'[t].conn].st \in {"open", "closed"}
                      /\ cfd'[tn'[t].conn] = tn'[t].fd
  <2> SUFFICES ASSUME NEW t \in Tns'
               PROVE  /\ net'[tn'[t].conn].st \in {"open", "closed"}
                      /\ cfd'[tn'[t].conn] = tn'[t].fd
    OBVIOUS
  <2>1. CASE t \in Tns
    BY <1>1, <1>2, <2>1, TaskConn, ListingUse
  <2>2. CASE t = Len(tn) + 1
    <3>1. tn'[t].conn = fdt[f] /\ tn'[t].fd = f
      BY <1>1, <2>2 DEF NewTask
    <3>2. fdt[f] # None
      BY <1>1, KernelAssumption
    <3> QED
      BY <1>1, <1>2, <3>1, <3>2, ListingUse
  <2> QED
    BY <1>3, <2>1, <2>2
<1>7. ListCoversDescriptors'
  BY <1>1, <1>2, <1>3, ListingUse DEF ListCoversDescriptors
<1> QED
  BY <1>4, <1>5, <1>6, <1>7 DEF Listing, ListInv
-----------------------------------------------------------------------------
(* Who owns a thread_node_t.  Waiting: with the pool.                      *)
Waiting == Pool!Queued \cup running

LEMMA OwnerUse ==
  ASSUME Types, OwnerInv
  PROVE  /\ Distinct(queue) /\ Pool!Queued \cap running = {}
         /\ \A t \in Pool!Queued : tn[t].st = "read"
         /\ \A t \in running : tn[t].st # "freed"
         /\ \A f \in Fd : wk[f] # None =>
              /\ wk[f] \in Tns /\ tn[wk[f]].fd = f /\ tn[wk[f]].st = "built"
              /\ wk[f] \notin Waiting /\ Event("WRITE", f, wk[f], FALSE) \notin batch
         /\ \A e \in batch : e.filter = "WRITE" =>
              /\ e.udata \in Tns /\ tn[e.udata].st = "built" /\ e.udata \notin Waiting
              /\ e = Event("WRITE", tn[e.udata].fd, e.udata, FALSE)
         /\ Waiting \subseteq Tns
<1>1. /\ \A f \in Fd : wk[f] # None => wk[f] \in Tns
      /\ \A e \in batch : e.filter = "WRITE" => e.udata \in Tns
      /\ Waiting \subseteq Tns
  BY DEF Types, LoopTypes, Waiting
<1> QED
  BY <1>1 DEF OwnerInv, Waiting, WriteEvent

(* And the other way round, one part at a time. *)
LEMMA OwnerFrom ==
  ASSUME Distinct(queue'), Pool!Queued' \cap running' = {},
         \A t \in Pool!Queued' : tn'[t].st = "read",
         \A t \in running' : tn'[t].st # "freed",
         \A f \in Fd : wk'[f] # None =>
              /\ tn'[wk'[f]].fd = f /\ tn'[wk'[f]].st = "built"
              /\ wk'[f] \notin Pool!Queued' \cup running'
              /\ Event("WRITE", f, wk'[f], FALSE) \notin batch',
         \A e \in batch' : e.filter = "WRITE" =>
              /\ tn'[e.udata].st = "built" /\ e.udata \notin Pool!Queued' \cup running'
              /\ e = Event("WRITE", tn'[e.udata].fd, e.udata, FALSE)
  PROVE  OwnerInv'
BY DEF OwnerInv, WriteEvent, Distinct

(* A step that leaves the thread_node_t's and the pool alone and registers *)
(* nothing.                                                                *)
OwnerQuiet == /\ UNCHANGED <<tn, queue, running>>
              /\ \A f \in Fd : wk'[f] \in {wk[f], None}
              /\ batch' \subseteq batch

LEMMA OwnerStays ==
  ASSUME Types, OwnerInv, OwnerQuiet
  PROVE  OwnerInv'
<1>1. Pool!Queued' = Pool!Queued /\ running' = running /\ tn' = tn
  BY DEF OwnerQuiet, Pool!Queued
<1>2. Distinct(queue')
  BY DEF OwnerQuiet, OwnerInv
<1>3. \A f \in Fd : wk'[f] # None =>
        /\ tn'[wk'[f]].fd = f /\ tn'[wk'[f]].st = "built"
        /\ wk'[f] \notin Pool!Queued' \cup running'
        /\ Event("WRITE", f, wk'[f], FALSE) \notin batch'
  BY <1>1, OwnerUse DEF OwnerQuiet, Waiting
<1>4. \A e \in batch' : e.filter = "WRITE" =>
        /\ tn'[e.udata].st = "built" /\ e.udata \notin Pool!Queued' \cup running'
        /\ e = Event("WRITE", tn'[e.udata].fd, e.udata, FALSE)
  BY <1>1, OwnerUse DEF OwnerQuiet, Waiting
<1>5. /\ Pool!Queued' \cap running' = {}
      /\ \A t \in Pool!Queued' : tn'[t].st = "read"
      /\ \A t \in running' : tn'[t].st # "freed"
  BY <1>1, OwnerUse
<1> QED
  BY <1>2, <1>3, <1>4, <1>5, OwnerFrom

(* A read makes one thread_node_t, for the queue or for nobody. *)
LEMMA OwnerRequest ==
  ASSUME Types, OwnerInv, NEW f, read_request(f), batch' \subseteq batch
  PROVE  OwnerInv'
<1> DEFINE t == Len(tn) + 1
<1>1. /\ \A s \in Tns : tn'[s] = tn[s]
      /\ tn'[t] = NewTask(f) /\ UNCHANGED <<wk, running>>
      /\ queue' = Append(queue, t) \/ queue' = queue
  BY RequestFacts
<1>2. t \notin Tns /\ tn'[t].st = "read"
  BY <1>1, ListFacts DEF Tns, NewTask
<1> HIDE DEF t
<1>3. /\ Distinct(queue) /\ queue \in Seq(Tn) /\ t \notin Waiting
      /\ \A i \in 1..Len(queue) : queue[i] # t
      /\ Pool!Queued \subseteq Tns
  <2>1. Distinct(queue) /\ Waiting \subseteq Tns
    BY OwnerUse
  <2>2. queue \in Seq(Tn) /\ \A i \in 1..Len(queue) : queue[i] \in Tns
    BY QueueFacts DEF Types
  <2> QED
    BY <1>2, <2>1, <2>2 DEF Waiting
<1>4. Distinct(queue') /\ Pool!Queued' \subseteq Pool!Queued \cup {t}
  <2>1. CASE queue' = Append(queue, t)
    <3>1. t \in Tn
      BY RequestFacts DEF t
    <3>2. Distinct(Append(queue, t))
      BY <1>3, <3>1, AppendDistinct
    <3>3. {Append(queue, t)[i] : i \in 1..Len(Append(queue, t))} \subseteq Pool!Queued \cup {t}
      BY <1>3, <3>1, AppendProperties, QueueFacts
    <3> QED
      BY <2>1, <3>2, <3>3 DEF Pool!Queued
  <2>2. CASE queue' = queue
    BY <1>3, <2>2 DEF Pool!Queued
  <2> QED
    BY <1>1, <2>1, <2>2
<1>5. /\ Pool!Queued' \cap running' = {}
      /\ \A s \in Pool!Queued' : tn'[s].st = "read"
      /\ \A s \in running' : tn'[s].st # "freed"
  BY <1>1, <1>2, <1>3, <1>4, OwnerUse, QueueFacts DEF Waiting
<1>6. \A s \in Tns : s \notin Waiting => s \notin Pool!Queued' \cup running'
  BY <1>1, <1>2, <1>4 DEF Waiting
<1>7. \A g \in Fd : wk'[g] # None =>
        /\ tn'[wk'[g]].fd = g /\ tn'[wk'[g]].st = "built"
        /\ wk'[g] \notin Pool!Queued' \cup running'
        /\ Event("WRITE", g, wk'[g], FALSE) \notin batch'
  <2>1. /\ \A g \in Fd : wk[g] # None =>
             /\ wk[g] \in Tns /\ tn[wk[g]].fd = g /\ tn[wk[g]].st = "built"
             /\ wk[g] \notin Waiting /\ Event("WRITE", g, wk[g], FALSE) \notin batch
    BY OwnerUse
  <2> QED
    BY <1>1, <1>6, <2>1, Zenon
<1>8. \A e \in batch' : e.filter = "WRITE" =>
        /\ tn'[e.udata].st = "built" /\ e.udata \notin Pool!Queued' \cup running'
        /\ e = Event("WRITE", tn'[e.udata].fd, e.udata, FALSE)
  <2>1. \A e \in batch : e.filter = "WRITE" =>
              /\ e.udata \in Tns /\ tn[e.udata].st = "built" /\ e.udata \notin Waiting
              /\ e = Event("WRITE", tn[e.udata].fd, e.udata, FALSE)
    BY OwnerUse
  <2> QED
    BY <1>1, <1>6, <2>1, Zenon
<1> QED
  BY <1>4, <1>5, <1>7, <1>8, OwnerFrom

(* A worker takes the oldest task. *)
LEMMA StartedFacts ==
  ASSUME Types, OwnerInv, Pool!Start
  PROVE  /\ queue[1] \in Pool!Queued /\ running' = running \cup {queue[1]}
         /\ Pool!Queued' = Pool!Queued \ {queue[1]} /\ Distinct(queue')
<1>1. /\ queue # << >> /\ queue \in Seq(Tn) /\ Distinct(queue)
      /\ Head(queue) = queue[1] /\ 1 \in 1..Len(queue)
      /\ queue' = Tail(queue) /\ Len(queue') = Len(queue) - 1
      /\ \A k \in 1..Len(queue)-1 : queue'[k] = queue[k + 1] /\ k + 1 \in 1..Len(queue)
      /\ running' = running \cup {queue[1]}
  <2>1. queue \in Seq(Tn) /\ Distinct(queue)
    BY OwnerUse DEF Types
  <2>2. /\ queue # << >> /\ 1 \in 1..Len(queue)
        /\ queue' = Tail(queue) /\ Len(queue') = Len(queue) - 1
        /\ \A k \in 1..Len(queue)-1 : queue'[k] = queue[k + 1] /\ k + 1 \in 1..Len(queue)
        /\ running' = running \cup {queue[1]}
    BY StartFacts, Zenon
  <2>3. Head(queue) = queue[1]
    BY <2>1, <2>2, TailElements
  <2> QED
    BY <2>1, <2>2, <2>3, Zenon
<1>2. Distinct(queue') /\ \A k \in 1..Len(queue)-1 : queue'[k] # queue[1]
  BY <1>1, TailDistinct
<1>3. \A i \in 1..Len(queue) : i = 1 \/ \E k \in 1..Len(queue)-1 : i = k + 1
  <2> SUFFICES ASSUME NEW i \in 1..Len(queue), i # 1
               PROVE  \E k \in 1..Len(queue)-1 : i = k + 1
    OBVIOUS
  <2>1. i - 1 \in 1..Len(queue)-1 /\ i = (i - 1) + 1
    BY QueueFacts
  <2> QED
    BY <2>1
<1> DEFINE I == 1..Len(queue)
           K == 1..Len(queue)-1
<1>4. /\ 1 \in I /\ \A k \in K : queue'[k] = queue[k + 1] /\ k + 1 \in I /\ queue'[k] # queue[1]
      /\ \A i \in I : i = 1 \/ \E k \in K : i = k + 1
  BY <1>1, <1>2, <1>3
<1>5. Pool!Queued = {queue[i] : i \in I} /\ Pool!Queued' = {queue'[k] : k \in K}
  BY <1>1 DEF Pool!Queued
<1> HIDE DEF I, K
<1>6. Pool!Queued' = Pool!Queued \ {queue[1]} /\ queue[1] \in Pool!Queued
  BY <1>4, <1>5
<1> QED
  BY <1>1, <1>2, <1>6

LEMMA OwnerStart ==
  ASSUME Types, OwnerInv, start_task
  PROVE  OwnerInv'
<1>1. UNCHANGED <<tn, wk, batch>> /\ Pool!Start
  BY DEF start_task, kernel
<1>2. /\ queue[1] \in Pool!Queued /\ running' = running \cup {queue[1]}
      /\ Pool!Queued' = Pool!Queued \ {queue[1]} /\ Distinct(queue')
  BY <1>1, StartedFacts
<1>3. /\ Pool!Queued' \cap running' = {} /\ Pool!Queued' \cup running' = Waiting
      /\ \A t \in Pool!Queued' : tn'[t].st = "read"
      /\ \A t \in running' : tn'[t].st # "freed"
  BY <1>1, <1>2, OwnerUse DEF Waiting
<1>4. \A f \in Fd : wk'[f] # None =>
        /\ tn'[wk'[f]].fd = f /\ tn'[wk'[f]].st = "built"
        /\ wk'[f] \notin Pool!Queued' \cup running'
        /\ Event("WRITE", f, wk'[f], FALSE) \notin batch'
  BY <1>1, <1>3, OwnerUse
<1>5. \A e \in batch' : e.filter = "WRITE" =>
        /\ tn'[e.udata].st = "built" /\ e.udata \notin Pool!Queued' \cup running'
        /\ e = Event("WRITE", tn'[e.udata].fd, e.udata, FALSE)
  BY <1>1, <1>3, OwnerUse
<1> QED
  BY <1>2, <1>3, <1>4, <1>5, OwnerFrom

(* A worker forgets its thread_node_t, or gives it a response. *)
Forgets(t) == handle_conn_rejects(t) \/ handle_conn_register_fails(t)

LEMMA ForgetsFacts ==
  ASSUME Types, NEW t, Forgets(t)
  PROVE  /\ UNCHANGED <<net, fdt, wk, list, cfd, backlog, pc, batch, tn, lnOpen, route,
                        phase, queue>>
         /\ t \in running /\ t \in Tns /\ running' = running \ {t}
         /\ pc \notin {"stopped", "crashed"}
         /\ faults' = faults \/ faults' = faults + 1
         /\ lost \subseteq lost'
         /\ \/ tn[t].st = "read" /\ Rejected(t)
            \/ tn[t].st = "built" /\ fdt[tn[t].fd] \in lost'
<1>1. /\ UNCHANGED <<net, fdt, wk, list, cfd, backlog, pc, batch, tn, lnOpen, route>>
      /\ Pool!Finish(t) /\ pc \notin {"stopped", "crashed"}
  BY DEF Forgets, handle_conn_rejects, handle_conn_register_fails, kernel, working
<1>2. /\ faults' = faults \/ faults' = faults + 1
      /\ lost \subseteq lost'
      /\ \/ tn[t].st = "read" /\ Rejected(t)
         \/ tn[t].st = "built" /\ fdt[tn[t].fd] \in lost'
  <2>1. CASE handle_conn_rejects(t)
    BY <2>1 DEF handle_conn_rejects, bounds
  <2>2. CASE handle_conn_register_fails(t)
    BY <2>2 DEF handle_conn_register_fails, fault
  <2> QED
    BY <2>1, <2>2 DEF Forgets
<1> QED
  BY <1>1, <1>2, FinishFacts

LEMMA OwnerForgets ==
  ASSUME Types, OwnerInv, NEW t, Forgets(t)
  PROVE  OwnerInv'
<1>1. UNCHANGED <<tn, wk, batch, queue>> /\ running' = running \ {t} /\ Pool!Queued' = Pool!Queued
  BY ForgetsFacts DEF Pool!Queued
<1>2. Distinct(queue') /\ Pool!Queued' \cap running' = {}
  BY <1>1, OwnerUse DEF Distinct
<1>3. /\ \A s \in Pool!Queued' : tn'[s].st = "read"
      /\ \A s \in running' : tn'[s].st # "freed"
  BY <1>1, OwnerUse
<1>4. \A s : s \notin Waiting => s \notin Pool!Queued' \cup running'
  BY <1>1 DEF Waiting
<1> QED
  BY <1>1, <1>2, <1>3, <1>4, OwnerUse, OwnerFrom

LEMMA BuildsFacts ==
  ASSUME Types, NEW t, handle_conn_builds(t) \/ handle_conn_freed_route(t)
  PROVE  /\ UNCHANGED <<net, fdt, wk, backlog, lnOpen, pc, batch, list, cfd, route, lost,
                        faults, phase, queue, running>>
         /\ t \in running /\ t \in Tns /\ tn[t].st = "read"
         /\ Len(tn') = Len(tn) /\ pc \notin {"stopped", "crashed"}
         /\ \A s \in Tns : /\ tn'[s].fd = tn[s].fd /\ tn'[s].conn = tn[s].conn
                           /\ tn'[s].data = tn[s].data
                           /\ tn'[s].st = IF s = t THEN "built" ELSE tn[s].st
<1>1. /\ UNCHANGED <<net, fdt, wk, backlog, lnOpen, pc, batch, list, cfd, route, lost,
                     faults, phase, queue, running>>
      /\ t \in running /\ tn[t].st = "read" /\ tn' = [tn EXCEPT ![t].st = "built"]
      /\ pc \notin {"stopped", "crashed"}
  BY DEF handle_conn_builds, handle_conn_freed_route, LooksUpFreedRoute, working, bounds, pool
<1>2. t \in Tns
  BY <1>1, QueueFacts
<1> QED
  BY <1>1, <1>2, StateFacts

LEMMA OwnerBuilds ==
  ASSUME Types, OwnerInv, NEW t, handle_conn_builds(t) \/ handle_conn_freed_route(t)
  PROVE  OwnerInv'
<1>1. UNCHANGED <<wk, batch, queue, running>> /\ Pool!Queued' = Pool!Queued
  BY BuildsFacts DEF Pool!Queued
<1>2. /\ t \in running /\ t \in Tns
      /\ \A s \in Tns : /\ tn'[s].fd = tn[s].fd
                        /\ tn'[s].st = IF s = t THEN "built" ELSE tn[s].st
  BY BuildsFacts
<1>3. Distinct(queue') /\ Pool!Queued' \cap running' = {}
  BY <1>1, OwnerUse DEF Distinct
<1>4. /\ \A s \in Pool!Queued' : tn'[s].st = "read"
      /\ \A s \in running' : tn'[s].st # "freed"
  BY <1>1, <1>2, OwnerUse DEF Waiting
<1>5. Pool!Queued' \cup running' = Waiting
  BY <1>1 DEF Waiting
<1>6. \A f \in Fd : wk'[f] # None =>
        /\ tn'[wk'[f]].fd = f /\ tn'[wk'[f]].st = "built"
        /\ wk'[f] \notin Pool!Queued' \cup running'
        /\ Event("WRITE", f, wk'[f], FALSE) \notin batch'
  BY <1>1, <1>2, <1>5, OwnerUse
<1>7. \A e \in batch' : e.filter = "WRITE" =>
        /\ tn'[e.udata].st = "built" /\ e.udata \notin Pool!Queued' \cup running'
        /\ e = Event("WRITE", tn'[e.udata].fd, e.udata, FALSE)
  BY <1>1, <1>2, <1>5, OwnerUse
<1> QED
  BY <1>3, <1>4, <1>6, <1>7, OwnerFrom

(* The registration takes the thread_node_t over from the worker. *)
LEMMA RegistersFacts ==
  ASSUME Types, NEW t, handle_conn_registers(t)
  PROVE  /\ UNCHANGED <<net, fdt, rk, backlog, lnReady, lnOpen, pc, stop, batch, list, cfd, tn,
                        route, lost, faults, phase, queue>>
         /\ t \in running /\ t \in Tns /\ running' = running \ {t} /\ tn[t].st = "built"
         /\ tn[t].fd \in Fd /\ pc \notin {"stopped", "crashed"}
         /\ \A f \in Fd : \/ wk'[f] = wk[f] /\ (f = tn[t].fd => fdt[f] = None)
                          \/ f = tn[t].fd /\ wk'[f] = t
<1>1. /\ UNCHANGED <<net, fdt, rk, backlog, lnReady, lnOpen, pc, stop, batch, list, cfd, tn,
                     route, lost, faults>>
      /\ tn[t].st = "built" /\ Pool!Finish(t) /\ pc \notin {"stopped", "crashed"}
      /\ \/ wk' = [wk EXCEPT ![tn[t].fd] = t]
         \/ fdt[tn[t].fd] = None /\ wk' = wk
  BY DEF handle_conn_registers, working, bounds
<1>2. t \in running /\ t \in Tns /\ running' = running \ {t} /\ UNCHANGED <<phase, queue>>
  BY <1>1, FinishFacts
<1>3. tn[t].fd \in Fd
  BY <1>2, TaskConn
<1>4. \A f \in Fd : \/ wk'[f] = wk[f] /\ (f = tn[t].fd => fdt[f] = None)
                    \/ f = tn[t].fd /\ wk'[f] = t
  BY <1>1, <1>3 DEF Types, LoopTypes
<1> QED
  BY <1>1, <1>2, <1>3, <1>4

LEMMA OwnerRegisters ==
  ASSUME Types, OwnerInv, NEW t, handle_conn_registers(t)
  PROVE  OwnerInv'
<1>1. /\ UNCHANGED <<batch, tn, queue>>
      /\ t \in running /\ t \in Tns /\ running' = running \ {t} /\ tn[t].st = "built"
      /\ \A f \in Fd : \/ wk'[f] = wk[f] /\ (f = tn[t].fd => fdt[f] = None)
                       \/ f = tn[t].fd /\ wk'[f] = t
  BY RegistersFacts
<1>2. Pool!Queued' = Pool!Queued
  BY <1>1 DEF Pool!Queued
<1>3. Distinct(queue') /\ Pool!Queued' \cap running' = {}
  BY <1>1, <1>2, OwnerUse DEF Distinct
<1>4. /\ \A s \in Pool!Queued' : tn'[s].st = "read"
      /\ \A s \in running' : tn'[s].st # "freed"
  BY <1>1, <1>2, OwnerUse
<1>5. /\ \A s : s \notin Waiting => s \notin Pool!Queued' \cup running'
      /\ t \notin Pool!Queued' \cup running' /\ t \in Waiting
  BY <1>1, <1>2, OwnerUse DEF Waiting
<1>6. \A f \in Fd : wk'[f] # None =>
        /\ tn'[wk'[f]].fd = f /\ tn'[wk'[f]].st = "built"
        /\ wk'[f] \notin Pool!Queued' \cup running'
        /\ Event("WRITE", f, wk'[f], FALSE) \notin batch'
  <2> SUFFICES ASSUME NEW f \in Fd, wk'[f] # None
               PROVE  /\ tn'[wk'[f]].fd = f /\ tn'[wk'[f]].st = "built"
                      /\ wk'[f] \notin Pool!Queued' \cup running'
                      /\ Event("WRITE", f, wk'[f], FALSE) \notin batch'
    OBVIOUS
  <2>1. CASE wk'[f] = wk[f]
    BY <1>1, <1>5, <2>1, OwnerUse
  <2>2. CASE wk'[f] = t /\ f = tn[t].fd
    <3>1. \A e \in batch : e.filter = "WRITE" => e.udata \notin Waiting
      BY OwnerUse
    <3>2. Event("WRITE", f, t, FALSE) \notin batch
      BY <1>5, <3>1 DEF Event
    <3> QED
      BY <1>1, <1>5, <2>2, <3>2
  <2> QED
    BY <1>1, <2>1, <2>2
<1>7. \A e \in batch' : e.filter = "WRITE" =>
        /\ tn'[e.udata].st = "built" /\ e.udata \notin Pool!Queued' \cup running'
        /\ e = Event("WRITE", tn'[e.udata].fd, e.udata, FALSE)
  BY <1>1, <1>5, OwnerUse
<1> QED
  BY <1>3, <1>4, <1>6, <1>7, OwnerFrom

(* kevent hands every registered thread_node_t over to the batch. *)
LEMMA ReportFacts ==
  ASSUME Types, return_from_kevent
  PROVE  /\ pc = "kevent" /\ pc' = "dispatch" /\ batch' = ReadyEvents
         /\ \A f \in Fd : wk'[f] = None
         /\ UNCHANGED <<net, fdt, backlog, lnOpen, list, cfd, tn, route, lost, faults,
                        phase, queue, running>>
         /\ \A e \in ReadyEvents : e.filter = "WRITE" =>
              \E f \in Fd : wk[f] # None /\ e = Event("WRITE", f, wk[f], FALSE)
         /\ \A f \in Fd : wk[f] # None => Event("WRITE", f, wk[f], FALSE) \in ReadyEvents
<1>1. /\ pc = "kevent" /\ pc' = "dispatch" /\ batch' = ReadyEvents
      /\ \A f \in Fd : wk'[f] = None
      /\ UNCHANGED <<net, fdt, backlog, lnOpen, list, cfd, tn, route, lost, faults,
                     phase, queue, running>>
  BY DEF return_from_kevent, kevent_report, bounds, pool
<1>2. \A e \in ReadyEvents : e.filter = "WRITE" =>
        \E f \in Fd : wk[f] # None /\ e = Event("WRITE", f, wk[f], FALSE)
  BY DEF ReadyEvents, Event
<1>3. \A f \in Fd : wk[f] # None => Event("WRITE", f, wk[f], FALSE) \in ReadyEvents
  BY DEF ReadyEvents
<1> QED
  BY <1>1, <1>2, <1>3

LEMMA OwnerReport ==
  ASSUME Types, OwnerInv, return_from_kevent
  PROVE  OwnerInv'
<1>1. /\ batch' = ReadyEvents /\ UNCHANGED <<tn, queue, running>>
      /\ \A f \in Fd : wk'[f] = None
      /\ \A e \in ReadyEvents : e.filter = "WRITE" =>
           \E f \in Fd : wk[f] # None /\ e = Event("WRITE", f, wk[f], FALSE)
  BY ReportFacts
<1>2. Pool!Queued' = Pool!Queued
  BY <1>1 DEF Pool!Queued
<1>3. Distinct(queue') /\ Pool!Queued' \cap running' = {}
  BY <1>1, <1>2, OwnerUse DEF Distinct
<1>4. /\ \A s \in Pool!Queued' : tn'[s].st = "read"
      /\ \A s \in running' : tn'[s].st # "freed"
  BY <1>1, <1>2, OwnerUse
<1>5. Pool!Queued' \cup running' = Waiting
  BY <1>1, <1>2 DEF Waiting
<1>6. \A e \in batch' : e.filter = "WRITE" =>
        /\ tn'[e.udata].st = "built" /\ e.udata \notin Pool!Queued' \cup running'
        /\ e = Event("WRITE", tn'[e.udata].fd, e.udata, FALSE)
  <2> SUFFICES ASSUME NEW e \in batch', e.filter = "WRITE"
               PROVE  /\ tn'[e.udata].st = "built" /\ e.udata \notin Pool!Queued' \cup running'
                      /\ e = Event("WRITE", tn'[e.udata].fd, e.udata, FALSE)
    OBVIOUS
  <2>1. PICK f \in Fd : wk[f] # None /\ e = Event("WRITE", f, wk[f], FALSE)
    BY <1>1
  <2>2. e.udata = wk[f]
    BY <2>1 DEF Event
  <2>3. /\ tn[wk[f]].fd = f /\ tn[wk[f]].st = "built" /\ wk[f] \notin Waiting
    BY <2>1, OwnerUse
  <2> QED
    BY <1>1, <1>5, <2>1, <2>2, <2>3, Zenon
<1> QED
  BY <1>1, <1>3, <1>4, <1>6, OwnerFrom

(* write_to_client has the event's thread_node_t for itself. *)
LEMMA RemoveWrites ==
  ASSUME Types, NEW f, NEW net0 \in [Conn -> Connection], remove_client(f, net0)
  PROVE  /\ \A g \in Fd : /\ fdt'[g] \in {fdt[g], None} /\ wk'[g] \in {wk[g], None}
                          /\ fdt'[g] # None => wk'[g] = wk[g]
         /\ \A c \in Conn : /\ net'[c].got = net0[c].got
                            /\ net0[c].st = "closed" => net'[c].st = "closed"
                            /\ net'[c].st \in {net0[c].st, "closed"}
<1>1. CASE search_fails(f) /\ net' = net0 /\ UNCHANGED <<fdt, files, rk, wk, list>>
  BY <1>1
<1>2. ASSUME NEW i \in 1..Len(list), close({f}, net0)
      PROVE  /\ \A g \in Fd : /\ fdt'[g] \in {fdt[g], None} /\ wk'[g] \in {wk[g], None}
                              /\ fdt'[g] # None => wk'[g] = wk[g]
             /\ \A c \in Conn : /\ net'[c].got = net0[c].got
                                /\ net0[c].st = "closed" => net'[c].st = "closed"
                                /\ net'[c].st \in {net0[c].st, "closed"}
  BY <1>2, CloseFacts
<1> QED
  BY <1>1, <1>2 DEF remove_client

LEMMA SentSame ==
  ASSUME Types, NEW c \in Conn, NEW t \in Tns, NEW n \in Nat
  PROVE  \A d \in Conn : sent_to(c, t, n)[d].st = net[d].st
BY DEF sent_to, Types, Connection

LEMMA WriteAllFacts ==
  ASSUME Types, NEW e, handle_write(e), write_all(e.udata)
  PROVE  /\ fdt[tn[e.udata].fd] \in Conn
         /\ sent_to(fdt[tn[e.udata].fd], e.udata, RespLen) \in [Conn -> Connection]
         /\ remove_client(tn[e.udata].fd, sent_to(fdt[tn[e.udata].fd], e.udata, RespLen))
         /\ SameTasks
         /\ \A s \in Tns : tn'[s].st = IF s = e.udata THEN "freed" ELSE tn[s].st
         /\ \A g \in Fd : /\ fdt'[g] \in {fdt[g], None} /\ wk'[g] \in {wk[g], None}
                          /\ fdt'[g] # None => wk'[g] = wk[g]
         /\ UNCHANGED <<lost, faults>>
<1> DEFINE t == e.udata
           f == tn[t].fd
<1>1. t \in Tns /\ f \in Fd /\ fdt[f] \in Conn \cup {None}
  BY WriteFacts
<1>2. /\ fdt[f] # None /\ remove_client(f, sent_to(fdt[f], t, RespLen))
      /\ tn' = [tn EXCEPT ![t].st = "freed"] /\ UNCHANGED <<lost, faults>>
  BY DEF write_all, bounds
<1> HIDE DEF t, f
<1>3. fdt[f] \in Conn /\ sent_to(fdt[f], t, RespLen) \in [Conn -> Connection]
  BY <1>1, <1>2, NetTypes, RespLenAssumption
<1>4. SameTasks /\ \A s \in Tns : tn'[s].st = IF s = t THEN "freed" ELSE tn[s].st
  BY <1>1, <1>2, StateFacts DEF SameTasks
<1>5. \A g \in Fd : /\ fdt'[g] \in {fdt[g], None} /\ wk'[g] \in {wk[g], None}
                    /\ fdt'[g] # None => wk'[g] = wk[g]
  BY <1>2, <1>3, RemoveWrites
<1> QED
  BY <1>2, <1>3, <1>4, <1>5 DEF t, f

LEMMA OwnerWriteAll ==
  ASSUME Types, OwnerInv, NEW e, handle_write(e), write_all(e.udata)
  PROVE  OwnerInv'
<1> DEFINE t == e.udata
<1>1. /\ t \in Tns /\ e \in batch /\ batch' = batch \ {e} /\ UNCHANGED <<queue, running>>
      /\ t \notin Waiting /\ e = Event("WRITE", tn[t].fd, t, FALSE)
  BY WriteFacts, OwnerUse
<1>2. /\ \A s \in Tns : tn'[s].fd = tn[s].fd
      /\ \A s \in Tns : tn'[s].st = IF s = t THEN "freed" ELSE tn[s].st
      /\ \A g \in Fd : wk'[g] \in {wk[g], None}
  BY WriteAllFacts DEF SameTasks
<1> HIDE DEF t
<1>3. Pool!Queued' = Pool!Queued /\ Pool!Queued' \cup running' = Waiting
  BY <1>1 DEF Pool!Queued, Waiting
<1>4. Distinct(queue') /\ Pool!Queued' \cap running' = {}
  BY <1>1, <1>3, OwnerUse DEF Distinct
<1>5. /\ \A s \in Pool!Queued' : tn'[s].st = "read"
      /\ \A s \in running' : tn'[s].st # "freed"
  <2>1. \A s \in Waiting : s \in Tns /\ s # t
    BY <1>1, OwnerUse
  <2>2. /\ \A s \in Pool!Queued : tn[s].st = "read"
        /\ \A s \in running : tn[s].st # "freed"
    BY OwnerUse
  <2> QED
    BY <1>1, <1>2, <1>3, <2>1, <2>2 DEF Waiting
<1>6. \A f \in Fd : wk'[f] # None =>
        /\ tn'[wk'[f]].fd = f /\ tn'[wk'[f]].st = "built"
        /\ wk'[f] \notin Pool!Queued' \cup running'
        /\ Event("WRITE", f, wk'[f], FALSE) \notin batch'
  <2>1. \A f \in Fd : wk[f] # None =>
             /\ wk[f] \in Tns /\ tn[wk[f]].fd = f /\ tn[wk[f]].st = "built"
             /\ wk[f] \notin Waiting /\ Event("WRITE", f, wk[f], FALSE) \notin batch
    BY OwnerUse
  <2>2. \A f \in Fd : wk[f] # None => wk[f] # t
    BY <1>1, <2>1
  <2>3. \A f \in Fd : wk'[f] # None => wk'[f] = wk[f]
    BY <1>2
  <2>4. batch' \subseteq batch
    BY <1>1
  <2> SUFFICES ASSUME NEW f \in Fd, wk'[f] # None
               PROVE  /\ tn'[wk'[f]].fd = f /\ tn'[wk'[f]].st = "built"
                      /\ wk'[f] \notin Pool!Queued' \cup running'
                      /\ Event("WRITE", f, wk'[f], FALSE) \notin batch'
    OBVIOUS
  <2>5. wk'[f] = wk[f] /\ wk[f] # None
    BY <2>3
  <2>6. wk[f] \in Tns /\ wk[f] # t /\ tn[wk[f]].fd = f /\ tn[wk[f]].st = "built"
    BY <2>1, <2>2, <2>5
  <2>7. tn'[wk[f]].fd = f /\ tn'[wk[f]].st = "built"
    BY <1>2, <2>6
  <2>8. wk[f] \notin Waiting /\ Event("WRITE", f, wk[f], FALSE) \notin batch
    BY <2>1, <2>5
  <2> HIDE DEF Event
  <2> QED
    BY <1>3, <2>4, <2>5, <2>7, <2>8
<1>7. \A d \in batch' : d.filter = "WRITE" =>
        /\ tn'[d.udata].st = "built" /\ d.udata \notin Pool!Queued' \cup running'
        /\ d = Event("WRITE", tn'[d.udata].fd, d.udata, FALSE)
  <2>1. \A d \in batch : d.filter = "WRITE" =>
              /\ d.udata \in Tns /\ tn[d.udata].st = "built" /\ d.udata \notin Waiting
              /\ d = Event("WRITE", tn[d.udata].fd, d.udata, FALSE)
    BY OwnerUse
  <2>2. \A d \in batch' : d.filter = "WRITE" => d.udata # t
    BY <1>1, <2>1
  <2>3. batch' \subseteq batch
    BY <1>1
  <2> QED
    BY <1>2, <1>3, <2>1, <2>2, <2>3
<1> QED
  BY <1>4, <1>5, <1>6, <1>7, OwnerFrom

(* A part of the response is sent, and its registration renewed or not. *)
SendsSome(t, n) == write_some(t, n) \/ write_some_register_fails(t, n)

LEMMA WriteSomeFacts ==
  ASSUME Types, NEW e, handle_write(e), NEW n \in 0..RespLen-1, SendsSome(e.udata, n)
  PROVE  /\ fdt[tn[e.udata].fd] \in Conn /\ n \in Nat
         /\ net' = sent_to(fdt[tn[e.udata].fd], e.udata, n)
         /\ UNCHANGED <<fdt, list, tn>> /\ lost \subseteq lost'
         /\ faults' = faults \/ faults' = faults + 1
         /\ \/ \A g \in Fd : wk'[g] = IF g = tn[e.udata].fd THEN e.udata ELSE wk[g]
            \/ wk' = wk /\ fdt[tn[e.udata].fd] \in lost'
<1> DEFINE t == e.udata
           f == tn[t].fd
<1>1. t \in Tns /\ f \in Fd /\ fdt[f] \in Conn \cup {None}
  BY WriteFacts
<1>2. /\ fdt[f] # None /\ net' = sent_to(fdt[f], t, n)
      /\ UNCHANGED <<fdt, list, tn>> /\ lost \subseteq lost'
      /\ faults' = faults \/ faults' = faults + 1
      /\ \/ wk' = [wk EXCEPT ![f] = t]
         \/ wk' = wk /\ fdt[f] \in lost'
  BY DEF SendsSome, write_some, write_some_register_fails, send_some, fault
<1> HIDE DEF t, f
<1>3. \/ \A g \in Fd : wk'[g] = IF g = f THEN t ELSE wk[g]
      \/ wk' = wk /\ fdt[f] \in lost'
  BY <1>1, <1>2 DEF Types, LoopTypes
<1> QED
  BY <1>1, <1>2, <1>3, RespLenAssumption DEF t, f

LEMMA OwnerWriteSome ==
  ASSUME Types, OwnerInv, NEW e, handle_write(e), NEW n \in 0..RespLen-1,
         SendsSome(e.udata, n)
  PROVE  OwnerInv'
<1> DEFINE t == e.udata
<1>1. /\ t \in Tns /\ e \in batch /\ batch' = batch \ {e} /\ UNCHANGED <<queue, running, tn>>
      /\ t \notin Waiting /\ e = Event("WRITE", tn[t].fd, t, FALSE) /\ tn[t].st = "built"
      /\ \A g \in Fd : wk'[g] = wk[g] \/ (wk'[g] = t /\ g = tn[t].fd)
  <2>1. /\ t \in Tns /\ e \in batch /\ e.filter = "WRITE" /\ batch' = batch \ {e}
        /\ UNCHANGED <<queue, running>>
    BY WriteFacts
  <2>2. UNCHANGED tn /\ \A g \in Fd : wk'[g] = wk[g] \/ (wk'[g] = t /\ g = tn[t].fd)
    BY WriteSomeFacts
  <2>3. t \notin Waiting /\ e = Event("WRITE", tn[t].fd, t, FALSE) /\ tn[t].st = "built"
    BY <2>1, OwnerUse
  <2> QED
    BY <2>1, <2>2, <2>3
<1> HIDE DEF t
<1>2. Pool!Queued' = Pool!Queued /\ Pool!Queued' \cup running' = Waiting
  BY <1>1 DEF Pool!Queued, Waiting
<1>3. Distinct(queue') /\ Pool!Queued' \cap running' = {}
  BY <1>1, <1>2, OwnerUse DEF Distinct
<1>4. /\ \A s \in Pool!Queued' : tn'[s].st = "read"
      /\ \A s \in running' : tn'[s].st # "freed"
  BY <1>1, <1>2, OwnerUse
<1>5. \A f \in Fd : wk'[f] # None =>
        /\ tn'[wk'[f]].fd = f /\ tn'[wk'[f]].st = "built"
        /\ wk'[f] \notin Pool!Queued' \cup running'
        /\ Event("WRITE", f, wk'[f], FALSE) \notin batch'
  <2>1. \A f \in Fd : wk[f] # None =>
             /\ wk[f] \in Tns /\ tn[wk[f]].fd = f /\ tn[wk[f]].st = "built"
             /\ wk[f] \notin Waiting /\ Event("WRITE", f, wk[f], FALSE) \notin batch
    BY OwnerUse
  <2> QED
    BY <1>1, <1>2, <2>1
<1>6. \A d \in batch' : d.filter = "WRITE" =>
        /\ tn'[d.udata].st = "built" /\ d.udata \notin Pool!Queued' \cup running'
        /\ d = Event("WRITE", tn'[d.udata].fd, d.udata, FALSE)
  BY <1>1, <1>2, OwnerUse
<1> QED
  BY <1>3, <1>4, <1>5, <1>6, OwnerFrom
-----------------------------------------------------------------------------
(* Who will answer the connection at f. *)
Holds(t, f) == \/ t \in Waiting
               \/ Event("WRITE", f, t, FALSE) \in batch
               \/ wk[f] = t

Answering(f) == \E t \in Tns : tn[t].fd = f /\ tn[t].st = "built" /\ Holds(t, f)

Unbuilt(f) == \A t \in Tns : tn[t].conn = fdt[f] =>
                tn[t].st = "read" /\ (t \in Waiting \/ Rejected(t))

LEMMA ServedParts ==
  ServedInv <=> \A f \in Fd : fdt[f] # None => Answering(f) \/ Unbuilt(f) \/ fdt[f] \in lost
BY DEF ServedInv, Held, WriteEvent, Holds, Answering, Unbuilt, Waiting

(* The same of the next state. *)
LEMMA ServedFrom ==
  ASSUME \A f \in Fd : fdt'[f] # None => Answering(f)' \/ Unbuilt(f)' \/ fdt'[f] \in lost'
  PROVE  ServedInv'
BY DEF ServedInv, Held, WriteEvent, Holds, Answering, Unbuilt, Waiting

(* A step that takes only a rejected thread_node_t from the workers, and   *)
(* no registration or event from a descriptor that stays open.             *)
ServedQuiet ==
  /\ UNCHANGED tn /\ lost \subseteq lost'
  /\ \A t \in Waiting : \/ t \in Pool!Queued' \cup running'
                        \/ tn[t].st = "read" /\ Rejected(t)
  /\ \A f \in Fd : /\ fdt'[f] \in {fdt[f], None}
                   /\ fdt'[f] # None => wk'[f] = wk[f]
                   /\ fdt'[f] # None =>
                        \A t \in Tns : Event("WRITE", f, t, FALSE) \in batch
                                         => Event("WRITE", f, t, FALSE) \in batch'

LEMMA ServedStays ==
  ASSUME Types, ServedInv, ServedQuiet
  PROVE  ServedInv'
<1> SUFFICES ASSUME NEW f \in Fd, fdt'[f] # None
             PROVE  Answering(f)' \/ Unbuilt(f)' \/ fdt'[f] \in lost'
  BY ServedFrom
<1>1. /\ Tns' = Tns /\ tn' = tn /\ fdt'[f] = fdt[f] /\ wk'[f] = wk[f]
      /\ lost \subseteq lost' /\ \A t : Rejected(t)' <=> Rejected(t)
  BY DEF Tns, ServedQuiet, Rejected
<1>2. CASE Answering(f)
  <2>1. PICK t \in Tns : tn[t].fd = f /\ tn[t].st = "built" /\ Holds(t, f)
    BY <1>2 DEF Answering
  <2>2. \/ t \in Pool!Queued' \cup running'
        \/ Event("WRITE", f, t, FALSE) \in batch'
        \/ wk'[f] = t
    BY <1>1, <2>1 DEF Holds, ServedQuiet
  <2> QED
    BY <1>1, <2>1, <2>2 DEF Answering, Holds, Waiting
<1>3. CASE Unbuilt(f)
  <2>1. \A t \in Waiting : t \in Waiting' \/ Rejected(t)
    BY DEF ServedQuiet, Waiting
  <2> QED
    BY <1>1, <1>3, <2>1 DEF Unbuilt
<1> QED
  BY <1>1, <1>2, <1>3, ServedParts

(* A connection just accepted has no thread_node_t. *)
LEMMA ServedAccept ==
  ASSUME Types, Listing, ServedInv, NEW c \in Conn, NEW f \in Fd, accept_client(c, f)
  PROVE  ServedInv'
<1>1. /\ UNCHANGED <<tn, wk, batch, queue, running>> /\ \A t \in Tns : tn[t].conn # c
  BY AcceptFacts DEF Accepts
<1>2. /\ fdt'[f] = c /\ \A g \in Fd : g # f => fdt'[g] = fdt[g]
      /\ lost' = lost
  BY ListingAccept DEF Types, LoopTypes, accept_client
<1>3. Tns' = Tns /\ Waiting' = Waiting /\ \A t : Rejected(t)' <=> Rejected(t)
  BY <1>1 DEF Tns, Waiting, Pool!Queued, Rejected
<1>4. Unbuilt(f)'
  BY <1>1, <1>2, <1>3 DEF Unbuilt
<1>5. ASSUME NEW g \in Fd, g # f, fdt'[g] # None
      PROVE  Answering(g)' \/ Unbuilt(g)' \/ fdt'[g] \in lost'
  <2>1. fdt'[g] = fdt[g] /\ (Answering(g) \/ Unbuilt(g) \/ fdt[g] \in lost)
    BY <1>2, <1>5, ServedParts
  <2>2. Answering(g) => Answering(g)'
    BY <1>1, <1>3 DEF Answering, Holds
  <2>3. Unbuilt(g) => Unbuilt(g)'
    BY <1>1, <1>3, <2>1 DEF Unbuilt
  <2> QED
    BY <1>2, <2>1, <2>2, <2>3
<1> QED
  BY <1>4, <1>5, ServedFrom

LEMMA ServedRequest ==
  ASSUME Types, OwnerInv, ServedInv, NEW r, read_request(r),
         NEW e, e.filter = "READ", batch' = batch \ {e}
  PROVE  ServedInv'
<1>1. /\ Len(tn) \in Nat /\ Len(tn') = Len(tn) + 1 /\ \A t \in Tns : tn'[t] = tn[t]
      /\ tn'[Len(tn) + 1].st = "read" /\ UNCHANGED <<fdt, wk, running>>
  <2>1. /\ Len(tn') = Len(tn) + 1 /\ \A t \in Tns : tn'[t] = tn[t]
        /\ tn'[Len(tn) + 1] = NewTask(r) /\ UNCHANGED <<fdt, wk, running>>
    BY RequestFacts
  <2>2. NewTask(r).st = "read" /\ Len(tn) \in Nat
    BY ListFacts DEF NewTask
  <2> QED
    BY <2>1, <2>2
<1>2. Tns \subseteq Tns' /\ \A t \in Tns' : t \in Tns \/ t = Len(tn) + 1
  BY <1>1 DEF Tns
<1>3. Waiting \subseteq Waiting'
  <2>1. queue' = queue \/ queue' = Append(queue, Len(tn) + 1)
    BY RequestFacts
  <2>2. CASE queue' = queue
    BY <1>1, <2>2 DEF Waiting, Pool!Queued
  <2>3. CASE queue' = Append(queue, Len(tn) + 1)
    <3>1. Len(tn) + 1 \in Tn /\ queue \in Seq(Tn)
      BY RequestFacts DEF Types
    <3>2. /\ Len(queue') = Len(queue) + 1 /\ Len(queue) \in Nat
          /\ \A i \in 1..Len(queue) : queue'[i] = queue[i]
      BY <2>3, <3>1, AppendProperties, LenProperties
    <3>3. \A i \in 1..Len(queue) : i \in 1..Len(queue')
      BY <3>2
    <3>4. Pool!Queued \subseteq Pool!Queued'
      BY <3>2, <3>3, Zenon DEF Pool!Queued
    <3> QED
      BY <1>1, <3>4 DEF Waiting
  <2> QED
    BY <2>1, <2>2, <2>3
<1>4. \A f, t : Event("WRITE", f, t, FALSE) \in batch => Event("WRITE", f, t, FALSE) \in batch'
  BY DEF Event
<1> SUFFICES ASSUME NEW f \in Fd, fdt'[f] # None
             PROVE  Answering(f)' \/ Unbuilt(f)' \/ fdt'[f] \in lost'
  BY ServedFrom
<1>5. Answering(f) \/ Unbuilt(f) \/ fdt[f] \in lost
  BY <1>1, ServedParts
<1>6. Answering(f) => Answering(f)'
  <2> SUFFICES ASSUME NEW t \in Tns, tn[t].fd = f, tn[t].st = "built", Holds(t, f)
               PROVE  Answering(f)'
    BY DEF Answering
  <2>1. t \in Waiting' \/ Event("WRITE", f, t, FALSE) \in batch' \/ wk'[f] = t
    BY <1>1, <1>3, <1>4 DEF Holds
  <2> QED
    BY <1>1, <1>2, <2>1 DEF Answering, Holds
<1>7. lost \subseteq lost'
  BY RequestFacts
<1>8. Unbuilt(f) => Unbuilt(f)' \/ fdt'[f] \in lost'
  <2> SUFFICES ASSUME Unbuilt(f), fdt'[f] \notin lost', NEW t \in Tns', tn'[t].conn = fdt'[f]
               PROVE  tn'[t].st = "read" /\ (t \in Waiting' \/ Rejected(t)')
    BY DEF Unbuilt
  <2>1. CASE t \in Tns
    <3>1. tn'[t] = tn[t] /\ tn[t].st = "read" /\ (t \in Waiting \/ Rejected(t))
      BY <1>1, <2>1 DEF Unbuilt
    <3>2. Rejected(t) => Rejected(t)'
      BY <3>1 DEF Rejected
    <3> QED
      BY <1>3, <3>1, <3>2
  <2>2. CASE t = Len(tn) + 1
    <3>1. tn'[Len(tn) + 1] = NewTask(r)
      BY RequestFacts
    <3>2. tn'[t].conn = fdt[r]
      BY <2>2, <3>1 DEF NewTask
    <3>3. \/ queue' = Append(queue, Len(tn) + 1)
          \/ lost' = lost \cup {fdt[r]}
      BY RequestFacts
    <3>4. queue' = Append(queue, Len(tn) + 1)
      BY <1>1, <3>2, <3>3
    <3>5. queue \in Seq(Tn) /\ Len(tn) + 1 \in Tn
      BY RequestFacts DEF Types
    <3>6. /\ Len(queue') = Len(queue) + 1 /\ Len(queue) \in Nat
          /\ queue'[Len(queue) + 1] = Len(tn) + 1
      BY <3>4, <3>5, AppendProperties, LenProperties
    <3>7. Len(queue) + 1 \in 1..Len(queue')
      BY <3>6
    <3>8. t \in Pool!Queued'
      BY <2>2, <3>6, <3>7, Zenon DEF Pool!Queued
    <3> QED
      BY <1>1, <2>2, <3>8 DEF Waiting
  <2> QED
    BY <1>2, <2>1, <2>2
<1> QED
  BY <1>1, <1>5, <1>6, <1>7, <1>8

(* The request a worker answers came from the connection that is still at  *)
(* its descriptor, or from one that is closed.                             *)
LEMMA ServedBuilds ==
  ASSUME Types, Listing, ServedInv, NEW t, handle_conn_builds(t) \/ handle_conn_freed_route(t)
  PROVE  ServedInv'
<1>1. /\ UNCHANGED <<fdt, wk, batch>> /\ Waiting' = Waiting
      /\ t \in Waiting /\ t \in Tns /\ pc # "crashed"
  BY BuildsFacts DEF Pool!Queued, Waiting
<1>2. /\ Tns' = Tns /\ lost' = lost
      /\ \A s \in Tns : /\ tn'[s].fd = tn[s].fd /\ tn'[s].conn = tn[s].conn
                        /\ tn'[s].st = IF s = t THEN "built" ELSE tn[s].st
                        /\ Rejected(s)' <=> Rejected(s)
  BY BuildsFacts DEF Tns, Rejected
<1> SUFFICES ASSUME NEW f \in Fd, fdt'[f] # None
             PROVE  Answering(f)' \/ Unbuilt(f)' \/ fdt'[f] \in lost'
  BY ServedFrom
<1>3. Answering(f) \/ Unbuilt(f) \/ fdt[f] \in lost
  BY <1>1, ServedParts
<1>4. Answering(f) => Answering(f)'
  BY <1>1, <1>2 DEF Answering, Holds
<1>5. CASE tn[t].conn = fdt[f]
  <2>1. tn[t].fd = f
    BY <1>1, <1>5, ListingUse
  <2> QED
    BY <1>1, <1>2, <2>1 DEF Answering, Holds
<1>6. CASE tn[t].conn # fdt[f]
  <2>1. Unbuilt(f) => Unbuilt(f)'
    BY <1>1, <1>2, <1>6 DEF Unbuilt
  <2> QED
    BY <1>1, <1>2, <1>3, <1>4, <2>1
<1> QED
  BY <1>5, <1>6

LEMMA ServedRegisters ==
  ASSUME Types, ServedInv, NEW t, handle_conn_registers(t)
  PROVE  ServedInv'
<1>1. /\ UNCHANGED <<fdt, batch, tn, queue>>
      /\ t \in running /\ t \in Tns /\ running' = running \ {t} /\ tn[t].st = "built"
      /\ \A f \in Fd : \/ wk'[f] = wk[f] /\ (f = tn[t].fd => fdt[f] = None)
                       \/ f = tn[t].fd /\ wk'[f] = t
  BY RegistersFacts
<1>2. /\ Tns' = Tns /\ lost' = lost /\ \A s \in Waiting : s # t => s \in Waiting'
      /\ \A s : Rejected(s)' <=> Rejected(s)
  BY <1>1, RegistersFacts DEF Tns, Waiting, Pool!Queued, Rejected
<1> SUFFICES ASSUME NEW f \in Fd, fdt'[f] # None
             PROVE  Answering(f)' \/ Unbuilt(f)' \/ fdt'[f] \in lost'
  BY ServedFrom
<1>3. CASE f = tn[t].fd
  <2>1. wk'[f] = t
    BY <1>1, <1>3
  <2> QED
    BY <1>1, <1>2, <1>3, <2>1 DEF Answering, Holds
<1>4. CASE f # tn[t].fd
  <2>1. Answering(f) \/ Unbuilt(f) \/ fdt[f] \in lost
    BY <1>1, ServedParts
  <2>2. Answering(f) => Answering(f)'
    <3>1. wk'[f] = wk[f]
      BY <1>1, <1>4
    <3> QED
      BY <1>1, <1>2, <1>4, <3>1 DEF Answering, Holds
  <2>3. Unbuilt(f) => Unbuilt(f)'
    BY <1>1, <1>2 DEF Unbuilt
  <2> QED
    BY <1>1, <1>2, <2>1, <2>2, <2>3
<1> QED
  BY <1>3, <1>4

(* The WRITE registration fails: the connection is left to itself. *)
LEMMA ServedForgets ==
  ASSUME Types, ServedInv, NEW t, Forgets(t)
  PROVE  ServedInv'
<1>1. /\ UNCHANGED <<fdt, wk, batch, tn, queue>> /\ t \in Tns /\ running' = running \ {t}
      /\ lost \subseteq lost'
      /\ \/ tn[t].st = "read" /\ Rejected(t)
         \/ tn[t].st = "built" /\ fdt[tn[t].fd] \in lost'
  BY ForgetsFacts
<1>2. /\ Tns' = Tns /\ \A s \in Waiting : s # t => s \in Waiting'
      /\ \A s : Rejected(s)' <=> Rejected(s)
  BY <1>1 DEF Tns, Waiting, Pool!Queued, Rejected
<1> SUFFICES ASSUME NEW f \in Fd, fdt'[f] # None
             PROVE  Answering(f)' \/ Unbuilt(f)' \/ fdt'[f] \in lost'
  BY ServedFrom
<1>3. Answering(f) \/ Unbuilt(f) \/ fdt[f] \in lost
  BY <1>1, ServedParts
<1>4. Answering(f) => Answering(f)' \/ fdt'[f] \in lost'
  <2> SUFFICES ASSUME NEW s \in Tns, tn[s].fd = f, tn[s].st = "built", Holds(s, f)
               PROVE  Answering(f)' \/ fdt'[f] \in lost'
    BY DEF Answering
  <2>1. CASE s = t
    BY <1>1, <2>1
  <2>2. CASE s # t
    BY <1>1, <1>2, <2>2 DEF Answering, Holds
  <2> QED
    BY <2>1, <2>2
<1>5. Unbuilt(f) => Unbuilt(f)'
  <2> SUFFICES ASSUME Unbuilt(f), NEW s \in Tns, tn[s].conn = fdt[f]
               PROVE  tn[s].st = "read" /\ (s \in Waiting' \/ Rejected(s))
    BY <1>1, <1>2 DEF Unbuilt
  <2>1. tn[s].st = "read" /\ (s \in Waiting \/ Rejected(s))
    BY DEF Unbuilt
  <2>2. s = t => Rejected(s)
    BY <1>1, <2>1
  <2> QED
    BY <1>2, <2>1, <2>2
<1> QED
  BY <1>1, <1>3, <1>4, <1>5

(* What was registered is now in the batch, which was empty. *)
LEMMA ServedReport ==
  ASSUME Types, StageInv, ServedInv, return_from_kevent
  PROVE  ServedInv'
<1>1. /\ batch = {} /\ batch' = ReadyEvents /\ UNCHANGED <<fdt, tn, queue, running>>
      /\ \A f \in Fd : wk[f] # None => Event("WRITE", f, wk[f], FALSE) \in batch'
  BY ReportFacts DEF StageInv
<1>2. /\ Tns' = Tns /\ Waiting' = Waiting /\ lost' = lost
      /\ \A t : Rejected(t)' <=> Rejected(t)
  BY <1>1, ReportFacts DEF Tns, Waiting, Pool!Queued, Rejected
<1>3. \A t \in Tns : t # None
  BY ListFacts, KernelAssumption DEF Tns
<1> SUFFICES ASSUME NEW f \in Fd, fdt'[f] # None
             PROVE  Answering(f)' \/ Unbuilt(f)' \/ fdt'[f] \in lost'
  BY ServedFrom
<1>4. Answering(f) \/ Unbuilt(f) \/ fdt[f] \in lost
  BY <1>1, ServedParts
<1>5. Answering(f) => Answering(f)'
  <2> SUFFICES ASSUME NEW t \in Tns, tn[t].fd = f, tn[t].st = "built", Holds(t, f)
               PROVE  Answering(f)'
    BY DEF Answering
  <2>1. t \in Waiting' \/ Event("WRITE", f, t, FALSE) \in batch'
    BY <1>1, <1>2, <1>3 DEF Holds
  <2> QED
    BY <1>1, <1>2, <2>1 DEF Answering, Holds
<1>6. Unbuilt(f) => Unbuilt(f)'
  BY <1>1, <1>2 DEF Unbuilt
<1> QED
  BY <1>1, <1>2, <1>4, <1>5, <1>6

(* While the process lives, remove_client leaves its descriptor closed:    *)
(* the search fails only for one that was not open.                        *)
LEMMA RemoveCloses ==
  ASSUME Types, Listing, pc # "crashed", NEW f \in Fd, NEW net0 \in [Conn -> Connection],
         remove_client(f, net0)
  PROVE  /\ fdt'[f] = None
         /\ \A c \in Conn : fdt[f] = c => net'[c].st = "closed"
<1>1. CASE search_fails(f) /\ net' = net0 /\ UNCHANGED <<fdt, files, rk, wk, list>>
  <2>1. \A c \in Node : cfd[c] # f
    BY <1>1 DEF search_fails, Node
  <2>2. fdt[f] = None
    BY <2>1, ListingUse
  <2> QED
    BY <1>1, <2>2, KernelAssumption
<1>2. ASSUME NEW i \in 1..Len(list), close({f}, net0)
      PROVE  fdt'[f] = None /\ \A c \in Conn : fdt[f] = c => net'[c].st = "closed"
  BY <1>2, CloseFacts
<1> QED
  BY <1>1, <1>2 DEF remove_client

LEMMA ServedWriteAll ==
  ASSUME Types, Listing, OwnerInv, ServedInv, NEW e, handle_write(e), write_all(e.udata)
  PROVE  ServedInv'
<1> DEFINE t == e.udata
<1>1. /\ t \in Tns /\ tn[t].fd \in Fd /\ batch' = batch \ {e} /\ pc = "dispatch"
      /\ e \in batch /\ e.filter = "WRITE" /\ UNCHANGED <<queue, running>>
  BY WriteFacts
<1>2. e = Event("WRITE", tn[t].fd, t, FALSE) /\ tn[t].st = "built"
  BY <1>1, OwnerUse
<1>3. /\ SameTasks
      /\ \A s \in Tns : tn'[s].st = IF s = t THEN "freed" ELSE tn[s].st
      /\ \A g \in Fd : /\ fdt'[g] \in {fdt[g], None}
                       /\ fdt'[g] # None => wk'[g] = wk[g]
  BY WriteAllFacts
<1>4. fdt'[tn[t].fd] = None
  <2>1. /\ sent_to(fdt[tn[t].fd], t, RespLen) \in [Conn -> Connection]
        /\ remove_client(tn[t].fd, sent_to(fdt[tn[t].fd], t, RespLen))
    BY WriteAllFacts
  <2> QED
    BY <1>1, <2>1, RemoveCloses
<1> HIDE DEF t
<1>5. /\ Tns' = Tns /\ Waiting' = Waiting /\ \A s \in Tns : Rejected(s)' <=> Rejected(s)
  BY <1>1, <1>3 DEF SameTasks, Tns, Waiting, Pool!Queued, Rejected
<1> SUFFICES ASSUME NEW f \in Fd, fdt'[f] # None
             PROVE  Answering(f)' \/ Unbuilt(f)' \/ fdt'[f] \in lost'
  BY ServedFrom
<1>6. fdt'[f] = fdt[f] /\ wk'[f] = wk[f] /\ f # tn[t].fd
  BY <1>3, <1>4
<1>7. \A s : Event("WRITE", f, s, FALSE) \in batch => Event("WRITE", f, s, FALSE) \in batch'
  BY <1>1, <1>2, <1>6 DEF Event
<1>8. Answering(f) => Answering(f)'
  <2> SUFFICES ASSUME NEW s \in Tns, tn[s].fd = f, tn[s].st = "built", Holds(s, f)
               PROVE  Answering(f)'
    BY DEF Answering
  <2>1. Holds(s, f)'
    BY <1>5, <1>6, <1>7 DEF Holds
  <2>2. tn'[s].fd = f /\ tn'[s].st = "built"
    BY <1>3, <1>6 DEF SameTasks
  <2> QED
    BY <1>5, <2>1, <2>2 DEF Answering
<1>9. Unbuilt(f) => Unbuilt(f)'
  <2> SUFFICES ASSUME Unbuilt(f), NEW s \in Tns, tn'[s].conn = fdt'[f]
               PROVE  tn'[s].st = "read" /\ (s \in Waiting' \/ Rejected(s)')
    BY <1>5 DEF Unbuilt
  <2>1. tn[s].conn = fdt[f] /\ tn[s].st = "read" /\ (s \in Waiting \/ Rejected(s))
    BY <1>3, <1>6 DEF SameTasks, Unbuilt
  <2> QED
    BY <1>2, <1>3, <1>5, <2>1
<1>10. lost' = lost
  BY WriteAllFacts
<1> QED
  BY <1>6, <1>8, <1>9, <1>10, ServedParts

LEMMA ServedWriteSome ==
  ASSUME Types, OwnerInv, ServedInv, NEW e, handle_write(e), NEW n \in 0..RespLen-1,
         SendsSome(e.udata, n)
  PROVE  ServedInv'
<1> DEFINE t == e.udata
<1>1. /\ t \in Tns /\ tn[t].fd \in Fd /\ batch' = batch \ {e}
      /\ e \in batch /\ e.filter = "WRITE" /\ UNCHANGED <<queue, running>>
  BY WriteFacts
<1>2. e = Event("WRITE", tn[t].fd, t, FALSE) /\ tn[t].st = "built"
  BY <1>1, OwnerUse
<1>3. /\ UNCHANGED <<fdt, tn>> /\ lost \subseteq lost'
      /\ \/ \A g \in Fd : wk'[g] = IF g = tn[t].fd THEN t ELSE wk[g]
         \/ wk' = wk /\ fdt[tn[t].fd] \in lost'
  BY WriteSomeFacts
<1> HIDE DEF t
<1>4. /\ Tns' = Tns /\ Waiting' = Waiting /\ \A s : Rejected(s)' <=> Rejected(s)
  BY <1>1, <1>3 DEF Tns, Waiting, Pool!Queued, Rejected
<1> SUFFICES ASSUME NEW f \in Fd, fdt'[f] # None
             PROVE  Answering(f)' \/ Unbuilt(f)' \/ fdt'[f] \in lost'
  BY ServedFrom
<1>5. CASE f = tn[t].fd
  <2>1. fdt'[f] \in lost' \/ wk'[f] = t
    BY <1>3, <1>5
  <2> QED
    BY <1>1, <1>2, <1>3, <1>4, <1>5, <2>1 DEF Answering, Holds
<1>6. CASE f # tn[t].fd
  <2>1. \A s : Event("WRITE", f, s, FALSE) \in batch => Event("WRITE", f, s, FALSE) \in batch'
    BY <1>1, <1>2, <1>6 DEF Event
  <2>2. wk'[f] = wk[f]
    BY <1>3, <1>6
  <2>3. Answering(f) => Answering(f)'
    BY <1>3, <1>4, <1>6, <2>1, <2>2 DEF Answering, Holds
  <2>4. Unbuilt(f) => Unbuilt(f)'
    BY <1>3, <1>4 DEF Unbuilt
  <2> QED
    BY <1>3, <2>3, <2>4, ServedParts
<1> QED
  BY <1>5, <1>6
-----------------------------------------------------------------------------
(* Connections and the end of responses. *)
AnswerQuiet == \A c \in Conn : /\ net'[c].got = net[c].got
                               /\ net[c].st = "closed" => net'[c].st = "closed"

LEMMA AnswerStays ==
  ASSUME ClosedAfterResponse, AnswerQuiet
  PROVE  ClosedAfterResponse'
BY DEF ClosedAfterResponse, Answered, AnswerQuiet

LEMMA SentGot ==
  ASSUME Types, NEW c \in Conn, NEW t \in Tns, NEW n \in Nat
  PROVE  /\ sent_to(c, t, n)[c].got = net[c].got \o [k \in 1..n |-> <<t, k>>]
         /\ \A d \in Conn : d # c => sent_to(c, t, n)[d].got = net[d].got
BY DEF sent_to, Types, Connection

LEMMA AnswerWriteAll ==
  ASSUME Types, Listing, ClosedAfterResponse, NEW e, handle_write(e), write_all(e.udata)
  PROVE  ClosedAfterResponse'
<1> DEFINE t == e.udata
           f == tn[t].fd
           net0 == sent_to(fdt[f], t, RespLen)
<1>1. t \in Tns /\ f \in Fd /\ pc = "dispatch"
  BY WriteFacts
<1>2. fdt[f] \in Conn /\ net0 \in [Conn -> Connection] /\ remove_client(f, net0)
  BY WriteAllFacts
<1>3. /\ \A d \in Conn : net0[d].st = net[d].st
      /\ \A d \in Conn : d # fdt[f] => net0[d].got = net[d].got
  BY <1>1, <1>2, SentSame, SentGot, RespLenAssumption
<1> HIDE DEF t, f, net0
<1>4. \A d \in Conn : /\ net'[d].got = net0[d].got
                      /\ net0[d].st = "closed" => net'[d].st = "closed"
  BY <1>2, RemoveWrites
<1>5. \A d \in Conn : fdt[f] = d => net'[d].st = "closed"
  BY <1>1, <1>2, RemoveCloses
<1>6. \A d \in Conn : d # fdt[f] =>
        /\ net'[d].got = net[d].got
        /\ net[d].st = "closed" => net'[d].st = "closed"
  BY <1>3, <1>4
<1> QED
  BY <1>5, <1>6 DEF ClosedAfterResponse, Answered

LEMMA AnswerWriteSome ==
  ASSUME Types, ClosedAfterResponse, NEW e, handle_write(e), NEW n \in 0..RespLen-1,
         SendsSome(e.udata, n)
  PROVE  ClosedAfterResponse'
<1> DEFINE t == e.udata
           c == fdt[tn[t].fd]
           new == [k \in 1..n |-> <<t, k>>]
<1>1. t \in Tns /\ c \in Conn /\ n \in Nat /\ net' = sent_to(c, t, n)
  <2>1. t \in Tns
    BY WriteFacts
  <2>2. c \in Conn /\ n \in Nat /\ net' = sent_to(c, t, n)
    BY WriteSomeFacts
  <2> QED
    BY <2>1, <2>2
<1>2. \A d \in Conn : net'[d].st = net[d].st
  BY <1>1, SentSame
<1>3. /\ net'[c].got = net[c].got \o new
      /\ \A d \in Conn : d # c => net'[d].got = net[d].got
  BY <1>1, SentGot
<1> HIDE DEF t, c
<1>4. new \in Seq(Nat \X Nat) /\ Len(new) = n /\ \A k \in 1..n : new[k] = <<t, k>>
  <2>1. \A k \in 1..n : <<t, k>> \in Nat \X Nat
    BY <1>1, ListFacts DEF Tns
  <2>2. new \in Seq(Nat \X Nat)
    BY <1>1, <2>1, IsASeq
  <2> QED
    BY <1>1, <2>2, LenProperties
<1> HIDE DEF new
<1>5. net[c].got \in Seq(Nat \X Nat)
  BY <1>1 DEF Types, Connection
<1>6. \A k \in 1..n : new[k][2] # RespLen
  BY <1>4, RespLenAssumption
<1>7. ASSUME NEW i \in 1..Len(net'[c].got), net'[c].got[i][2] = RespLen
      PROVE  \E j \in 1..Len(net[c].got) : net[c].got[j][2] = RespLen
  <2>1. Len(net'[c].got) = Len(net[c].got) + n /\ Len(net[c].got) \in Nat
    <3>1. Len(net[c].got \o new) = Len(net[c].got) + Len(new)
      BY <1>4, <1>5, ConcatProperties
    <3>2. Len(net[c].got) \in Nat
      BY <1>5, LenProperties
    <3> QED
      BY <1>3, <1>4, <3>1, <3>2
  <2>2. CASE i \in 1..Len(net[c].got)
    <3>1. net'[c].got[i] = net[c].got[i]
      BY <1>3, <1>4, <1>5, <2>2, ConcatProperties
    <3> QED
      BY <1>7, <2>2, <3>1
  <2>3. CASE i > Len(net[c].got)
    <3>1. i - Len(net[c].got) \in 1..n
      BY <1>1, <2>1, <2>3
    <3>2. net'[c].got[i] = new[i - Len(net[c].got)]
      BY <1>3, <1>4, <1>5, <2>1, <2>3, ConcatProperties
    <3> QED
      BY <1>6, <1>7, <3>1, <3>2
  <2> QED
    BY <2>1, <2>2, <2>3
<1>8. \A d \in Conn : (\E i \in 1..Len(net'[d].got) : net'[d].got[i][2] = RespLen)
                        => (\E j \in 1..Len(net[d].got) : net[d].got[j][2] = RespLen)
  BY <1>3, <1>7
<1> QED
  BY <1>2, <1>8 DEF ClosedAfterResponse, Answered
-----------------------------------------------------------------------------
(* Stages. *)
LEMMA StageBusy ==
  ASSUME pc' \in {"dispatch", "accept"}, phase' = "open"
  PROVE  StageInv'
BY DEF StageInv, Leaving

LEMMA StageWorker ==
  ASSUME Types, StageInv,
         \/ start_task
         \/ \E t \in Tn : \/ Forgets(t) \/ handle_conn_builds(t)
                          \/ handle_conn_freed_route(t) \/ handle_conn_registers(t)
  PROVE  StageInv'
<1> DEFINE Still == /\ UNCHANGED <<net, fdt, lnOpen, pc, batch, route, phase>>
                    /\ pc \notin {"stopped", "crashed"} /\ (queue # << >> \/ running # {})
<1>1. Still
  <2>1. CASE start_task
    BY <2>1 DEF start_task, Pool!Start, kernel
  <2>2. ASSUME NEW t \in Tn, Forgets(t)
        PROVE  Still
    BY <2>2, ForgetsFacts
  <2>3. ASSUME NEW t \in Tn, handle_conn_builds(t) \/ handle_conn_freed_route(t)
        PROVE  Still
    BY <2>3, BuildsFacts
  <2>4. ASSUME NEW t \in Tn, handle_conn_registers(t)
        PROVE  Still
    BY <2>4, RegistersFacts
  <2> HIDE DEF Still
  <2> QED
    BY <2>1, <2>2, <2>3, <2>4
<1> QED
  BY <1>1 DEF StageInv, Leaving

LEMMA StageLoop ==
  ASSUME Types, StageInv,
         \/ enter_kevent \/ leave_loop \/ kevent_fails \/ end_of_batch \/ shut_down_server
         \/ destroy_route \/ destroy_pool \/ join
  PROVE  StageInv'
<1> USE DEF StageInv, Leaving, kernel, pool
<1>1. CASE enter_kevent
  BY <1>1 DEF enter_kevent
<1>2. CASE leave_loop \/ kevent_fails
  <2>1. /\ pc' = "destroy_route" /\ ~lnOpen' /\ phase' = "open"
        /\ net' = [c \in Conn |-> IF net[c].st = "backlog"
                                 THEN [net[c] EXCEPT !.st = "closed"] ELSE net[c]]
    BY <1>2 DEF leave_loop, kevent_fails, close_listener
  <2>2. \A c \in Conn : net'[c].st # "backlog"
    BY <2>1 DEF Types, Connection
  <2> QED
    BY <2>1, <2>2
<1>3. CASE end_of_batch
  BY <1>3 DEF end_of_batch
<1>4. CASE shut_down_server
  BY <1>4 DEF shut_down_server
<1>5. CASE destroy_route
  BY <1>5 DEF destroy_route
<1>6. CASE destroy_pool
  BY <1>6 DEF destroy_pool, Pool!Close
<1>7. CASE join
  BY <1>7 DEF join, Pool!Retire
<1> QED
  BY <1>1, <1>2, <1>3, <1>4, <1>5, <1>6, <1>7

LEMMA StageFree ==
  ASSUME Types, StageInv, Listing, free_list
  PROVE  StageInv'
<1>1. pc = "free_list" /\ pc' = "stopped" /\ UNCHANGED <<lnOpen, route, phase, queue, running>>
  BY DEF free_list, pool
<1>2. /\ \A f \in Fd : fdt'[f] = None
      /\ \A c \in Conn : net'[c].st # "open"
      /\ \A c \in Conn : net'[c].st = net[c].st \/ net'[c].st = "closed"
  BY FreeListFacts
<1>3. \A c \in Conn : net'[c].st # "backlog"
  BY <1>1, <1>2 DEF StageInv, Leaving
<1> QED
  BY <1>1, <1>2, <1>3 DEF StageInv, Leaving

LEMMA StageClients ==
  ASSUME Types, StageInv, clients
  PROVE  StageInv'
<1>1. /\ UNCHANGED <<fdt, lnOpen, pc, batch, route, phase, queue, running>>
      /\ lnOpen \/ \A d \in Conn : net'[d].st = net[d].st
  BY ClientFacts
<1>2. CASE lnOpen
  BY <1>1, <1>2 DEF StageInv, Leaving
<1>3. CASE \A d \in Conn : net'[d].st = net[d].st
  BY <1>1, <1>3 DEF StageInv, Leaving
<1> QED
  BY <1>1, <1>2, <1>3
-----------------------------------------------------------------------------
(* The invariant holds initially and is kept by every step. *)
LEMMA IInvInit == Init => IInv
<1> SUFFICES ASSUME Init
             PROVE  IInv
  OBVIOUS
<1>1. Types
  BY TypesInit
<1>2. /\ net = [c \in Conn |-> Fresh] /\ fdt = [f \in Fd |-> None] /\ wk = [f \in Fd |-> None]
      /\ backlog = << >> /\ pc = "loop" /\ batch = {} /\ list = << >> /\ tn = << >>
      /\ phase = "open" /\ queue = << >> /\ running = {}
  BY DEF Init, KernelInit
<1>3. Tns = {} /\ Node = {} /\ Pool!Queued = {}
  BY <1>2 DEF Tns, Node, Pool!Queued
<1>4. /\ \A f \in Fd : fdt[f] = None /\ wk[f] = None
      /\ \A c \in Conn : net[c].st = "out" /\ net[c].got = << >>
  BY <1>2 DEF Fresh
<1>5. StageInv
  BY <1>2 DEF StageInv, Leaving
<1>6. BacklogInv /\ ListInv
  BY <1>2, <1>3 DEF BacklogInv, ListInv, Distinct
<1>7. ListCoversDescriptors
  BY <1>3, <1>4 DEF ListCoversDescriptors
<1>8. OwnerInv
  BY <1>2, <1>3, <1>4 DEF OwnerInv, Distinct
<1>9. ServedInv
  BY <1>4 DEF ServedInv
<1>10. ClosedAfterResponse
  BY <1>4 DEF ClosedAfterResponse, Answered
<1> QED
  BY <1>1, <1>5, <1>6, <1>7, <1>8, <1>9, <1>10 DEF IInv, Listing

(* What a step that moves no connection, descriptor or thread_node_t keeps. *)
Rest == Listing /\ OwnerInv /\ ServedInv /\ ClosedAfterResponse

Quiet == /\ UNCHANGED <<fdt, list, cfd, backlog, wk, tn, queue, running>>
         /\ \A c \in Conn : net'[c].st = net[c].st /\ net'[c].got = net[c].got
         /\ faults' >= faults /\ lost \subseteq lost'
         /\ batch' \subseteq batch /\ \A e \in batch : e.filter = "WRITE" => e \in batch'
         /\ pc = "crashed" => pc' = "crashed"

LEMMA ClosingKeeps ==
  ASSUME Types, UNCHANGED <<tn, queue, running>>, lost \subseteq lost',
         ServedInv, OwnerInv, ClosedAfterResponse,
         \A f \in Fd : /\ fdt'[f] \in {fdt[f], None} /\ wk'[f] \in {wk[f], None}
                       /\ fdt'[f] # None => wk'[f] = wk[f],
         batch' \subseteq batch,
         \A f \in Fd, t \in Tns : fdt'[f] # None /\ Event("WRITE", f, t, FALSE) \in batch
                                    => Event("WRITE", f, t, FALSE) \in batch',
         \A c \in Conn : net'[c].got = net[c].got /\ (net[c].st = "closed" => net'[c].st = "closed")
  PROVE  OwnerInv' /\ ServedInv' /\ ClosedAfterResponse'
<1>1. OwnerInv'
  BY OwnerStays DEF OwnerQuiet
<1>2. Waiting = Pool!Queued' \cup running'
  BY DEF Waiting, Pool!Queued
<1>3. ServedInv'
  BY <1>2, ServedStays DEF ServedQuiet
<1>4. ClosedAfterResponse'
  BY AnswerStays DEF AnswerQuiet
<1> QED
  BY <1>1, <1>3, <1>4

LEMMA QuietKeeps ==
  ASSUME Types, Rest, Quiet
  PROVE  Rest'
<1> USE DEF Quiet, Rest
<1>1. Listing'
  BY ListingQuiet DEF ListQuiet, SameTasks
<1>2. \A f, t : Event("WRITE", f, t, FALSE) \in batch => Event("WRITE", f, t, FALSE) \in batch'
  BY DEF Event
<1>3. OwnerInv' /\ ServedInv' /\ ClosedAfterResponse'
  BY <1>2, ClosingKeeps
<1> QED
  BY <1>1, <1>3

(* Steps of the loop and the shutdown that only move the main thread. *)
LEMMA LoopKeeps ==
  ASSUME IInv, \/ enter_kevent \/ end_of_batch \/ shut_down_server \/ accept_client_returns
               \/ destroy_route \/ destroy_pool \/ join
               \/ \E e \in batch : start_accept(e)
  PROVE  IInv'
<1> DEFINE Moves == /\ UNCHANGED <<net, fdt, list, cfd, backlog, wk, tn, queue, running, faults>>
                    /\ lost \subseteq lost'
                    /\ batch' \subseteq batch /\ \A e \in batch : e.filter = "WRITE" => e \in batch'
                    /\ pc = "crashed" => pc' = "crashed"
<1>1. Types /\ StageInv /\ Rest
  BY DEF IInv, Rest
<1>2. Moves
  <2> USE DEF kernel, bounds, pool
  <2>1. CASE enter_kevent \/ end_of_batch
    BY <2>1 DEF enter_kevent, end_of_batch
  <2>2. CASE shut_down_server \/ accept_client_returns
    BY <2>2 DEF shut_down_server, accept_client_returns
  <2>3. CASE destroy_route \/ destroy_pool \/ join
    BY <2>3 DEF destroy_route, destroy_pool, join, Pool!Close, Pool!Retire
  <2>4. CASE \E e \in batch : start_accept(e)
    BY <2>4 DEF start_accept, take
  <2> HIDE DEF Moves
  <2> QED
    BY <2>1, <2>2, <2>3, <2>4
<1>3. faults' >= faults
  BY <1>1, <1>2 DEF Types, LoopTypes
<1>4. Rest'
  BY <1>1, <1>2, <1>3, QuietKeeps DEF Quiet
<1>5. StageInv'
  <2>1. CASE accept_client_returns \/ \E e \in batch : start_accept(e)
    <3>1. pc \in {"dispatch", "accept"} /\ pc' \in {"dispatch", "accept"} /\ UNCHANGED phase
      BY <2>1 DEF accept_client_returns, start_accept, take, pool
    <3> QED
      BY <1>1, <3>1, StageBusy DEF StageInv
  <2> QED
    BY <1>1, <2>1, StageLoop
<1>6. Types'
  BY <1>1, TypesLoop, TypesRelease
<1> QED
  BY <1>4, <1>5, <1>6 DEF IInv, Rest

LEMMA LeaveKeeps ==
  ASSUME IInv, leave_loop \/ kevent_fails
  PROVE  IInv'
<1>1. Types /\ StageInv /\ Listing /\ OwnerInv /\ ServedInv /\ ClosedAfterResponse
  BY DEF IInv
<1>2. /\ UNCHANGED <<fdt, wk, batch, tn, queue, running, lost>>
      /\ net' = [c \in Conn |-> IF net[c].st = "backlog"
                               THEN [net[c] EXCEPT !.st = "closed"] ELSE net[c]]
  BY DEF leave_loop, kevent_fails, close_listener, pool
<1>3. \A c \in Conn : net'[c].got = net[c].got /\ (net[c].st = "closed" => net'[c].st = "closed")
  BY <1>1, <1>2 DEF Types, Connection
<1>4. OwnerInv' /\ ServedInv' /\ ClosedAfterResponse'
  BY <1>1, <1>2, <1>3, ClosingKeeps
<1>5. Types' /\ StageInv' /\ Listing'
  BY <1>1, TypesLoop, StageLoop, ListingLeave
<1> QED
  BY <1>4, <1>5 DEF IInv

LEMMA AcceptErrorKeeps ==
  ASSUME IInv, accept_client_fails
  PROVE  IInv'
<1>1. Types /\ StageInv /\ Listing /\ OwnerInv /\ ServedInv /\ ClosedAfterResponse
  BY DEF IInv
<1>2. /\ pc = "accept" /\ pc' = "dispatch"
      /\ UNCHANGED <<fdt, wk, batch, tn, queue, running, phase>> /\ lost \subseteq lost'
      /\ \A d \in Conn : net'[d].got = net[d].got
      /\ \A d \in Conn : \/ net'[d].st = net[d].st
                         \/ net[d].st = "backlog" /\ net'[d].st = "closed"
  BY <1>1, AcceptErrorFacts
<1>3. \A d \in Conn : net'[d].got = net[d].got /\ (net[d].st = "closed" => net'[d].st = "closed")
  BY <1>2
<1>4. OwnerInv' /\ ServedInv' /\ ClosedAfterResponse'
  BY <1>1, <1>2, <1>3, ClosingKeeps
<1>5. Types' /\ StageInv' /\ Listing'
  BY <1>1, <1>2, TypesAcceptError, StageBusy, ListingAcceptError DEF StageInv
<1> QED
  BY <1>4, <1>5 DEF IInv

LEMMA ReportKeeps ==
  ASSUME IInv, return_from_kevent
  PROVE  IInv'
<1>1. Types /\ StageInv /\ Listing /\ OwnerInv /\ ServedInv /\ ClosedAfterResponse
  BY DEF IInv
<1>2. /\ pc = "kevent" /\ pc' = "dispatch"
      /\ UNCHANGED <<net, fdt, backlog, list, cfd, tn, faults, phase>>
  BY <1>1, ReportFacts
<1>3. faults' >= faults
  BY <1>1, <1>2 DEF Types, LoopTypes
<1>4. Listing'
  BY <1>1, <1>2, <1>3, ListingQuiet DEF ListQuiet, SameTasks
<1>5. OwnerInv' /\ ServedInv' /\ ClosedAfterResponse'
  BY <1>1, <1>2, OwnerReport, ServedReport, AnswerStays DEF AnswerQuiet
<1>6. Types' /\ StageInv'
  BY <1>1, <1>2, TypesReport, StageBusy DEF StageInv
<1> QED
  BY <1>4, <1>5, <1>6 DEF IInv

LEMMA AcceptKeeps ==
  ASSUME IInv, NEW c \in Conn, NEW f \in Fd, Accepts(c, f)
  PROVE  IInv'
<1>1. Types /\ StageInv /\ Listing /\ OwnerInv /\ ServedInv /\ ClosedAfterResponse
  BY DEF IInv
<1>2. /\ pc = "accept" /\ pc' = "accept"
      /\ UNCHANGED <<tn, wk, batch, queue, running, phase, lost>>
      /\ net[c].st = "backlog"
      /\ \A d \in Conn : net'[d].got = net[d].got
      /\ \A d \in Conn : d # c => net'[d].st = net[d].st
  <2>1. UNCHANGED <<phase, lost>>
    BY DEF Accepts, accept_client, accept_client_nonblock_fails, accept_client_register_fails, pool
  <2> QED
    BY <1>1, <2>1, AcceptFacts
<1>3. OwnerInv'
  BY <1>1, <1>2, OwnerStays DEF OwnerQuiet
<1>4. ClosedAfterResponse'
  BY <1>1, <1>2, AnswerStays DEF AnswerQuiet
<1>5. Types' /\ StageInv'
  BY <1>1, <1>2, TypesAccept, StageBusy DEF StageInv, Accepts
<1>6. CASE accept_client(c, f)
  BY <1>1, <1>3, <1>4, <1>5, <1>6, ListingAccept, ServedAccept DEF IInv
<1>7. CASE accept_client_nonblock_fails(c, f) \/ accept_client_register_fails(c, f)
  <2>1. Listing' /\ fdt' = fdt
    BY <1>1, <1>7, ListingAcceptFails
  <2>2. Waiting = Pool!Queued' \cup running'
    BY <1>2 DEF Waiting, Pool!Queued
  <2>3. ServedInv'
    BY <1>1, <1>2, <2>1, <2>2, ServedStays DEF ServedQuiet
  <2> QED
    BY <1>3, <1>4, <1>5, <2>1, <2>3 DEF IInv
<1> QED
  BY <1>6, <1>7 DEF Accepts

(* The process dies. *)
LEMMA CrashKeeps ==
  ASSUME IInv, \/ accept_client_malloc_fails
               \/ \E e \in batch : handle_read_freed_crashes(e)
               \/ \E t \in Tn : handle_conn_crashes(t)
  PROVE  IInv'
<1>1. Types /\ StageInv /\ Listing /\ OwnerInv /\ ServedInv /\ ClosedAfterResponse
  BY DEF IInv
<1>2. crash /\ pc # "crashed"
  BY DEF accept_client_malloc_fails, handle_read_freed_crashes, handle_conn_crashes,
         LooksUpFreedRoute, working
<1>3. /\ UNCHANGED <<wk, batch, tn, queue, running, lost>> /\ pc' = "crashed"
      /\ net' = [c \in Conn |-> IF net[c].st \in {"backlog", "open"}
                               THEN [net[c] EXCEPT !.st = "closed"] ELSE net[c]]
      /\ \A f \in Fd : fdt'[f] = None
  BY <1>2 DEF crash, pool
<1>4. \A c \in Conn : net'[c].got = net[c].got /\ (net[c].st = "closed" => net'[c].st = "closed")
  BY <1>1, <1>3 DEF Types, Connection
<1>5. OwnerInv' /\ ServedInv' /\ ClosedAfterResponse'
  BY <1>1, <1>3, <1>4, ClosingKeeps
<1>6. StageInv'
  BY <1>3 DEF StageInv, Leaving
<1>7. Types' /\ Listing'
  BY <1>1, <1>2, TypesCrashes, ListingCrash
<1> QED
  BY <1>5, <1>6, <1>7 DEF IInv

(* A READ event: what read_from_client does with the descriptor it finds.  *)
LEMMA ReadKeeps ==
  ASSUME IInv, NEW e, handle_read(e) \/ handle_read_freed(e)
  PROVE  IInv'
<1>1. Types /\ StageInv /\ Listing /\ OwnerInv /\ ServedInv /\ ClosedAfterResponse
  BY DEF IInv
<1>2. PICK f : read_from_client(f)
  BY ReadFactors
<1>3. /\ ReadFrame /\ pc = "dispatch" /\ e \in batch /\ e.filter = "READ" /\ batch' = batch \ {e}
      /\ batch' \subseteq batch
  BY ReadFactors
<1>4. \A g, t : Event("WRITE", g, t, FALSE) \in batch => Event("WRITE", g, t, FALSE) \in batch'
  BY <1>3 DEF Event
<1>5. UNCHANGED <<pc, cfd, backlog>>
  BY <1>3 DEF ReadFrame
<1>6. Types'
  BY <1>1, TypesRead
<1>7. CASE read_request(f)
  <2>1. /\ UNCHANGED phase /\ fdt[f] \in Conn /\ net' = all_received(fdt[f])
    BY <1>1, <1>7, RequestFacts
  <2>2. ClosedAfterResponse'
    BY <1>1, <2>1, ReceivedSame, AnswerStays DEF AnswerQuiet
  <2>3. StageInv'
    BY <1>1, <1>3, <1>5, <2>1, StageBusy DEF StageInv
  <2>4. Listing'
    BY <1>1, <1>3, <1>7, ListingRequest
  <2>5. OwnerInv'
    BY <1>1, <1>3, <1>7, OwnerRequest
  <2>6. ServedInv'
    BY <1>1, <1>3, <1>7, ServedRequest
  <2> QED
    BY <1>6, <2>2, <2>3, <2>4, <2>5, <2>6 DEF IInv
<1>8. CASE read_request_malloc_fails(f)
  <2>1. /\ UNCHANGED <<fdt, wk, list, tn, phase, queue, running>> /\ conn_at(f) \in Conn
        /\ faults' = faults + 1 /\ lost \subseteq lost'
        /\ \E n \in Nat : net' = received_upto(conn_at(f), n)
    BY <1>1, <1>8, DroppedFacts DEF fault
  <2>2. \A c \in Conn : net'[c].st = net[c].st /\ net'[c].got = net[c].got
    BY <1>1, <2>1 DEF received_upto, Types, Connection
  <2>3. faults' >= faults
    BY <1>1, <2>1 DEF Types, LoopTypes
  <2>4. Rest'
    BY <1>1, <1>3, <1>5, <2>1, <2>2, <2>3, QuietKeeps DEF Quiet, Rest
  <2>5. StageInv'
    BY <1>1, <1>3, <1>5, <2>1, StageBusy DEF StageInv
  <2> QED
    BY <1>6, <2>4, <2>5 DEF IInv, Rest
<1>9. CASE read_disconnected(f)
  <2>1. /\ conn_at(f) \in Conn /\ remove_client(f, all_received(conn_at(f)))
        /\ UNCHANGED <<tn, faults, phase, queue, running, lost>>
    BY <1>1, <1>9, ConnAt DEF read_disconnected, pool
  <2>2. /\ all_received(conn_at(f)) \in [Conn -> Connection]
        /\ \A c \in Conn : /\ all_received(conn_at(f))[c].st = net[c].st
                           /\ all_received(conn_at(f))[c].got = net[c].got
    BY <1>1, <2>1, NetTypes, ReceivedSame
  <2>3. faults' >= faults /\ SameTasks
    BY <1>1, <2>1 DEF Types, LoopTypes, SameTasks
  <2>4. Listing'
    BY <1>1, <1>3, <1>5, <2>1, <2>2, <2>3, ListingRemove
  <2>5. /\ \A g \in Fd : /\ fdt'[g] \in {fdt[g], None} /\ wk'[g] \in {wk[g], None}
                         /\ fdt'[g] # None => wk'[g] = wk[g]
        /\ \A c \in Conn : net'[c].got = net[c].got /\ (net[c].st = "closed" => net'[c].st = "closed")
    BY <1>1, <2>1, <2>2, RemoveWrites
  <2>6. OwnerInv' /\ ServedInv' /\ ClosedAfterResponse'
    BY <1>1, <1>3, <1>4, <2>1, <2>5, ClosingKeeps
  <2>7. StageInv'
    BY <1>1, <1>3, <1>5, <2>1, StageBusy DEF StageInv
  <2> QED
    BY <1>6, <2>4, <2>6, <2>7 DEF IInv
<1>10. CASE read_error(f)
  <2>1. UNCHANGED <<net, fdt, wk, list, tn, faults, phase, queue, running, lost>>
    BY <1>10 DEF read_error, pool
  <2>2. faults' >= faults
    BY <1>1, <2>1 DEF Types, LoopTypes
  <2>3. Rest'
    BY <1>1, <1>3, <1>5, <2>1, <2>2, QuietKeeps DEF Quiet, Rest
  <2>4. StageInv'
    BY <1>1, <1>3, <1>5, <2>1, StageBusy DEF StageInv
  <2> QED
    BY <1>6, <2>3, <2>4 DEF IInv, Rest
<1> QED
  BY <1>2, <1>7, <1>8, <1>9, <1>10 DEF read_from_client

LEMMA EofKeeps ==
  ASSUME IInv, NEW e, handle_eof(e)
  PROVE  IInv'
<1>1. Types /\ StageInv /\ Listing /\ OwnerInv /\ ServedInv /\ ClosedAfterResponse
  BY DEF IInv
<1>2. /\ pc = "dispatch" /\ e.filter = "READ" /\ batch' = batch \ {e}
      /\ remove_client(e.fd, net)
      /\ UNCHANGED <<backlog, pc, cfd, tn, faults, phase, queue, running, lost>>
  BY DEF handle_eof, take, bounds, pool
<1>3. \A g, t : Event("WRITE", g, t, FALSE) \in batch => Event("WRITE", g, t, FALSE) \in batch'
  BY <1>2 DEF Event
<1>4. faults' >= faults /\ SameTasks /\ net \in [Conn -> Connection]
  BY <1>1, <1>2 DEF Types, LoopTypes, SameTasks
<1>5. Listing'
  BY <1>1, <1>2, <1>4, ListingRemove
<1>6. /\ \A g \in Fd : /\ fdt'[g] \in {fdt[g], None} /\ wk'[g] \in {wk[g], None}
                       /\ fdt'[g] # None => wk'[g] = wk[g]
      /\ \A c \in Conn : net'[c].got = net[c].got /\ (net[c].st = "closed" => net'[c].st = "closed")
  BY <1>1, <1>2, <1>4, RemoveWrites
<1>7. OwnerInv' /\ ServedInv' /\ ClosedAfterResponse'
  BY <1>1, <1>2, <1>3, <1>6, ClosingKeeps
<1>8. Types' /\ StageInv'
  BY <1>1, <1>2, TypesEof, StageBusy DEF StageInv
<1> QED
  BY <1>5, <1>7, <1>8 DEF IInv

(* A WRITE event. *)
LEMMA WriteKeeps ==
  ASSUME IInv, NEW e, handle_write(e)
  PROVE  IInv'
<1> DEFINE t == e.udata
           f == tn[t].fd
<1>1. Types /\ StageInv /\ Listing /\ OwnerInv /\ ServedInv /\ ClosedAfterResponse
  BY DEF IInv
<1>2. /\ t \in Tns /\ f \in Fd /\ fdt[f] \in Conn \cup {None}
      /\ pc = "dispatch" /\ e \in batch /\ e.filter = "WRITE" /\ batch' = batch \ {e}
      /\ UNCHANGED <<backlog, pc, cfd, phase, queue, running>>
  BY <1>1, WriteFacts
<1>3. faults' = faults \/ faults' = faults + 1 => faults' >= faults
  BY <1>1 DEF Types, LoopTypes
<1>4. Types' /\ StageInv'
  BY <1>1, <1>2, TypesWrite, StageBusy DEF StageInv
<1>5. CASE write_all(t)
  <2>1. /\ fdt[f] \in Conn /\ SameTasks /\ faults' = faults
        /\ sent_to(fdt[f], t, RespLen) \in [Conn -> Connection]
        /\ remove_client(f, sent_to(fdt[f], t, RespLen))
    BY <1>1, <1>5, WriteAllFacts
  <2>2. \A c \in Conn : sent_to(fdt[f], t, RespLen)[c].st = net[c].st
    BY <1>1, <1>2, <2>1, SentSame, RespLenAssumption
  <2>3. Listing'
    <3> HIDE DEF t, f
    <3> QED
      BY <1>1, <1>2, <1>3, <2>1, <2>2, ListingRemove
  <2>4. OwnerInv' /\ ServedInv' /\ ClosedAfterResponse'
    BY <1>1, <1>5, OwnerWriteAll, ServedWriteAll, AnswerWriteAll
  <2> QED
    BY <1>4, <2>3, <2>4 DEF IInv
<1>6. ASSUME NEW n \in 0..RespLen-1, SendsSome(t, n)
      PROVE  IInv'
  <2>1. /\ fdt[f] \in Conn /\ n \in Nat /\ net' = sent_to(fdt[f], t, n)
        /\ UNCHANGED <<fdt, list, tn>> /\ (faults' = faults \/ faults' = faults + 1)
    BY <1>1, <1>6, WriteSomeFacts
  <2>2. \A c \in Conn : net'[c].st = net[c].st
    BY <1>1, <1>2, <2>1, SentSame
  <2>3. Listing'
    BY <1>1, <1>2, <1>3, <2>1, <2>2, ListingQuiet DEF ListQuiet, SameTasks
  <2>4. OwnerInv' /\ ServedInv' /\ ClosedAfterResponse'
    BY <1>1, <1>6, OwnerWriteSome, ServedWriteSome, AnswerWriteSome
  <2> QED
    BY <1>4, <2>3, <2>4 DEF IInv
<1>7. CASE write_error(t)
  <2>1. /\ remove_client(f, net) /\ UNCHANGED <<tn, lost, faults>>
        /\ net \in [Conn -> Connection]
    BY <1>1, <1>7 DEF write_error, Types, bounds
  <2>2. SameTasks
    BY <2>1 DEF SameTasks
  <2>3. Listing' /\ fdt'[f] = None
    <3> HIDE DEF t, f
    <3> QED
      BY <1>1, <1>2, <1>3, <2>1, <2>2, ListingRemove, RemoveCloses
  <2>4. /\ \A g \in Fd : /\ fdt'[g] \in {fdt[g], None} /\ wk'[g] \in {wk[g], None}
                         /\ fdt'[g] # None => wk'[g] = wk[g]
        /\ \A c \in Conn : net'[c].got = net[c].got /\ (net[c].st = "closed" => net'[c].st = "closed")
    BY <1>1, <2>1, RemoveWrites
  <2>5. e = Event("WRITE", f, t, FALSE)
    BY <1>1, <1>2, OwnerUse
  <2>6. \A g \in Fd, s \in Tns : fdt'[g] # None /\ Event("WRITE", g, s, FALSE) \in batch
                                   => Event("WRITE", g, s, FALSE) \in batch'
    <3> HIDE DEF t, f
    <3> QED
      BY <1>2, <2>3, <2>5 DEF Event
  <2>7. OwnerInv' /\ ServedInv' /\ ClosedAfterResponse'
    BY <1>1, <1>2, <2>1, <2>4, <2>6, ClosingKeeps
  <2> QED
    BY <1>4, <2>3, <2>7 DEF IInv
<1> QED
  BY <1>1, <1>5, <1>6, <1>7, WriteFacts DEF write_to_client, SendsSome

LEMMA FreeKeeps ==
  ASSUME IInv, free_list
  PROVE  IInv'
<1>1. Types /\ StageInv /\ Listing /\ OwnerInv /\ ServedInv /\ ClosedAfterResponse
  BY DEF IInv
<1>2. UNCHANGED <<batch, tn, queue, running, lost>>
  BY DEF free_list, pool
<1>3. /\ \A f \in Fd : fdt'[f] = None /\ wk'[f] \in {wk[f], None}
      /\ \A c \in Conn : net'[c].got = net[c].got /\ (net[c].st = "closed" => net'[c].st = "closed")
  BY <1>1, FreeListFacts
<1>4. OwnerInv' /\ ServedInv' /\ ClosedAfterResponse'
  BY <1>1, <1>2, <1>3, ClosingKeeps
<1>5. Types' /\ StageInv' /\ Listing'
  BY <1>1, TypesRelease, StageFree, ListingFree
<1> QED
  BY <1>4, <1>5 DEF IInv

(* The workers. *)
LEMMA WorkerKeeps ==
  ASSUME IInv, \/ start_task
               \/ \E t \in Tn : \/ Forgets(t) \/ handle_conn_builds(t)
                                \/ handle_conn_freed_route(t) \/ handle_conn_registers(t)
  PROVE  IInv'
<1> DEFINE Same == /\ UNCHANGED <<net, fdt, list, cfd, backlog, pc>> /\ SameTasks
                   /\ (faults' = faults \/ faults' = faults + 1)
<1>1. Types /\ StageInv /\ Listing /\ OwnerInv /\ ServedInv /\ ClosedAfterResponse
  BY DEF IInv
<1>2. StageInv'
  BY <1>1, StageWorker
<1>3. Same => Listing' /\ ClosedAfterResponse'
  <2> SUFFICES ASSUME Same
               PROVE  Listing' /\ ClosedAfterResponse'
    OBVIOUS
  <2>1. faults' >= faults
    BY <1>1 DEF Types, LoopTypes
  <2> QED
    BY <1>1, <2>1, ListingQuiet, AnswerStays DEF ListQuiet, AnswerQuiet
<1>4. CASE start_task
  <2>1. /\ UNCHANGED <<net, fdt, wk, list, cfd, backlog, faults, pc, batch, tn, lost>>
        /\ Pool!Start
    BY <1>4 DEF start_task, kernel, bounds
  <2>2. Same
    BY <2>1 DEF SameTasks
  <2>3. Waiting \subseteq Pool!Queued' \cup running'
    BY <1>1, <2>1, StartedFacts DEF Waiting
  <2>4. ServedInv'
    BY <1>1, <2>1, <2>3, ServedStays DEF ServedQuiet
  <2> QED
    BY <1>1, <1>2, <1>3, <1>4, <2>2, <2>4, TypesStart, OwnerStart DEF IInv
<1>5. ASSUME NEW t \in Tn, Forgets(t)
      PROVE  IInv'
  <2>1. Same
    BY <1>1, <1>5, ForgetsFacts DEF SameTasks
  <2>2. Types'
    BY <1>1, <1>5, TypesWorker DEF Forgets
  <2> QED
    BY <1>1, <1>2, <1>3, <1>5, <2>1, <2>2, OwnerForgets, ServedForgets DEF IInv
<1>6. ASSUME NEW t \in Tn, handle_conn_builds(t) \/ handle_conn_freed_route(t)
      PROVE  IInv'
  <2>1. Same
    BY <1>1, <1>6, BuildsFacts DEF SameTasks
  <2> QED
    BY <1>1, <1>2, <1>3, <1>6, <2>1, TypesWorker, OwnerBuilds, ServedBuilds DEF IInv
<1>7. ASSUME NEW t \in Tn, handle_conn_registers(t)
      PROVE  IInv'
  <2>1. Same
    BY <1>1, <1>7, RegistersFacts DEF SameTasks
  <2> QED
    BY <1>1, <1>2, <1>3, <1>7, <2>1, TypesWorker, OwnerRegisters, ServedRegisters DEF IInv
<1> QED
  BY <1>4, <1>5, <1>6, <1>7

LEMMA ClientsKeep ==
  ASSUME IInv, clients
  PROVE  IInv'
<1>1. Types /\ StageInv /\ Listing /\ OwnerInv /\ ServedInv /\ ClosedAfterResponse
  BY DEF IInv
<1>2. PICK c \in Conn :
        /\ UNCHANGED <<fdt, wk, batch, tn, queue, running, lost>>
        /\ \A d \in Conn : net'[d].got = net[d].got
        /\ \/ net[c].st = "out" /\ \A d \in Conn : net'[d].st = IF d = c THEN "backlog" ELSE net[d].st
           \/ \A d \in Conn : net'[d].st = net[d].st
  BY <1>1, ClientFacts
<1>3. \A d \in Conn : net[d].st = "closed" => net'[d].st = "closed"
  BY <1>2
<1>4. OwnerInv' /\ ServedInv' /\ ClosedAfterResponse'
  BY <1>1, <1>2, <1>3, ClosingKeeps
<1>5. Types' /\ StageInv' /\ Listing'
  BY <1>1, TypesClients, StageClients, ListingConnect
<1> QED
  BY <1>4, <1>5 DEF IInv

LEMMA StutterKeeps ==
  ASSUME IInv, UNCHANGED vars
  PROVE  IInv'
<1>1. Types /\ StageInv /\ Rest
  BY DEF IInv, Rest
<1>2. UNCHANGED <<fdt, list, cfd, backlog, wk, tn, queue, running, net, faults, batch, pc,
                  lnOpen, route, phase>>
  BY DEF vars, kernel, bounds, pool
<1>7. lost \subseteq lost'
  BY DEF vars
<1>3. faults' >= faults
  BY <1>1, <1>2 DEF Types, LoopTypes
<1>4. Rest'
  BY <1>1, <1>2, <1>3, <1>7, QuietKeeps DEF Quiet
<1>5. StageInv'
  BY <1>1, <1>2 DEF StageInv
<1>6. Types'
  BY <1>1 DEF vars, kernel, bounds, pool, Types, LoopTypes, Tns, Pool!Queued
<1> QED
  BY <1>4, <1>5, <1>6 DEF IInv, Rest

LEMMA IInvNext == IInv /\ [Next]_vars => IInv'
<1> SUFFICES ASSUME IInv, [Next]_vars
             PROVE  IInv'
  OBVIOUS
<1>1. CASE serve_and_listen
  <2>1. CASE enter_kevent \/ end_of_batch \/ accept_client_returns
             \/ destroy_route \/ destroy_pool \/ join
    BY <2>1, LoopKeeps
  <2>2. CASE \/ leave_loop \/ kevent_fails \/ return_from_kevent \/ free_list
             \/ accept_client_fails \/ accept_client_malloc_fails
    BY <2>2, LeaveKeeps, ReportKeeps, FreeKeeps, AcceptErrorKeeps, CrashKeeps
  <2>3. CASE handling
    <3>1. PICK e \in batch : \/ start_accept(e) \/ handle_read(e) \/ handle_read_freed(e)
                             \/ handle_read_freed_crashes(e) \/ handle_eof(e) \/ handle_write(e)
      BY <2>3 DEF handling
    <3> QED
      BY <3>1, LoopKeeps, ReadKeeps, CrashKeeps, EofKeeps, WriteKeeps
  <2>4. CASE accepting
    BY <2>4, AcceptKeeps DEF accepting, Accepts
  <2> QED
    BY <1>1, <2>1, <2>2, <2>3, <2>4 DEF serve_and_listen
<1>2. CASE start_task
  BY <1>2, WorkerKeeps
<1>3. ASSUME NEW t \in Tn, handle_conn(t)
      PROVE  IInv'
  BY <1>3, WorkerKeeps, CrashKeeps DEF handle_conn, Forgets
<1>4. CASE shut_down_server
  BY <1>4, LoopKeeps
<1>5. CASE clients
  BY <1>5, ClientsKeep
<1>6. CASE UNCHANGED vars
  BY <1>6, StutterKeeps
<1> QED
  BY <1>1, <1>2, <1>3, <1>4, <1>5, <1>6 DEF Next
-----------------------------------------------------------------------------
(* What the history of failures accounts for.                              *)

(* A connection that was read from has a thread_node_t, or a failing call  *)
(* left it to itself, or it is closed.                                     *)
ReadInv == \A c \in Conn : net[c].rcvd > 0 =>
             c \in lost \/ net[c].st = "closed" \/ \E t \in Tns : tn[t].conn = c

History == /\ lost \subseteq Conn /\ files \subseteq Fd
           /\ ReadInv
           /\ PendingNoticed

Reads == /\ Tns \subseteq Tns' /\ \A t \in Tns : tn'[t].conn = tn[t].conn
         /\ lost \subseteq lost'
         /\ \A c \in Conn : /\ net[c].st = "closed" => net'[c].st = "closed"
                            /\ \/ net'[c].rcvd = net[c].rcvd
                               \/ c \in lost'
                               \/ net'[c].st = "closed"
                               \/ \E t \in Tns' : tn'[t].conn = c

(* What changing one connection leaves alone. *)
StateSet(net1, c, s) == net1 = [net EXCEPT ![c].st = s]

LEMMA StateAlone ==
  ASSUME Types, NEW c \in Conn, NEW s, NEW net1, StateSet(net1, c, s), NEW d \in Conn
  PROVE  /\ net1[d].rcvd = net[d].rcvd
         /\ net1[d].st = IF d = c THEN s ELSE net[d].st
<1> USE DEF StateSet
<1>1. net \in [Conn -> Connection] /\ net[c] \in Connection /\ net[d] \in Connection
  BY DEF Types
<1>2. CASE c = d
  BY <1>1, <1>2 DEF Connection
<1>3. CASE c # d
  BY <1>1, <1>3 DEF Connection
<1> QED
  BY <1>2, <1>3

LEMMA ReceivedAlone ==
  ASSUME Types, NEW c \in Conn, NEW n \in Nat, NEW net1, net1 = received_upto(c, n)
  PROVE  /\ net1 \in [Conn -> Connection]
         /\ \A d \in Conn : /\ net1[d].st = net[d].st
                            /\ d # c => net1[d].rcvd = net[d].rcvd
<1>1. net1 \in [Conn -> Connection]
  BY NetTypes
<1>2. ASSUME NEW d \in Conn
      PROVE  net1[d].st = net[d].st /\ (d # c => net1[d].rcvd = net[d].rcvd)
  <2>1. net \in [Conn -> Connection] /\ net[c] \in Connection /\ net[d] \in Connection
    BY DEF Types
  <2>2. CASE c = d
    BY <2>1, <2>2 DEF received_upto, Connection
  <2>3. CASE c # d
    BY <2>1, <2>3 DEF received_upto, Connection
  <2> QED
    BY <2>2, <2>3
<1> QED
  BY <1>1, <1>2

LEMMA AllReceivedAlone ==
  ASSUME Types, NEW c \in Conn
  PROVE  /\ all_received(c) \in [Conn -> Connection]
         /\ \A d \in Conn : /\ all_received(c)[d].st = net[d].st
                            /\ d # c => all_received(c)[d].rcvd = net[d].rcvd
<1>1. net[c].sent \in Nat
  BY DEF Types, Connection
<1> QED
  BY <1>1, ReceivedAlone DEF all_received

LEMMA ReadStays ==
  ASSUME ReadInv, Reads
  PROVE  ReadInv'
<1> SUFFICES ASSUME NEW c \in Conn, net'[c].rcvd > 0, c \notin lost', net'[c].st # "closed"
             PROVE  \E t \in Tns' : tn'[t].conn = c
  BY DEF ReadInv
<1>1. CASE net'[c].rcvd = net[c].rcvd
  <2>1. net[c].rcvd > 0 /\ c \notin lost /\ net[c].st # "closed"
    BY <1>1 DEF Reads
  <2>2. PICK t \in Tns : tn[t].conn = c
    BY <2>1 DEF ReadInv
  <2> QED
    BY <2>2 DEF Reads
<1> QED
  BY <1>1 DEF Reads

(* A step that leaves the listener, its event and accept_client alone. *)
Notices == /\ UNCHANGED <<backlog, lnReady>> /\ lost \subseteq lost'
           /\ pc' # "crashed" => pc # "crashed" /\ (pc = "accept" => pc' = "accept")
           /\ \A e \in batch : e.filter = "READ" /\ e.fd = LnFd => e \in batch'

LEMMA NoticeStays ==
  ASSUME PendingNoticed, Notices
  PROVE  PendingNoticed'
BY DEF PendingNoticed, Notices, Pending

LEMMA CloseFiles ==
  ASSUME Types, NEW F, NEW net0 \in [Conn -> Connection], files \subseteq Fd,
         \A c \in Conn : net0[c].st = net[c].st /\ net0[c].rcvd = net[c].rcvd,
         close(F, net0)
  PROVE  /\ files' \subseteq Fd
         /\ \A c \in Conn : /\ net[c].st = "closed" => net'[c].st = "closed"
                            /\ net'[c].rcvd = net[c].rcvd
<1>1. \A c \in Conn : /\ net'[c].st = IF \E f \in F : fdt[f] = c THEN "closed" ELSE net0[c].st
                      /\ net'[c].rcvd = net0[c].rcvd
  BY CloseFacts
<1>2. files' = files \ F
  BY DEF close
<1> QED
  BY <1>1, <1>2

LEMMA RemoveFiles ==
  ASSUME Types, NEW f, NEW net0 \in [Conn -> Connection], files \subseteq Fd,
         \A c \in Conn : net0[c].st = net[c].st /\ net0[c].rcvd = net[c].rcvd,
         remove_client(f, net0)
  PROVE  /\ files' \subseteq Fd
         /\ \A c \in Conn : /\ net[c].st = "closed" => net'[c].st = "closed"
                            /\ net'[c].rcvd = net[c].rcvd
<1>1. CASE net' = net0 /\ files' = files
  BY <1>1
<1>2. CASE close({f}, net0)
  BY <1>2, CloseFiles
<1> QED
  BY <1>1, <1>2 DEF remove_client

(* Steps that change no connection. *)
LEMMA HistoryMoves ==
  ASSUME Types, History,
         \/ enter_kevent \/ end_of_batch \/ shut_down_server
         \/ destroy_route \/ destroy_pool \/ join \/ start_task
         \/ \E t \in Tn : Forgets(t) \/ handle_conn_registers(t)
  PROVE  History'
<1>1. /\ UNCHANGED <<net, files, backlog, lnReady, tn>>
      /\ pc' # "crashed" => pc # "crashed" /\ (pc = "accept" => pc' = "accept")
      /\ \A e \in batch : e \in batch'
  <2> USE DEF kernel
  <2>1. CASE enter_kevent \/ end_of_batch \/ shut_down_server
    BY <2>1 DEF enter_kevent, end_of_batch, shut_down_server
  <2>2. CASE destroy_route \/ destroy_pool \/ join \/ start_task
    BY <2>2 DEF destroy_route, destroy_pool, join, start_task
  <2>3. ASSUME NEW t \in Tn, Forgets(t) \/ handle_conn_registers(t)
        PROVE  /\ UNCHANGED <<net, files, backlog, lnReady, tn, pc, batch>> /\ pc # "crashed"
    BY <2>3 DEF Forgets, handle_conn_rejects, handle_conn_register_fails,
                handle_conn_registers, working
  <2> QED
    BY <2>1, <2>2, <2>3
<1>2. lost \subseteq lost' /\ lost' \subseteq Conn
  <2>1. CASE lost' = lost
    BY <2>1 DEF History
  <2>2. ASSUME NEW t \in Tn, handle_conn_register_fails(t)
        PROVE  lost \subseteq lost' /\ lost' \subseteq Conn
    <3>1. /\ t \in Tns /\ fdt[tn[t].fd] # None
          /\ lost' = lost \cup {fdt[tn[t].fd]}
      BY <2>2, FinishFacts DEF handle_conn_register_fails
    <3>2. tn[t].fd \in Fd
      BY <3>1, TaskConn
    <3>3. fdt[tn[t].fd] \in Conn
      BY <3>1, <3>2 DEF Types, LoopTypes
    <3> QED
      BY <3>1, <3>3 DEF History
  <2>3. lost' = lost \/ \E t \in Tn : handle_conn_register_fails(t)
    BY DEF enter_kevent, end_of_batch, shut_down_server, destroy_route, destroy_pool, join,
           start_task, Forgets, handle_conn_rejects, handle_conn_registers
  <2> QED
    BY <2>1, <2>2, <2>3
<1>3. Reads
  BY <1>1, <1>2 DEF Reads, Tns
<1>4. Notices
  BY <1>1, <1>2 DEF Notices
<1> QED
  BY <1>1, <1>2, <1>3, <1>4, ReadStays, NoticeStays DEF History

(* Steps that leave accept_client or the loop: no client is pending, or    *)
(* those that are were left by a failing accept.                           *)
LEMMA HistoryLeaves ==
  ASSUME Types, Listing, History,
         leave_loop \/ kevent_fails \/ accept_client_returns \/ accept_client_fails
  PROVE  History'
<1>1. UNCHANGED <<files, tn>>
  BY DEF leave_loop, kevent_fails, accept_client_returns, accept_client_fails, kernel
<1>2. /\ lost \subseteq lost' /\ lost' \subseteq Conn /\ Pending' \subseteq lost'
      /\ \A c \in Conn : /\ net[c].st = "closed" => net'[c].st = "closed"
                         /\ net'[c].rcvd = net[c].rcvd
  <2>1. CASE leave_loop \/ kevent_fails
    <3>1. lost' = lost /\ close_listener
      BY <2>1 DEF leave_loop, kevent_fails
    <3>2. Pending' = {}
      BY <3>1 DEF close_listener, Pending
    <3>3. \A c \in Conn : /\ net[c].st = "closed" => net'[c].st = "closed"
                          /\ net'[c].rcvd = net[c].rcvd
      BY <3>1 DEF close_listener, Types, Connection
    <3> QED
      BY <3>1, <3>2, <3>3 DEF History
  <2>2. CASE accept_client_returns
    <3>1. lost' = lost \cup Pending /\ UNCHANGED <<net, backlog>>
      BY <2>2 DEF accept_client_returns, kernel
    <3>2. Pending' = Pending /\ Pending \subseteq Conn
      BY <3>1, ListFacts DEF Pending
    <3> QED
      BY <3>1, <3>2 DEF History
  <2>3. CASE accept_client_fails
    <3>1. /\ lost' = lost \cup Pending /\ backlog # << >>
          /\ \/ UNCHANGED <<net, backlog>>
             \/ net' = [net EXCEPT ![Head(backlog)].st = "closed"] /\ backlog' = Tail(backlog)
      BY <2>3 DEF accept_client_fails
    <3>2. /\ Len(Tail(backlog)) = Len(backlog) - 1 /\ Len(backlog) \in Nat
          /\ \A k \in 1..Len(backlog)-1 : Tail(backlog)[k] = backlog[k + 1]
          /\ Head(backlog) \in Conn
      BY <3>1, ListFacts, TailElements DEF Types
    <3>3. Pending \subseteq Conn
      BY ListFacts DEF Pending
    <3>4. Pending' \subseteq Pending
      <4>1. CASE backlog' = backlog
        BY <4>1 DEF Pending
      <4>2. CASE backlog' = Tail(backlog)
        <5>1. \A k \in 1..Len(backlog') : k + 1 \in 1..Len(backlog) /\ backlog'[k] = backlog[k + 1]
          BY <3>2, <4>2
        <5> QED
          BY <5>1 DEF Pending
      <4> QED
        BY <3>1, <4>1, <4>2
    <3>5. \A c \in Conn : /\ net[c].st = "closed" => net'[c].st = "closed"
                          /\ net'[c].rcvd = net[c].rcvd
      <4>1. CASE net' = net
        BY <4>1
      <4>2. CASE net' = [net EXCEPT ![Head(backlog)].st = "closed"]
        <5> DEFINE h == Head(backlog)
        <5>1. h \in Conn /\ StateSet(net', h, "closed")
          BY <3>2, <4>2 DEF StateSet
        <5> HIDE DEF h
        <5>2. \A c \in Conn : /\ net'[c].rcvd = net[c].rcvd
                             /\ net'[c].st = IF c = h THEN "closed" ELSE net[c].st
          BY <5>1, StateAlone
        <5> QED
          BY <5>2
      <4> QED
        BY <3>1, <4>1, <4>2
    <3> QED
      BY <3>1, <3>3, <3>4, <3>5 DEF History
  <2> QED
    BY <2>1, <2>2, <2>3
<1>3. Reads
  BY <1>1, <1>2 DEF Reads, Tns
<1>4. PendingNoticed'
  BY <1>2 DEF PendingNoticed
<1> QED
  BY <1>1, <1>2, <1>3, <1>4, ReadStays DEF History

(* kevent reports the listener once, accept_client begins, and goes on. *)
LEMMA HistoryAccepts ==
  ASSUME Types, StageInv, Listing, History,
         \/ return_from_kevent
         \/ \E e \in batch : start_accept(e)
         \/ \E c \in Conn, f \in Fd : Accepts(c, f)
  PROVE  History'
<1>1. /\ UNCHANGED <<files, tn, lost>>
      /\ \A c \in Conn : /\ net[c].st = "closed" => net'[c].st = "closed"
                         /\ net'[c].rcvd = net[c].rcvd
  <2>1. CASE return_from_kevent \/ \E e \in batch : start_accept(e)
    BY <2>1 DEF return_from_kevent, kevent_report, start_accept, kernel
  <2>2. ASSUME NEW c \in Conn, NEW f \in Fd, Accepts(c, f)
        PROVE  /\ UNCHANGED <<files, tn, lost>>
               /\ \A d \in Conn : /\ net[d].st = "closed" => net'[d].st = "closed"
                                  /\ net'[d].rcvd = net[d].rcvd
    <3>1. /\ UNCHANGED <<files, tn, lost>>
          /\ \/ net' = [net EXCEPT ![c].st = "open"]
             \/ net' = [net EXCEPT ![c].st = "closed"]
      BY <2>2, Zenon DEF Accepts, accept_client, accept_client_nonblock_fails,
                         accept_client_register_fails, accepted_state
    <3>2. net[c].st = "backlog" /\ \A d \in Conn : d # c => net'[d].st = net[d].st
      BY <2>2, AcceptFacts
    <3>3. \A d \in Conn : net'[d].rcvd = net[d].rcvd
      <4>1. CASE net' = [net EXCEPT ![c].st = "open"]
        BY <4>1, StateAlone DEF StateSet
      <4>2. CASE net' = [net EXCEPT ![c].st = "closed"]
        BY <4>2, StateAlone DEF StateSet
      <4> QED
        BY <3>1, <4>1, <4>2
    <3> QED
      BY <3>1, <3>2, <3>3
  <2> QED
    BY <2>1, <2>2
<1>2. Reads
  BY <1>1 DEF Reads, Tns
<1>3. PendingNoticed'
  <2>1. CASE pc' = "accept"
    BY <2>1 DEF PendingNoticed
  <2>2. CASE return_from_kevent
    <3>1. /\ pc = "kevent" /\ batch = {} /\ batch' = ReadyEvents /\ UNCHANGED <<backlog, lost>>
      BY <1>1, <2>2, ReportFacts DEF StageInv
    <3>2. Pending' = Pending
      BY <3>1 DEF Pending
    <3>3. lnReady => Event("READ", LnFd, None, FALSE) \in batch'
      BY <3>1 DEF ReadyEvents
    <3>4. CASE lnReady
      BY <3>3, <3>4 DEF PendingNoticed, Event
    <3>5. CASE ~lnReady
      BY <3>1, <3>2, <3>5 DEF History, PendingNoticed
    <3> QED
      BY <3>4, <3>5
  <2>3. return_from_kevent \/ pc' = "accept"
    BY DEF start_accept, Accepts, accept_client, accept_client_nonblock_fails,
           accept_client_register_fails
  <2> QED
    BY <2>1, <2>2, <2>3
<1> QED
  BY <1>1, <1>2, <1>3, ReadStays DEF History

(* The process dies, or frees the list. *)
LEMMA HistoryEnds ==
  ASSUME IInv, History,
         \/ accept_client_malloc_fails \/ free_list
         \/ \E e \in batch : handle_read_freed_crashes(e)
         \/ \E t \in Tn : handle_conn_crashes(t)
  PROVE  History'
<1>1. CASE free_list
  <2>1. /\ close({cfd[c] : c \in Node}, net) /\ UNCHANGED <<tn, lost, backlog, lnReady, batch>>
        /\ pc = "free_list"
    BY <1>1 DEF free_list
  <2>2. /\ files' \subseteq Fd
        /\ \A c \in Conn : /\ net[c].st = "closed" => net'[c].st = "closed"
                           /\ net'[c].rcvd = net[c].rcvd
    BY <2>1, CloseFiles DEF IInv, Types, History
  <2>3. Reads
    BY <2>1, <2>2 DEF Reads, Tns
  <2>4. Notices
    BY <2>1 DEF Notices
  <2> QED
    BY <2>1, <2>2, <2>3, <2>4, ReadStays, NoticeStays DEF History
<1>2. CASE crash
  <2>1. /\ pc' = "crashed" /\ UNCHANGED <<tn, lost, files>>
        /\ net' = [c \in Conn |-> IF net[c].st \in {"backlog", "open"}
                                 THEN [net[c] EXCEPT !.st = "closed"] ELSE net[c]]
    BY <1>2 DEF crash
  <2>2. \A c \in Conn : /\ net[c].st = "closed" => net'[c].st = "closed"
                        /\ net'[c].rcvd = net[c].rcvd
    BY <2>1 DEF IInv, Types, Connection
  <2>3. Reads
    BY <2>1, <2>2 DEF Reads, Tns
  <2> QED
    BY <2>1, <2>3, ReadStays DEF History, PendingNoticed
<1> QED
  BY <1>1, <1>2 DEF accept_client_malloc_fails, handle_read_freed_crashes, handle_conn_crashes

(* A READ event: bytes are read for a thread_node_t, dropped by a failure, *)
(* or lost with the connection.                                            *)
LEMMA HistoryRead ==
  ASSUME IInv, History, NEW e, handle_read(e) \/ handle_read_freed(e)
  PROVE  History'
<1>1. Types /\ Listing
  BY DEF IInv
<1>2. PICK f : read_from_client(f)
  BY ReadFactors
<1>3. /\ ReadFrame /\ pc = "dispatch" /\ batch' = batch \ {e}
  BY ReadFactors
<1>4. e.fd # LnFd
  BY DEF handle_read, handle_read_freed
<1>5. lost \subseteq lost' => Notices
  BY <1>3, <1>4 DEF Notices, ReadFrame
<1>6. lost \subseteq lost' /\ lost' \subseteq Conn /\ files' \subseteq Fd /\ Reads
  <2> USE <1>1 DEF History
  <2>1. CASE read_request(f)
    <3>1. /\ f \in Fd /\ fdt[f] \in Conn /\ net' = all_received(fdt[f]) /\ Len(tn) \in Nat
          /\ Len(tn') = Len(tn) + 1 /\ \A t \in Tns : tn'[t] = tn[t]
          /\ tn'[Len(tn) + 1].conn = fdt[f]
          /\ lost' = lost \/ lost' = lost \cup {fdt[f]}
      <4>1. /\ f \in Fd /\ fdt[f] \in Conn /\ net' = all_received(fdt[f])
            /\ Len(tn') = Len(tn) + 1 /\ \A t \in Tns : tn'[t] = tn[t]
            /\ tn'[Len(tn) + 1] = NewTask(f)
            /\ lost' = lost \/ lost' = lost \cup {fdt[f]}
        BY <2>1, RequestFacts
      <4> QED
        BY <4>1, ListFacts DEF NewTask
    <3>2. files' = files
      BY <2>1 DEF read_request
    <3>3. Tns \subseteq Tns' /\ Len(tn) + 1 \in Tns'
      BY <3>1 DEF Tns
    <3>4. \A c \in Conn : /\ net'[c].st = net[c].st
                          /\ c # fdt[f] => net'[c].rcvd = net[c].rcvd
      BY <3>1 DEF all_received, received_upto, Types, Connection
    <3>5. Reads
      BY <3>1, <3>3, <3>4 DEF Reads
    <3> QED
      BY <3>1, <3>2, <3>5
  <2>2. CASE read_request_malloc_fails(f)
    <3>1. /\ conn_at(f) \in Conn /\ lost' = lost \cup {conn_at(f)} /\ UNCHANGED <<files, tn>>
          /\ \E n \in Nat : net' = received_upto(conn_at(f), n)
      BY <2>2, DroppedFacts
    <3>2. \A c \in Conn : /\ net'[c].st = net[c].st
                          /\ c # conn_at(f) => net'[c].rcvd = net[c].rcvd
      BY <3>1 DEF received_upto, Types, Connection
    <3>3. Reads
      BY <3>1, <3>2 DEF Reads, Tns
    <3> QED
      BY <3>1, <3>3
  <2>3. CASE read_disconnected(f)
    <3> DEFINE c == conn_at(f)
               net0 == all_received(c)
    <3>1. /\ f \in Fd /\ c = fdt[f] /\ c \in Conn /\ remove_client(f, net0)
          /\ UNCHANGED <<tn, lost>>
      BY <2>3, ConnAt DEF read_disconnected
    <3>2. /\ net0 \in [Conn -> Connection]
          /\ \A d \in Conn : /\ net0[d].st = net[d].st
                             /\ d # c => net0[d].rcvd = net[d].rcvd
      <4>1. c \in Conn
        BY <3>1
      <4> HIDE DEF c
      <4> QED
        BY <4>1, AllReceivedAlone
    <3> HIDE DEF c, net0
    <3>3. \A d \in Conn : fdt[f] = d => net'[d].st = "closed"
      BY <1>3, <3>1, <3>2, RemoveCloses
    <3>4. /\ files' \subseteq Fd
          /\ \A d \in Conn : /\ net[d].st = "closed" => net'[d].st = "closed"
                             /\ net'[d].rcvd = net0[d].rcvd
      <4>1. CASE net' = net0 /\ files' = files
        BY <3>2, <4>1
      <4>2. CASE close({f}, net0)
        <5>1. \A d \in Conn : /\ net'[d].st = IF \E g \in {f} : fdt[g] = d THEN "closed" ELSE net0[d].st
                              /\ net'[d].rcvd = net0[d].rcvd
          BY <3>2, <4>2, CloseFacts
        <5>2. files' = files \ {f}
          BY <4>2 DEF close
        <5> QED
          BY <3>2, <5>1, <5>2
      <4> QED
        BY <3>1, <4>1, <4>2 DEF remove_client
    <3>5. Reads
      BY <3>1, <3>2, <3>3, <3>4 DEF Reads, Tns
    <3> QED
      BY <3>1, <3>4, <3>5
  <2>4. CASE read_error(f)
    <3>1. UNCHANGED <<net, files, tn, lost>>
      BY <2>4 DEF read_error
    <3> QED
      BY <3>1 DEF Reads, Tns
  <2> QED
    BY <1>2, <2>1, <2>2, <2>3, <2>4 DEF read_from_client
<1> QED
  BY <1>5, <1>6, ReadStays, NoticeStays DEF History

(* The other events, and responses built. *)
LEMMA HistoryOther ==
  ASSUME IInv, History, \/ \E e : handle_eof(e) \/ handle_write(e)
                        \/ \E t \in Tn : handle_conn_builds(t) \/ handle_conn_freed_route(t)
                        \/ clients
  PROVE  History'
<1>1. Types /\ Listing
  BY DEF IInv
<1> USE <1>1 DEF History
<1>2. ASSUME NEW e, handle_eof(e)
      PROVE  History'
  <2>1. /\ e \in batch /\ e.eof /\ batch' = batch \ {e} /\ remove_client(e.fd, net)
        /\ UNCHANGED <<backlog, lnReady, pc, tn, lost>> /\ pc = "dispatch"
    BY <1>2 DEF handle_eof, take
  <2>2. e.fd # LnFd
    BY <2>1 DEF Types, Fd, LnFd
  <2>3. /\ files' \subseteq Fd
        /\ \A c \in Conn : /\ net[c].st = "closed" => net'[c].st = "closed"
                           /\ net'[c].rcvd = net[c].rcvd
    BY <2>1, RemoveFiles DEF Types
  <2>4. Reads
    BY <2>1, <2>3 DEF Reads, Tns
  <2>5. Notices
    BY <2>1, <2>2 DEF Notices
  <2> QED
    BY <2>1, <2>3, <2>4, <2>5, ReadStays, NoticeStays
<1>3. ASSUME NEW e, handle_write(e)
      PROVE  History'
  <2> DEFINE t == e.udata
             f == tn[t].fd
  <2>1. /\ t \in Tns /\ f \in Fd /\ fdt[f] \in Conn \cup {None} /\ pc = "dispatch"
        /\ e.filter = "WRITE" /\ batch' = batch \ {e} /\ write_to_client(t)
        /\ UNCHANGED <<backlog, lnReady, pc>>
    BY <1>3, WriteFacts
  <2>2. \A n \in Nat : fdt[f] # None =>
          /\ sent_to(fdt[f], t, n) \in [Conn -> Connection]
          /\ \A c \in Conn : /\ sent_to(fdt[f], t, n)[c].st = net[c].st
                             /\ sent_to(fdt[f], t, n)[c].rcvd = net[c].rcvd
    <3> SUFFICES ASSUME NEW n \in Nat, fdt[f] # None
                 PROVE  /\ sent_to(fdt[f], t, n) \in [Conn -> Connection]
                        /\ \A c \in Conn : /\ sent_to(fdt[f], t, n)[c].st = net[c].st
                                           /\ sent_to(fdt[f], t, n)[c].rcvd = net[c].rcvd
      OBVIOUS
    <3> HIDE DEF f, t
    <3>1. fdt[f] \in Conn /\ sent_to(fdt[f], t, n) \in [Conn -> Connection]
      BY <2>1, NetTypes
    <3> QED
      BY <2>1, <3>1 DEF sent_to, Types, Connection
  <2>3. /\ lost \subseteq lost' /\ lost' \subseteq Conn /\ files' \subseteq Fd
        /\ Len(tn') = Len(tn) /\ \A s \in Tns : tn'[s].conn = tn[s].conn
        /\ \A c \in Conn : /\ net[c].st = "closed" => net'[c].st = "closed"
                           /\ net'[c].rcvd = net[c].rcvd
    <3>1. CASE write_all(t)
      <4>1. /\ fdt[f] # None /\ remove_client(f, sent_to(fdt[f], t, RespLen)) /\ lost' = lost
            /\ SameTasks
        BY <1>3, <3>1, WriteAllFacts DEF write_all
      <4> HIDE DEF f, t
      <4>2. /\ files' \subseteq Fd
            /\ \A c \in Conn : /\ net[c].st = "closed" => net'[c].st = "closed"
                               /\ net'[c].rcvd = net[c].rcvd
        BY <2>2, <4>1, RespLenAssumption, RemoveFiles
      <4> QED
        BY <4>1, <4>2 DEF SameTasks
    <3>2. ASSUME NEW n \in 0..RespLen-1, SendsSome(t, n)
          PROVE  /\ lost \subseteq lost' /\ lost' \subseteq Conn /\ UNCHANGED <<files, tn>>
                 /\ \A c \in Conn : /\ net'[c].st = net[c].st
                                    /\ net'[c].rcvd = net[c].rcvd
      <4>1. /\ fdt[f] # None /\ n \in Nat /\ net' = sent_to(fdt[f], t, n) /\ UNCHANGED <<files, tn>>
            /\ lost' = lost \/ lost' = lost \cup {fdt[f]}
        BY <3>2, RespLenAssumption DEF SendsSome, write_some, write_some_register_fails, send_some
      <4> HIDE DEF f, t
      <4> QED
        BY <2>1, <2>2, <4>1
    <3>3. CASE write_error(t)
      <4>1. remove_client(f, net) /\ UNCHANGED <<tn, lost>>
        BY <3>3 DEF write_error
      <4> HIDE DEF f, t
      <4> QED
        BY <4>1, RemoveFiles DEF Types
    <3> QED
      BY <2>1, <3>1, <3>2, <3>3 DEF write_to_client, SendsSome
  <2>4. Reads
    BY <2>3 DEF Reads, Tns
  <2>5. Notices
    BY <2>1, <2>3 DEF Notices
  <2> QED
    BY <2>3, <2>4, <2>5, ReadStays, NoticeStays
<1>4. ASSUME NEW t \in Tn, handle_conn_builds(t) \/ handle_conn_freed_route(t)
      PROVE  History'
  <2>1. /\ UNCHANGED <<net, backlog, lnReady, pc, batch, lost>>
        /\ may_open_file(t) /\ pc # "crashed"
    BY <1>4 DEF handle_conn_builds, handle_conn_freed_route, LooksUpFreedRoute, working
  <2>2. files' \subseteq Fd
    BY <2>1 DEF may_open_file, open_file
  <2>3. Len(tn') = Len(tn) /\ \A s \in Tns : tn'[s].conn = tn[s].conn
    BY <1>4, BuildsFacts
  <2>4. Reads
    BY <2>1, <2>3 DEF Reads, Tns
  <2>5. Notices
    BY <2>1 DEF Notices
  <2> QED
    BY <2>1, <2>2, <2>4, <2>5, ReadStays, NoticeStays
<1>5. CASE clients
  <2>1. PICK c \in Conn :
          /\ UNCHANGED <<files, tn, batch, lost, pc>> /\ pc # "crashed"
          /\ \A d \in Conn : net'[d].rcvd = net[d].rcvd
          /\ \/ /\ net[c].st = "out" /\ lnReady' = TRUE
                /\ \A d \in Conn : net'[d].st = IF d = c THEN "backlog" ELSE net[d].st
             \/ /\ UNCHANGED <<backlog, lnReady>>
                /\ \A d \in Conn : net'[d].st = net[d].st
    BY <1>5, ClientFacts
  <2>2. \A d \in Conn : net[d].st = "closed" => net'[d].st = "closed"
    BY <2>1
  <2>3. Reads
    BY <2>1, <2>2 DEF Reads, Tns
  <2>4. PendingNoticed'
    <3>1. CASE lnReady' = TRUE
      BY <3>1 DEF PendingNoticed
    <3>2. CASE UNCHANGED <<backlog, lnReady>>
      <4>1. Notices
        BY <2>1, <3>2 DEF Notices
      <4> QED
        BY <4>1, NoticeStays
    <3> QED
      BY <2>1, <3>1, <3>2
  <2> QED
    BY <2>1, <2>3, <2>4, ReadStays
<1> QED
  BY <1>2, <1>3, <1>4, <1>5

LEMMA HistoryInit == Init => History
<1> SUFFICES ASSUME Init
             PROVE  History
  OBVIOUS
<1>1. /\ lost = {} /\ files = {} /\ backlog = << >> /\ net = [c \in Conn |-> Fresh]
  BY DEF Init, KernelInit
<1>2. \A c \in Conn : ~(net[c].rcvd > 0)
  BY <1>1 DEF Fresh
<1>3. Pending = {}
  BY <1>1 DEF Pending
<1> QED
  BY <1>1, <1>2, <1>3 DEF History, ReadInv, PendingNoticed

LEMMA HistoryNext == IInv /\ History /\ [Next]_vars => History'
<1> SUFFICES ASSUME IInv, History, [Next]_vars
             PROVE  History'
  OBVIOUS
<1>0. Types /\ StageInv /\ Listing
  BY DEF IInv
<1>1. CASE serve_and_listen
  <2>1. CASE enter_kevent \/ end_of_batch \/ destroy_route \/ destroy_pool \/ join
    BY <1>0, <2>1, HistoryMoves
  <2>2. CASE leave_loop \/ kevent_fails \/ accept_client_returns \/ accept_client_fails
    BY <1>0, <2>2, HistoryLeaves
  <2>3. CASE return_from_kevent \/ accepting
    BY <1>0, <2>3, HistoryAccepts DEF accepting, Accepts
  <2>4. CASE free_list \/ accept_client_malloc_fails
    BY <2>4, HistoryEnds
  <2>5. CASE handling
    <3>1. PICK e \in batch : \/ start_accept(e) \/ handle_read(e) \/ handle_read_freed(e)
                             \/ handle_read_freed_crashes(e) \/ handle_eof(e) \/ handle_write(e)
      BY <2>5 DEF handling
    <3> QED
      BY <1>0, <3>1, HistoryAccepts, HistoryRead, HistoryEnds, HistoryOther
  <2> QED
    BY <1>1, <2>1, <2>2, <2>3, <2>4, <2>5 DEF serve_and_listen
<1>2. CASE start_task \/ shut_down_server
  BY <1>0, <1>2, HistoryMoves
<1>3. ASSUME NEW t \in Tn, handle_conn(t)
      PROVE  History'
  <2>1. CASE Forgets(t) \/ handle_conn_registers(t)
    BY <1>0, <2>1, HistoryMoves
  <2>2. CASE handle_conn_builds(t) \/ handle_conn_freed_route(t)
    BY <2>2, HistoryOther
  <2>3. CASE handle_conn_crashes(t)
    BY <2>3, HistoryEnds
  <2> QED
    BY <1>3, <2>1, <2>2, <2>3 DEF handle_conn, Forgets
<1>4. CASE clients
  BY <1>4, HistoryOther
<1>5. CASE UNCHANGED vars
  <2>1. Reads /\ Notices
    BY <1>5 DEF Reads, Notices, Tns, vars, kernel
  <2> QED
    BY <1>5, <2>1, ReadStays, NoticeStays DEF History, vars, kernel
<1> QED
  BY <1>1, <1>2, <1>3, <1>4, <1>5 DEF Next
-----------------------------------------------------------------------------
(* The connection at a descriptor is not closed.                           *)
OpenFds == \A f \in Fd : fdt[f] # None => net[fdt[f]].st # "closed"

LEMMA AtFd ==
  ASSUME IInv, NEW f \in Fd, fdt[f] # None
  PROVE  /\ fdt[f] \in Conn /\ net[fdt[f]].st \in {"open", "closed"} /\ pc # "crashed"
         /\ cfd[fdt[f]] = f
<1>1. Types /\ Listing /\ StageInv
  BY DEF IInv
<1>2. fdt[f] \in Conn
  BY <1>1 DEF Types, LoopTypes
<1>3. pc # "crashed"
  BY <1>1 DEF StageInv
<1> QED
  BY <1>1, <1>2, <1>3, ListingUse

(* Connections change their state only while nobody has accepted them. *)
LEMMA OpenStays ==
  ASSUME IInv, OpenFds, fdt' = fdt,
         \A c \in Conn : net'[c].st = net[c].st \/ net[c].st = "backlog"
  PROVE  OpenFds'
<1> SUFFICES ASSUME NEW f \in Fd, fdt[f] # None
             PROVE  net'[fdt[f]].st # "closed"
  BY DEF OpenFds
<1>1. fdt[f] \in Conn /\ net[fdt[f]].st \in {"open", "closed"}
  BY AtFd
<1>2. net[fdt[f]].st # "closed"
  BY DEF OpenFds
<1> QED
  BY <1>1, <1>2

LEMMA OpenRemoved ==
  ASSUME IInv, OpenFds, pc # "crashed", NEW f, NEW net0 \in [Conn -> Connection],
         \A c \in Conn : net0[c].st = net[c].st,
         remove_client(f, net0)
  PROVE  OpenFds'
<1>0. Types /\ Listing
  BY DEF IInv
<1>1. CASE net' = net0 /\ fdt' = fdt
  BY <1>1, OpenStays
<1>2. ASSUME NEW i \in 1..Len(list), search_client(f, i), close({f}, net0), remove_client_node(i)
      PROVE  OpenFds'
  <2>1. /\ f \in Fd /\ fdt'[f] = None /\ \A g \in Fd : g # f => fdt'[g] = fdt[g]
        /\ \A c \in Conn : net'[c].st = IF fdt[f] = c THEN "closed" ELSE net[c].st
    <3>1. /\ f \in Fd /\ cfd[list[i]] = f
          /\ fdt'[f] = None /\ \A g \in Fd : g # f => fdt'[g] = fdt[g] /\ wk'[g] = wk[g]
          /\ wk'[f] = None
          /\ \A c \in Conn : /\ net'[c].st = IF fdt[f] = c THEN "closed" ELSE net[c].st
                             /\ net'[c].got = net0[c].got
          /\ Node' = Node \ {list[i]}
          /\ Distinct(list')
      BY <1>0, <1>2, RemovedFacts, Zenon
    <3> QED
      BY <3>1
  <2> SUFFICES ASSUME NEW g \in Fd, fdt'[g] # None
               PROVE  net'[fdt'[g]].st # "closed"
    BY DEF OpenFds
  <2>2. g # f /\ fdt'[g] = fdt[g] /\ fdt[g] # None
    BY <2>1
  <2>3. fdt[g] \in Conn /\ cfd[fdt[g]] = g /\ net[fdt[g]].st # "closed"
    BY <2>2, AtFd DEF OpenFds
  <2>4. fdt[f] # fdt[g]
    BY <2>1, <2>2, <2>3, AtFd
  <2> QED
    BY <2>1, <2>2, <2>3, <2>4
<1> QED
  BY <1>1, <1>2 DEF remove_client

LEMMA OpenAccepts ==
  ASSUME IInv, OpenFds, NEW c \in Conn, NEW f \in Fd, Accepts(c, f)
  PROVE  OpenFds'
<1>1. Types /\ Listing
  BY DEF IInv
<1>2. net[c].st = "backlog" /\ \A d \in Conn : d # c => net'[d].st = net[d].st
  BY <1>1, AcceptFacts
<1>3. CASE fdt' = fdt
  <2>1. \A d \in Conn : net'[d].st = net[d].st \/ net[d].st = "backlog"
    BY <1>2
  <2> QED
    BY <1>3, <2>1, OpenStays
<1>4. CASE accept_client(c, f)
  <2>1. fdt' = [fdt EXCEPT ![f] = c] /\ net' = accepted_state(c)
    BY <1>4 DEF accept_client
  <2>2. net'[c].st = "open"
    BY <1>1, <2>1 DEF accepted_state, Types
  <2> SUFFICES ASSUME NEW g \in Fd, fdt'[g] # None
               PROVE  net'[fdt'[g]].st # "closed"
    BY DEF OpenFds
  <2>3. CASE g = f
    <3>1. fdt'[g] = c
      BY <1>1, <2>1, <2>3 DEF Types, LoopTypes
    <3> QED
      BY <2>2, <3>1
  <2>4. CASE g # f
    <3>1. fdt'[g] = fdt[g] /\ fdt[g] # None
      BY <1>1, <2>1, <2>4 DEF Types, LoopTypes
    <3>2. fdt[g] \in Conn /\ net[fdt[g]].st # "backlog" /\ net[fdt[g]].st # "closed"
      BY <3>1, AtFd DEF OpenFds
    <3> QED
      BY <1>2, <3>1, <3>2
  <2> QED
    BY <2>3, <2>4
<1> QED
  BY <1>3, <1>4 DEF Accepts, accept_client_nonblock_fails, accept_client_register_fails

LEMMA OpenRead ==
  ASSUME IInv, OpenFds, NEW f, read_from_client(f), pc # "crashed"
  PROVE  OpenFds'
<1>0. Types /\ Listing
  BY DEF IInv
<1>1. \A c \in Conn, n \in Nat, d \in Conn : received_upto(c, n)[d].st = net[d].st
  BY <1>0, ReceivedAlone
<1>2. \A c \in Conn : /\ all_received(c) \in [Conn -> Connection]
                     /\ \A d \in Conn : all_received(c)[d].st = net[d].st
  BY <1>0, AllReceivedAlone
<1>3. CASE read_request(f)
  <2>1. fdt[f] \in Conn /\ fdt' = fdt /\ net' = all_received(fdt[f])
    BY <1>0, <1>3, RequestFacts
  <2> QED
    BY <1>2, <2>1, OpenStays
<1>4. CASE read_request_malloc_fails(f)
  <2>1. /\ conn_at(f) \in Conn /\ fdt' = fdt
        /\ \E n \in Nat : net' = received_upto(conn_at(f), n)
    BY <1>0, <1>4, DroppedFacts
  <2>2. \A d \in Conn : net'[d].st = net[d].st
    BY <1>1, <2>1
  <2> QED
    BY <2>1, <2>2, OpenStays
<1>5. CASE read_disconnected(f)
  <2>1. conn_at(f) \in Conn /\ remove_client(f, all_received(conn_at(f)))
    BY <1>0, <1>5, ConnAt DEF read_disconnected
  <2> QED
    BY <1>2, <2>1, OpenRemoved
<1>6. CASE read_error(f)
  BY <1>6, OpenStays DEF read_error
<1> QED
  BY <1>3, <1>4, <1>5, <1>6 DEF read_from_client

LEMMA OpenWrite ==
  ASSUME IInv, OpenFds, NEW e, handle_write(e)
  PROVE  OpenFds'
<1> DEFINE t == e.udata
           f == tn[t].fd
<1>0. Types
  BY DEF IInv
<1>1. t \in Tns /\ pc = "dispatch" /\ write_to_client(t)
  BY <1>0, WriteFacts
<1>2. CASE write_all(t)
  <2>1. /\ fdt[f] \in Conn /\ sent_to(fdt[f], t, RespLen) \in [Conn -> Connection]
        /\ remove_client(f, sent_to(fdt[f], t, RespLen))
    BY <1>0, <1>2, WriteAllFacts
  <2> HIDE DEF t, f
  <2>2. \A d \in Conn : sent_to(fdt[f], t, RespLen)[d].st = net[d].st
    BY <1>0, <1>1, <2>1, RespLenAssumption, SentSame
  <2>3. pc # "crashed"
    BY <1>1
  <2> QED
    BY <2>1, <2>2, <2>3, OpenRemoved
<1>3. ASSUME NEW n \in 0..RespLen-1, SendsSome(t, n)
      PROVE  OpenFds'
  <2>1. fdt[f] \in Conn /\ n \in Nat /\ net' = sent_to(fdt[f], t, n) /\ fdt' = fdt
    BY <1>0, <1>3, WriteSomeFacts
  <2> HIDE DEF t, f
  <2>2. \A d \in Conn : sent_to(fdt[f], t, n)[d].st = net[d].st
    BY <1>0, <1>1, <2>1, SentSame
  <2> QED
    BY <2>1, <2>2, OpenStays
<1>4. CASE write_error(t)
  <2>1. remove_client(f, net) /\ net \in [Conn -> Connection] /\ pc # "crashed"
    BY <1>0, <1>1, <1>4 DEF write_error, Types
  <2> HIDE DEF t, f
  <2> QED
    BY <2>1, OpenRemoved
<1> QED
  BY <1>1, <1>2, <1>3, <1>4 DEF write_to_client, SendsSome

LEMMA OpenEnds ==
  ASSUME IInv, OpenFds,
         \/ accept_client_malloc_fails \/ free_list
         \/ \E e \in batch : handle_read_freed_crashes(e)
         \/ \E t \in Tn : handle_conn_crashes(t)
  PROVE  OpenFds'
<1>1. \A f \in Fd : fdt'[f] = None
  <2>1. CASE free_list
    BY <2>1, FreeListFacts DEF IInv
  <2>2. CASE crash
    BY <2>2 DEF crash
  <2> QED
    BY <2>1, <2>2 DEF accept_client_malloc_fails, handle_read_freed_crashes, handle_conn_crashes
<1> QED
  BY <1>1 DEF OpenFds

LEMMA OpenNext == IInv /\ OpenFds /\ [Next]_vars => OpenFds'
<1> SUFFICES ASSUME IInv, OpenFds, [Next]_vars
             PROVE  OpenFds'
  OBVIOUS
<1>0. Types /\ Listing
  BY DEF IInv
<1>1. CASE serve_and_listen
  <2>1. CASE enter_kevent \/ end_of_batch \/ destroy_route \/ destroy_pool \/ join
             \/ return_from_kevent \/ accept_client_returns
    <3>1. UNCHANGED <<net, fdt>>
      BY <2>1 DEF enter_kevent, end_of_batch, destroy_route, destroy_pool, join,
                  return_from_kevent, kevent_report, accept_client_returns, kernel
    <3> QED
      BY <3>1, OpenStays
  <2>2. CASE leave_loop \/ kevent_fails
    <3>1. close_listener /\ fdt' = fdt
      BY <2>2 DEF leave_loop, kevent_fails
    <3>2. \A c \in Conn : net'[c].st = net[c].st \/ net[c].st = "backlog"
      BY <3>1 DEF close_listener
    <3> QED
      BY <3>1, <3>2, OpenStays
  <2>3. CASE accept_client_fails
    <3>1. fdt' = fdt /\ \A c \in Conn : net'[c].st = net[c].st \/ net[c].st = "backlog"
      BY <1>0, <2>3, AcceptErrorFacts
    <3> QED
      BY <3>1, OpenStays
  <2>4. CASE accepting
    BY <2>4, OpenAccepts DEF accepting, Accepts
  <2>5. CASE free_list \/ accept_client_malloc_fails
    BY <2>5, OpenEnds
  <2>6. CASE handling
    <3>1. PICK e \in batch : \/ start_accept(e) \/ handle_read(e) \/ handle_read_freed(e)
                             \/ handle_read_freed_crashes(e) \/ handle_eof(e) \/ handle_write(e)
      BY <2>6 DEF handling
    <3>2. CASE start_accept(e)
      <4>1. UNCHANGED <<net, fdt>>
        BY <3>2 DEF start_accept, kernel
      <4> QED
        BY <4>1, OpenStays
    <3>3. CASE handle_read(e) \/ handle_read_freed(e)
      <4>1. pc # "crashed" /\ \E f : read_from_client(f)
        BY <3>3, ReadFactors
      <4> QED
        BY <4>1, OpenRead
    <3>4. CASE handle_eof(e)
      <4>1. pc # "crashed" /\ remove_client(e.fd, net) /\ net \in [Conn -> Connection]
        BY <1>0, <3>4 DEF handle_eof, take, Types
      <4> QED
        BY <4>1, OpenRemoved
    <3> QED
      BY <3>1, <3>2, <3>3, <3>4, OpenEnds, OpenWrite
  <2> QED
    BY <1>1, <2>1, <2>2, <2>3, <2>4, <2>5, <2>6 DEF serve_and_listen
<1>2. CASE start_task \/ shut_down_server
  <2>1. UNCHANGED <<net, fdt>>
    BY <1>2 DEF start_task, shut_down_server, kernel
  <2> QED
    BY <2>1, OpenStays
<1>3. ASSUME NEW t \in Tn, handle_conn(t)
      PROVE  OpenFds'
  <2>1. CASE handle_conn_crashes(t)
    BY <2>1, OpenEnds
  <2>2. CASE UNCHANGED <<net, fdt>>
    BY <2>2, OpenStays
  <2> QED
    BY <1>3, <2>1, <2>2 DEF handle_conn, handle_conn_rejects, handle_conn_builds, kernel,
         handle_conn_freed_route, handle_conn_registers, handle_conn_register_fails
<1>4. CASE clients
  <2>1. PICK c \in Conn :
          /\ fdt' = fdt
          /\ \/ net[c].st = "out" /\ \A d \in Conn : net'[d].st = IF d = c THEN "backlog" ELSE net[d].st
             \/ \A d \in Conn : net'[d].st = net[d].st
    BY <1>0, <1>4, ClientFacts
  <2> SUFFICES ASSUME NEW f \in Fd, fdt[f] # None
               PROVE  net'[fdt[f]].st # "closed"
    BY <2>1 DEF OpenFds
  <2>2. fdt[f] \in Conn /\ net[fdt[f]].st # "closed"
    BY AtFd DEF OpenFds
  <2> QED
    BY <2>1, <2>2
<1>5. CASE UNCHANGED vars
  BY <1>5, OpenStays DEF vars, kernel
<1> QED
  BY <1>1, <1>2, <1>3, <1>4, <1>5 DEF Next
-----------------------------------------------------------------------------
(* What follows for every behaviour of the server. *)
THEOREM ServerInvariant == Spec => [](IInv /\ History /\ OpenFds)
<1>1. Init => IInv /\ History /\ OpenFds
  <2>1. Init => OpenFds
    BY DEF Init, KernelInit, OpenFds
  <2> QED
    BY <2>1, IInvInit, HistoryInit
<1>2. IInv /\ History /\ OpenFds /\ [Next]_vars => (IInv /\ History /\ OpenFds)'
  BY IInvNext, HistoryNext, OpenNext
<1> QED
  BY <1>1, <1>2, PTL DEF Spec

(* Types: at most MAX_THREAD_COUNT tasks run (http.c:36), the list, the    *)
(* table and the registrations name connections, descriptors and           *)
(* thread_node_t's that exist.                                             *)
THEOREM ServerTypeCorrect == Spec => []TypeOK
<1>1. IInv /\ History => TypeOK
  BY DEF IInv, Types, History, TypeOK
<1> QED
  BY <1>1, ServerInvariant, PTL

(* One holder at most, and none of a freed one. *)
LEMMA HoldersOne ==
  ASSUME Types, OwnerInv, NEW t \in Tns
  PROVE  /\ \A h, k \in Holders(t) : h = k
         /\ tn[t].st = "freed" => Holders(t) = {}
<1> DEFINE Q == t \in Pool!Queued
           R == t \in running
           B == Event("WRITE", tn[t].fd, t, FALSE) \in batch
           W == wk[tn[t].fd] = t
<1>1. \A e \in batch : e.filter = "WRITE" /\ e.udata = t => B /\ e.fd = tn[t].fd
  <2> SUFFICES ASSUME NEW e \in batch, e.filter = "WRITE", e.udata = t
               PROVE  B /\ e.fd = tn[t].fd
    OBVIOUS
  <2>1. e = Event("WRITE", tn[t].fd, t, FALSE)
    BY OwnerUse
  <2> QED
    BY <2>1 DEF Event
<1>2. \A f \in Fd : wk[f] = t => W /\ f = tn[t].fd
  <2> SUFFICES ASSUME NEW f \in Fd, wk[f] = t
               PROVE  W /\ f = tn[t].fd
    OBVIOUS
  <2>1. t # None
    BY ListFacts, KernelAssumption DEF Tns
  <2>2. tn[t].fd = f
    BY <2>1, OwnerUse
  <2> QED
    BY <2>2
<1>3. /\ Q => ~R /\ ~B /\ ~W
      /\ R => ~B /\ ~W
      /\ B => ~W
      /\ tn[t].st = "freed" => ~Q /\ ~R /\ ~B /\ ~W
  <2>1. tn[t].fd \in Fd /\ t # None
    BY TaskConn, ListFacts, KernelAssumption DEF Tns
  <2>2. B => t \notin Waiting /\ tn[t].st = "built"
    <3>1. B => Event("WRITE", tn[t].fd, t, FALSE).udata = t
               /\ Event("WRITE", tn[t].fd, t, FALSE).filter = "WRITE"
      BY DEF Event
    <3>2. \A e \in batch : e.filter = "WRITE" => tn[e.udata].st = "built" /\ e.udata \notin Waiting
      BY OwnerUse
    <3> QED
      BY <3>1, <3>2 DEF Event
  <2>3. W => t \notin Waiting /\ tn[t].st = "built" /\ ~B
    <3>1. \A f \in Fd : wk[f] # None =>
            /\ tn[wk[f]].st = "built"
            /\ wk[f] \notin Waiting /\ Event("WRITE", f, wk[f], FALSE) \notin batch
      BY OwnerUse
    <3> QED
      BY <2>1, <3>1
  <2>4. (Q => ~R /\ tn[t].st = "read") /\ (R => tn[t].st # "freed")
    BY OwnerUse
  <2> QED
    BY <2>2, <2>3, <2>4 DEF Waiting
<1>4. \A h \in Holders(t) : \/ Q /\ h = <<"queue", LnFd>>
                            \/ R /\ h = <<"worker", LnFd>>
                            \/ B /\ h = <<"batch", tn[t].fd>>
                            \/ W /\ h = <<"registered", tn[t].fd>>
  <2> HIDE DEF B, W
  <2> SUFFICES ASSUME NEW h \in Holders(t)
               PROVE  \/ Q /\ h = <<"queue", LnFd>>
                      \/ R /\ h = <<"worker", LnFd>>
                      \/ B /\ h = <<"batch", tn[t].fd>>
                      \/ W /\ h = <<"registered", tn[t].fd>>
    OBVIOUS
  <2>1. \/ Q /\ h = <<"queue", LnFd>>
        \/ R /\ h = <<"worker", LnFd>>
        \/ \E e \in batch : e.filter = "WRITE" /\ e.udata = t /\ h = <<"batch", e.fd>>
        \/ \E f \in Fd : wk[f] = t /\ h = <<"registered", f>>
    BY Zenon DEF Holders
  <2> QED
    BY <1>1, <1>2, <2>1
<1> HIDE DEF Q, R, B, W
<1> QED
  BY <1>3, <1>4

(* http.c:171, "who owns tnode ??": a thread_node_t allocated by           *)
(* read_from_client is in the queue, with a worker, in a registration or   *)
(* in the batch, never in two of these, and in none once write_to_client   *)
(* has freed it.                                                           *)
THEOREM OneOwnerAtATime == Spec => []OneOwner
<1>1. IInv => OneOwner
  <2> SUFFICES ASSUME IInv, NEW t \in Tns
               PROVE  /\ Cardinality(Holders(t)) <= 1
                      /\ tn[t].st = "freed" => Holders(t) = {}
    BY DEF OneOwner
  <2>1. /\ \A h, k \in Holders(t) : h = k
        /\ tn[t].st = "freed" => Holders(t) = {}
    BY HoldersOne DEF IInv
  <2>2. CASE Holders(t) = {}
    BY <2>1, <2>2, FS_EmptySet
  <2>3. CASE Holders(t) # {}
    <3>1. PICK h : h \in Holders(t)
      BY <2>3
    <3>2. Holders(t) = {h}
      BY <2>1, <3>1
    <3>3. Cardinality({h}) = 1
      BY FS_Singleton
    <3> QED
      BY <2>1, <3>2, <3>3
  <2> QED
    BY <2>2, <2>3
<1> QED
  BY <1>1, ServerInvariant, PTL

(* llist.c and accept_client: free_list and remove_client reach every open *)
(* descriptor through its node, whatever was closed and reused before.     *)
THEOREM ListAndDescriptorsAgree == Spec => []ListCoversDescriptors
<1>1. IInv => ListCoversDescriptors
  BY DEF IInv, Listing
<1> QED
  BY <1>1, ServerInvariant, PTL

(* write_to_client closes the connection it has sent a whole response to:  *)
(* its search of the list cannot fail.                                     *)
THEOREM FullAnswerCloses == Spec => []ClosedAfterResponse
<1>1. IInv => ClosedAfterResponse
  BY DEF IInv
<1> QED
  BY <1>1, ServerInvariant, PTL

LEMMA HeldHolders ==
  ASSUME NEW t, NEW f \in Fd, Holds(t, f)
  PROVE  Holders(t) # {}
<1>1. CASE t \in Pool!Queued
  <2>1. <<"queue", LnFd>> \in Holders(t)
    BY <1>1 DEF Holders
  <2> QED
    BY <2>1
<1>2. CASE t \in running
  <2>1. <<"worker", LnFd>> \in Holders(t)
    BY <1>2 DEF Holders
  <2> QED
    BY <2>1
<1>3. CASE Event("WRITE", f, t, FALSE) \in batch
  <2>1. PICK e \in batch : e.filter = "WRITE" /\ e.udata = t
    BY <1>3 DEF Event
  <2>2. <<"batch", e.fd>> \in Holders(t)
    BY <2>1 DEF Holders
  <2> QED
    BY <2>2
<1>4. CASE wk[f] = t
  <2>1. <<"registered", f>> \in Holders(t)
    BY <1>4 DEF Holders
  <2> QED
    BY <2>1
<1> QED
  BY <1>1, <1>2, <1>3, <1>4 DEF Holds, Waiting

(* Only a response is registered or reported. *)
LEMMA UnbuiltHolders ==
  ASSUME Types, OwnerInv, NEW t \in Tns, tn[t].st = "read", t \notin Waiting
  PROVE  Holders(t) = {}
<1>1. \A e \in batch : ~(e.filter = "WRITE" /\ e.udata = t)
  BY OwnerUse
<1>2. \A f \in Fd : wk[f] # t
  <2>1. t # None
    BY ListFacts, KernelAssumption DEF Tns
  <2> QED
    BY <2>1, OwnerUse
<1> QED
  BY <1>1, <1>2 DEF Holders, Waiting

(* http.c, read_from_client to write_to_client: an open connection that    *)
(* was read from is held by a thread_node_t that will answer at its        *)
(* descriptor, unless a call that failed (a refused task, an allocation,   *)
(* EV_ADD) left it to itself or the parser rejected all that was read.     *)
THEOREM NobodyForgotten == Spec => []OpenIsServed
<1>1. IInv /\ History /\ OpenFds => OpenIsServed
  <2> SUFFICES ASSUME IInv, History, OpenFds, NEW f \in Fd, fdt[f] # None, net[fdt[f]].rcvd > 0
               PROVE  \/ \E t \in Tns : tn[t].fd = f /\ Holders(t) # {}
                      \/ fdt[f] \in lost
                      \/ \E t \in Tns : tn[t].conn = fdt[f] /\ AllRejected(fdt[f])
    BY DEF OpenIsServed
  <2>1. Types /\ StageInv /\ Listing /\ OwnerInv /\ ServedInv
    BY DEF IInv
  <2>2. pc # "crashed"
    BY <2>1 DEF StageInv
  <2>3. CASE Answering(f)
    <3>1. PICK t \in Tns : tn[t].fd = f /\ Holds(t, f)
      BY <2>3 DEF Answering
    <3> QED
      BY <2>1, <3>1, HeldHolders
  <2>4. CASE Unbuilt(f) /\ fdt[f] \notin lost
    <3>1. /\ \A t \in Tns : tn[t].conn = fdt[f] =>
               /\ tn[t].st = "read" /\ tn[t].fd = f
               /\ t \in Waiting \/ Rejected(t)
      BY <2>1, <2>2, <2>4, ListingUse DEF Unbuilt
    <3>2. CASE \E t \in Tns : tn[t].conn = fdt[f] /\ t \in Waiting
      BY <2>1, <3>1, <3>2, HeldHolders DEF Holds
    <3>3. CASE \A t \in Tns : tn[t].conn = fdt[f] => t \notin Waiting
      <4>1. \A t \in Tns : tn[t].conn = fdt[f] => Holders(t) = {}
        BY <2>1, <3>1, <3>3, UnbuiltHolders
      <4>2. AllRejected(fdt[f])
        BY <3>1, <3>3, <4>1 DEF AllRejected
      <4>3. fdt[f] \in Conn /\ net[fdt[f]].st # "closed"
        BY AtFd DEF OpenFds
      <4>4. \E t \in Tns : tn[t].conn = fdt[f]
        BY <2>4, <4>3 DEF History, ReadInv
      <4> QED
        BY <4>2, <4>4
    <3> QED
      BY <3>2, <3>3
  <2> QED
    BY <2>1, <2>3, <2>4, ServedParts
<1> QED
  BY <1>1, ServerInvariant, PTL

(* http.c:136, accept_client: a pending client's event is still to come,   *)
(* in the batch or being handled, or accept failed while it was pending.   *)
THEOREM PendingClientsNoticed == Spec => []PendingNoticed
<1>1. History => PendingNoticed
  BY DEF History
<1> QED
  BY <1>1, ServerInvariant, PTL

(* serve_and_listen returns with every connection and descriptor closed,   *)
(* the routes freed and the pool's accepted tasks executed.                *)
THEOREM StopIsClean == Spec => []StoppedIsClean
<1>1. IInv => StoppedIsClean
  <2> SUFFICES ASSUME IInv, pc = "stopped"
               PROVE  StoppedIsClean
    BY DEF StoppedIsClean
  <2>1. /\ \A f \in Fd : fdt[f] = None
        /\ \A c \in Conn : net[c].st # "open" /\ net[c].st # "backlog"
        /\ phase = "gone" /\ queue = << >> /\ running = {} /\ ~route
    BY DEF IInv, StageInv, Leaving
  <2>2. \A c \in Conn : net[c].st \in {"out", "backlog", "open", "closed"}
    BY DEF IInv, Types, Connection
  <2> QED
    BY <2>1, <2>2 DEF StoppedIsClean
<1> QED
  BY <1>1, ServerInvariant, PTL
=============================================================================
