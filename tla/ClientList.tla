----------------------------- MODULE ClientList -----------------------------
(***************************************************************************)
(* The client list of src/src/ds/llist.c with its pointers, as the main    *)
(* thread of src/src/http.c uses it; no other thread touches it.           *)
(*                                                                         *)
(* A node is the address malloc returns, so a freed node may come back.    *)
(* search_client's and free_list's loops take one step per iteration.  A   *)
(* descriptor is that of an accepted client: free when accept returns it.  *)
(*                                                                         *)
(* Definitions marked Defective are no part of Next: each is the           *)
(* definition that follows it with a plausible mistake.                    *)
(***************************************************************************)
EXTENDS Naturals, Sequences

CONSTANTS Node,   \* addresses malloc may return
          Fd,     \* descriptors of clients
          NULL    \* the null pointer

ASSUME NullAssumption == NULL \notin Node

VARIABLES
  head, tail,   \* list_t
  prev, next,   \* l_node_t's pointers
  fd,           \* node->client.fd
  live,         \* allocated nodes
  open,         \* descriptors of clients that are open
  pc,           \* "idle", "search", "free" (in free_list), "freed", "crashed"
  want, cur,    \* search_client's fd and node
  order         \* history: the listed nodes, oldest first

links == <<head, tail, prev, next, fd, live>>
vars == <<links, open, pc, want, cur, order>>

(* init_list.  The fields of unallocated nodes are whatever they are. *)
init_list == /\ head = NULL
             /\ tail = NULL
             /\ live = {}
             /\ order = << >>

Init == /\ init_list
        /\ prev = [n \in Node |-> NULL] /\ next = [n \in Node |-> NULL]
        /\ fd \in [Node -> Fd]
        /\ open = {}
        /\ pc = "idle"
        /\ want \in Fd
        /\ cur = NULL
-----------------------------------------------------------------------------
(* The node becomes the last one. *)
link_back(n) == /\ prev' = [prev EXCEPT ![n] = tail]
                /\ next' = [m \in Node |-> IF m = n THEN NULL
                                           ELSE IF m = tail THEN n ELSE next[m]]
                /\ tail' = n
                /\ head' = IF head = NULL THEN n ELSE head

insert_client(n, f) == /\ pc = "idle"
                       /\ n \notin live
                       /\ f \notin open
                       /\ live' = live \cup {n}
                       /\ fd' = [fd EXCEPT ![n] = f]
                       /\ link_back(n)
                       /\ order' = Append(order, n)
                       /\ UNCHANGED <<pc, want, cur>>

(* Accepted, listed and registered with the kqueue. *)
accepted(n, f) == insert_client(n, f) /\ open' = open \cup {f}

(* EV_ADD fails: accept_client closes the descriptor, the node stays. *)
unregistered(n, f) == insert_client(n, f) /\ UNCHANGED open

(* malloc fails: memset writes through NULL before it is tested. *)
insert_client_malloc_fails == /\ pc = "idle"
                              /\ pc' = "crashed"
                              /\ UNCHANGED <<links, open, want, cur, order>>
-----------------------------------------------------------------------------
(* Defective: the search starts at the newest client. *)
search_client_FromTail(f) == /\ pc = "idle"
                             /\ pc' = "search"
                             /\ want' = f
                             /\ cur' = tail
                             /\ UNCHANGED <<links, open, order>>

(* remove_client(f) of http.c: search_client ... *)
search_client(f) == /\ pc = "idle"
                    /\ pc' = "search"
                    /\ want' = f
                    /\ cur' = head
                    /\ UNCHANGED <<links, open, order>>

search_next == /\ pc = "search"
               /\ cur # NULL
               /\ fd[cur] # want
               /\ cur' = next[cur]
               /\ UNCHANGED <<links, open, pc, want, order>>

(* ... no client has f: remove_client returns; or ... *)
search_fails == /\ pc = "search"
                /\ cur = NULL
                /\ pc' = "idle"
                /\ UNCHANGED <<links, open, want, cur, order>>

(* Defective: removing the first node does not move head. *)
unlink_KeepsHead(n) ==
             /\ next' = IF prev[n] = NULL THEN next ELSE [next EXCEPT ![prev[n]] = next[n]]
             /\ prev' = IF next[n] = NULL THEN prev ELSE [prev EXCEPT ![next[n]] = prev[n]]
             /\ tail' = IF next[n] = NULL THEN prev[n] ELSE tail
             /\ UNCHANGED head

(* Defective: removing the last node does not move tail. *)
unlink_KeepsTail(n) ==
             /\ next' = IF prev[n] = NULL THEN next ELSE [next EXCEPT ![prev[n]] = next[n]]
             /\ head' = IF prev[n] = NULL THEN next[n] ELSE head
             /\ prev' = IF next[n] = NULL THEN prev ELSE [prev EXCEPT ![next[n]] = prev[n]]
             /\ UNCHANGED tail

unlink(n) == /\ next' = IF prev[n] = NULL THEN next ELSE [next EXCEPT ![prev[n]] = next[n]]
             /\ head' = IF prev[n] = NULL THEN next[n] ELSE head
             /\ prev' = IF next[n] = NULL THEN prev ELSE [prev EXCEPT ![next[n]] = prev[n]]
             /\ tail' = IF next[n] = NULL THEN prev[n] ELSE tail

Without(s, i) == [k \in 1..Len(s)-1 |-> IF k < i THEN s[k] ELSE s[k + 1]]

found == pc = "search" /\ cur # NULL /\ fd[cur] = want

(* remove_client_node unlinks and frees the node. *)
drop_found == /\ unlink(cur)
              /\ live' = live \ {cur}
              /\ \E i \in 1..Len(order) : order[i] = cur /\ order' = Without(order, i)
              /\ pc' = "idle"
              /\ cur' = NULL
              /\ UNCHANGED <<fd, want>>

(* Defective: the node goes, its client's descriptor stays open. *)
remove_client_KeepsOpen == found /\ drop_found /\ UNCHANGED open

(* ... the first one that has f is closed and dropped. *)
remove_client == found /\ drop_found /\ open' = open \ {want}
-----------------------------------------------------------------------------
free_list == /\ pc = "idle"
             /\ pc' = "free"
             /\ UNCHANGED <<links, open, want, cur, order>>

(* Defective: frees the node and leaves its descriptor open. *)
free_next_NodesOnly == /\ pc = "free"
                       /\ head # NULL
                       /\ head' = next[head]
                       /\ live' = live \ {head}
                       /\ order' = Tail(order)
                       /\ UNCHANGED <<tail, prev, next, fd, open, pc, want, cur>>

(* Only head moves: tail and the next node's prev are left dangling. *)
free_next == /\ pc = "free"
             /\ head # NULL
             /\ head' = next[head]
             /\ open' = open \ {fd[head]}
             /\ live' = live \ {head}
             /\ order' = Tail(order)
             /\ UNCHANGED <<tail, prev, next, fd, pc, want, cur>>

free_list_returns == /\ pc = "free"
                     /\ head = NULL
                     /\ pc' = "freed"
                     /\ UNCHANGED <<links, open, want, cur, order>>

Next == \/ \E n \in Node, f \in Fd : accepted(n, f) \/ unregistered(n, f)
        \/ insert_client_malloc_fails
        \/ \E f \in Fd : search_client(f)
        \/ search_next \/ search_fails \/ remove_client
        \/ free_list \/ free_next \/ free_list_returns

Spec == Init /\ [][Next]_vars
-----------------------------------------------------------------------------
Listed == {order[i] : i \in 1..Len(order)}
Stopping == pc \in {"free", "freed"}

Types == /\ head \in Node \cup {NULL} /\ tail \in Node \cup {NULL}
         /\ prev \in [Node -> Node \cup {NULL}] /\ next \in [Node -> Node \cup {NULL}]
         /\ fd \in [Node -> Fd] /\ live \subseteq Node /\ open \subseteq Fd
         /\ pc \in {"idle", "search", "free", "freed", "crashed"}
         /\ want \in Fd /\ cur \in Node \cup {NULL}
         /\ order \in Seq(Node)

Allocated == live \cup {NULL}

(* Types, and every pointer the code may still follow is null or that of   *)
(* an allocated node.                                                      *)
TypeOK == /\ Types
          /\ head \in Allocated
          /\ ~Stopping => tail \in Allocated
          /\ pc = "search" => cur \in Allocated
          /\ \A n \in live : next[n] \in Allocated

(* The pointers spell one list: from head along next, and back from tail   *)
(* along prev until free_list begins, they visit each client still listed  *)
(* once, in order of acceptance, and these are exactly the allocated       *)
(* nodes: nothing dangles and nothing leaks, whichever node is removed and *)
(* whichever address malloc hands out again.                               *)
Linked ==
  /\ live = Listed
  /\ \A i, j \in 1..Len(order) : order[i] = order[j] => i = j
  /\ head = IF order = << >> THEN NULL ELSE order[1]
  /\ \A i \in 1..Len(order) :
       next[order[i]] = IF i = Len(order) THEN NULL ELSE order[i + 1]
  /\ ~Stopping =>
       /\ tail = IF order = << >> THEN NULL ELSE order[Len(order)]
       /\ \A i \in 1..Len(order) : prev[order[i]] = IF i = 1 THEN NULL ELSE order[i - 1]

(* search_client's loop passes over no client with the descriptor it looks *)
(* for, also when a failed registration left an older node with the same   *)
(* one, and it gives up only when there is none.                           *)
SearchMissesNobody ==
  pc = "search" =>
    \E i \in 1..Len(order)+1 :
       /\ cur = IF i = Len(order) + 1 THEN NULL ELSE order[i]
       /\ \A j \in 1..i-1 : fd[order[j]] # want

(* llist.c:74, "client fd are closed here": every open client is in the    *)
(* list, so once free_list has returned none is open and nothing is        *)
(* allocated, even if nodes of closed clients were among them.             *)
FreeListClosesAll == /\ \A f \in open : \E n \in Listed : fd[n] = f
                     /\ pc = "freed" => open = {} /\ live = {}

Seen == INSTANCE ClientSeq WITH
          items <- [i \in 1..Len(order) |-> <<order[i], fd[order[i]]>>]

(* What http.c relies on: the linked list behaves as the sequence of       *)
(* clients in ClientSeq.                                                   *)
ListSpec == Seen!Spec
=============================================================================
