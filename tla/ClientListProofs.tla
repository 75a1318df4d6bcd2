-------------------------- MODULE ClientListProofs --------------------------
(***************************************************************************)
(* Proofs about ClientList, for every set of nodes and descriptors: the    *)
(* pointers of llist.c spell the list of clients, searching misses none,   *)
(* free_list closes all, and the list implements ClientSeq.                *)
(***************************************************************************)
EXTENDS ClientList, SequenceTheorems, TLAPS

(* The four invariants need each other: the search is on a listed node     *)
(* because the pointers spell the list, a node found is the one unlinked.  *)
IInv == Types /\ Linked /\ SearchMissesNobody /\ FreeListClosesAll

(* What Without keeps of a sequence. *)
LEMMA WithoutProperties ==
  ASSUME NEW S, NEW s \in Seq(S), NEW i \in 1..Len(s)
  PROVE  /\ Without(s, i) \in Seq(S)
         /\ Len(Without(s, i)) = Len(s) - 1
         /\ \A k \in 1..Len(s)-1 : Without(s, i)[k] = IF k < i THEN s[k] ELSE s[k + 1]
<1>1. Len(s) \in Nat /\ s \in [1..Len(s) -> S]
  BY LenProperties
<1>2. Len(s) - 1 \in Nat
  BY <1>1
<1>3. \A k \in 1..Len(s)-1 : (IF k < i THEN s[k] ELSE s[k + 1]) \in S
  BY <1>1
<1> QED
  BY <1>2, <1>3 DEF Without

(* The listed nodes, one by one. *)
LEMMA OrderFacts ==
  ASSUME Types
  PROVE  /\ Len(order) \in Nat
         /\ \A i \in 1..Len(order) : order[i] \in Node
BY LenProperties, ElementOfSeq DEF Types

LEMMA OrderEmpty ==
  ASSUME Types
  PROVE  order = << >> <=> Len(order) = 0
BY EmptySeq DEF Types

(* The list as its links show it before free_list. *)
LEMMA LinkFacts ==
  ASSUME Types, Linked
  PROVE  /\ \A i, j \in 1..Len(order) : order[i] = order[j] => i = j
         /\ Len(order) = 0 => head = NULL
         /\ Len(order) # 0 => head = order[1]
         /\ \A i \in 1..Len(order) :
              next[order[i]] = IF i = Len(order) THEN NULL ELSE order[i + 1]
         /\ ~Stopping =>
              /\ Len(order) = 0 => tail = NULL
              /\ Len(order) # 0 => tail = order[Len(order)]
              /\ \A i \in 1..Len(order) :
                   prev[order[i]] = IF i = 1 THEN NULL ELSE order[i - 1]
BY OrderEmpty DEF Linked

LEMMA InitIInv == Init => IInv
<1> SUFFICES ASSUME Init
             PROVE  IInv
  OBVIOUS
<1>1. order \in Seq(Node) /\ Len(order) = 0
  BY EmptySeq DEF Init, init_list
<1>2. Types
  BY <1>1 DEF Init, init_list, Types
<1>3. Linked
  BY <1>1 DEF Init, init_list, Linked, Listed, Stopping
<1>4. SearchMissesNobody /\ FreeListClosesAll
  BY DEF Init, SearchMissesNobody, FreeListClosesAll
<1> QED
  BY <1>2, <1>3, <1>4 DEF IInv
-----------------------------------------------------------------------------
(* insert_client puts its node at the end. *)
LEMMA InsertLinked ==
  ASSUME IInv, NEW n \in Node, NEW f \in Fd, insert_client(n, f), open' \subseteq Fd
  PROVE  /\ Types' /\ Linked' /\ SearchMissesNobody'
         /\ Listed' = Listed \cup {n} /\ n \notin Listed
<1> USE NullAssumption
<1>1. Len(order) \in Nat /\ \A i \in 1..Len(order) : order[i] \in Node
  BY OrderFacts DEF IInv
<1>2. /\ Len(order') = Len(order) + 1
      /\ \A i \in 1..Len(order) : order'[i] = order[i]
      /\ order'[Len(order) + 1] = n
  BY AppendProperties DEF IInv, Types, insert_client
<1>0. Types'
  <2>1. order' \in Seq(Node)
    BY AppendProperties DEF IInv, Types, insert_client
  <2> QED
    BY <2>1 DEF IInv, Types, insert_client, link_back
<1>3. /\ \A m \in Node : prev'[m] = IF m = n THEN tail ELSE prev[m]
      /\ \A m \in Node : next'[m] = IF m = n THEN NULL ELSE IF m = tail THEN n ELSE next[m]
      /\ tail' = n
      /\ head' = IF head = NULL THEN n ELSE head
  BY DEF IInv, Types, insert_client, link_back
<1>4. n \notin Listed
  BY DEF IInv, Linked, insert_client
<1>8. \A i \in 1..Len(order) : order[i] # n
  BY <1>4 DEF Listed
<1>5. Listed' = Listed \cup {n}
  <2>1. ASSUME NEW m \in Listed' PROVE m \in Listed \cup {n}
    BY <1>1, <1>2, <2>1 DEF Listed
  <2>2. ASSUME NEW m \in Listed PROVE m \in Listed'
    <3>1. PICK i \in 1..Len(order) : order[i] = m
      BY <2>2 DEF Listed
    <3> QED
      BY <1>1, <1>2, <3>1 DEF Listed
  <2>3. n \in Listed'
    BY <1>1, <1>2 DEF Listed
  <2> QED
    BY <2>1, <2>2, <2>3
<1>6. Linked'
  <2> DEFINE len == Len(order)
  <2>0. ~Stopping /\ live' = Listed'
    BY <1>5 DEF IInv, Linked, insert_client, Stopping
  <2>1. /\ \A i, j \in 1..len : order[i] = order[j] => i = j
        /\ len = 0 => head = NULL /\ tail = NULL
        /\ len # 0 => head = order[1] /\ tail = order[len]
        /\ \A i \in 1..len : next[order[i]] = IF i = len THEN NULL ELSE order[i + 1]
        /\ \A i \in 1..len : prev[order[i]] = IF i = 1 THEN NULL ELSE order[i - 1]
    BY <2>0, LinkFacts DEF IInv
  <2>2. ASSUME NEW i \in 1..Len(order'), NEW j \in 1..Len(order'), order'[i] = order'[j]
        PROVE  i = j
    BY <1>1, <1>2, <1>8, <2>1, <2>2
  <2>3. head' = order'[1]
    BY <1>1, <1>2, <1>3, <1>8, <2>1
  <2>4. ASSUME NEW i \in 1..Len(order')
        PROVE  next'[order'[i]] = IF i = Len(order') THEN NULL ELSE order'[i + 1]
    <3>1. CASE i = len + 1
      BY <1>1, <1>2, <1>3, <3>1
    <3>2. CASE i = len
      BY <1>1, <1>2, <1>3, <1>8, <2>1, <3>2
    <3>3. CASE i < len
      <4>1. order[i] # tail
        BY <1>1, <2>1, <3>3
      <4> QED
        BY <1>1, <1>2, <1>3, <1>8, <2>1, <3>3, <4>1
    <3> QED
      BY <1>1, <1>2, <3>1, <3>2, <3>3
  <2>5. tail' = order'[Len(order')]
    BY <1>1, <1>2, <1>3
  <2>6. ASSUME NEW i \in 1..Len(order')
        PROVE  prev'[order'[i]] = IF i = 1 THEN NULL ELSE order'[i - 1]
    <3>1. CASE i = len + 1
      BY <1>1, <1>2, <1>3, <2>1, <3>1
    <3>2. CASE i < len + 1
      BY <1>1, <1>2, <1>3, <1>8, <2>1, <3>2
    <3> QED
      BY <1>1, <1>2, <3>1, <3>2
  <2>7. order' # << >>
    BY AppendProperties DEF IInv, Types, insert_client
  <2> HIDE DEF len
  <2> QED
    BY <2>0, <2>2, <2>3, <2>4, <2>5, <2>6, <2>7 DEF Linked
<1>7. SearchMissesNobody'
  BY DEF SearchMissesNobody, insert_client
<1> QED
  BY <1>0, <1>4, <1>5, <1>6, <1>7

LEMMA InsertIInv ==
  ASSUME IInv, NEW n \in Node, NEW f \in Fd, accepted(n, f) \/ unregistered(n, f)
  PROVE  IInv'
<1>1. insert_client(n, f) /\ open' \subseteq Fd /\ open' \subseteq open \cup {f}
  BY DEF accepted, unregistered, IInv, Types
<1>2. /\ Types' /\ Linked' /\ SearchMissesNobody'
      /\ Listed' = Listed \cup {n} /\ n \notin Listed
  BY <1>1, InsertLinked
<1>3. FreeListClosesAll'
  <2>1. fd'[n] = f /\ \A m \in Listed : fd'[m] = fd[m]
    BY <1>1, <1>2, OrderFacts DEF insert_client, IInv, Types, Listed
  <2>2. ASSUME NEW g \in open' PROVE \E m \in Listed' : fd'[m] = g
    BY <1>1, <1>2, <2>1, <2>2 DEF IInv, FreeListClosesAll
  <2>3. pc' = "idle"
    BY <1>1 DEF insert_client
  <2> QED
    BY <2>2, <2>3 DEF FreeListClosesAll
<1> QED
  BY <1>2, <1>3 DEF IInv
-----------------------------------------------------------------------------
(* remove_client_node closes the gap its node leaves. *)
LEMMA RemoveLinked ==
  ASSUME IInv, found, drop_found, open' \subseteq Fd
  PROVE  /\ Types' /\ Linked' /\ SearchMissesNobody'
         /\ Listed' = Listed \ {cur}
<1> USE NullAssumption
<1> DEFINE len == Len(order)
<1>1. len \in Nat /\ \A i \in 1..len : order[i] \in Node
  BY OrderFacts DEF IInv
<1>2. PICK p \in 1..len : order[p] = cur /\ order' = Without(order, p)
  BY DEF drop_found
<1>3. /\ Len(order') = len - 1
      /\ \A i \in 1..len-1 : order'[i] = IF i < p THEN order[i] ELSE order[i + 1]
  BY <1>2, WithoutProperties DEF IInv, Types
<1>4. ~Stopping /\ ~Stopping' /\ cur \in Node
  BY <1>1, <1>2 DEF found, drop_found, Stopping
<1>5. Types /\ Linked /\ len # 0
  BY <1>1, <1>2 DEF IInv
<1>11. \A i, j \in 1..len : order[i] = order[j] => i = j
  BY <1>5, LinkFacts
<1>12. head = order[1] /\ tail = order[len]
  BY <1>4, <1>5, LinkFacts
<1>13. \A i \in 1..len : next[order[i]] = IF i = len THEN NULL ELSE order[i + 1]
  BY <1>5, LinkFacts
<1>14. \A i \in 1..len : prev[order[i]] = IF i = 1 THEN NULL ELSE order[i - 1]
  BY <1>4, <1>5, LinkFacts
<1>6. Types'
  <2>1. order' \in Seq(Node)
    BY <1>2, WithoutProperties DEF IInv, Types
  <2> QED
    BY <1>4, <2>1 DEF IInv, Types, drop_found, unlink
<1>7. /\ \A m \in Node : next'[m] = IF p # 1 /\ m = order[p - 1] THEN next[cur] ELSE next[m]
      /\ \A m \in Node : prev'[m] = IF p # len /\ m = order[p + 1] THEN prev[cur] ELSE prev[m]
      /\ head' = IF p = 1 THEN next[cur] ELSE head
      /\ tail' = IF p = len THEN prev[cur] ELSE tail
  <2>1. /\ prev[cur] = IF p = 1 THEN NULL ELSE order[p - 1]
        /\ next[cur] = IF p = len THEN NULL ELSE order[p + 1]
    BY <1>1, <1>2, <1>13, <1>14
  <2>2. /\ p # 1 => order[p - 1] \in Node
        /\ p # len => order[p + 1] \in Node
    BY <1>1
  <2>3. /\ p = 1 => prev[cur] = NULL
        /\ p # 1 => prev[cur] = order[p - 1] /\ prev[cur] # NULL
        /\ p = len => next[cur] = NULL
        /\ p # len => next[cur] = order[p + 1] /\ next[cur] # NULL
    BY <2>1, <2>2
  <2> HIDE DEF len
  <2> QED
    BY <2>3 DEF drop_found, unlink, IInv, Types
<1>15. /\ \A m \in Node : p # len /\ m # order[p + 1] => prev'[m] = prev[m]
       /\ p = len => \A m \in Node : prev'[m] = prev[m]
       /\ p # len => prev'[order[p + 1]] = prev[cur]
  BY <1>1, <1>7
<1>16. /\ \A m \in Node : p # 1 /\ m # order[p - 1] => next'[m] = next[m]
       /\ p = 1 => \A m \in Node : next'[m] = next[m]
       /\ p # 1 => next'[order[p - 1]] = next[cur]
  BY <1>1, <1>7
<1>8. Listed' = Listed \ {cur}
  <2>1. ASSUME NEW m \in Listed' PROVE m \in Listed \ {cur}
    <3>1. PICK i \in 1..len-1 : order'[i] = m
      BY <1>3, <2>1 DEF Listed
    <3>2. PICK k \in 1..len : k # p /\ m = order[k]
      BY <1>1, <1>3, <3>1
    <3> QED
      BY <1>2, <1>11, <3>2 DEF Listed
  <2>2. ASSUME NEW m \in Listed \ {cur} PROVE m \in Listed'
    <3>1. PICK k \in 1..len : order[k] = m
      BY <2>2 DEF Listed
    <3>2. k # p
      BY <1>2, <2>2, <3>1
    <3>3. PICK i \in 1..len-1 : order'[i] = m
      <4>1. CASE k < p
        BY <1>1, <1>3, <3>1, <4>1
      <4>2. CASE k > p
        <5>1. k - 1 \in 1..len-1 /\ ~(k - 1 < p) /\ (k - 1) + 1 = k
          BY <1>1, <4>2
        <5> QED
          BY <1>3, <3>1, <5>1
      <4> QED
        BY <1>1, <3>2, <4>1, <4>2
    <3> QED
      BY <1>3, <3>3 DEF Listed
  <2> QED
    BY <2>1, <2>2
<1>9. Linked'
  <2>1. live' = Listed'
    BY <1>8 DEF IInv, Linked, drop_found
  <2>2. ASSUME NEW i \in 1..len-1, NEW j \in 1..len-1, order'[i] = order'[j]
        PROVE  i = j
    BY <1>1, <1>3, <1>11, <2>2
  <2>3. /\ len = 1 => head' = NULL /\ tail' = NULL
        /\ len # 1 => head' = order'[1] /\ tail' = order'[len - 1]
    <3>1. next[cur] = IF p = len THEN NULL ELSE order[p + 1]
      BY <1>2, <1>13
    <3>2. prev[cur] = IF p = 1 THEN NULL ELSE order[p - 1]
      BY <1>2, <1>14
    <3> QED
      BY <1>1, <1>3, <1>7, <1>12, <3>1, <3>2
  <2>4. ASSUME NEW i \in 1..len-1
        PROVE  next'[order'[i]] = IF i = len - 1 THEN NULL ELSE order'[i + 1]
    <3>1. CASE i < p - 1
      <4>1. order[i] # order[p - 1] /\ p # 1
        BY <1>1, <1>11, <3>1
      <4>2. order'[i] = order[i] /\ order'[i + 1] = order[i + 1] /\ i # len - 1
        BY <1>1, <1>3, <3>1
      <4>3. next'[order[i]] = next[order[i]] /\ next[order[i]] = order[i + 1]
        BY <1>1, <1>13, <1>16, <3>1, <4>1
      <4> QED
        BY <4>2, <4>3
    <3>2. CASE i = p - 1
      <4>1. order'[i] = order[p - 1] /\ (i # len - 1 => order'[i + 1] = order[p + 1])
        BY <1>1, <1>3, <3>2
      <4>2. next'[order[p - 1]] = next[cur] /\ (i = len - 1 <=> p = len)
        BY <1>1, <1>16, <3>2
      <4> QED
        BY <1>1, <1>2, <1>13, <4>1, <4>2
    <3>3. CASE i >= p
      <4>1. i + 1 \in 1..len /\ (p # 1 => order[i + 1] # order[p - 1])
        BY <1>1, <1>11, <3>3
      <4>2. order'[i] = order[i + 1]
        BY <1>1, <1>3, <3>3
      <4>5. ASSUME i # len - 1 PROVE order'[i + 1] = order[(i + 1) + 1]
        <5>1. i + 1 \in 1..len-1 /\ ~(i + 1 < p)
          BY <1>1, <3>3, <4>5
        <5> QED
          BY <1>3, <5>1
      <4>3. next'[order[i + 1]] = next[order[i + 1]]
        BY <1>1, <1>16, <4>1
      <4>4. next[order[i + 1]] = IF i + 1 = len THEN NULL ELSE order[(i + 1) + 1]
        BY <1>13, <4>1
      <4> QED
        BY <1>1, <4>2, <4>3, <4>4, <4>5
    <3> QED
      BY <1>1, <3>1, <3>2, <3>3
  <2>5. ASSUME NEW i \in 1..len-1
        PROVE  prev'[order'[i]] = IF i = 1 THEN NULL ELSE order'[i - 1]
    <3>1. CASE i < p
      <4>1. i \in 1..len /\ (p # len => order[i] # order[p + 1])
        BY <1>1, <1>11, <3>1
      <4>2. order'[i] = order[i] /\ (i # 1 => order'[i - 1] = order[i - 1])
        BY <1>1, <1>3, <3>1
      <4>3. prev'[order[i]] = prev[order[i]]
        BY <1>1, <1>15, <4>1
      <4>4. prev[order[i]] = IF i = 1 THEN NULL ELSE order[i - 1]
        BY <1>14, <4>1
      <4> QED
        BY <4>2, <4>3, <4>4
    <3>2. CASE i = p
      <4>1. order'[i] = order[p + 1] /\ (i # 1 => order'[i - 1] = order[p - 1])
        BY <1>1, <1>3, <3>2
      <4>2. prev'[order[p + 1]] = prev[cur]
        BY <1>1, <1>15, <3>2
      <4>3. prev[cur] = IF p = 1 THEN NULL ELSE order[p - 1]
        BY <1>2, <1>14
      <4> QED
        BY <3>2, <4>1, <4>2, <4>3
    <3>3. CASE i > p
      <4>1. order[i + 1] # order[p + 1] /\ i + 1 \in 1..len /\ i # 1 /\ p # len
        BY <1>1, <1>11, <3>3
      <4>2. order'[i] = order[i + 1] /\ order'[i - 1] = order[i]
        BY <1>1, <1>3, <3>3
      <4>3. prev'[order[i + 1]] = prev[order[i + 1]]
        BY <1>1, <1>15, <4>1
      <4>4. prev[order[i + 1]] = order[i]
        BY <1>1, <1>14, <4>1
      <4> QED
        BY <4>1, <4>2, <4>3, <4>4
    <3> QED
      BY <1>1, <3>1, <3>2, <3>3
  <2>6. order' = << >> <=> len = 1
    <3>1. order' = << >> <=> Len(order') = 0
      BY <1>6, EmptySeq DEF Types
    <3> QED
      BY <1>1, <1>3, <3>1
  <2> HIDE DEF len
  <2> QED
    BY <1>3, <2>1, <2>2, <2>3, <2>4, <2>5, <2>6 DEF Linked
<1>10. SearchMissesNobody'
  BY DEF SearchMissesNobody, drop_found
<1> QED
  BY <1>6, <1>8, <1>9, <1>10

LEMMA RemoveIInv == ASSUME IInv, remove_client PROVE IInv'
<1>1. /\ found /\ drop_found
      /\ open' = open \ {want} /\ open' \subseteq Fd
  BY DEF remove_client, IInv, Types
<1>2. /\ Types' /\ Linked' /\ SearchMissesNobody'
      /\ Listed' = Listed \ {cur}
  BY <1>1, RemoveLinked
<1>3. FreeListClosesAll'
  <2>1. fd' = fd /\ pc' = "idle" /\ fd[cur] = want
    BY <1>1 DEF drop_found, found
  <2> QED
    BY <1>1, <1>2, <2>1 DEF IInv, FreeListClosesAll
<1> QED
  BY <1>2, <1>3 DEF IInv
-----------------------------------------------------------------------------
(* free_list takes the nodes from the front. *)
LEMMA FreeNextIInv ==
  ASSUME IInv, free_next
  PROVE  IInv' /\ order # << >> /\ head = order[1]
<1> DEFINE len == Len(order)
<1>1. len \in Nat /\ \A i \in 1..len : order[i] \in Node
  BY OrderFacts DEF IInv
<1>2. order # << >> /\ len # 0 /\ head = order[1]
  BY OrderEmpty DEF IInv, Linked, free_next
<1>3. /\ Len(order') = len - 1
      /\ \A i \in 1..len-1 : order'[i] = order[i + 1]
      /\ order' \in Seq(Node)
  BY <1>2, HeadTailProperties DEF free_next, IInv, Types
<1>4. /\ \A i, j \in 1..len : order[i] = order[j] => i = j
      /\ \A i \in 1..len : next[order[i]] = IF i = len THEN NULL ELSE order[i + 1]
  BY LinkFacts DEF IInv
<1>5. Types'
  BY <1>1, <1>2, <1>3 DEF free_next, IInv, Types
<1>6. Listed' = Listed \ {head}
  <2>1. ASSUME NEW m \in Listed' PROVE m \in Listed \ {head}
    <3>1. PICK i \in 1..len-1 : order[i + 1] = m
      BY <1>3, <2>1 DEF Listed
    <3>2. i + 1 \in 1..len /\ i + 1 # 1 /\ 1 \in 1..len
      BY <1>1
    <3> QED
      BY <1>2, <1>4, <3>1, <3>2 DEF Listed
  <2>2. ASSUME NEW m \in Listed \ {head} PROVE m \in Listed'
    <3>1. PICK k \in 1..len : order[k] = m
      BY <2>2 DEF Listed
    <3>2. k - 1 \in 1..len-1 /\ (k - 1) + 1 = k
      BY <1>1, <1>2, <2>2, <3>1
    <3> QED
      BY <1>3, <3>1, <3>2 DEF Listed
  <2> QED
    BY <2>1, <2>2
<1>7. Linked'
  <2>1. live' = Listed' /\ Stopping'
    BY <1>6 DEF IInv, Linked, free_next, Stopping
  <2>2. order' = << >> <=> len = 1
    <3>1. order' = << >> <=> Len(order') = 0
      BY <1>3, EmptySeq
    <3> QED
      BY <1>1, <1>3, <3>1
  <2>3. /\ next' = next /\ head' = next[order[1]] /\ 1 \in 1..len
    BY <1>1, <1>2 DEF free_next
  <2>6. /\ len = 1 => head' = NULL
        /\ len # 1 => head' = order'[1]
    BY <1>1, <1>3, <1>4, <2>3
  <2>4. ASSUME NEW i \in 1..len-1
        PROVE  next'[order'[i]] = IF i = len - 1 THEN NULL ELSE order'[i + 1]
    <3>1. order'[i] = order[i + 1] /\ i + 1 \in 1..len
      BY <1>1, <1>3
    <3>2. i # len - 1 => order'[i + 1] = order[(i + 1) + 1]
      BY <1>1, <1>3
    <3> QED
      BY <1>1, <1>4, <2>3, <3>1, <3>2
  <2>5. ASSUME NEW i \in 1..len-1, NEW j \in 1..len-1, order'[i] = order'[j]
        PROVE  i = j
    BY <1>1, <1>3, <1>4, <2>5
  <2> HIDE DEF len
  <2> QED
    BY <1>3, <2>1, <2>2, <2>4, <2>5, <2>6 DEF Linked
<1>8. SearchMissesNobody' /\ FreeListClosesAll'
  BY <1>6 DEF SearchMissesNobody, FreeListClosesAll, IInv, free_next
<1> QED
  BY <1>2, <1>5, <1>7, <1>8 DEF IInv

(* A step that leaves the links and the open descriptors alone and is not  *)
(* free_list's last.                                                       *)
LEMMA Unmoved ==
  ASSUME IInv, UNCHANGED <<links, open, order>>, Types', SearchMissesNobody',
         Stopping => Stopping', pc' = "freed" => pc = "freed"
  PROVE  IInv'
<1>1. Linked'
  BY DEF IInv, Linked, Listed, links
<1>2. FreeListClosesAll'
  BY DEF IInv, FreeListClosesAll, Listed, links
<1> QED
  BY <1>1, <1>2 DEF IInv

LEMMA SearchIInv ==
  ASSUME IInv, (\E f \in Fd : search_client(f)) \/ search_next
  PROVE  IInv'
<1> USE NullAssumption
<1> DEFINE len == Len(order)
           at(i) == IF i = len + 1 THEN NULL ELSE order[i]
<1>1. len \in Nat /\ \A i \in 1..len : order[i] \in Node
  BY OrderFacts DEF IInv
<1>2. /\ Len(order) = 0 => head = NULL
      /\ Len(order) # 0 => head = order[1]
      /\ \A i \in 1..len : next[order[i]] = IF i = len THEN NULL ELSE order[i + 1]
  BY LinkFacts DEF IInv
<1>3. ASSUME NEW f \in Fd, search_client(f)
      PROVE  IInv'
  <2>1. head = at(1) /\ 1 \in 1..len+1 /\ \A j \in 1..1-1 : fd[order[j]] # f
    BY <1>1, <1>2
  <2>2. SearchMissesNobody'
    BY <1>3, <2>1 DEF search_client, links, SearchMissesNobody
  <2>3. Types'
    BY <1>3 DEF search_client, links, IInv, Types
  <2> QED
    BY <1>3, <2>2, <2>3, Unmoved DEF search_client, Stopping
<1>4. CASE search_next
  <2>1. PICK i \in 1..len+1 : cur = at(i) /\ \A j \in 1..i-1 : fd[order[j]] # want
    BY <1>4 DEF search_next, IInv, SearchMissesNobody
  <2>2. i \in 1..len /\ cur = order[i] /\ fd[order[i]] # want
    BY <1>1, <1>4, <2>1 DEF search_next
  <2>3. i + 1 \in 1..len+1 /\ next[cur] = at(i + 1)
    BY <1>1, <1>2, <2>2
  <2>4. \A j \in 1..(i+1)-1 : fd[order[j]] # want
    BY <1>1, <2>1, <2>2
  <2>5. SearchMissesNobody'
    BY <1>4, <2>3, <2>4 DEF search_next, links, SearchMissesNobody
  <2>6. Types'
    BY <1>1, <1>4, <2>2 DEF search_next, links, IInv, Types
  <2> QED
    BY <1>4, <2>5, <2>6, Unmoved DEF search_next, Stopping
<1> QED
  BY <1>3, <1>4

(* Nothing listed is left when head is NULL. *)
LEMMA FreeReturnsIInv == ASSUME IInv, free_list_returns PROVE IInv'
<1>1. Len(order) = 0
  <2>1. Len(order) \in Nat /\ \A i \in 1..Len(order) : order[i] \in Node
    BY OrderFacts DEF IInv
  <2>2. Len(order) # 0 => head = order[1]
    BY LinkFacts DEF IInv
  <2> QED
    BY <2>1, <2>2, NullAssumption DEF free_list_returns
<1>2. Listed = {} /\ Listed' = {}
  BY <1>1 DEF Listed, free_list_returns
<1>3. Types' /\ SearchMissesNobody'
  BY DEF free_list_returns, links, IInv, Types, SearchMissesNobody
<1>4. Linked'
  BY DEF free_list_returns, links, IInv, Linked, Listed, Stopping
<1>5. FreeListClosesAll'
  BY <1>2 DEF free_list_returns, links, IInv, Linked, FreeListClosesAll
<1> QED
  BY <1>3, <1>4, <1>5 DEF IInv

LEMMA NextIInv == IInv /\ [Next]_vars => IInv'
<1> SUFFICES ASSUME IInv, [Next]_vars
             PROVE  IInv'
  OBVIOUS
<1>1. ASSUME NEW n \in Node, NEW f \in Fd, accepted(n, f) \/ unregistered(n, f)
      PROVE  IInv'
  BY <1>1, InsertIInv
<1>2. CASE (\E f \in Fd : search_client(f)) \/ search_next
  BY <1>2, SearchIInv
<1>3. CASE insert_client_malloc_fails \/ search_fails \/ free_list
  <2>1. Types' /\ SearchMissesNobody'
    BY <1>3 DEF insert_client_malloc_fails, search_fails, free_list, links, IInv, Types,
                SearchMissesNobody
  <2>2. /\ UNCHANGED <<links, open, order>>
        /\ Stopping => Stopping'
        /\ pc' = "freed" => pc = "freed"
    BY <1>3 DEF insert_client_malloc_fails, search_fails, free_list, Stopping
  <2> QED
    BY <2>1, <2>2, Unmoved
<1>4. CASE remove_client
  BY <1>4, RemoveIInv
<1>5. CASE free_next
  BY <1>5, FreeNextIInv
<1>6. CASE free_list_returns
  BY <1>6, FreeReturnsIInv
<1>7. CASE UNCHANGED vars
  <2>1. Types' /\ SearchMissesNobody'
    BY <1>7 DEF vars, links, IInv, Types, SearchMissesNobody
  <2> QED
    BY <1>7, <2>1, Unmoved DEF vars, links, Stopping
<1> QED
  BY <1>1, <1>2, <1>3, <1>4, <1>5, <1>6, <1>7 DEF Next

LEMMA ListInvariant == Spec => []IInv
BY InitIInv, NextIInv, PTL DEF Spec
-----------------------------------------------------------------------------
(* llist.c never follows a pointer to a freed node.                        *)
THEOREM ListTypeCorrect == Spec => []TypeOK
<1>1. IInv => TypeOK
  <2> SUFFICES ASSUME IInv
               PROVE  TypeOK
    OBVIOUS
  <2>0. Types /\ Linked /\ SearchMissesNobody
    BY DEF IInv
  <2>1. Len(order) \in Nat /\ \A i \in 1..Len(order) : order[i] \in Allocated
    BY <2>0, OrderFacts DEF Linked, Listed, Allocated
  <2>2. head \in Allocated /\ (~Stopping => tail \in Allocated)
    BY <2>0, <2>1, LinkFacts DEF Allocated
  <2>3. pc = "search" => cur \in Allocated
    BY <2>0, <2>1 DEF SearchMissesNobody, Allocated
  <2>4. ASSUME NEW n \in live
        PROVE  next[n] \in Allocated
    <3>1. PICK i \in 1..Len(order) : n = order[i]
      BY <2>0 DEF Linked, Listed
    <3>2. next[n] = IF i = Len(order) THEN NULL ELSE order[i + 1]
      BY <2>0, <3>1, LinkFacts
    <3> QED
      BY <2>1, <3>1, <3>2 DEF Allocated
  <2> QED
    BY <2>0, <2>2, <2>3, <2>4 DEF TypeOK
<1> QED
  BY <1>1, ListInvariant, PTL

(* llist.c's pointers spell the list of clients through every insertion,   *)
(* removal and address malloc hands out again.                             *)
THEOREM ListStaysLinked == Spec => []Linked
<1>1. IInv => Linked
  BY DEF IInv
<1> QED
  BY <1>1, ListInvariant, PTL

(* search_client passes over no client it looks for. *)
THEOREM SearchIsComplete == Spec => []SearchMissesNobody
<1>1. IInv => SearchMissesNobody
  BY DEF IInv
<1> QED
  BY <1>1, ListInvariant, PTL

(* free_list closes every client and frees every node. *)
THEOREM FreeListIsComplete == Spec => []FreeListClosesAll
<1>1. IInv => FreeListClosesAll
  BY DEF IInv
<1> QED
  BY <1>1, ListInvariant, PTL
-----------------------------------------------------------------------------
(* The clients ClientSeq sees. *)
Items == [i \in 1..Len(order) |-> <<order[i], fd[order[i]]>>]

LEMMA ItemsSeq ==
  ASSUME Types
  PROVE  /\ Items \in Seq(Node \X Fd)
         /\ Len(Items) = Len(order)
         /\ \A i \in 1..Len(order) : Items[i] = <<order[i], fd[order[i]]>>
<1>1. Len(order) \in Nat /\ \A i \in 1..Len(order) : order[i] \in Node
  BY OrderFacts
<1>2. \A i \in 1..Len(order) : <<order[i], fd[order[i]]>> \in Node \X Fd
  BY <1>1 DEF Types
<1> QED
  BY <1>1, <1>2 DEF Items

LEMMA ItemsSeqNext ==
  ASSUME Types'
  PROVE  /\ Items' \in Seq(Node \X Fd)
         /\ Len(Items') = Len(order')
         /\ \A i \in 1..Len(order') : Items'[i] = <<order'[i], fd'[order'[i]]>>
<1>1. Len(order') \in Nat /\ \A i \in 1..Len(order') : order'[i] \in Node
  BY LenProperties, ElementOfSeq DEF Types
<1>2. \A i \in 1..Len(order') : <<order'[i], fd'[order'[i]]>> \in Node \X Fd
  BY <1>1 DEF Types
<1> QED
  BY <1>1, <1>2 DEF Items

(* An insertion appends its client. *)
LEMMA InsertItems ==
  ASSUME IInv, IInv', NEW n \in Node, NEW f \in Fd, insert_client(n, f)
  PROVE  Items' = Append(Items, <<n, f>>) /\ n \notin Seen!Nodes
<1>0. Items \in Seq(Node \X Fd) /\ Items' \in Seq(Node \X Fd)
  BY ItemsSeq, ItemsSeqNext DEF IInv
<1>1. /\ Len(Items) = Len(order)
      /\ \A i \in 1..Len(order) : Items[i] = <<order[i], fd[order[i]]>>
  BY ItemsSeq DEF IInv
<1>2. /\ Len(Items') = Len(order')
      /\ \A i \in 1..Len(order') : Items'[i] = <<order'[i], fd'[order'[i]]>>
  BY ItemsSeqNext DEF IInv
<1>3. Len(order) \in Nat /\ \A i \in 1..Len(order) : order[i] \in Node
  BY OrderFacts DEF IInv
<1>4. /\ Len(order') = Len(order) + 1
      /\ \A i \in 1..Len(order) : order'[i] = order[i]
      /\ order'[Len(order) + 1] = n
  BY AppendProperties DEF IInv, Types, insert_client
<1>5. \A i \in 1..Len(order) : order[i] # n
  BY DEF IInv, Linked, Listed, insert_client
<1>6. \A m \in Node : fd'[m] = IF m = n THEN f ELSE fd[m]
  BY DEF IInv, Types, insert_client
<1>7. <<n, f>> \in Node \X Fd
  OBVIOUS
<1>8. Append(Items, <<n, f>>) \in Seq(Node \X Fd)
  BY <1>0, <1>7, AppendProperties
<1>12. /\ Len(Append(Items, <<n, f>>)) = Len(order) + 1
       /\ \A i \in 1..Len(order) : Append(Items, <<n, f>>)[i] = Items[i]
       /\ Append(Items, <<n, f>>)[Len(order) + 1] = <<n, f>>
  BY <1>0, <1>1, <1>7, AppendProperties
<1>9. ASSUME NEW i \in 1..Len(order')
      PROVE  Items'[i] = Append(Items, <<n, f>>)[i]
  <2>1. CASE i \in 1..Len(order)
    <3>1. order'[i] = order[i] /\ fd'[order[i]] = fd[order[i]]
      BY <1>3, <1>4, <1>5, <1>6, <2>1
    <3> QED
      BY <1>1, <1>2, <1>12, <2>1, <3>1
  <2>2. CASE i = Len(order) + 1
    <3>1. order'[i] = n /\ fd'[n] = f
      BY <1>4, <1>6, <2>2
    <3> QED
      BY <1>2, <1>12, <2>2, <3>1
  <2>3. i \in 1..Len(order) \/ i = Len(order) + 1
    BY <1>3, <1>4
  <2> QED
    BY <2>1, <2>2, <2>3
<1>10. Items' = Append(Items, <<n, f>>)
  <2>1. Len(Items') = Len(Append(Items, <<n, f>>))
    BY <1>2, <1>4, <1>12
  <2>2. \A i \in 1..Len(Items') : Items'[i] = Append(Items, <<n, f>>)[i]
    BY <1>2, <1>9
  <2> QED
    BY <1>0, <1>8, <2>1, <2>2, SeqEqual
<1>11. \A i \in 1..Len(Items) : Items[i][1] # n
  BY <1>1, <1>5
<1> QED
  BY <1>10, <1>11 DEF Seen!Nodes, Items

(* A removal drops the first client with the descriptor. *)
LEMMA RemoveItems ==
  ASSUME IInv, IInv', remove_client, NEW f \in Fd, f = want
  PROVE  Seen!Remove(f)
<1>0. Items \in Seq(Node \X Fd) /\ Items' \in Seq(Node \X Fd)
  BY ItemsSeq, ItemsSeqNext DEF IInv
<1>1. /\ Len(Items) = Len(order)
      /\ \A i \in 1..Len(order) : Items[i] = <<order[i], fd[order[i]]>>
  BY ItemsSeq DEF IInv
<1>2. /\ Len(Items') = Len(order')
      /\ \A i \in 1..Len(order') : Items'[i] = <<order'[i], fd'[order'[i]]>>
  BY ItemsSeqNext DEF IInv
<1>3. Len(order) \in Nat /\ \A i \in 1..Len(order) : order[i] \in Node
  BY OrderFacts DEF IInv
<1>4. PICK p \in 1..Len(order) : order[p] = cur /\ order' = Without(order, p)
  BY DEF remove_client, drop_found
<1>5. /\ Len(order') = Len(order) - 1
      /\ \A i \in 1..Len(order)-1 : order'[i] = IF i < p THEN order[i] ELSE order[i + 1]
  BY <1>4, WithoutProperties DEF IInv, Types
<1>6. fd' = fd /\ fd[cur] = want /\ cur \in Node /\ open' = open \ {want}
  BY <1>3, <1>4 DEF remove_client, drop_found, found
<1>7. \A j \in 1..p-1 : fd[order[j]] # want
  <2>1. PICK i \in 1..Len(order)+1 : /\ cur = IF i = Len(order) + 1 THEN NULL ELSE order[i]
                                     /\ \A j \in 1..i-1 : fd[order[j]] # want
    BY DEF IInv, SearchMissesNobody, remove_client, found
  <2>2. i \in 1..Len(order) /\ order[i] = cur
    BY <1>3, <1>6, <2>1, NullAssumption
  <2>3. i = p
    BY <1>4, <2>2, LinkFacts DEF IInv
  <2> QED
    BY <2>1, <2>3
<1>8. Seen!First(f, p)
  <2>1. \A j \in 1..p-1 : j \in 1..Len(order)
    BY <1>3
  <2>2. Items[p][2] = want /\ \A j \in 1..p-1 : Items[j][2] # want
    BY <1>1, <1>4, <1>6, <1>7, <2>1
  <2> QED
    BY <1>1, <2>2 DEF Seen!First, Items
<1>13. Without(Items, p) \in Seq(Node \X Fd)
  BY <1>0, <1>1, WithoutProperties
<1>9. /\ Len(Without(Items, p)) = Len(order) - 1
      /\ \A k \in 1..Len(order)-1 :
           Without(Items, p)[k] = IF k < p THEN Items[k] ELSE Items[k + 1]
  <2>1. p \in 1..Len(Items)
    BY <1>1
  <2>2. /\ Len(Without(Items, p)) = Len(Items) - 1
        /\ \A k \in 1..Len(Items)-1 :
             Without(Items, p)[k] = IF k < p THEN Items[k] ELSE Items[k + 1]
    BY <1>0, <2>1, WithoutProperties
  <2> QED
    BY <1>1, <2>2
<1>10. ASSUME NEW i \in 1..Len(order')
       PROVE  Items'[i] = Without(Items, p)[i]
  <2>1. CASE i < p
    <3>1. order'[i] = order[i] /\ i \in 1..Len(order) /\ i \in 1..Len(order)-1
      BY <1>3, <1>5, <2>1
    <3> QED
      BY <1>1, <1>2, <1>6, <1>9, <2>1, <3>1
  <2>2. CASE ~(i < p)
    <3>1. order'[i] = order[i + 1] /\ i + 1 \in 1..Len(order) /\ i \in 1..Len(order)-1
      BY <1>3, <1>5, <2>2
    <3> QED
      BY <1>1, <1>2, <1>6, <1>9, <2>2, <3>1
  <2> QED
    BY <2>1, <2>2
<1>11. Items' = Without(Items, p)
  <2>1. Len(Items') = Len(Without(Items, p))
    BY <1>2, <1>5, <1>9
  <2>2. \A i \in 1..Len(Items') : Items'[i] = Without(Items, p)[i]
    BY <1>2, <1>10
  <2> QED
    BY <1>0, <1>13, <2>1, <2>2, SeqEqual
<1>12. Items' = Seen!Without(Items, p)
  BY <1>11 DEF Without, Seen!Without
<1> QED
  BY <1>1, <1>6, <1>8, <1>12 DEF Seen!Remove, Items

(* free_list takes the first client. *)
LEMMA FreeNextItems ==
  ASSUME IInv, IInv', free_next
  PROVE  Seen!TakeFirst
<1>0. Items \in Seq(Node \X Fd) /\ Items' \in Seq(Node \X Fd)
  BY ItemsSeq, ItemsSeqNext DEF IInv
<1>1. /\ Len(Items) = Len(order)
      /\ \A i \in 1..Len(order) : Items[i] = <<order[i], fd[order[i]]>>
  BY ItemsSeq DEF IInv
<1>2. /\ Len(Items') = Len(order')
      /\ \A i \in 1..Len(order') : Items'[i] = <<order'[i], fd'[order'[i]]>>
  BY ItemsSeqNext DEF IInv
<1>3. order # << >> /\ head = order[1]
  BY FreeNextIInv
<1>4. Len(order) \in Nat \ {0} /\ Items # << >>
  BY <1>0, <1>1, <1>3, EmptySeq DEF IInv, Types
<1>5. /\ Len(order') = Len(order) - 1 /\ fd' = fd
      /\ \A i \in 1..Len(order)-1 : order'[i] = order[i + 1]
  BY <1>3, HeadTailProperties DEF free_next, IInv, Types
<1>10. Tail(Items) \in Seq(Node \X Fd)
  BY <1>0, <1>4, HeadTailProperties
<1>6. /\ Len(Tail(Items)) = Len(order) - 1
      /\ \A i \in 1..Len(order)-1 : Tail(Items)[i] = Items[i + 1]
  BY <1>0, <1>1, <1>4, HeadTailProperties
<1>7. ASSUME NEW i \in 1..Len(order')
      PROVE  Items'[i] = Tail(Items)[i]
  <2>1. order'[i] = order[i + 1] /\ i + 1 \in 1..Len(order) /\ i \in 1..Len(order)-1
    BY <1>4, <1>5
  <2> QED
    BY <1>1, <1>2, <1>5, <1>6, <2>1
<1>8. Items' = Tail(Items)
  <2>1. Len(Items') = Len(Tail(Items))
    BY <1>2, <1>5, <1>6
  <2>2. \A i \in 1..Len(Items') : Items'[i] = Tail(Items)[i]
    BY <1>2, <1>7
  <2> QED
    BY <1>0, <1>10, <2>1, <2>2, SeqEqual
<1>9. open' = open \ {Items[1][2]}
  BY <1>1, <1>3, <1>4 DEF free_next
<1> QED
  BY <1>4, <1>8, <1>9 DEF Seen!TakeFirst, Items

(* The linked list of llist.c behaves as the sequence of clients http.c    *)
(* relies on: every step is one of ClientSeq's or invisible to it.         *)
THEOREM ListImplementsSeq == Spec => ListSpec
<1>1. Init => Seen!Init
  <2> SUFFICES ASSUME Init
               PROVE  Seen!Init
    OBVIOUS
  <2>1. Types /\ Len(order) = 0
    BY InitIInv, EmptySeq DEF Init, init_list, IInv
  <2>2. Items = << >>
    BY <2>1, ItemsSeq, EmptySeq
  <2> QED
    BY <2>2 DEF Init, Seen!Init, Items
<1>2. IInv /\ IInv' /\ [Next]_vars => [Seen!Next]_<<Items, open>>
  <2> SUFFICES ASSUME IInv, IInv', [Next]_vars
               PROVE  [Seen!Next]_<<Items, open>>
    OBVIOUS
  <2>1. ASSUME NEW n \in Node, NEW f \in Fd, accepted(n, f) \/ unregistered(n, f)
        PROVE  Seen!Next
    <3>1. /\ insert_client(n, f) /\ f \notin open
          /\ open' \in {open, open \cup {f}}
      BY <2>1 DEF accepted, unregistered, insert_client
    <3>2. Items' = Append(Items, <<n, f>>) /\ n \notin Seen!Nodes
      BY <3>1, InsertItems
    <3> QED
      BY <3>1, <3>2 DEF Seen!Next, Seen!Insert, Items
  <2>2. CASE remove_client
    <3>1. PICK f \in Fd : f = want
      BY DEF IInv, Types
    <3>2. Seen!Remove(f)
      BY <2>2, <3>1, RemoveItems
    <3> QED
      BY <3>1, <3>2 DEF Seen!Next
  <2>3. CASE free_next
    BY <2>3, FreeNextItems DEF Seen!Next
  <2>4. CASE \/ insert_client_malloc_fails \/ (\E f \in Fd : search_client(f))
             \/ search_next \/ search_fails \/ free_list \/ free_list_returns
             \/ UNCHANGED vars
    <3>1. UNCHANGED <<order, fd, open>>
      BY <2>4 DEF insert_client_malloc_fails, search_client, search_next, search_fails,
                  free_list, free_list_returns, vars, links
    <3> QED
      BY <3>1 DEF Items
  <2> QED
    BY <2>1, <2>2, <2>3, <2>4 DEF Next
<1> QED
  BY <1>1, <1>2, ListInvariant, PTL DEF Spec, ListSpec, Seen!Spec, Items
=============================================================================
