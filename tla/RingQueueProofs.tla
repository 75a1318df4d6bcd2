-------------------------- MODULE RingQueueProofs --------------------------
(***************************************************************************)
(* Proofs about RingQueue, for every set of tasks, every set of requested  *)
(* capacities and every limit: the index arithmetic of queue.c is right,   *)
(* and the ring implements the FIFO of FifoQueue.                          *)
(***************************************************************************)
EXTENDS RingQueue, SequenceTheorems, WellFoundedInduction, TLAPS

(* The only arithmetic queue.c needs of %: an index below cap is itself. *)
LEMMA ModSmall == ASSUME NEW c \in Nat \ {0}, NEW x \in 0..c-1
                  PROVE  x % c = x
OBVIOUS

(* ... and an index that ran past the end wraps around once. *)
LEMMA ModWrap == ASSUME NEW c \in Nat \ {0}, NEW x \in c..2*c-1
                 PROVE  x % c = x - c
OBVIOUS

(* A capacity init_queue grants is positive, whatever was asked for. *)
LEMMA GrantedCapType == ASSUME NEW c \in Int
                        PROVE  GrantedCap(c) \in Nat \ {0}
BY LimitAssumption DEF GrantedCap

(* The slot k places after r, without %. *)
LEMMA SlotValue ==
  ASSUME NEW c \in Nat \ {0}, NEW r \in 0..c-1, NEW k \in 0..c
  PROVE  /\ (r + k) % c = IF r + k < c THEN r + k ELSE r + k - c
         /\ (r + k) % c \in 0..c-1
<1>1. CASE r + k < c
  <2>1. r + k \in 0..c-1
    BY <1>1
  <2>2. (r + k) % c = r + k
    BY <2>1, ModSmall
  <2> QED
    BY <1>1, <2>1, <2>2
<1>2. CASE r + k >= c
  <2>1. r + k \in c..2*c-1
    BY <1>2
  <2>2. (r + k) % c = r + k - c
    BY <2>1, ModWrap
  <2> QED
    BY <1>2, <2>1, <2>2
<1> QED
  BY <1>1, <1>2

(* Counting i places from the slot after r counts i + 1 places from r. *)
LEMMA SlotNext ==
  ASSUME NEW c \in Nat \ {0}, NEW r \in 0..c-1, NEW i \in 0..c-1
  PROVE  (((r + 1) % c) + i) % c = (r + (i + 1)) % c
<1> DEFINE s == IF r + 1 < c THEN r + 1 ELSE r + 1 - c
<1>1. (r + 1) % c = s /\ s \in 0..c-1
  <2>1. 1 \in 0..c
    OBVIOUS
  <2> QED
    BY <2>1, SlotValue
<1>2. (s + i) % c = IF s + i < c THEN s + i ELSE s + i - c
  <2> HIDE DEF s
  <2>1. i \in 0..c
    OBVIOUS
  <2> QED
    BY <1>1, <2>1, SlotValue
<1>3. (r + (i + 1)) % c = IF r + (i + 1) < c THEN r + (i + 1) ELSE r + (i + 1) - c
  <2>1. i + 1 \in 0..c
    OBVIOUS
  <2> QED
    BY <2>1, SlotValue
<1> QED
  BY <1>1, <1>2, <1>3
(* One more place after the run that starts at r. *)
LEMMA SlotAfter ==
  ASSUME NEW c \in Nat \ {0}, NEW r \in 0..c-1, NEW n \in 0..c-1
  PROVE  (((r + n) % c) + 1) % c = (r + (n + 1)) % c
<1> DEFINE s == IF r + n < c THEN r + n ELSE r + n - c
<1>1. (r + n) % c = s /\ s \in 0..c-1
  <2>1. n \in 0..c
    OBVIOUS
  <2> QED
    BY <2>1, SlotValue
<1>2. (s + 1) % c = IF s + 1 < c THEN s + 1 ELSE s + 1 - c
  <2> HIDE DEF s
  <2>1. 1 \in 0..c
    OBVIOUS
  <2> QED
    BY <1>1, <2>1, SlotValue
<1>3. (r + (n + 1)) % c = IF r + (n + 1) < c THEN r + (n + 1) ELSE r + (n + 1) - c
  <2>1. n + 1 \in 0..c
    OBVIOUS
  <2> QED
    BY <2>1, SlotValue
<1> QED
  BY <1>1, <1>2, <1>3

(* A slot of the run from r is not the slot just after the run. *)
LEMMA SlotDistinct ==
  ASSUME NEW c \in Nat \ {0}, NEW r \in 0..c-1, NEW n \in 0..c-1,
         NEW i \in 0..n-1
  PROVE  (r + i) % c # (r + n) % c
<1>1. (r + i) % c = IF r + i < c THEN r + i ELSE r + i - c
  <2>1. i \in 0..c
    OBVIOUS
  <2> QED
    BY <2>1, SlotValue
<1>2. (r + n) % c = IF r + n < c THEN r + n ELSE r + n - c
  <2>1. n \in 0..c
    OBVIOUS
  <2> QED
    BY <2>1, SlotValue
<1> QED
  BY <1>1, <1>2
-----------------------------------------------------------------------------
(* The inductive invariant: the types and the ring's index equation. *)
IInv == TypeOK /\ RingInv

(* init_queue establishes it. *)
LEMMA InitIInv == Init => IInv
<1> SUFFICES ASSUME Init
             PROVE  IInv
  OBVIOUS
<1>1. cap \in Nat \ {0}
  BY GrantedCapType, ReqCapsAssumption DEF Init, init_queue
<1>2. TypeOK
  BY <1>1 DEF Init, init_queue, TypeOK, Result
<1>3. RingInv
  BY <1>1, SlotValue DEF Init, init_queue, RingInv
<1> QED
  BY <1>2, <1>3 DEF IInv

(* What push does to each slot of the run. *)
LEMMA PushSlots ==
  ASSUME NEW v \in Task, IInv, push(v)
  PROVE  /\ q'[(readAt + len) % cap] = v
         /\ \A i \in 0..len-1 : q'[(readAt + i) % cap] = q[(readAt + i) % cap]
<1>1. /\ cap \in Nat \ {0} /\ readAt \in 0..cap-1 /\ len \in 0..cap-1
      /\ q \in [0..cap-1 -> Task \cup {NoTask}]
      /\ q' = [q EXCEPT ![insertAt] = v]
      /\ insertAt = (readAt + len) % cap /\ insertAt \in 0..cap-1
  BY DEF IInv, TypeOK, RingInv, push, is_full
<1>2. ASSUME NEW i \in 0..len-1
      PROVE  q'[(readAt + i) % cap] = q[(readAt + i) % cap]
  <2>1. (readAt + i) % cap # insertAt
    BY <1>1, SlotDistinct
  <2>2. i \in 0..cap
    BY <1>1
  <2>3. (readAt + i) % cap \in 0..cap-1
    BY <1>1, <2>2, SlotValue
  <2> QED
    BY <1>1, <2>1, <2>3
<1> QED
  BY <1>1, <1>2

(* push keeps the index equation: insertAt moves with len. *)
LEMMA PushIInv == ASSUME NEW v \in Task, IInv, push(v)
                  PROVE  IInv'
<1>1. /\ cap \in Nat \ {0} /\ readAt \in 0..cap-1 /\ len \in 0..cap-1
      /\ cap' = cap /\ readAt' = readAt /\ len' = len + 1
      /\ insertAt = (readAt + len) % cap /\ insertAt \in 0..cap-1
      /\ insertAt' = (insertAt + 1) % cap
  BY DEF IInv, TypeOK, RingInv, push, is_full
<1>2. insertAt' \in 0..cap-1
  BY <1>1, SlotValue
<1>3. TypeOK'
  BY <1>1, <1>2 DEF IInv, TypeOK, push, Result
<1>4. insertAt' = (readAt' + len') % cap'
  BY <1>1, SlotAfter
<1>5. ASSUME NEW i \in 0..len'-1
      PROVE  q'[(readAt' + i) % cap'] \in Task
  <2>1. CASE i = len
    BY <1>1, <2>1, PushSlots
  <2>2. CASE i # len
    <3>1. i \in 0..len-1
      BY <1>1, <2>2
    <3>2. q[(readAt + i) % cap] \in Task
      BY <3>1 DEF IInv, RingInv
    <3> QED
      BY <1>1, <3>1, <3>2, PushSlots
  <2> QED
    BY <2>1, <2>2
<1> QED
  BY <1>3, <1>4, <1>5 DEF IInv, RingInv

(* What a push that resizes leaves in the first len + 1 slots. *)
LEMMA ResizeSlots ==
  ASSUME NEW v \in Task, IInv, push_resize(v)
  PROVE  /\ q' \in [0..cap'-1 -> Task \cup {NoTask}]
         /\ q'[len] = v
         /\ \A i \in 0..len-1 : q'[i] = q[(readAt + i) % cap]
<1>1. /\ cap \in Nat \ {0} /\ len = cap /\ cap' = 2 * cap
      /\ q' = [Unrolled(cap') EXCEPT ![len] = v]
  BY DEF IInv, TypeOK, push_resize, is_full
<1>2. \A i \in 0..len-1 : q[(readAt + i) % cap] \in Task
  BY DEF IInv, RingInv
<1>3. /\ Unrolled(cap') \in [0..cap'-1 -> Task \cup {NoTask}]
      /\ \A i \in 0..len-1 : Unrolled(cap')[i] = q[(readAt + i) % cap]
  BY <1>1, <1>2 DEF Unrolled
<1> QED
  BY <1>1, <1>3

(* A push that resizes: the run starts at slot 0 of an array twice as long. *)
LEMMA PushResizeIInv == ASSUME NEW v \in Task, IInv, push_resize(v)
                        PROVE  IInv'
<1>1. /\ cap \in Nat \ {0} /\ len = cap /\ cap' = 2 * cap
      /\ readAt' = 0 /\ len' = len + 1 /\ insertAt' = (len + 1) % cap'
      /\ cap' \in Nat \ {0} /\ len + 1 \in 0..cap'
  BY DEF IInv, TypeOK, push_resize, is_full
<1>2. insertAt' = (readAt' + len') % cap'
  BY <1>1
<1>3. insertAt' \in 0..cap'-1
  BY <1>1, <1>2, SlotValue
<1>4. TypeOK'
  BY <1>1, <1>3, ResizeSlots DEF TypeOK, push_resize, Result
<1>5. ASSUME NEW i \in 0..len'-1
      PROVE  q'[(readAt' + i) % cap'] \in Task
  <2>1. i \in 0..cap'-1 /\ readAt' + i = i
    BY <1>1
  <2>2. (readAt' + i) % cap' = i
    BY <1>1, <2>1, ModSmall
  <2>3. CASE i = len
    BY <2>2, <2>3, ResizeSlots
  <2>4. CASE i # len
    <3>1. i \in 0..len-1
      BY <1>1, <2>4
    <3>2. q[(readAt + i) % cap] \in Task
      BY <3>1 DEF IInv, RingInv
    <3> QED
      BY <2>2, <3>1, <3>2, ResizeSlots
  <2> QED
    BY <2>3, <2>4
<1> QED
  BY <1>2, <1>4, <1>5 DEF IInv, RingInv

(* pop keeps the index equation: readAt moves as len shrinks. *)
LEMMA PopIInv == ASSUME IInv, pop
                 PROVE  IInv'
<1>1. /\ len \in 1..cap /\ cap' = cap /\ len' = len - 1 /\ q' = q
      /\ insertAt' = insertAt /\ readAt' = (readAt + 1) % cap
  BY DEF IInv, TypeOK, pop, is_empty
<1>2. cap \in Nat \ {0} /\ readAt \in 0..cap-1
  BY DEF IInv, TypeOK
<1>3. readAt' \in 0..cap-1
  BY <1>1, <1>2, SlotValue
<1>4. TypeOK'
  BY <1>1, <1>3 DEF IInv, TypeOK, pop, Result
<1>5. ASSUME NEW i \in 0..len-1
      PROVE  (readAt' + i) % cap = (readAt + (i + 1)) % cap
  BY <1>1, <1>2, SlotNext
<1>6. insertAt' = (readAt' + len') % cap'
  <2>1. insertAt = (readAt + len) % cap
    BY DEF IInv, RingInv
  <2>2. len - 1 \in 0..len-1 /\ (len - 1) + 1 = len
    BY <1>1, <1>2
  <2>3. (readAt' + (len - 1)) % cap = (readAt + len) % cap
    BY <1>5, <2>2
  <2> QED
    BY <1>1, <2>1, <2>3
<1>7. ASSUME NEW i \in 0..len'-1
      PROVE  q'[(readAt' + i) % cap'] \in Task
  <2>1. i \in 0..len-1 /\ i + 1 \in 0..len-1
    BY <1>1, <1>2
  <2>2. q[(readAt + (i + 1)) % cap] \in Task
    BY <2>1 DEF IInv, RingInv
  <2> QED
    BY <1>1, <1>5, <2>1, <2>2
<1> QED
  BY <1>4, <1>6, <1>7 DEF IInv, RingInv

(* The invariant is inductive. *)
LEMMA NextIInv == IInv /\ [Next]_vars => IInv'
<1> SUFFICES ASSUME IInv, [Next]_vars
             PROVE  IInv'
  OBVIOUS
<1>1. ASSUME NEW v \in Task, push(v)
      PROVE  IInv'
  BY <1>1, PushIInv
<1>2. ASSUME NEW v \in Task, push_resize(v)
      PROVE  IInv'
  BY <1>2, PushResizeIInv
<1>3. ASSUME NEW v \in Task, push_refused(v)
      PROVE  IInv'
  BY <1>3 DEF IInv, TypeOK, RingInv, push_refused, Result
<1>4. CASE pop
  BY <1>4, PopIInv
<1>5. CASE pop_empty
  BY <1>5 DEF IInv, TypeOK, RingInv, pop_empty, Result
<1>6. CASE UNCHANGED vars
  BY <1>6 DEF IInv, TypeOK, RingInv, vars
<1> QED
  BY <1>1, <1>2, <1>3, <1>4, <1>5, <1>6 DEF Next

(* The fields of queue_t stay in range, every index inside the array. *)
THEOREM RingTypeCorrect == Spec => []TypeOK
<1>1. IInv => TypeOK
  BY DEF IInv
<1> QED
  BY <1>1, InitIInv, NextIInv, PTL DEF Spec

(* insertAt is always len places after readAt, and all slots between were  *)
(* written by push, for every capacity and every run of pushes and pops.   *)
THEOREM RingInvariant == Spec => []RingInv
<1>1. IInv => RingInv
  BY DEF IInv
<1> QED
  BY <1>1, InitIInv, NextIInv, PTL DEF Spec
-----------------------------------------------------------------------------
(* Contents is the sequence of the len queued tasks. *)
LEMMA ContentsSeq ==
  ASSUME IInv
  PROVE  /\ Contents \in Seq(Task)
         /\ Len(Contents) = len
         /\ \A i \in 1..len : Contents[i] = q[(readAt + (i - 1)) % cap]
<1>1. len \in Nat
  BY DEF IInv, TypeOK
<1>2. \A i \in 0..len-1 : q[(readAt + i) % cap] \in Task
  BY DEF IInv, RingInv
<1>3. ASSUME NEW i \in 1..len
      PROVE  q[(readAt + (i - 1)) % cap] \in Task
  <2>1. i - 1 \in 0..len-1
    BY <1>1
  <2> QED
    BY <1>2, <2>1
<1>4. Contents \in [1..len -> Task]
  BY <1>3 DEF Contents
<1> QED
  BY <1>1, <1>4 DEF Contents

(* The same one step later. *)
LEMMA ContentsSeqNext ==
  ASSUME IInv'
  PROVE  /\ Contents' \in Seq(Task)
         /\ Len(Contents') = len'
         /\ \A i \in 1..len' : Contents'[i] = q'[(readAt' + (i - 1)) % cap']
<1>1. len' \in Nat
  BY DEF IInv, TypeOK
<1>2. \A i \in 0..len'-1 : q'[(readAt' + i) % cap'] \in Task
  BY DEF IInv, RingInv
<1>3. ASSUME NEW i \in 1..len'
      PROVE  q'[(readAt' + (i - 1)) % cap'] \in Task
  <2>1. ASSUME NEW n \in Nat, NEW j \in 1..n
        PROVE  j - 1 \in 0..n-1
    OBVIOUS
  <2> QED
    BY <1>1, <1>2, <2>1
<1>4. Contents' \in [1..len' -> Task]
  BY <1>3 DEF Contents
<1> QED
  BY <1>1, <1>4 DEF Contents

(* Both kinds of accepted push append at the back. *)
LEMMA PushAppends ==
  ASSUME NEW v \in Task, IInv, push(v) \/ push_resize(v)
  PROVE  Contents' = Append(Contents, v)
<1>1. IInv'
  BY PushIInv, PushResizeIInv
<1>2. /\ Contents' \in Seq(Task) /\ Len(Contents') = len'
      /\ \A i \in 1..len' : Contents'[i] = q'[(readAt' + (i - 1)) % cap']
  BY <1>1, ContentsSeqNext
<1>3. len \in Nat /\ len' = len + 1
  <2>1. CASE push(v)
    BY <2>1 DEF IInv, TypeOK, push
  <2>2. CASE push_resize(v)
    BY <2>2 DEF IInv, TypeOK, push_resize
  <2> QED
    BY <2>1, <2>2
<1>4. /\ Append(Contents, v) \in Seq(Task)
      /\ Len(Append(Contents, v)) = len + 1
      /\ \A i \in 1..len : Append(Contents, v)[i] = Contents[i]
      /\ Append(Contents, v)[len + 1] = v
  BY ContentsSeq, AppendProperties
<1>5. ASSUME NEW i \in 1..len'
      PROVE  Contents'[i] = Append(Contents, v)[i]
  <2>1. i - 1 \in 0..len /\ (i - 1 # len => i \in 1..len /\ i - 1 \in 0..len-1)
    BY <1>3
  <2>2. CASE push(v)
    <3>1. readAt' = readAt /\ cap' = cap
      BY <2>2 DEF push
    <3>2. CASE i - 1 = len
      <4>1. i = len + 1
        BY <1>3, <3>2
      <4> QED
        BY <1>2, <1>4, <2>2, <3>1, <3>2, <4>1, PushSlots
    <3>3. CASE i - 1 # len
      BY <1>2, <1>4, <2>1, <2>2, <3>1, <3>3, PushSlots, ContentsSeq
    <3> QED
      BY <3>2, <3>3
  <2>3. CASE push_resize(v)
    <3>1. /\ readAt' = 0 /\ cap' \in Nat \ {0} /\ i - 1 \in 0..cap'-1
          /\ readAt' + (i - 1) = i - 1
      BY <1>3, <2>1, <2>3 DEF IInv, TypeOK, push_resize, is_full
    <3>2. (readAt' + (i - 1)) % cap' = i - 1
      BY <3>1, ModSmall
    <3>3. CASE i - 1 = len
      <4>1. i = len + 1
        BY <1>3, <3>3
      <4> QED
        BY <1>2, <1>4, <2>3, <3>2, <3>3, <4>1, ResizeSlots
    <3>4. CASE i - 1 # len
      BY <1>2, <1>4, <2>1, <2>3, <3>2, <3>4, ResizeSlots, ContentsSeq
    <3> QED
      BY <3>3, <3>4
  <2> QED
    BY <2>2, <2>3
<1> QED
  BY <1>2, <1>3, <1>4, <1>5, SeqEqual

(* pop removes the oldest task and returns it. *)
LEMMA PopTakesHead ==
  ASSUME IInv, pop
  PROVE  /\ Contents # << >>
         /\ q[readAt] = Head(Contents)
         /\ Contents' = Tail(Contents)
<1>1. /\ cap \in Nat \ {0} /\ readAt \in 0..cap-1 /\ len \in 1..cap
      /\ cap' = cap /\ len' = len - 1 /\ q' = q /\ readAt' = (readAt + 1) % cap
  BY DEF IInv, TypeOK, pop, is_empty
<1>2. Contents # << >>
  BY <1>1, ContentsSeq
<1>3. q[readAt] = Head(Contents)
  <2>1. readAt + (1 - 1) = readAt /\ readAt % cap = readAt
    BY <1>1, ModSmall
  <2>2. Contents[1] = q[readAt]
    BY <1>1, <2>1, ContentsSeq
  <2>3. Head(Contents) = Contents[1]
    BY <1>2, ContentsSeq
  <2> QED
    BY <2>2, <2>3
<1>4. /\ Contents' \in Seq(Task) /\ Len(Contents') = len'
      /\ \A i \in 1..len' : Contents'[i] = q'[(readAt' + (i - 1)) % cap']
  BY PopIInv, ContentsSeqNext
<1>5. /\ Tail(Contents) \in Seq(Task) /\ Len(Tail(Contents)) = len - 1
      /\ \A i \in 1..len-1 : Tail(Contents)[i] = Contents[i + 1]
  BY <1>2, ContentsSeq, HeadTailProperties
<1>6. ASSUME NEW i \in 1..len'
      PROVE  Contents'[i] = Tail(Contents)[i]
  <2>1. i - 1 \in 0..cap-1 /\ i \in 1..len-1 /\ i + 1 \in 1..len /\ (i + 1) - 1 = (i - 1) + 1
    BY <1>1
  <2>2. (readAt' + (i - 1)) % cap' = (readAt + ((i + 1) - 1)) % cap
    BY <1>1, <2>1, SlotNext
  <2>3. Contents[i + 1] = q[(readAt + ((i + 1) - 1)) % cap]
    BY <2>1, ContentsSeq
  <2> QED
    BY <1>1, <1>4, <1>5, <2>1, <2>2, <2>3
<1> QED
  BY <1>1, <1>2, <1>3, <1>4, <1>5, <1>6, SeqEqual

(* init_queue can grant a least capacity: MinCap is well defined. *)
LEMMA MinCapLeast == /\ MinCap \in Nat
                     /\ \A c \in ReqCaps : MinCap <= GrantedCap(c)
<1> DEFINE T == {GrantedCap(c) : c \in ReqCaps}
<1>1. T \subseteq Nat /\ T # {}
  BY GrantedCapType, ReqCapsAssumption
<1>2. PICK m \in T : \A y \in T : ~(<<y, m>> \in OpToRel(<, Nat))
  BY <1>1, WFMin, NatLessThanWellFounded
<1>3. \A c \in ReqCaps : m <= GrantedCap(c)
  <2> SUFFICES ASSUME NEW c \in ReqCaps
               PROVE  m <= GrantedCap(c)
    OBVIOUS
  <2>1. GrantedCap(c) \in T
    OBVIOUS
  <2>2. <<GrantedCap(c), m>> \notin OpToRel(<, Nat)
    BY <1>2, <2>1
  <2>3. GrantedCap(c) \in Nat /\ m \in Nat
    BY <1>1, <2>1
  <2>4. ~(GrantedCap(c) < m)
    BY <2>2, <2>3 DEF OpToRel
  <2> QED
    BY <2>3, <2>4
<1> QED
  BY <1>1, <1>2, <1>3 DEF MinCap

(* The capacity never falls below what init_queue granted. *)
CapInv == cap >= MinCap

(* resize only doubles the capacity, so CapInv holds throughout. *)
LEMMA CapInvariant == Spec => []CapInv
<1>1. Init => CapInv
  BY MinCapLeast, GrantedCapType, ReqCapsAssumption DEF Init, init_queue, CapInv
<1>2. IInv /\ CapInv /\ [Next]_vars => CapInv'
  <2> SUFFICES ASSUME IInv, CapInv, [Next]_vars
               PROVE  CapInv'
    OBVIOUS
  <2>1. cap' = cap \/ cap' = 2 * cap
    BY DEF Next, push, push_resize, push_refused, pop, pop_empty, vars
  <2> QED
    BY <2>1, MinCapLeast DEF IInv, TypeOK, CapInv
<1> QED
  BY <1>1, <1>2, InitIInv, NextIInv, PTL DEF Spec

(* queue.c implements the FIFO of queue.h: through every wrap and resize,  *)
(* an accepted push appends at the back, pop returns the oldest task, and  *)
(* a push is refused only with at least the initial capacity queued.       *)
THEOREM RingImplementsFifo == Spec => FifoSpec
<1>1. Init => Fifo!Init
  <2> SUFFICES ASSUME Init
               PROVE  Fifo!Init
    OBVIOUS
  <2>1. IInv /\ len = 0
    BY InitIInv DEF Init, init_queue
  <2>2. Contents = << >>
    BY <2>1, ContentsSeq
  <2> QED
    BY <2>2 DEF Init, init_queue, Fifo!Init, Result, Fifo!Result
<1>2. IInv /\ CapInv /\ [Next]_vars => [Fifo!Next]_<<Contents, ret>>
  <2> SUFFICES ASSUME IInv, CapInv, [Next]_vars
               PROVE  [Fifo!Next]_<<Contents, ret>>
    OBVIOUS
  <2>1. ASSUME NEW v \in Task, push(v) \/ push_resize(v)
        PROVE  Fifo!Next
    BY <2>1, PushAppends
       DEF push, push_resize, Fifo!Next, Fifo!Push, Result, Fifo!Result
  <2>2. ASSUME NEW v \in Task, push_refused(v)
        PROVE  Fifo!Next
    <3>1. Len(Contents) >= MinCap /\ Contents' = Contents
      BY <2>2, ContentsSeq, MinCapLeast
         DEF push_refused, is_full, CapInv, Contents, IInv, TypeOK
    <3>2. Fifo!Push(v)
      BY <2>2, <3>1 DEF push_refused, Fifo!Push, Result, Fifo!Result
    <3> QED
      BY <3>2 DEF Fifo!Next
  <2>3. CASE pop
    BY <2>3, PopTakesHead DEF pop, Fifo!Next, Fifo!Pop, Result, Fifo!Result
  <2>4. CASE pop_empty
    <3>1. Contents = << >> /\ Contents' = Contents
      BY <2>4, ContentsSeq DEF pop_empty, is_empty, Contents
    <3> QED
      BY <2>4, <3>1 DEF pop_empty, Fifo!Next, Fifo!Pop, Result, Fifo!Result
  <2>5. CASE UNCHANGED vars
    BY <2>5 DEF vars, Contents
  <2> QED
    BY <2>1, <2>2, <2>3, <2>4, <2>5 DEF Next
<1> QED
  BY <1>1, <1>2, InitIInv, NextIInv, CapInvariant, PTL DEF Spec, FifoSpec, Fifo!Spec
=============================================================================
