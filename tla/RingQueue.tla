----------------------------- MODULE RingQueue -----------------------------
(***************************************************************************)
(* The growing ring buffer of src/src/ds/queue.c.  Every call is made      *)
(* under the pool's lock (threadpool.c), so a call is one step.            *)
(* q, cap, len, readAt and insertAt are the fields of queue_t; ret is what *)
(* the last call returned to its caller.                                   *)
(*                                                                         *)
(* Definitions marked Defective are no part of Next: each is the operation *)
(* that follows it with a plausible mistake, which a property must notice. *)
(***************************************************************************)
EXTENDS Integers, Sequences

CONSTANTS Task,        \* the tasks a caller may push
          NoTask,      \* the content of a slot malloc returned unwritten
          ReqCaps,     \* the capacities a caller may ask init_queue for
          MaxInitCap,  \* 1e6 in the code: a larger request gets capacity 1
          GrowLimit    \* 1e7 in the code: resize stops below this

ASSUME NoTaskAssumption == NoTask \notin Task
ASSUME ReqCapsAssumption == ReqCaps \subseteq Int /\ ReqCaps # {}
ASSUME LimitAssumption == MaxInitCap \in Nat /\ GrowLimit \in Nat

VARIABLES q, cap, len, readAt, insertAt, ret

vars == <<q, cap, len, readAt, insertAt, ret>>

Result(ok, v) == [ok |-> ok, val |-> v]

(* "for now, no long capacity": what init_queue makes of a request. *)
GrantedCap(c) == IF c <= 0 \/ c > MaxInitCap THEN 1 ELSE c

(* create_pool calls init_queue once, before any other thread exists.  Its *)
(* own malloc failure is part of create_pool (module ThreadPool).          *)
init_queue == /\ cap \in {GrantedCap(c) : c \in ReqCaps}
              /\ len = 0
              /\ readAt = 0
              /\ insertAt = 0
              /\ q = [i \in 0..cap-1 |-> NoTask]
              /\ ret = Result(TRUE, NoTask)

is_full == len = cap
is_empty == len = 0

(* Defective: resize copies the array as it lies, from slot 0. *)
Unrolled_FromSlot0(newCap) ==
  [i \in 0..newCap-1 |-> IF i < len THEN q[i] ELSE NoTask]

(* The slots resize copies into the new array, unrolled from readAt. *)
Unrolled(newCap) ==
  [i \in 0..newCap-1 |-> IF i < len THEN q[(readAt + i) % cap] ELSE NoTask]

(* Defective: insertAt is not wrapped. *)
push_NoWrap(v) == /\ ~is_full
                  /\ q' = [q EXCEPT ![insertAt] = v]
                  /\ insertAt' = insertAt + 1
                  /\ len' = len + 1
                  /\ ret' = Result(TRUE, NoTask)
                  /\ UNCHANGED <<cap, readAt>>

(* push when a slot is free. *)
push(v) == /\ ~is_full
           /\ q' = [q EXCEPT ![insertAt] = v]
           /\ insertAt' = (insertAt + 1) % cap
           /\ len' = len + 1
           /\ ret' = Result(TRUE, NoTask)
           /\ UNCHANGED <<cap, readAt>>

(* Defective: resize forgets readAt = 0. *)
push_resize_OldReadAt(v) ==
                  LET newCap == 2 * cap IN
                  /\ is_full
                  /\ newCap < GrowLimit
                  /\ q' = [Unrolled(newCap) EXCEPT ![len] = v]
                  /\ cap' = newCap
                  /\ insertAt' = (len + 1) % newCap
                  /\ len' = len + 1
                  /\ ret' = Result(TRUE, NoTask)
                  /\ UNCHANGED readAt

(* push on a full queue whose resize succeeds: the new array is unrolled,  *)
(* insertAt becomes len and the value is stored there.                     *)
push_resize(v) == LET newCap == 2 * cap IN
                  /\ is_full
                  /\ newCap < GrowLimit
                  /\ q' = [Unrolled(newCap) EXCEPT ![len] = v]
                  /\ cap' = newCap
                  /\ readAt' = 0
                  /\ insertAt' = (len + 1) % newCap
                  /\ len' = len + 1
                  /\ ret' = Result(TRUE, NoTask)

(* push on a full queue whose resize fails: the limit is reached, or       *)
(* malloc returned NULL, which it may do at any size.                      *)
push_refused(v) == /\ is_full
                   /\ ret' = Result(FALSE, NoTask)
                   /\ UNCHANGED <<q, cap, len, readAt, insertAt>>

pop == /\ ~is_empty
       /\ ret' = Result(TRUE, q[readAt])
       /\ readAt' = (readAt + 1) % cap
       /\ len' = len - 1
       /\ UNCHANGED <<q, cap, insertAt>>

pop_empty == /\ is_empty
             /\ ret' = Result(FALSE, NoTask)
             /\ UNCHANGED <<q, cap, len, readAt, insertAt>>

Init == init_queue

Next == \/ \E v \in Task : push(v) \/ push_resize(v) \/ push_refused(v)
        \/ pop
        \/ pop_empty

Spec == Init /\ [][Next]_vars
-----------------------------------------------------------------------------
(* Every field of queue_t is in its range; the indices stay inside the array. *)
TypeOK == /\ cap \in Nat \ {0}
          /\ len \in 0..cap
          /\ readAt \in 0..cap-1
          /\ insertAt \in 0..cap-1
          /\ q \in [0..cap-1 -> Task \cup {NoTask}]
          /\ ret \in [ok : BOOLEAN, val : Task \cup {NoTask}]

(* queue.c keeps insertAt and len separately: insertAt is always the slot  *)
(* len places after readAt, and the len slots from readAt on were written  *)
(* by push, across every wrap and every resize.                            *)
RingInv == /\ insertAt = (readAt + len) % cap
           /\ \A i \in 0..len-1 : q[(readAt + i) % cap] \in Task

(* The queued tasks in pop order, read off the ring. *)
Contents == [i \in 1..len |-> q[(readAt + (i - 1)) % cap]]

(* The least capacity init_queue can have granted. *)
MinCap == CHOOSE m \in {GrantedCap(c) : c \in ReqCaps} :
             \A c \in ReqCaps : m <= GrantedCap(c)

Fifo == INSTANCE FifoQueue WITH items <- Contents, Room <- MinCap

(* queue.h, "queue_t acts as a FIFO": seen through Contents, every step of *)
(* the ring, the resizing ones included, is a step of the FIFO, and a push *)
(* is refused only with at least the initial capacity queued.              *)
FifoSpec == Fifo!Spec
=============================================================================
