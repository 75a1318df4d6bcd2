----------------------------- MODULE FifoQueue -----------------------------
(***************************************************************************)
(* What src/src/ds/queue.h promises its caller: a FIFO of tasks.  push     *)
(* appends at the back or is refused, pop takes from the front.  A push    *)
(* may be refused only when at least Room tasks are queued.                *)
(***************************************************************************)
EXTENDS Naturals, Sequences

CONSTANTS Task,     \* the tasks (task_node_t values) a caller may push
          NoTask,   \* stands for "no value": an unwritten slot or result
          Room      \* a push onto a shorter queue is never refused

VARIABLES items,    \* the queued tasks, oldest first
          ret       \* what the last call returned: its bool and its *val

Result(ok, v) == [ok |-> ok, val |-> v]

Init == /\ items = << >>
        /\ ret = Result(TRUE, NoTask)

Push(v) == \/ /\ items' = Append(items, v)
              /\ ret' = Result(TRUE, NoTask)
           \/ /\ Len(items) >= Room
              /\ ret' = Result(FALSE, NoTask)
              /\ UNCHANGED items

Pop == \/ /\ items # << >>
          /\ items' = Tail(items)
          /\ ret' = Result(TRUE, Head(items))
       \/ /\ items = << >>
          /\ ret' = Result(FALSE, NoTask)
          /\ UNCHANGED items

Next == (\E v \in Task : Push(v)) \/ Pop

Spec == Init /\ [][Next]_<<items, ret>>
=============================================================================
