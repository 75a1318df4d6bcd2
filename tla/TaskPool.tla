------------------------------ MODULE TaskPool ------------------------------
(***************************************************************************)
(* What src/src/ds/threadpool.h promises: tasks accepted by push_task are  *)
(* started in order, each by one worker and at most NThreads at a time;    *)
(* destroy_pool returns only when every accepted task has finished.        *)
(* ThreadPool implements this module; Server is built on it.               *)
(***************************************************************************)
EXTENDS Naturals, Sequences, FiniteSets

CONSTANTS Task,      \* the tasks that may be submitted, each once
          NThreads,  \* MAX_THREAD_COUNT
          QueueCap   \* a submission to a shorter queue is never refused

VARIABLES phase,     \* "new", "open", "draining" (destroy_pool called) or "gone"
          queue,     \* accepted tasks no worker has taken
          running,   \* tasks a worker is executing
          done       \* tasks that returned

vars == <<phase, queue, running, done>>

Queued == {queue[i] : i \in 1..Len(queue)}

Init == /\ phase = "new"
        /\ queue = << >>
        /\ running = {}
        /\ done = {}

Open == /\ phase = "new"
        /\ phase' = "open"
        /\ UNCHANGED <<queue, running, done>>

CreateFailed == /\ phase = "new"
                /\ phase' = "gone"
                /\ UNCHANGED <<queue, running, done>>

Submit(t) == /\ phase = "open"
             /\ t \notin Queued \cup running \cup done
             /\ queue' = Append(queue, t)
             /\ UNCHANGED <<phase, running, done>>

(* push_task returns false and the pool keeps nothing of the task. *)
Refuse(t) == /\ phase = "open"
             /\ Len(queue) >= QueueCap
             /\ UNCHANGED vars

Start == /\ phase \in {"open", "draining"}
         /\ queue # << >>
         /\ Cardinality(running) < NThreads
         /\ running' = running \cup {Head(queue)}
         /\ queue' = Tail(queue)
         /\ UNCHANGED <<phase, done>>

Finish(t) == /\ phase \in {"open", "draining"}
             /\ t \in running
             /\ running' = running \ {t}
             /\ done' = done \cup {t}
             /\ UNCHANGED <<phase, queue>>

Close == /\ phase = "open"
         /\ phase' = "draining"
         /\ UNCHANGED <<queue, running, done>>

Retire == /\ phase = "draining"
          /\ queue = << >>
          /\ running = {}
          /\ phase' = "gone"
          /\ UNCHANGED <<queue, running, done>>

Next == \/ Open \/ CreateFailed \/ Start \/ Close \/ Retire
        \/ \E t \in Task : Submit(t) \/ Refuse(t) \/ Finish(t)

Spec == Init /\ [][Next]_vars
=============================================================================
