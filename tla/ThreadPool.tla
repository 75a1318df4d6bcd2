----------------------------- MODULE ThreadPool -----------------------------
(***************************************************************************)
(* The worker pool of src/src/ds/threadpool.c: a mutex, a condition        *)
(* variable, a task queue and NThreads workers.  The main thread (the      *)
(* server's event loop) creates the pool, pushes tasks and destroys it;    *)
(* start_pool is what every worker runs.                                   *)
(*                                                                         *)
(* A step is what a thread does between two points where another thread    *)
(* can intervene: taking the lock, the section under it with its unlock,   *)
(* running a task.  The queue under the lock is the FIFO that queue.c      *)
(* implements (RingQueue).                                                 *)
(*                                                                         *)
(* Definitions marked Defective are no part of Next: each is the step that *)
(* follows it with a plausible mistake, which a property must notice.      *)
(***************************************************************************)
EXTENDS Integers, Sequences, FiniteSets

CONSTANTS Task,         \* the tasks main may push, each once
          NoTask,       \* a worker that has taken no task
          NThreads,     \* MAX_THREAD_COUNT
          QueueCap,     \* the capacity the queue starts with
          MaxSpurious,  \* bound: wake-ups of pthread_cond_wait without a signal
          Main,         \* the thread that owns the pool
          Nobody        \* the owner of a free mutex

Worker == 0..NThreads-1
Thread == Worker \cup {Main}

ASSUME NoTaskAssumption == NoTask \notin Task
ASSUME NThreadsAssumption == NThreads \in Nat \ {0}
ASSUME BoundAssumption == QueueCap \in Nat /\ MaxSpurious \in Nat
ASSUME ThreadAssumption == /\ Main \notin Worker
                           /\ Nobody \notin Thread

VARIABLES
  pc,        \* [Thread -> control point]
  lock,      \* the owner of pool->lock
  waiting,   \* workers asleep in pthread_cond_wait(&pool->cond, ...)
  shutdown,  \* pool->shutdown
  queue,     \* pool->q, oldest task first
  live,      \* resources of the pool that exist: see Resource
  created,   \* threads created so far: i in create_pool, then threadCount
  failing,   \* create_pool is on its way to returning NULL
  joined,    \* i in destroy_pool's join loop
  task,      \* [Worker -> Task \cup {NoTask}], the task a worker executes
  arg,       \* the task main is pushing
  accepted,  \* history: tasks push_task returned true for, in order
  refused,   \* history: tasks push_task returned false for
  done,      \* history: tasks that were executed
  spurious   \* spurious wake-ups so far

vars == <<pc, lock, waiting, shutdown, queue, live, created, failing, joined,
          task, arg, accepted, refused, done, spurious>>

hist == <<accepted, refused, done, spurious>>

(* In the order create_pool acquires them. *)
Resource == <<"pool", "queue", "slots", "mutex", "cond">>

Allocated(n) == {Resource[i] : i \in 1..n}

(* The cleanup ladder of create_pool: what the label it jumps to releases  *)
(* when acquiring the n-th resource fails.                                 *)
Cleanup(n) == CASE n = 1 -> {}
                [] n = 2 -> {"pool"}                              \* FREE_POOL
                [] n \in {3, 4} -> {"slots", "queue", "pool"}     \* FREE_QUEUE
                [] n = 5 -> {"mutex", "slots", "queue", "pool"}   \* DESTROY_MUTEX

(* pthread_cond_signal wakes one waiter if there is one; a waiter that     *)
(* wakes has to take the lock again before pthread_cond_wait returns.      *)
signal(pc0) == \/ /\ waiting = {}
                  /\ waiting' = {}
                  /\ pc' = pc0
               \/ \E w \in waiting : /\ waiting' = waiting \ {w}
                                     /\ pc' = [pc0 EXCEPT ![w] = "lock"]

broadcast(pc0) == /\ waiting' = {}
                  /\ pc' = [t \in Thread |-> IF t \in waiting THEN "lock" ELSE pc0[t]]

Lock(t, from, to) == /\ pc[t] = from
                     /\ lock = Nobody
                     /\ lock' = t
                     /\ pc' = [pc EXCEPT ![t] = to]
-----------------------------------------------------------------------------
Init == /\ pc = [t \in Thread |-> IF t = Main THEN "alloc" ELSE "none"]
        /\ lock = Nobody
        /\ waiting = {}
        /\ shutdown = FALSE
        /\ queue = << >>
        /\ live = {}
        /\ created = 0
        /\ failing = FALSE
        /\ joined = 0
        /\ task = [w \in Worker |-> NoTask]
        /\ arg = NoTask
        /\ accepted = << >>
        /\ refused = {}
        /\ done = {}
        /\ spurious = 0

(* create_pool up to the thread loop, every acquisition succeeding. *)
create_pool == /\ pc[Main] = "alloc"
               /\ live' = Allocated(5)
               /\ pc' = [pc EXCEPT ![Main] = "spawn"]
               /\ UNCHANGED <<lock, waiting, shutdown, queue, created, failing,
                              joined, task, arg, hist>>

(* The n-th acquisition fails and create_pool returns NULL.  When it is    *)
(* init_queue's malloc (n = 3), q->q was never assigned and free_queue_heap *)
(* frees whatever that word of the fresh block holds: nothing happens when *)
(* it is zero, the allocator aborts the process when it is not.            *)
create_pool_fails(n) ==
               /\ pc[Main] = "alloc"
               /\ failing' = TRUE
               /\ live' = Allocated(n - 1) \ Cleanup(n)
               /\ \/ pc' = [pc EXCEPT ![Main] = "done"]
                  \/ n = 3 /\ pc' = [pc EXCEPT ![Main] = "aborted"]
               /\ UNCHANGED <<lock, waiting, shutdown, queue, created, joined,
                              task, arg, hist>>

(* Defective: the loop creates one thread too many. *)
spawn_Overrun == /\ pc[Main] = "spawn"
                 /\ created' = created + 1
                 /\ pc' = [pc EXCEPT ![created] = "lock",
                                     ![Main] = IF created = NThreads THEN "idle" ELSE "spawn"]
                 /\ UNCHANGED <<lock, waiting, shutdown, queue, live, failing, joined,
                                task, arg, hist>>

(* pthread_create for thread[created]; after the last one create_pool      *)
(* returns the pool.                                                       *)
spawn == /\ pc[Main] = "spawn"
         /\ created' = created + 1
         /\ pc' = [pc EXCEPT ![created] = "lock",
                             ![Main] = IF created + 1 = NThreads THEN "idle" ELSE "spawn"]
         /\ UNCHANGED <<lock, waiting, shutdown, queue, live, failing, joined,
                        task, arg, hist>>

(* pthread_create fails: create_pool calls destroy_pool(pool, i). *)
spawn_fails == /\ pc[Main] = "spawn"
               /\ failing' = TRUE
               /\ pc' = [pc EXCEPT ![Main] = "stop_lock"]
               /\ UNCHANGED <<lock, waiting, shutdown, queue, live, created, joined,
                              task, arg, hist>>
-----------------------------------------------------------------------------
(* push_task is called: its NULL checks pass. *)
push_task(t) == /\ pc[Main] = "idle"
                /\ t \notin refused
                /\ \A i \in 1..Len(accepted) : accepted[i] # t
                /\ arg' = t
                /\ pc' = [pc EXCEPT ![Main] = "push_lock"]
                /\ UNCHANGED <<lock, waiting, shutdown, queue, live, created, failing,
                               joined, task, hist>>

push_task_lock == /\ Lock(Main, "push_lock", "push")
                  /\ UNCHANGED <<waiting, shutdown, queue, live, created, failing,
                                 joined, task, arg, hist>>

(* Defective: signals only when the queue was empty. *)
push_task_accepted_SignalFirst ==
                      /\ pc[Main] = "push"
                      /\ ~shutdown
                      /\ queue' = Append(queue, arg)
                      /\ accepted' = Append(accepted, arg)
                      /\ IF queue = << >> THEN signal([pc EXCEPT ![Main] = "idle"])
                         ELSE pc' = [pc EXCEPT ![Main] = "idle"] /\ UNCHANGED waiting
                      /\ lock' = Nobody
                      /\ UNCHANGED <<shutdown, live, created, failing, joined, task,
                                     arg, refused, done, spurious>>

(* push returns true: signal one worker, unlock, return true. *)
push_task_accepted == /\ pc[Main] = "push"
                      /\ ~shutdown
                      /\ queue' = Append(queue, arg)
                      /\ accepted' = Append(accepted, arg)
                      /\ signal([pc EXCEPT ![Main] = "idle"])
                      /\ lock' = Nobody
                      /\ UNCHANGED <<shutdown, live, created, failing, joined, task,
                                     arg, refused, done, spurious>>

(* NO_NEW_TASK: the pool is shut down, or the full queue could not grow. *)
push_task_refused == /\ pc[Main] = "push"
                     /\ shutdown \/ Len(queue) >= QueueCap
                     /\ refused' = refused \cup {arg}
                     /\ pc' = [pc EXCEPT ![Main] = "idle"]
                     /\ lock' = Nobody
                     /\ UNCHANGED <<waiting, shutdown, queue, live, created, failing,
                                    joined, task, arg, accepted, done, spurious>>
-----------------------------------------------------------------------------
(* destroy_pool is called with threadCount = created. *)
destroy_pool == /\ pc[Main] = "idle"
                /\ pc' = [pc EXCEPT ![Main] = "stop_lock"]
                /\ UNCHANGED <<lock, waiting, shutdown, queue, live, created, failing,
                               joined, task, arg, hist>>

destroy_pool_lock == /\ Lock(Main, "stop_lock", "stop")
                     /\ UNCHANGED <<waiting, shutdown, queue, live, created, failing,
                                    joined, task, arg, hist>>

(* Defective: wakes one waiter instead of all. *)
destroy_pool_shutdown_SignalOne ==
                         /\ pc[Main] = "stop"
                         /\ shutdown' = TRUE
                         /\ signal([pc EXCEPT ![Main] = "join"])
                         /\ lock' = Nobody
                         /\ UNCHANGED <<queue, live, created, failing, joined, task,
                                        arg, hist>>

destroy_pool_shutdown == /\ pc[Main] = "stop"
                         /\ shutdown' = TRUE
                         /\ broadcast([pc EXCEPT ![Main] = "join"])
                         /\ lock' = Nobody
                         /\ UNCHANGED <<queue, live, created, failing, joined, task,
                                        arg, hist>>

(* pthread_join(pool->thread[joined]) returns. *)
destroy_pool_join == /\ pc[Main] = "join"
                     /\ joined < created
                     /\ pc[joined] = "exited"
                     /\ joined' = joined + 1
                     /\ UNCHANGED <<pc, lock, waiting, shutdown, queue, live, created,
                                    failing, task, arg, hist>>

(* Defective: does not wait for the last thread. *)
destroy_pool_free_Early == /\ pc[Main] = "join"
                           /\ joined >= created - 1
                           /\ live' = {}
                           /\ pc' = [pc EXCEPT ![Main] = "done"]
                           /\ UNCHANGED <<lock, waiting, shutdown, queue, created,
                                          failing, joined, task, arg, hist>>

(* All joined: destroy the mutex and the condition variable, free the rest. *)
destroy_pool_free == /\ pc[Main] = "join"
                     /\ joined = created
                     /\ live' = {}
                     /\ pc' = [pc EXCEPT ![Main] = "done"]
                     /\ UNCHANGED <<lock, waiting, shutdown, queue, created, failing,
                                    joined, task, arg, hist>>
-----------------------------------------------------------------------------
(* start_pool, the loop of worker w.  A woken waiter comes back here too:  *)
(* it takes the lock and tests the while condition again.                  *)
start_pool_lock(w) == /\ Lock(w, "lock", "test")
                      /\ UNCHANGED <<waiting, shutdown, queue, live, created, failing,
                                     joined, task, arg, hist>>

(* Defective: waits before it has tested the queue. *)
start_pool_wait_Untested(w) ==
                      /\ pc[w] = "test"
                      /\ ~shutdown
                      /\ waiting' = waiting \cup {w}
                      /\ lock' = Nobody
                      /\ pc' = [pc EXCEPT ![w] = "asleep"]
                      /\ UNCHANGED <<shutdown, queue, live, created, failing, joined,
                                     task, arg, hist>>

(* pthread_cond_wait releases the lock and sleeps in one step. *)
start_pool_wait(w) == /\ pc[w] = "test"
                      /\ queue = << >> /\ ~shutdown
                      /\ waiting' = waiting \cup {w}
                      /\ lock' = Nobody
                      /\ pc' = [pc EXCEPT ![w] = "asleep"]
                      /\ UNCHANGED <<shutdown, queue, live, created, failing, joined,
                                     task, arg, hist>>

(* Defective: exits on shutdown with tasks still queued. *)
start_pool_exit_Undrained(w) ==
                      /\ pc[w] = "test"
                      /\ shutdown
                      /\ lock' = Nobody
                      /\ pc' = [pc EXCEPT ![w] = "exited"]
                      /\ UNCHANGED <<waiting, shutdown, queue, live, created, failing,
                                     joined, task, arg, hist>>

start_pool_exit(w) == /\ pc[w] = "test"
                      /\ queue = << >> /\ shutdown
                      /\ lock' = Nobody
                      /\ pc' = [pc EXCEPT ![w] = "exited"]
                      /\ UNCHANGED <<waiting, shutdown, queue, live, created, failing,
                                     joined, task, arg, hist>>

(* Defective: copies the oldest task and leaves it queued. *)
start_pool_pop_Peek(w) ==
                     /\ pc[w] = "test"
                     /\ queue # << >>
                     /\ task' = [task EXCEPT ![w] = Head(queue)]
                     /\ lock' = Nobody
                     /\ pc' = [pc EXCEPT ![w] = "run"]
                     /\ UNCHANGED <<waiting, shutdown, queue, live, created, failing,
                                    joined, arg, hist>>

(* Defective: takes the newest task. *)
start_pool_pop_Newest(w) ==
                     /\ pc[w] = "test"
                     /\ queue # << >>
                     /\ task' = [task EXCEPT ![w] = queue[Len(queue)]]
                     /\ queue' = SubSeq(queue, 1, Len(queue) - 1)
                     /\ lock' = Nobody
                     /\ pc' = [pc EXCEPT ![w] = "run"]
                     /\ UNCHANGED <<waiting, shutdown, live, created, failing, joined,
                                    arg, hist>>

(* pop succeeds: the test above held under the same lock. *)
start_pool_pop(w) == /\ pc[w] = "test"
                     /\ queue # << >>
                     /\ task' = [task EXCEPT ![w] = Head(queue)]
                     /\ queue' = Tail(queue)
                     /\ lock' = Nobody
                     /\ pc' = [pc EXCEPT ![w] = "run"]
                     /\ UNCHANGED <<waiting, shutdown, live, created, failing, joined,
                                    arg, hist>>

(* The task returns. *)
start_pool_run(w) == /\ pc[w] = "run"
                     /\ done' = done \cup {task[w]}
                     /\ task' = [task EXCEPT ![w] = NoTask]
                     /\ pc' = [pc EXCEPT ![w] = "lock"]
                     /\ UNCHANGED <<lock, waiting, shutdown, queue, live, created,
                                    failing, joined, arg, accepted, refused, spurious>>

(* pthread_cond_wait may return without a signal. *)
spurious_wakeup(w) == /\ w \in waiting
                      /\ spurious < MaxSpurious
                      /\ spurious' = spurious + 1
                      /\ waiting' = waiting \ {w}
                      /\ pc' = [pc EXCEPT ![w] = "lock"]
                      /\ UNCHANGED <<lock, shutdown, queue, live, created, failing,
                                     joined, task, arg, accepted, refused, done>>

(* The pool is gone, or was never created: nothing is left to do. *)
Terminated == /\ pc[Main] \in {"done", "aborted"}
              /\ UNCHANGED vars
-----------------------------------------------------------------------------
MainStep == \/ create_pool
            \/ \E n \in 1..5 : create_pool_fails(n)
            \/ spawn
            \/ spawn_fails
            \/ \E t \in Task : push_task(t)
            \/ push_task_lock
            \/ push_task_accepted
            \/ push_task_refused
            \/ destroy_pool
            \/ destroy_pool_lock
            \/ destroy_pool_shutdown
            \/ destroy_pool_join
            \/ destroy_pool_free

WorkerStep(w) == \/ start_pool_lock(w)
                 \/ start_pool_wait(w)
                 \/ start_pool_exit(w)
                 \/ start_pool_pop(w)
                 \/ start_pool_run(w)

Next == \/ MainStep
        \/ \E w \in Worker : WorkerStep(w) \/ spurious_wakeup(w)
        \/ Terminated

Spec == Init /\ [][Next]_vars

(* The scheduler runs every thread that can run, tasks return, and a call  *)
(* main has begun is carried on.  Main may stop calling push_task, and may *)
(* never call destroy_pool; wake-ups without a signal are never owed.      *)
MainContinues == MainStep /\ pc[Main] # "idle"

Fairness == /\ WF_vars(MainContinues)
            /\ \A w \in Worker : WF_vars(WorkerStep(w))

FairSpec == Spec /\ Fairness
-----------------------------------------------------------------------------
MainPoint == {"alloc", "spawn", "idle", "push_lock", "push", "stop_lock", "stop",
              "join", "done", "aborted"}
WorkerPoint == {"none", "lock", "test", "asleep", "run", "exited"}

Accepted == {accepted[i] : i \in 1..Len(accepted)}

(* Types of the pool's fields and of the threads' local variables. *)
TypeOK == /\ pc \in [Thread -> MainPoint \cup WorkerPoint]
          /\ pc[Main] \in MainPoint
          /\ \A w \in Worker : pc[w] \in WorkerPoint
          /\ lock \in Thread \cup {Nobody}
          /\ waiting \subseteq Worker
          /\ shutdown \in BOOLEAN
          /\ queue \in Seq(Task)
          /\ live \subseteq Allocated(5)
          /\ created \in 0..NThreads
          /\ failing \in BOOLEAN
          /\ joined \in 0..created
          /\ task \in [Worker -> Task \cup {NoTask}]
          /\ arg \in Task \cup {NoTask}
          /\ accepted \in Seq(Task)
          /\ refused \subseteq Task
          /\ done \subseteq Task
          /\ spurious \in 0..MaxSpurious

(* Workers on their way to the queue: they test it before they can sleep. *)
Coming == {w \in Worker : pc[w] \in {"lock", "test"}}

(* push_task signals one waiter per task, outside any count of who is      *)
(* awake: no worker stays asleep while more tasks are queued than workers  *)
(* are on their way to the queue.                                          *)
NoLostWakeup == waiting # {} => Len(queue) <= Cardinality(Coming)

(* How many accepted tasks a worker has taken. *)
Taken == Len(accepted) - Len(queue)

(* Every task push_task accepted is in exactly one place: the queue holds  *)
(* the latest ones in order, and each earlier one is either done or being  *)
(* executed by exactly one worker.                                         *)
TaskAccounting ==
  /\ Taken >= 0
  /\ \A i \in 1..Len(queue) : /\ queue[i] = accepted[Taken + i]
                              /\ queue[i] \notin done
                              /\ \A w \in Worker : task[w] # queue[i]
  /\ \A i \in 1..Taken :
        \/ accepted[i] \in done /\ \A w \in Worker : task[w] # accepted[i]
        \/ /\ accepted[i] \notin done
           /\ \E w \in Worker : \A v \in Worker : task[v] = accepted[i] <=> v = w

(* A worker between its creation and its exit uses the lock, the condition *)
(* variable and the queue: none of them is released before it has exited,  *)
(* on the path where pthread_create failed half-way included.              *)
WorkersFindPoolAlive ==
  \A w \in Worker : pc[w] \in {"lock", "test", "asleep", "run"} => live = Allocated(5)

(* threadpool_test.c, "All tasks done, pool destroyed.": when destroy_pool *)
(* or a failing create_pool returns, nothing of the pool is left allocated *)
(* and every accepted task has been executed.                              *)
DestroyDrains == pc[Main] = "done" => live = {} /\ Accepted = done

(* A task push_task accepted is eventually executed. *)
AcceptedTasksRun == \A t \in Task : t \in Accepted ~> t \in done

(* destroy_pool returns: no worker sleeps through the broadcast. *)
DestroyReturns == pc[Main] = "stop_lock" ~> pc[Main] = "done"

Phase == IF pc[Main] \in {"done", "aborted"} THEN "gone"
         ELSE IF failing \/ pc[Main] \in {"alloc", "spawn"} THEN "new"
         ELSE IF pc[Main] \in {"stop_lock", "stop", "join"} THEN "draining"
         ELSE "open"

Abstract == INSTANCE TaskPool WITH phase <- Phase,
                                   running <- {task[w] : w \in Worker} \ {NoTask}

(* The locking, the sleeping and the joining implement the pool that       *)
(* threadpool.h describes and the server relies on (module TaskPool).      *)
PoolSpec == Abstract!Spec
=============================================================================
