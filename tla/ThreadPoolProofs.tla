-------------------------- MODULE ThreadPoolProofs --------------------------
(***************************************************************************)
(* Proofs about ThreadPool, for every number of workers and every set of   *)
(* tasks.  Control is the inductive invariant of the locking and of the    *)
(* pool's life cycle; Accounting adds where every task is.                 *)
(***************************************************************************)
EXTENDS ThreadPool, FiniteSetTheorems, TLAPS

Holding == {"push", "stop", "test"}
Released == {"done", "aborted"}

(* The lock's owner is the one thread inside a critical section. *)
LockInv == \A t \in Thread : lock = t <=> pc[t] \in Holding

(* The threads, their creation, their sleep and their end. *)
WorkerInv == /\ waiting = {w \in Worker : pc[w] = "asleep"}
             /\ \A w \in Worker : pc[w] = "none" <=> w >= created
             /\ \A w \in Worker : pc[w] = "run" <=> task[w] # NoTask
             /\ \A w \in Worker : w < joined => pc[w] = "exited"
             /\ \A w \in Worker : pc[w] = "exited" => shutdown /\ queue = << >>
             /\ shutdown => waiting = {}

(* Where main is in the pool's life, and what that says of its fields. *)
StageInv == /\ pc[Main] = "alloc" => created = 0
            /\ pc[Main] = "aborted" => created = 0
            /\ pc[Main] = "spawn" => created < NThreads
            /\ pc[Main] \in {"idle", "push_lock", "push"} => created = NThreads
            /\ pc[Main] \in {"push_lock", "push"} => arg \in Task
            /\ created < NThreads => /\ queue = << >> /\ accepted = << >> /\ done = {}
                                     /\ \A w \in Worker : task[w] = NoTask
            /\ shutdown => pc[Main] \in {"join", "done"}
            /\ pc[Main] \in {"alloc", "spawn", "idle", "push_lock", "push"} => ~failing
            /\ failing => created < NThreads
            /\ pc[Main] = "join" => shutdown
            /\ pc[Main] = "done" => joined = created
            /\ pc[Main] \in {"alloc", "done", "aborted"} => live = {}
            /\ pc[Main] \notin {"alloc", "done", "aborted"} => live = Allocated(5)

Control == TypeOK /\ LockInv /\ WorkerInv /\ StageInv

(* Every branch of create_pool's cleanup ladder releases what was acquired *)
(* before the failure.                                                     *)
LEMMA CleanupComplete == \A n \in 1..5 : Allocated(n - 1) \ Cleanup(n) = {}
<1> SUFFICES ASSUME NEW n \in 1..5 PROVE Allocated(n - 1) \ Cleanup(n) = {}
    OBVIOUS
<1>1. CASE n = 1
  BY <1>1 DEF Allocated
<1>2. CASE n = 2
  <2>1. Allocated(n - 1) = {"pool"}
    BY <1>2 DEF Allocated, Resource
  <2> QED BY <1>2, <2>1 DEF Cleanup
<1>3. CASE n = 3
  <2>1. Allocated(n - 1) = {"pool", "queue"}
    BY <1>3 DEF Allocated, Resource
  <2> QED BY <1>3, <2>1 DEF Cleanup
<1>4. CASE n = 4
  <2>1. Allocated(n - 1) = {"pool", "queue", "slots"}
    BY <1>4 DEF Allocated, Resource
  <2> QED BY <1>4, <2>1 DEF Cleanup
<1>5. CASE n = 5
  <2>1. Allocated(n - 1) = {"pool", "queue", "slots", "mutex"}
    BY <1>5 DEF Allocated, Resource
  <2> QED BY <1>5, <2>1 DEF Cleanup
<1> QED BY <1>1, <1>2, <1>3, <1>4, <1>5

(* The workers are distinct from main, and Nobody is no thread. *)
LEMMA ThreadFacts == /\ Main \in Thread /\ Main \notin Worker
                     /\ Worker \subseteq Thread /\ Worker \subseteq Nat
                     /\ Nobody \notin Thread
                     /\ \A t \in Thread : t # Main => t \in Worker
                     /\ NThreads \in Nat /\ NThreads > 0
BY ThreadAssumption, NThreadsAssumption DEF Thread, Worker

(* The initial state satisfies the control invariant. *)
LEMMA InitControl == Init => Control
<1> SUFFICES ASSUME Init PROVE Control
    OBVIOUS
<1> USE ThreadFacts DEF Init
<1>0. /\ pc[Main] = "alloc"
      /\ \A w \in Worker : pc[w] = "none" /\ task[w] = NoTask
      /\ pc \in [Thread -> {"alloc", "none"}]
  OBVIOUS
<1>1. TypeOK
  <2>1. pc \in [Thread -> MainPoint \cup WorkerPoint]
    BY <1>0 DEF MainPoint, WorkerPoint
  <2>2. spurious \in 0..MaxSpurious /\ created \in 0..NThreads /\ joined \in 0..created
    BY BoundAssumption
  <2>3. pc[Main] \in MainPoint /\ \A w \in Worker : pc[w] \in WorkerPoint
    BY <1>0 DEF MainPoint, WorkerPoint
  <2>4. task \in [Worker -> Task \cup {NoTask}] /\ arg \in Task \cup {NoTask}
    OBVIOUS
  <2>5. queue \in Seq(Task) /\ accepted \in Seq(Task)
    OBVIOUS
  <2> QED BY <2>1, <2>2, <2>3, <2>4, <2>5 DEF TypeOK
<1>2. LockInv
  BY DEF LockInv, Holding
<1>3. WorkerInv
  <2>1. waiting = {w \in Worker : pc[w] = "asleep"}
    BY <1>0
  <2>2. \A w \in Worker : w >= created /\ ~(w < joined)
    OBVIOUS
  <2> QED BY <1>0, <2>1, <2>2 DEF WorkerInv
<1>4. StageInv
  BY DEF StageInv
<1> QED BY <1>1, <1>2, <1>3, <1>4 DEF Control

(* Control is kept when create_pool acquires everything and reaches its thread loop. *)
LEMMA Control_create_pool == ASSUME Control, create_pool PROVE Control'
<1> USE ThreadFacts, NoTaskAssumption DEF Control, create_pool, hist
<1>1. TypeOK'
  BY DEF TypeOK, MainPoint, WorkerPoint
<1>2. LockInv'
  BY DEF TypeOK, LockInv, Holding, MainPoint, WorkerPoint
<1>3. WorkerInv'
  BY DEF TypeOK, WorkerInv, StageInv, LockInv, Holding
<1>4. StageInv'
  BY DEF TypeOK, StageInv, WorkerInv
<1> QED BY <1>1, <1>2, <1>3, <1>4

(* Control is kept when create_pool fails at its n-th acquisition. *)
LEMMA Control_create_pool_fails == ASSUME Control, NEW n \in 1..5, create_pool_fails(n) PROVE Control'
<1> USE ThreadFacts, NoTaskAssumption DEF Control, create_pool_fails, hist
<1>0. live' = {}
  BY CleanupComplete
<1>1. TypeOK'
  BY <1>0 DEF TypeOK, MainPoint, WorkerPoint
<1>2. LockInv'
  BY DEF TypeOK, LockInv, Holding, MainPoint, WorkerPoint
<1>3. WorkerInv'
  <2>1. \A w \in Worker : pc'[w] = pc[w]
    BY DEF TypeOK
  <2>2. waiting' = {w \in Worker : pc'[w] = "asleep"}
    BY <2>1 DEF WorkerInv
  <2> QED BY <2>1, <2>2 DEF TypeOK, WorkerInv
<1>4. StageInv'
  BY <1>0 DEF TypeOK, StageInv, WorkerInv
<1> QED BY <1>1, <1>2, <1>3, <1>4

(* Control is kept when create_pool starts one more worker. *)
LEMMA Control_spawn == ASSUME Control, spawn PROVE Control'
<1> USE ThreadFacts, NoTaskAssumption DEF Control, spawn, hist
<1>1. created \in Worker /\ created < NThreads /\ created + 1 \in 0..NThreads
  BY DEF TypeOK, StageInv, Worker
<1>2. /\ pc'[created] = "lock"
      /\ pc[created] = "none"
      /\ \A w \in Worker : w # created => pc'[w] = pc[w]
      /\ pc'[Main] = IF created + 1 = NThreads THEN "idle" ELSE "spawn"
  BY <1>1 DEF TypeOK, WorkerInv
<1>3. TypeOK'
  <2>1. pc' \in [Thread -> MainPoint \cup WorkerPoint]
    BY DEF TypeOK, MainPoint, WorkerPoint
  <2>2. pc'[Main] \in MainPoint
    BY <1>2 DEF MainPoint
  <2>3. \A w \in Worker : pc'[w] \in WorkerPoint
    BY <1>2 DEF TypeOK, WorkerPoint
  <2>4. joined \in 0..created'
    BY <1>1 DEF TypeOK
  <2> QED BY <1>1, <2>1, <2>2, <2>3, <2>4 DEF TypeOK
<1>4. LockInv'
  <2> SUFFICES ASSUME NEW t \in Thread PROVE lock = t <=> pc'[t] \in Holding
    BY DEF LockInv
  <2>1. CASE t = Main
    BY <2>1, <1>2 DEF LockInv, Holding
  <2>2. CASE t # Main
    BY <2>2, <1>2 DEF LockInv, Holding
  <2> QED BY <2>1, <2>2
<1>5. WorkerInv'
  <2>1. waiting' = {w \in Worker : pc'[w] = "asleep"}
    BY <1>2 DEF WorkerInv
  <2>2. \A w \in Worker : pc'[w] = "none" <=> w >= created + 1
    BY <1>1, <1>2 DEF WorkerInv, TypeOK
  <2>3. \A w \in Worker : pc'[w] = "exited" <=> pc[w] = "exited"
    BY <1>2
  <2>4. \A w \in Worker : pc'[w] = "run" <=> pc[w] = "run"
    BY <1>2
  <2> QED BY <2>1, <2>2, <2>3, <2>4 DEF WorkerInv
<1>6. StageInv'
  BY <1>1, <1>2 DEF TypeOK, StageInv
<1> QED BY <1>3, <1>4, <1>5, <1>6

(* Control is kept when pthread_create fails. *)
LEMMA Control_spawn_fails == ASSUME Control, spawn_fails PROVE Control'
<1> USE ThreadFacts, NoTaskAssumption DEF Control, spawn_fails, hist
<1>1. TypeOK'
  BY DEF TypeOK, MainPoint, WorkerPoint
<1>2. LockInv'
  BY DEF TypeOK, LockInv, Holding, MainPoint, WorkerPoint
<1>3. WorkerInv'
  BY DEF TypeOK, WorkerInv, StageInv, LockInv, Holding
<1>4. StageInv'
  BY DEF TypeOK, StageInv, WorkerInv
<1> QED BY <1>1, <1>2, <1>3, <1>4

(* Control is kept when main calls push_task. *)
LEMMA Control_push_task == ASSUME Control, NEW t \in Task, push_task(t) PROVE Control'
<1> USE ThreadFacts, NoTaskAssumption DEF Control, push_task, hist
<1>1. TypeOK'
  BY DEF TypeOK, MainPoint, WorkerPoint
<1>2. LockInv'
  BY DEF TypeOK, LockInv, Holding, MainPoint, WorkerPoint
<1>3. WorkerInv'
  BY DEF TypeOK, WorkerInv, StageInv, LockInv, Holding
<1>4. StageInv'
  BY DEF TypeOK, StageInv, WorkerInv
<1> QED BY <1>1, <1>2, <1>3, <1>4

(* Control is kept when push_task takes the lock. *)
LEMMA Control_push_task_lock == ASSUME Control, push_task_lock PROVE Control'
<1> USE ThreadFacts, NoTaskAssumption DEF Control, push_task_lock, hist, Lock
<1>1. TypeOK'
  BY DEF TypeOK, MainPoint, WorkerPoint
<1>2. LockInv'
  BY DEF TypeOK, LockInv, Holding, MainPoint, WorkerPoint
<1>3. WorkerInv'
  BY DEF TypeOK, WorkerInv, StageInv, LockInv, Holding
<1>4. StageInv'
  BY DEF TypeOK, StageInv, WorkerInv
<1> QED BY <1>1, <1>2, <1>3, <1>4

(* Control is kept when push_task queues its task and wakes the set S: at most one waiter. *)
LEMMA Control_push_task_accepted == ASSUME Control, push_task_accepted PROVE Control'
<1> USE ThreadFacts, NoTaskAssumption DEF Control, push_task_accepted, hist
<1>1. PICK S \in SUBSET waiting :
          /\ pc' = [t \in Thread |-> IF t = Main THEN "idle"
                                    ELSE IF t \in S THEN "lock" ELSE pc[t]]
          /\ waiting' = waiting \ S
  <2>1. CASE waiting = {} /\ waiting' = {} /\ pc' = [pc EXCEPT ![Main] = "idle"]
    <3>1. pc' = [t \in Thread |-> IF t = Main THEN "idle"
                                 ELSE IF t \in {} THEN "lock" ELSE pc[t]]
      BY <2>1 DEF TypeOK
    <3> QED BY <2>1, <3>1
  <2>2. ASSUME NEW w \in waiting,
               waiting' = waiting \ {w},
               pc' = [[pc EXCEPT ![Main] = "idle"] EXCEPT ![w] = "lock"]
        PROVE  /\ {w} \in SUBSET waiting
               /\ pc' = [t \in Thread |-> IF t = Main THEN "idle"
                                         ELSE IF t \in {w} THEN "lock" ELSE pc[t]]
    BY <2>2 DEF TypeOK
  <2> QED BY <2>1, <2>2 DEF signal
<1>2. S \subseteq Worker /\ \A w \in S : pc[w] = "asleep"
  BY DEF TypeOK, WorkerInv
<1>3. /\ pc'[Main] = "idle"
      /\ \A w \in Worker : pc'[w] = IF w \in S THEN "lock" ELSE pc[w]
  BY <1>1
<1>4. /\ ~shutdown /\ created = NThreads /\ arg \in Task
      /\ \A w \in Worker : pc[w] # "exited"
  BY DEF StageInv, WorkerInv
<1>5. TypeOK'
  <2>1. pc' \in [Thread -> MainPoint \cup WorkerPoint]
    BY <1>1 DEF TypeOK, MainPoint, WorkerPoint
  <2>2. pc'[Main] \in MainPoint /\ \A w \in Worker : pc'[w] \in WorkerPoint
    BY <1>3 DEF TypeOK, MainPoint, WorkerPoint
  <2>3. queue' \in Seq(Task) /\ accepted' \in Seq(Task)
    BY <1>4 DEF TypeOK
  <2> QED BY <1>1, <2>1, <2>2, <2>3 DEF TypeOK
<1>6. LockInv'
  <2> SUFFICES ASSUME NEW t \in Thread PROVE lock' = t <=> pc'[t] \in Holding
    BY DEF LockInv
  <2>1. lock' = Nobody /\ lock = Main
    BY DEF LockInv, Holding
  <2>2. CASE t = Main
    BY <2>1, <2>2, <1>3 DEF Holding
  <2>3. CASE t # Main
    BY <2>1, <2>3, <1>3 DEF LockInv, Holding
  <2> QED BY <2>2, <2>3
<1>7. WorkerInv'
  <2>1. waiting' = {w \in Worker : pc'[w] = "asleep"}
    BY <1>1, <1>2, <1>3 DEF WorkerInv
  <2>2. \A w \in Worker : /\ pc'[w] = "none" <=> pc[w] = "none"
                          /\ pc'[w] = "run" <=> pc[w] = "run"
                          /\ pc'[w] # "exited"
    BY <1>2, <1>3, <1>4
  <2> QED BY <1>4, <2>1, <2>2 DEF WorkerInv
<1>8. StageInv'
  BY <1>3, <1>4 DEF StageInv
<1> QED BY <1>5, <1>6, <1>7, <1>8

(* Control is kept when push_task returns false. *)
LEMMA Control_push_task_refused == ASSUME Control, push_task_refused PROVE Control'
<1> USE ThreadFacts, NoTaskAssumption DEF Control, push_task_refused, hist
<1>1. TypeOK'
  BY DEF TypeOK, StageInv, MainPoint, WorkerPoint
<1>2. LockInv'
  BY DEF TypeOK, LockInv, Holding, MainPoint, WorkerPoint
<1>3. WorkerInv'
  BY DEF TypeOK, WorkerInv, StageInv, LockInv, Holding
<1>4. StageInv'
  BY DEF TypeOK, StageInv, WorkerInv
<1> QED BY <1>1, <1>2, <1>3, <1>4

(* Control is kept when main calls destroy_pool. *)
LEMMA Control_destroy_pool == ASSUME Control, destroy_pool PROVE Control'
<1> USE ThreadFacts, NoTaskAssumption DEF Control, destroy_pool, hist
<1>1. TypeOK'
  BY DEF TypeOK, MainPoint, WorkerPoint
<1>2. LockInv'
  BY DEF TypeOK, LockInv, Holding, MainPoint, WorkerPoint
<1>3. WorkerInv'
  BY DEF TypeOK, WorkerInv, StageInv, LockInv, Holding
<1>4. StageInv'
  BY DEF TypeOK, StageInv, WorkerInv
<1> QED BY <1>1, <1>2, <1>3, <1>4

(* Control is kept when destroy_pool takes the lock. *)
LEMMA Control_destroy_pool_lock == ASSUME Control, destroy_pool_lock PROVE Control'
<1> USE ThreadFacts, NoTaskAssumption DEF Control, destroy_pool_lock, hist, Lock
<1>1. TypeOK'
  BY DEF TypeOK, MainPoint, WorkerPoint
<1>2. LockInv'
  BY DEF TypeOK, LockInv, Holding, MainPoint, WorkerPoint
<1>3. WorkerInv'
  BY DEF TypeOK, WorkerInv, StageInv, LockInv, Holding
<1>4. StageInv'
  BY DEF TypeOK, StageInv, WorkerInv
<1> QED BY <1>1, <1>2, <1>3, <1>4

(* Control is kept when destroy_pool wakes every waiter. *)
LEMMA Control_destroy_pool_shutdown == ASSUME Control, destroy_pool_shutdown PROVE Control'
<1> USE ThreadFacts, NoTaskAssumption DEF Control, destroy_pool_shutdown, hist, broadcast
<1>1. TypeOK'
  BY DEF TypeOK, MainPoint, WorkerPoint
<1>2. LockInv'
  BY DEF TypeOK, LockInv, Holding, MainPoint, WorkerPoint
<1>3. WorkerInv'
  BY DEF TypeOK, WorkerInv, StageInv, LockInv, Holding
<1>4. StageInv'
  BY DEF TypeOK, StageInv, WorkerInv
<1> QED BY <1>1, <1>2, <1>3, <1>4

(* Control is kept when destroy_pool has joined one more worker. *)
LEMMA Control_destroy_pool_join == ASSUME Control, destroy_pool_join PROVE Control'
<1> USE ThreadFacts, NoTaskAssumption DEF Control, destroy_pool_join, hist
<1>1. TypeOK'
  BY DEF TypeOK, MainPoint, WorkerPoint
<1>2. LockInv'
  BY DEF TypeOK, LockInv, Holding, MainPoint, WorkerPoint
<1>3. WorkerInv'
  BY DEF TypeOK, WorkerInv, StageInv, LockInv, Holding
<1>4. StageInv'
  BY DEF TypeOK, StageInv, WorkerInv
<1> QED BY <1>1, <1>2, <1>3, <1>4

(* Control is kept when destroy_pool releases the pool. *)
LEMMA Control_destroy_pool_free == ASSUME Control, destroy_pool_free PROVE Control'
<1> USE ThreadFacts, NoTaskAssumption DEF Control, destroy_pool_free, hist
<1>1. TypeOK'
  BY DEF TypeOK, MainPoint, WorkerPoint
<1>2. LockInv'
  BY DEF TypeOK, LockInv, Holding, MainPoint, WorkerPoint
<1>3. WorkerInv'
  BY DEF TypeOK, WorkerInv, StageInv, LockInv, Holding
<1>4. StageInv'
  BY DEF TypeOK, StageInv, WorkerInv
<1> QED BY <1>1, <1>2, <1>3, <1>4

(* Control is kept when a worker takes the lock. *)
LEMMA Control_start_pool_lock == ASSUME Control, NEW w \in Worker, start_pool_lock(w) PROVE Control'
<1> USE ThreadFacts, NoTaskAssumption DEF Control, start_pool_lock, hist, Lock
<1>1. TypeOK'
  BY DEF TypeOK, MainPoint, WorkerPoint
<1>2. LockInv'
  BY DEF TypeOK, LockInv, Holding, MainPoint, WorkerPoint
<1>3. WorkerInv'
  BY DEF TypeOK, WorkerInv, StageInv, LockInv, Holding
<1>4. StageInv'
  BY DEF TypeOK, StageInv, WorkerInv
<1> QED BY <1>1, <1>2, <1>3, <1>4

(* Control is kept when a worker falls asleep. *)
LEMMA Control_start_pool_wait == ASSUME Control, NEW w \in Worker, start_pool_wait(w) PROVE Control'
<1> USE ThreadFacts, NoTaskAssumption DEF Control, start_pool_wait, hist
<1>1. TypeOK'
  BY DEF TypeOK, MainPoint, WorkerPoint
<1>2. LockInv'
  BY DEF TypeOK, LockInv, Holding, MainPoint, WorkerPoint
<1>3. WorkerInv'
  BY DEF TypeOK, WorkerInv, StageInv, LockInv, Holding
<1>4. StageInv'
  BY DEF TypeOK, StageInv, WorkerInv
<1> QED BY <1>1, <1>2, <1>3, <1>4

(* Control is kept when a worker exits. *)
LEMMA Control_start_pool_exit == ASSUME Control, NEW w \in Worker, start_pool_exit(w) PROVE Control'
<1> USE ThreadFacts, NoTaskAssumption DEF Control, start_pool_exit, hist
<1>1. TypeOK'
  BY DEF TypeOK, MainPoint, WorkerPoint
<1>2. LockInv'
  BY DEF TypeOK, LockInv, Holding, MainPoint, WorkerPoint
<1>3. WorkerInv'
  BY DEF TypeOK, WorkerInv, StageInv, LockInv, Holding
<1>4. StageInv'
  BY DEF TypeOK, StageInv, WorkerInv
<1> QED BY <1>1, <1>2, <1>3, <1>4

(* Control is kept when a worker takes a task. *)
LEMMA Control_start_pool_pop == ASSUME Control, NEW w \in Worker, start_pool_pop(w) PROVE Control'
<1> USE ThreadFacts, NoTaskAssumption DEF Control, start_pool_pop, hist
<1>1. TypeOK'
  BY DEF TypeOK, MainPoint, WorkerPoint
<1>2. LockInv'
  BY DEF TypeOK, LockInv, Holding, MainPoint, WorkerPoint
<1>3. WorkerInv'
  BY DEF TypeOK, WorkerInv, StageInv, LockInv, Holding
<1>4. StageInv'
  BY DEF TypeOK, StageInv, WorkerInv
<1> QED BY <1>1, <1>2, <1>3, <1>4

(* Control is kept when a worker's task returns. *)
LEMMA Control_start_pool_run == ASSUME Control, NEW w \in Worker, start_pool_run(w) PROVE Control'
<1> USE ThreadFacts, NoTaskAssumption DEF Control, start_pool_run, hist
<1>1. TypeOK'
  BY DEF TypeOK, WorkerInv, MainPoint, WorkerPoint
<1>2. LockInv'
  BY DEF TypeOK, LockInv, Holding, MainPoint, WorkerPoint
<1>3. WorkerInv'
  BY DEF TypeOK, WorkerInv, StageInv, LockInv, Holding
<1>4. StageInv'
  BY DEF TypeOK, StageInv, WorkerInv
<1> QED BY <1>1, <1>2, <1>3, <1>4

(* Control is kept when a worker wakes without a signal. *)
LEMMA Control_spurious_wakeup == ASSUME Control, NEW w \in Worker, spurious_wakeup(w) PROVE Control'
<1> USE ThreadFacts, NoTaskAssumption DEF Control, spurious_wakeup, hist
<1>1. TypeOK'
  BY BoundAssumption DEF TypeOK, MainPoint, WorkerPoint
<1>2. LockInv'
  BY DEF TypeOK, WorkerInv, LockInv, Holding, MainPoint, WorkerPoint
<1>3. WorkerInv'
  BY DEF TypeOK, WorkerInv, StageInv, LockInv, Holding
<1>4. StageInv'
  BY DEF TypeOK, StageInv, WorkerInv
<1> QED BY <1>1, <1>2, <1>3, <1>4

(* Control is inductive: one case per action. *)
LEMMA NextControl == Control /\ [Next]_vars => Control'
<1> SUFFICES ASSUME Control, [Next]_vars PROVE Control'
    OBVIOUS
<1>1. CASE create_pool
  BY <1>1, Control_create_pool
<1>2. CASE \E n \in 1..5 : create_pool_fails(n)
  BY <1>2, Control_create_pool_fails
<1>3. CASE spawn
  BY <1>3, Control_spawn
<1>4. CASE spawn_fails
  BY <1>4, Control_spawn_fails
<1>5. CASE \E t \in Task : push_task(t)
  BY <1>5, Control_push_task
<1>6. CASE push_task_lock
  BY <1>6, Control_push_task_lock
<1>7. CASE push_task_accepted
  BY <1>7, Control_push_task_accepted
<1>8. CASE push_task_refused
  BY <1>8, Control_push_task_refused
<1>9. CASE destroy_pool
  BY <1>9, Control_destroy_pool
<1>10. CASE destroy_pool_lock
  BY <1>10, Control_destroy_pool_lock
<1>11. CASE destroy_pool_shutdown
  BY <1>11, Control_destroy_pool_shutdown
<1>12. CASE destroy_pool_join
  BY <1>12, Control_destroy_pool_join
<1>13. CASE destroy_pool_free
  BY <1>13, Control_destroy_pool_free
<1>14. ASSUME NEW w \in Worker, WorkerStep(w) \/ spurious_wakeup(w) PROVE Control'
  <2>1. CASE start_pool_lock(w)
    BY <2>1, Control_start_pool_lock
  <2>2. CASE start_pool_wait(w)
    BY <2>2, Control_start_pool_wait
  <2>3. CASE start_pool_exit(w)
    BY <2>3, Control_start_pool_exit
  <2>4. CASE start_pool_pop(w)
    BY <2>4, Control_start_pool_pop
  <2>5. CASE start_pool_run(w)
    BY <2>5, Control_start_pool_run
  <2>6. CASE spurious_wakeup(w)
    BY <2>6, Control_spurious_wakeup
  <2> QED BY <1>14, <2>1, <2>2, <2>3, <2>4, <2>5, <2>6 DEF WorkerStep
<1>15. CASE UNCHANGED vars
  BY <1>15 DEF vars, hist, Control, TypeOK, LockInv, WorkerInv, StageInv
<1> QED BY <1>1, <1>2, <1>3, <1>4, <1>5, <1>6, <1>7, <1>8, <1>9, <1>10, <1>11, <1>12, <1>13, <1>14, <1>15 DEF Next, MainStep, Terminated

(* In every reachable state the control invariant holds. *)
LEMMA ControlInvariant == Spec => []Control
<1> QED BY InitControl, NextControl, PTL DEF Spec

(* Type correctness of the pool. *)
THEOREM PoolTypeCorrect == Spec => []TypeOK
<1>1. Control => TypeOK
  BY DEF Control
<1> QED BY <1>1, ControlInvariant, PTL

(* No worker between its creation and its exit ever finds the pool, its    *)
(* lock or its queue released: destroy_pool joins before it frees.         *)
THEOREM PoolAliveWhileUsed == Spec => []WorkersFindPoolAlive
<1>1. Control => WorkersFindPoolAlive
  <2> SUFFICES ASSUME Control, NEW w \in Worker,
                      pc[w] \in {"lock", "test", "asleep", "run"}
               PROVE  live = Allocated(5)
    BY DEF WorkersFindPoolAlive
  <2>1. pc[w] # "none" /\ pc[w] # "exited"
    OBVIOUS
  <2>2. w < created /\ ~(w < joined)
    BY <2>1, ThreadFacts DEF Control, TypeOK, WorkerInv
  <2>3. w \in Nat /\ created \in Nat /\ joined \in Nat
    BY ThreadFacts DEF Control, TypeOK
  <2>4. pc[Main] \notin {"alloc", "done", "aborted"}
    BY <2>2, <2>3 DEF Control, StageInv
  <2> QED BY <2>4 DEF Control, StageInv
<1> QED BY <1>1, ControlInvariant, PTL
-----------------------------------------------------------------------------
(* The set of workers on their way to the queue is finite. *)
LEMMA ComingFinite == /\ IsFiniteSet(Coming)
                      /\ Cardinality(Coming) \in Nat
<1>1. IsFiniteSet(Worker)
  BY FS_Interval, NThreadsAssumption DEF Worker
<1>2. Coming \subseteq Worker
  BY DEF Coming
<1>3. IsFiniteSet(Coming)
  BY <1>1, <1>2, FS_Subset
<1> QED BY <1>3, FS_CardinalityType

(* A step that makes no worker turn away from the queue and no worker      *)
(* sleep, and that queues nothing, cannot lose a wake-up.                  *)
LEMMA WakeMonotone ==
  ASSUME NoLostWakeup, Control,
         waiting' # {} => waiting # {},
         Coming \subseteq Coming',
         Len(queue') <= Len(queue), Len(queue') \in Nat, queue \in Seq(Task)
  PROVE  NoLostWakeup'
<1>1. IsFiniteSet(Worker)
  BY FS_Interval, NThreadsAssumption DEF Worker
<1>2. Coming' \subseteq Worker
  BY DEF Coming
<1>3. IsFiniteSet(Coming')
  BY <1>1, <1>2, FS_Subset
<1>4. Cardinality(Coming) <= Cardinality(Coming')
  BY <1>3, FS_Subset
<1>5. Cardinality(Coming) \in Nat /\ Cardinality(Coming') \in Nat
  BY <1>3, ComingFinite, FS_CardinalityType
<1>6. Len(queue) \in Nat
  OBVIOUS
<1> QED BY <1>4, <1>5, <1>6 DEF NoLostWakeup

(* Len(queue) queued tasks never outnumber the workers coming for them     *)
(* while a worker sleeps: each push_task that finds a sleeper wakes one,   *)
(* and a worker turns away from the queue only with a task, or when the    *)
(* queue is empty.                                                         *)
LEMMA NextWakeup == Control /\ NoLostWakeup /\ [Next]_vars => NoLostWakeup'
<1> SUFFICES ASSUME Control, NoLostWakeup, [Next]_vars PROVE NoLostWakeup'
    OBVIOUS
<1>0. /\ pc \in [Thread -> MainPoint \cup WorkerPoint]
      /\ queue \in Seq(Task) /\ Len(queue) \in Nat
      /\ waiting = {w \in Worker : pc[w] = "asleep"}
  BY DEF Control, TypeOK, WorkerInv
<1> DEFINE Keeps == \A w \in Worker : pc[w] \in {"lock", "test"} => pc'[w] \in {"lock", "test"}
<1>m. ASSUME Keeps, waiting' # {} => waiting # {}, UNCHANGED queue
      PROVE  NoLostWakeup'
  <2>1. Coming \subseteq Coming'
    BY <1>m DEF Coming
  <2>2. Len(queue') <= Len(queue) /\ Len(queue') \in Nat
    BY <1>m, <1>0
  <2> QED BY <1>0, <1>m, <2>1, <2>2, WakeMonotone
<1> HIDE DEF Keeps
<1>1. CASE create_pool
  <2>1. Keeps /\ UNCHANGED <<waiting, queue>>
    BY <1>0, <1>1, ThreadFacts DEF Keeps, create_pool, hist
  <2> QED BY <2>1, <1>m
<1>2. CASE \E n \in 1..5 : create_pool_fails(n)
  <2>1. Keeps /\ UNCHANGED <<waiting, queue>>
    BY <1>0, <1>2, ThreadFacts DEF Keeps, create_pool_fails, hist
  <2> QED BY <2>1, <1>m
<1>3. CASE spawn
  <2>1. Keeps /\ UNCHANGED <<waiting, queue>>
    BY <1>0, <1>3, ThreadFacts DEF Keeps, spawn, hist
  <2> QED BY <2>1, <1>m
<1>4. CASE spawn_fails
  <2>1. Keeps /\ UNCHANGED <<waiting, queue>>
    BY <1>0, <1>4, ThreadFacts DEF Keeps, spawn_fails, hist
  <2> QED BY <2>1, <1>m
<1>5. CASE \E t \in Task : push_task(t)
  <2>1. Keeps /\ UNCHANGED <<waiting, queue>>
    BY <1>0, <1>5, ThreadFacts DEF Keeps, push_task, hist
  <2> QED BY <2>1, <1>m
<1>6. CASE push_task_lock
  <2>1. Keeps /\ UNCHANGED <<waiting, queue>>
    BY <1>0, <1>6, ThreadFacts DEF Keeps, push_task_lock, Lock, hist
  <2> QED BY <2>1, <1>m
<1>7. CASE push_task_refused
  <2>1. Keeps /\ UNCHANGED <<waiting, queue>>
    BY <1>0, <1>7, ThreadFacts DEF Keeps, push_task_refused, hist
  <2> QED BY <2>1, <1>m
<1>8. CASE destroy_pool
  <2>1. Keeps /\ UNCHANGED <<waiting, queue>>
    BY <1>0, <1>8, ThreadFacts DEF Keeps, destroy_pool, hist
  <2> QED BY <2>1, <1>m
<1>9. CASE destroy_pool_lock
  <2>1. Keeps /\ UNCHANGED <<waiting, queue>>
    BY <1>0, <1>9, ThreadFacts DEF Keeps, destroy_pool_lock, Lock, hist
  <2> QED BY <2>1, <1>m
<1>10. CASE destroy_pool_join
  <2>1. Keeps /\ UNCHANGED <<waiting, queue>>
    BY <1>0, <1>10, ThreadFacts DEF Keeps, destroy_pool_join, hist
  <2> QED BY <2>1, <1>m
<1>11. CASE destroy_pool_free
  <2>1. Keeps /\ UNCHANGED <<waiting, queue>>
    BY <1>0, <1>11, ThreadFacts DEF Keeps, destroy_pool_free, hist
  <2> QED BY <2>1, <1>m
<1>12. CASE push_task_accepted
  <2>1. Len(queue') = Len(queue) + 1
    <3>1. arg \in Task /\ queue' = Append(queue, arg)
      BY <1>12 DEF push_task_accepted, Control, StageInv
    <3> QED BY <3>1, <1>0
  <2>2. CASE waiting' = {}
    BY <2>2 DEF NoLostWakeup
  <2>3. CASE waiting' # {}
    <3>1. PICK w \in waiting : pc' = [[pc EXCEPT ![Main] = "idle"] EXCEPT ![w] = "lock"]
      BY <1>12, <2>3 DEF push_task_accepted, signal
    <3>2. w \in Worker /\ w \notin Coming
      BY <1>0 DEF Coming
    <3>3. Coming' = Coming \cup {w}
      BY <3>1, <3>2, <1>0, ThreadFacts DEF Coming
    <3>4. Cardinality(Coming') = Cardinality(Coming) + 1
      BY <3>2, <3>3, ComingFinite, FS_AddElement
    <3>5. Len(queue) <= Cardinality(Coming)
      BY <3>1 DEF NoLostWakeup
    <3> QED BY <2>1, <3>4, <3>5, <1>0, ComingFinite DEF NoLostWakeup
  <2> QED BY <2>2, <2>3
<1>13. CASE destroy_pool_shutdown
  BY <1>13 DEF destroy_pool_shutdown, broadcast, NoLostWakeup
<1>14. ASSUME NEW w \in Worker, WorkerStep(w) \/ spurious_wakeup(w) PROVE NoLostWakeup'
  <2>0. w \in Thread /\ pc[w] \in WorkerPoint
    BY ThreadFacts DEF Control, TypeOK
  <2>1. CASE start_pool_lock(w)
    <3>1. Keeps /\ UNCHANGED <<waiting, queue>>
      BY <1>0, <2>0, <2>1 DEF Keeps, start_pool_lock, Lock
    <3> QED BY <3>1, <1>m
  <2>2. CASE start_pool_wait(w)
    <3>1. Len(queue') = 0
      BY <2>2 DEF start_pool_wait
    <3>2. IsFiniteSet(Worker)
      BY FS_Interval, NThreadsAssumption DEF Worker
    <3>3. Coming' \subseteq Worker
      BY DEF Coming
    <3>4. Cardinality(Coming') \in Nat
      BY <3>2, <3>3, FS_Subset, FS_CardinalityType
    <3> QED BY <3>1, <3>4 DEF NoLostWakeup
  <2>3. CASE start_pool_exit(w)
    BY <2>3 DEF start_pool_exit, NoLostWakeup, Control, WorkerInv
  <2>4. CASE start_pool_pop(w)
    <3>1. w \in Coming
      BY <2>4 DEF start_pool_pop, Coming
    <3>2. Coming' = Coming \ {w}
      BY <2>4, <1>0, <2>0 DEF start_pool_pop, Coming
    <3>3. Cardinality(Coming') = Cardinality(Coming) - 1
      BY <3>1, <3>2, ComingFinite, FS_RemoveElement
    <3>4. queue # << >> /\ queue' = Tail(queue)
      BY <2>4 DEF start_pool_pop
    <3>5. Len(queue') = Len(queue) - 1
      BY <3>4, <1>0
    <3>6. waiting' = waiting
      BY <2>4 DEF start_pool_pop
    <3> QED BY <3>3, <3>5, <3>6, <1>0, ComingFinite DEF NoLostWakeup
  <2>5. CASE start_pool_run(w)
    <3>1. Keeps /\ UNCHANGED <<waiting, queue>>
      BY <1>0, <2>0, <2>5 DEF Keeps, start_pool_run
    <3> QED BY <3>1, <1>m
  <2>6. CASE spurious_wakeup(w)
    <3>1. Keeps /\ waiting' \subseteq waiting /\ UNCHANGED queue
      BY <1>0, <2>0, <2>6 DEF Keeps, spurious_wakeup
    <3> QED BY <3>1, <1>m
  <2> QED BY <1>14, <2>1, <2>2, <2>3, <2>4, <2>5, <2>6 DEF WorkerStep
<1>15. CASE UNCHANGED vars
  BY <1>15 DEF vars, NoLostWakeup, Coming
<1> QED BY <1>1, <1>2, <1>3, <1>4, <1>5, <1>6, <1>7, <1>8, <1>9, <1>10, <1>11, <1>12, <1>13, <1>14, <1>15 DEF Next, MainStep, Terminated

(* No worker stays asleep while more tasks are queued than workers are on  *)
(* their way to the queue, for every number of workers.                    *)
THEOREM NoWakeupIsLost == Spec => []NoLostWakeup
<1>1. Init => NoLostWakeup
  BY DEF Init, NoLostWakeup
<1> QED BY <1>1, ControlInvariant, NextWakeup, PTL DEF Spec
-----------------------------------------------------------------------------
(* Where every accepted task is, in a form each step preserves: the queue  *)
(* is the end of accepted, the tasks before it are running or done, never  *)
(* both and never on two workers, and main pushes a task accepted has not. *)
QueueSuffix == /\ Taken \in Nat
               /\ \A i \in 1..Len(queue) : queue[i] = accepted[Taken + i]
Distinct == \A i, j \in 1..Len(accepted) : accepted[i] = accepted[j] => i = j
TakenTasks == {accepted[i] : i \in 1..Taken}
WhereTaken == /\ TakenTasks = done \cup ({task[w] : w \in Worker} \ {NoTask})
              /\ \A w \in Worker : task[w] \notin done
              /\ \A v, w \in Worker : task[v] = task[w] /\ task[v] # NoTask => v = w
FreshArg == pc[Main] \in {"push_lock", "push"} => arg \notin Accepted

Accounting == QueueSuffix /\ Distinct /\ WhereTaken /\ FreshArg

(* The initial state satisfies the accounting invariant. *)
LEMMA InitAccounting == Init => Accounting
<1> SUFFICES ASSUME Init PROVE Accounting
    OBVIOUS
<1>1. queue = << >> /\ accepted = << >> /\ done = {} /\ \A w \in Worker : task[w] = NoTask
  BY DEF Init
<1>2. Len(queue) = 0 /\ Len(accepted) = 0 /\ Taken = 0
  BY <1>1 DEF Taken
<1>3. QueueSuffix /\ Distinct
  BY <1>2 DEF QueueSuffix, Distinct
<1>4. WhereTaken
  BY <1>1, <1>2 DEF WhereTaken, TakenTasks
<1>5. pc[Main] = "alloc"
  BY ThreadFacts DEF Init
<1> QED BY <1>3, <1>4, <1>5 DEF Accounting, FreshArg

(* Steps that move no task keep the accounting. *)
LEMMA AccountingUnmoved ==
  ASSUME Accounting, UNCHANGED <<queue, accepted, task, done>>,
         pc'[Main] \in {"push_lock", "push"} =>
           arg' = arg /\ pc[Main] \in {"push_lock", "push"}
  PROVE  Accounting'
<1>1. Taken' = Taken
  BY DEF Taken
<1>2. QueueSuffix' /\ Distinct'
  BY <1>1 DEF Accounting, QueueSuffix, Distinct
<1>3. WhereTaken'
  BY <1>1 DEF Accounting, WhereTaken, TakenTasks
<1>4. FreshArg'
  BY DEF Accounting, FreshArg, Accepted
<1> QED BY <1>2, <1>3, <1>4 DEF Accounting

(* push_task appends its task to accepted and to the queue at once. *)
LEMMA AccountingAccepted == ASSUME Control, Accounting, push_task_accepted PROVE Accounting'
<1>1. /\ queue \in Seq(Task) /\ accepted \in Seq(Task) /\ arg \in Task
      /\ queue' = Append(queue, arg) /\ accepted' = Append(accepted, arg)
      /\ UNCHANGED <<task, done>>
      /\ arg \notin Accepted
  BY DEF Control, TypeOK, StageInv, push_task_accepted, Accounting, FreshArg
<1>2. pc'[Main] = "idle"
  <2>1. Main \notin waiting /\ Main \in Thread
    BY ThreadFacts DEF Control, TypeOK
  <2> QED BY <2>1 DEF Control, TypeOK, push_task_accepted, signal
<1>3. /\ Len(queue) \in Nat /\ Len(accepted) \in Nat
      /\ Len(queue') = Len(queue) + 1 /\ Len(accepted') = Len(accepted) + 1
  BY <1>1
<1>4. Taken' = Taken /\ Taken \in Nat /\ Taken <= Len(accepted)
  BY <1>3 DEF Taken, Accounting, QueueSuffix
<1>5. \A i \in 1..Len(accepted) : accepted'[i] = accepted[i]
  BY <1>1
<1>6. accepted'[Len(accepted) + 1] = arg /\ queue'[Len(queue) + 1] = arg
  BY <1>1
<1>7. QueueSuffix'
  <2> SUFFICES ASSUME NEW i \in 1..Len(queue') PROVE queue'[i] = accepted'[Taken + i]
    BY <1>4 DEF QueueSuffix
  <2>1. CASE i \in 1..Len(queue)
    <3>1. queue'[i] = queue[i]
      BY <1>1, <2>1
    <3>2. Taken + i \in 1..Len(accepted)
      BY <1>3, <1>4, <2>1 DEF Taken
    <3> QED BY <2>1, <3>1, <3>2, <1>5 DEF Accounting, QueueSuffix
  <2>2. CASE i = Len(queue) + 1
    <3>1. Taken + i = Len(accepted) + 1
      BY <1>3, <2>2 DEF Taken
    <3> QED BY <2>2, <3>1, <1>6
  <2> QED BY <1>3, <2>1, <2>2
<1>8. Distinct'
  <2> SUFFICES ASSUME NEW i \in 1..Len(accepted'), NEW j \in 1..Len(accepted'),
                      accepted'[i] = accepted'[j]
               PROVE  i = j
    BY DEF Distinct
  <2>1. \A k \in 1..Len(accepted) : accepted'[k] # arg
    BY <1>1, <1>5 DEF Accepted
  <2>2. CASE i \in 1..Len(accepted) /\ j \in 1..Len(accepted)
    BY <2>2, <1>5 DEF Accounting, Distinct
  <2>3. CASE ~(i \in 1..Len(accepted) /\ j \in 1..Len(accepted))
    <3>1. i = Len(accepted) + 1 \/ j = Len(accepted) + 1
      BY <2>3, <1>3
    <3> QED BY <3>1, <2>1, <1>3, <1>6
  <2> QED BY <2>2, <2>3
<1>9. WhereTaken'
  <2>1. \A i \in 1..Taken : i \in 1..Len(accepted)
    BY <1>3, <1>4
  <2>2. TakenTasks' = TakenTasks
    BY <2>1, <1>4, <1>5 DEF TakenTasks
  <2> QED BY <2>2, <1>1 DEF Accounting, WhereTaken
<1> QED BY <1>2, <1>7, <1>8, <1>9 DEF Accounting, FreshArg

(* A worker takes the oldest queued task: the first one accepted that no   *)
(* worker had taken.                                                       *)
LEMMA AccountingPop ==
  ASSUME Control, Accounting, NEW w \in Worker, start_pool_pop(w) PROVE Accounting'
<1>1. /\ queue \in Seq(Task) /\ accepted \in Seq(Task) /\ queue # << >>
      /\ queue' = Tail(queue) /\ task \in [Worker -> Task \cup {NoTask}]
      /\ task' = [task EXCEPT ![w] = Head(queue)]
      /\ UNCHANGED <<accepted, done, arg>>
      /\ task[w] = NoTask
  <2>1. pc[w] = "test"
    BY DEF start_pool_pop
  <2>2. task[w] = NoTask
    BY <2>1 DEF Control, WorkerInv
  <2> QED BY <2>2 DEF Control, TypeOK, start_pool_pop, hist
<1>2. pc'[Main] = pc[Main]
  BY ThreadFacts DEF Control, TypeOK, start_pool_pop
<1>3. /\ Len(queue) \in Nat /\ Len(queue) > 0 /\ Len(accepted) \in Nat
      /\ Len(queue') = Len(queue) - 1
      /\ \A i \in 1..Len(queue') : queue'[i] = queue[i + 1]
      /\ Head(queue) = queue[1] /\ Head(queue) \in Task
  BY <1>1
<1>4. Taken \in Nat /\ Taken' = Taken + 1 /\ Taken + Len(queue) = Len(accepted)
  BY <1>1, <1>3 DEF Taken, Accounting, QueueSuffix
<1>5. Head(queue) = accepted[Taken + 1] /\ Taken + 1 \in 1..Len(accepted)
  BY <1>3, <1>4 DEF Accounting, QueueSuffix
<1>6. QueueSuffix'
  <2> SUFFICES ASSUME NEW i \in 1..Len(queue') PROVE queue'[i] = accepted[Taken' + i]
    BY <1>1, <1>4 DEF QueueSuffix
  <2>1. i + 1 \in 1..Len(queue)
    BY <1>3
  <2>2. queue[i + 1] = accepted[Taken + (i + 1)]
    BY <2>1 DEF Accounting, QueueSuffix
  <2>3. Taken + (i + 1) = Taken' + i
    BY <1>4
  <2> QED BY <1>3, <2>2, <2>3
<1>7. Distinct'
  BY <1>1 DEF Accounting, Distinct
<1>8. TakenTasks' = TakenTasks \cup {Head(queue)}
  <2>1. 1..Taken' = (1..Taken) \cup {Taken + 1}
    BY <1>4
  <2> QED BY <2>1, <1>1, <1>5 DEF TakenTasks
<1>9. Head(queue) \notin TakenTasks
  <2>1. \A i \in 1..Taken : i \in 1..Len(accepted) /\ i # Taken + 1
    BY <1>3, <1>4
  <2> QED BY <2>1, <1>5 DEF TakenTasks, Accounting, Distinct
<1>10. /\ task'[w] = Head(queue)
       /\ \A v \in Worker : v # w => task'[v] = task[v]
  BY <1>1
<1>11. WhereTaken'
  <2>1. {task'[v] : v \in Worker} \ {NoTask} = ({task[v] : v \in Worker} \ {NoTask}) \cup {Head(queue)}
    BY <1>1, <1>3, <1>10, NoTaskAssumption
  <2>2. TakenTasks' = done' \cup ({task'[v] : v \in Worker} \ {NoTask})
    BY <1>1, <1>8, <2>1 DEF Accounting, WhereTaken
  <2>3. \A v \in Worker : task'[v] \notin done'
    BY <1>1, <1>9, <1>10 DEF Accounting, WhereTaken
  <2>4. \A v \in Worker : task[v] # NoTask => task[v] # Head(queue)
    BY <1>9 DEF Accounting, WhereTaken
  <2>5. \A u, v \in Worker : task'[u] = task'[v] /\ task'[u] # NoTask => u = v
    BY <1>3, <1>10, <2>4, NoTaskAssumption DEF Accounting, WhereTaken
  <2> QED BY <2>2, <2>3, <2>5 DEF WhereTaken
<1> QED BY <1>1, <1>2, <1>6, <1>7, <1>11 DEF Accounting, FreshArg, Accepted

(* A task that returns moves from its worker to done. *)
LEMMA AccountingRun ==
  ASSUME Control, Accounting, NEW w \in Worker, start_pool_run(w) PROVE Accounting'
<1>1. /\ task \in [Worker -> Task \cup {NoTask}]
      /\ task' = [task EXCEPT ![w] = NoTask]
      /\ done' = done \cup {task[w]}
      /\ UNCHANGED <<accepted, queue, arg>>
      /\ task[w] # NoTask
  BY DEF Control, TypeOK, WorkerInv, start_pool_run
<1>2. pc'[Main] = pc[Main] /\ Taken' = Taken
  BY <1>1, ThreadFacts DEF Control, TypeOK, start_pool_run, Taken
<1>3. QueueSuffix' /\ Distinct' /\ TakenTasks' = TakenTasks
  BY <1>1, <1>2 DEF Accounting, QueueSuffix, Distinct, TakenTasks
<1>4. /\ task'[w] = NoTask
      /\ \A v \in Worker : v # w => task'[v] = task[v]
  BY <1>1
<1>5. \A v \in Worker : v # w => task[v] # task[w]
  BY <1>1 DEF Accounting, WhereTaken
<1>6. {task'[v] : v \in Worker} \ {NoTask} = ({task[v] : v \in Worker} \ {NoTask}) \ {task[w]}
  BY <1>4, <1>5
<1>7. TakenTasks' = done' \cup ({task'[v] : v \in Worker} \ {NoTask})
  BY <1>1, <1>3, <1>6 DEF Accounting, WhereTaken
<1>8. NoTask \notin done'
  BY <1>1, NoTaskAssumption DEF Control, TypeOK
<1>9. \A v \in Worker : task'[v] \notin done'
  BY <1>1, <1>4, <1>5, <1>8 DEF Accounting, WhereTaken
<1>10. \A u, v \in Worker : task'[u] = task'[v] /\ task'[u] # NoTask => u = v
  BY <1>4 DEF Accounting, WhereTaken
<1>11. WhereTaken'
  BY <1>7, <1>9, <1>10 DEF WhereTaken
<1> QED BY <1>1, <1>2, <1>3, <1>11 DEF Accounting, FreshArg, Accepted

(* Accounting is inductive relative to Control. *)
LEMMA NextAccounting == Control /\ Accounting /\ [Next]_vars => Accounting'
<1> SUFFICES ASSUME Control, Accounting, [Next]_vars PROVE Accounting'
    OBVIOUS
<1> USE ThreadFacts
<1>0. pc \in [Thread -> MainPoint \cup WorkerPoint] /\ Main \notin waiting
  BY DEF Control, TypeOK
<1>1. CASE create_pool
  BY <1>0, <1>1, AccountingUnmoved DEF create_pool, hist
<1>2. CASE \E n \in 1..5 : create_pool_fails(n)
  BY <1>0, <1>2, AccountingUnmoved DEF create_pool_fails, hist
<1>3. CASE spawn
  <2>1. created \in Worker
    BY <1>3 DEF spawn, Control, TypeOK, StageInv, Worker
  <2> QED BY <1>0, <1>3, <2>1, AccountingUnmoved DEF spawn, hist
<1>4. CASE spawn_fails
  BY <1>0, <1>4, AccountingUnmoved DEF spawn_fails, hist
<1>5. CASE push_task_lock
  BY <1>0, <1>5, AccountingUnmoved DEF push_task_lock, Lock, hist
<1>6. CASE push_task_refused
  BY <1>0, <1>6, AccountingUnmoved DEF push_task_refused, hist
<1>7. CASE destroy_pool
  BY <1>0, <1>7, AccountingUnmoved DEF destroy_pool, hist
<1>8. CASE destroy_pool_lock
  BY <1>0, <1>8, AccountingUnmoved DEF destroy_pool_lock, Lock, hist
<1>9. CASE destroy_pool_shutdown
  BY <1>0, <1>9, AccountingUnmoved DEF destroy_pool_shutdown, broadcast, hist
<1>10. CASE destroy_pool_join
  BY <1>0, <1>10, AccountingUnmoved DEF destroy_pool_join, hist
<1>11. CASE destroy_pool_free
  BY <1>0, <1>11, AccountingUnmoved DEF destroy_pool_free, hist
<1>12. ASSUME NEW t \in Task, push_task(t) PROVE Accounting'
  <2>1. arg' = t /\ t \notin Accepted /\ UNCHANGED <<queue, accepted, task, done>>
    BY <1>12 DEF push_task, Accepted, hist
  <2>2. Accepted' = Accepted /\ Taken' = Taken
    BY <2>1 DEF Accepted, Taken
  <2>3. QueueSuffix' /\ Distinct' /\ WhereTaken'
    <3>1. QueueSuffix' /\ Distinct'
      BY <2>1, <2>2 DEF Accounting, QueueSuffix, Distinct
    <3>2. TakenTasks' = TakenTasks
      BY <2>1, <2>2 DEF TakenTasks
    <3> QED BY <2>1, <3>1, <3>2 DEF Accounting, WhereTaken
  <2> QED BY <2>1, <2>2, <2>3 DEF Accounting, FreshArg
<1>13. CASE push_task_accepted
  BY <1>13, AccountingAccepted
<1>14. ASSUME NEW w \in Worker, WorkerStep(w) \/ spurious_wakeup(w) PROVE Accounting'
  <2>1. CASE start_pool_pop(w)
    BY <2>1, AccountingPop
  <2>2. CASE start_pool_run(w)
    BY <2>2, AccountingRun
  <2>3. CASE start_pool_lock(w)
    BY <1>0, <2>3, AccountingUnmoved DEF start_pool_lock, Lock, hist
  <2>4. CASE start_pool_wait(w)
    BY <1>0, <2>4, AccountingUnmoved DEF start_pool_wait, hist
  <2>5. CASE start_pool_exit(w)
    BY <1>0, <2>5, AccountingUnmoved DEF start_pool_exit, hist
  <2>6. CASE spurious_wakeup(w)
    BY <1>0, <2>6, AccountingUnmoved DEF spurious_wakeup
  <2> QED BY <1>14, <2>1, <2>2, <2>3, <2>4, <2>5, <2>6 DEF WorkerStep
<1>15. CASE UNCHANGED vars
  BY <1>15, AccountingUnmoved DEF vars, hist
<1> QED BY <1>1, <1>2, <1>3, <1>4, <1>5, <1>6, <1>7, <1>8, <1>9, <1>10, <1>11, <1>12, <1>13, <1>14, <1>15 DEF Next, MainStep, Terminated

(* In every reachable state the accounting invariant holds. *)
LEMMA AccountingInvariant == Spec => []Accounting
<1> QED BY InitAccounting, ControlInvariant, NextAccounting, PTL DEF Spec

(* Every accepted task is queued in order, or with exactly one worker, or  *)
(* done.                                                                   *)
THEOREM TasksAccountedFor == Spec => []TaskAccounting
<1>1. Control /\ Accounting => TaskAccounting
  <2> SUFFICES ASSUME Control, Accounting PROVE TaskAccounting
    OBVIOUS
  <2>1. Taken \in Nat /\ \A i \in 1..Len(queue) : queue[i] = accepted[Taken + i]
    BY DEF Accounting, QueueSuffix
  <2>2. ASSUME NEW i \in 1..Taken
        PROVE  \/ accepted[i] \in done /\ \A w \in Worker : task[w] # accepted[i]
               \/ /\ accepted[i] \notin done
                  /\ \E w \in Worker : \A v \in Worker : task[v] = accepted[i] <=> v = w
    <3>1. accepted[i] \in done \cup ({task[w] : w \in Worker} \ {NoTask})
      BY DEF Accounting, WhereTaken, TakenTasks
    <3>2. CASE accepted[i] \in done
      BY <3>2 DEF Accounting, WhereTaken
    <3>3. CASE accepted[i] \notin done
      <4>1. PICK w \in Worker : task[w] = accepted[i] /\ task[w] # NoTask
        BY <3>1, <3>3
      <4>2. \A v \in Worker : task[v] = accepted[i] <=> v = w
        BY <4>1 DEF Accounting, WhereTaken
      <4> QED BY <3>3, <4>2
    <3> QED BY <3>2, <3>3
  <2>3. ASSUME NEW i \in 1..Len(queue)
        PROVE  queue[i] \notin done /\ \A w \in Worker : task[w] # queue[i]
    <3>1. /\ Len(accepted) \in Nat /\ Len(queue) \in Nat
          /\ queue[i] \in Task /\ queue[i] # NoTask
      BY NoTaskAssumption DEF Control, TypeOK
    <3>2. Taken + i \in 1..Len(accepted) /\ Taken <= Len(accepted)
      BY <2>1, <3>1 DEF Taken
    <3>3. queue[i] \notin TakenTasks
      <4> SUFFICES ASSUME NEW j \in 1..Taken, queue[i] = accepted[j] PROVE FALSE
        BY DEF TakenTasks
      <4>1. j \in 1..Len(accepted) /\ j # Taken + i
        BY <2>1, <3>1, <3>2
      <4> QED BY <2>1, <3>2, <4>1 DEF Accounting, Distinct
    <3> QED BY <3>1, <3>3 DEF Accounting, WhereTaken
  <2> QED BY <2>1, <2>2, <2>3 DEF TaskAccounting
<1> QED BY <1>1, ControlInvariant, AccountingInvariant, PTL

(* Once every created worker has been joined, none holds a task, and none  *)
(* could have exited with a task still queued.                             *)
LEMMA JoinedIdle == ASSUME Control, joined = created
                    PROVE  queue = << >> /\ \A w \in Worker : task[w] = NoTask
<1>0. created \in Nat
  BY DEF Control, TypeOK
<1>1. \A w \in Worker : task[w] = NoTask
  <2> SUFFICES ASSUME NEW w \in Worker PROVE pc[w] # "run"
    BY DEF Control, WorkerInv
  <2>1. w \in Nat
    BY ThreadFacts
  <2>2. w < joined \/ w >= created
    BY <1>0, <2>1
  <2> QED BY <2>2 DEF Control, WorkerInv
<1>2. CASE created < NThreads
  BY <1>1, <1>2 DEF Control, StageInv
<1>3. CASE created = NThreads
  <2>1. 0 \in Worker /\ 0 < joined
    BY <1>0, <1>3, NThreadsAssumption DEF Worker
  <2> QED BY <1>1, <2>1 DEF Control, WorkerInv
<1> QED BY <1>2, <1>3, NThreadsAssumption DEF Control, TypeOK

(* When destroy_pool returns, every accepted task was executed and nothing *)
(* of the pool is left allocated.                                          *)
THEOREM DestroyDrainsPool == Spec => []DestroyDrains
<1>1. Control /\ Accounting => DestroyDrains
  <2> SUFFICES ASSUME Control, Accounting, pc[Main] = "done"
               PROVE  live = {} /\ Accepted = done
    BY DEF DestroyDrains
  <2>1. live = {} /\ joined = created /\ created \in Nat
    BY DEF Control, StageInv, TypeOK
  <2>2. \A w \in Worker : task[w] = NoTask
    BY <2>1, JoinedIdle
  <2>3. queue = << >>
    BY <2>1, JoinedIdle
  <2>4. Taken = Len(accepted)
    <3>1. Len(accepted) \in Nat
      BY DEF Control, TypeOK
    <3> QED BY <2>3, <3>1 DEF Taken
  <2>5. TakenTasks = Accepted
    BY <2>4 DEF TakenTasks, Accepted
  <2>6. {task[w] : w \in Worker} \ {NoTask} = {}
    BY <2>2
  <2> QED BY <2>1, <2>5, <2>6 DEF Accounting, WhereTaken
<1> QED BY <1>1, ControlInvariant, AccountingInvariant, PTL
-----------------------------------------------------------------------------
(* The tasks the abstract pool sees as running. *)
Running == {task[w] : w \in Worker} \ {NoTask}

(* A worker that has no task leaves room for one more among NThreads.      *)
LEMMA RunningRoom == ASSUME Control, NEW w \in Worker, task[w] = NoTask
                     PROVE  Cardinality(Running) < NThreads
<1> DEFINE Busy == Worker \ {w}
           f == [v \in Busy |-> task[v]]
<1>1. IsFiniteSet(Worker) /\ Cardinality(Worker) = NThreads
  BY FS_Interval, NThreadsAssumption DEF Worker
<1>2. IsFiniteSet(Busy) /\ Cardinality(Busy) = NThreads - 1
  BY <1>1, FS_RemoveElement
<1>3. f \in Surjection(Busy, {task[v] : v \in Busy})
  BY DEF Surjection
<1>4. /\ IsFiniteSet({task[v] : v \in Busy})
      /\ Cardinality({task[v] : v \in Busy}) <= NThreads - 1
  BY <1>2, <1>3, FS_Surjection
<1>5. Running \subseteq {task[v] : v \in Busy}
  BY DEF Running
<1>6. IsFiniteSet(Running) /\ Cardinality(Running) <= Cardinality({task[v] : v \in Busy})
  BY <1>4, <1>5, FS_Subset
<1>7. Cardinality(Running) \in Nat /\ Cardinality({task[v] : v \in Busy}) \in Nat
  BY <1>4, <1>6, FS_CardinalityType
<1> QED BY <1>4, <1>6, <1>7, NThreadsAssumption

(* The queued tasks are accepted ones. *)
LEMMA QueuedAccepted == ASSUME Control, Accounting
                        PROVE  Abstract!Queued \cup Running \cup done \subseteq Accepted
<1>1. Abstract!Queued \subseteq Accepted
  <2> SUFFICES ASSUME NEW i \in 1..Len(queue) PROVE queue[i] \in Accepted
    BY DEF Abstract!Queued
  <2>1. Len(accepted) \in Nat /\ Len(queue) \in Nat
    BY DEF Control, TypeOK
  <2>2. Taken + i \in 1..Len(accepted)
    BY <2>1 DEF Accounting, QueueSuffix, Taken
  <2> QED BY <2>2 DEF Accounting, QueueSuffix, Accepted
<1>2. TakenTasks \subseteq Accepted
  <2>1. Len(accepted) \in Nat /\ Len(queue) \in Nat
    BY DEF Control, TypeOK
  <2>2. \A i \in 1..Taken : i \in 1..Len(accepted)
    BY <2>1 DEF Accounting, QueueSuffix, Taken
  <2> QED BY <2>2 DEF TakenTasks, Accepted
<1> QED BY <1>1, <1>2 DEF Accounting, WhereTaken, Running

(* Every step of the pool is a step of the abstract pool or changes        *)
(* nothing of it.                                                          *)
LEMMA PoolStep == ASSUME Control, Accounting, [Next]_vars
                  PROVE  [Abstract!Next]_(Abstract!vars)
<1> USE ThreadFacts
<1>0. /\ pc \in [Thread -> MainPoint \cup WorkerPoint] /\ Main \notin waiting
      /\ task \in [Worker -> Task \cup {NoTask}]
  BY DEF Control, TypeOK
<1>u. ASSUME UNCHANGED <<queue, task, done>>, Phase' = Phase PROVE UNCHANGED Abstract!vars
  BY <1>u DEF Abstract!vars
<1>1. CASE create_pool
  <2>1. UNCHANGED <<queue, task, done>> /\ Phase' = Phase
    BY <1>0, <1>1 DEF Phase, create_pool, Control, StageInv, hist
  <2> QED BY <2>1, <1>u
<1>2. CASE \E n \in 1..5 : create_pool_fails(n)
  <2>1. Phase = "new" /\ Phase' = "gone" /\ UNCHANGED <<queue, task, done>>
    BY <1>0, <1>2 DEF Phase, create_pool_fails, hist
  <2> QED BY <2>1 DEF Abstract!Next, Abstract!CreateFailed
<1>3. CASE spawn
  <2>1. created \in Worker /\ ~failing /\ UNCHANGED <<queue, task, done, failing>>
    BY <1>3 DEF spawn, Control, TypeOK, StageInv, Worker, hist
  <2>2. pc[Main] = "spawn" /\ pc'[Main] \in {"idle", "spawn"}
    BY <1>0, <1>3, <2>1 DEF spawn
  <2>3. CASE pc'[Main] = "idle"
    <3>1. Phase = "new" /\ Phase' = "open"
      BY <2>1, <2>2, <2>3 DEF Phase
    <3> QED BY <2>1, <3>1 DEF Abstract!Next, Abstract!Open
  <2>4. CASE pc'[Main] = "spawn"
    <3>1. Phase' = Phase
      BY <2>1, <2>2, <2>4 DEF Phase
    <3> QED BY <2>1, <3>1, <1>u
  <2> QED BY <2>2, <2>3, <2>4
<1>4. CASE spawn_fails
  <2>1. UNCHANGED <<queue, task, done>> /\ Phase' = Phase
    BY <1>0, <1>4 DEF Phase, spawn_fails, hist
  <2> QED BY <2>1, <1>u
<1>5. CASE \E t \in Task : push_task(t)
  <2>1. UNCHANGED <<queue, task, done>> /\ Phase' = Phase
    BY <1>0, <1>5 DEF Phase, push_task, hist
  <2> QED BY <2>1, <1>u
<1>6. CASE push_task_lock
  <2>1. UNCHANGED <<queue, task, done>> /\ Phase' = Phase
    BY <1>0, <1>6 DEF Phase, push_task_lock, Lock, hist
  <2> QED BY <2>1, <1>u
<1>7. CASE push_task_accepted
  <2>1. /\ pc[Main] = "push" /\ ~failing /\ arg \in Task /\ arg \notin Accepted
        /\ queue' = Append(queue, arg) /\ UNCHANGED <<task, done, failing>>
    BY <1>7 DEF push_task_accepted, Control, StageInv, Accounting, FreshArg
  <2>2. pc'[Main] = "idle"
    BY <1>0, <1>7 DEF push_task_accepted, signal
  <2>3. Phase = "open" /\ Phase' = "open"
    BY <2>1, <2>2 DEF Phase
  <2>4. arg \notin Abstract!Queued \cup Running \cup done
    BY <2>1, QueuedAccepted
  <2>5. Abstract!Submit(arg)
    BY <2>1, <2>3, <2>4 DEF Abstract!Submit, Running
  <2> QED BY <2>1, <2>5 DEF Abstract!Next
<1>8. CASE push_task_refused
  <2>1. UNCHANGED <<queue, task, done>> /\ Phase' = Phase
    BY <1>0, <1>8 DEF Phase, push_task_refused, hist
  <2> QED BY <2>1, <1>u
<1>9. CASE destroy_pool
  <2>1. ~failing /\ pc[Main] = "idle"
    BY <1>9 DEF destroy_pool, Control, StageInv
  <2>2. Phase = "open" /\ Phase' = "draining" /\ UNCHANGED <<queue, task, done>>
    BY <1>0, <1>9, <2>1 DEF Phase, destroy_pool, hist
  <2> QED BY <2>2 DEF Abstract!Next, Abstract!Close
<1>10. CASE destroy_pool_lock
  <2>1. UNCHANGED <<queue, task, done>> /\ Phase' = Phase
    BY <1>0, <1>10 DEF Phase, destroy_pool_lock, Lock, hist
  <2> QED BY <2>1, <1>u
<1>11. CASE destroy_pool_shutdown
  <2>1. UNCHANGED <<queue, task, done>> /\ Phase' = Phase
    BY <1>0, <1>11 DEF Phase, destroy_pool_shutdown, broadcast, hist
  <2> QED BY <2>1, <1>u
<1>12. CASE destroy_pool_join
  <2>1. UNCHANGED <<queue, task, done>> /\ Phase' = Phase
    BY <1>0, <1>12 DEF Phase, destroy_pool_join, hist
  <2> QED BY <2>1, <1>u
<1>13. CASE destroy_pool_free
  <2>1. /\ pc[Main] = "join" /\ pc'[Main] = "done"
        /\ UNCHANGED <<queue, task, done, failing>>
    BY <1>0, <1>13 DEF destroy_pool_free, hist
  <2>2. queue = << >> /\ \A w \in Worker : task[w] = NoTask
    BY <1>13, JoinedIdle DEF destroy_pool_free
  <2>3. {task[w] : w \in Worker} \ {NoTask} = {}
    BY <2>2
  <2>4. Phase' = "gone"
    BY <2>1 DEF Phase
  <2>5. CASE failing
    <3>1. Phase = "new"
      BY <2>1, <2>5 DEF Phase
    <3> QED BY <2>1, <2>4, <3>1 DEF Abstract!Next, Abstract!CreateFailed
  <2>6. CASE ~failing
    <3>1. Phase = "draining"
      BY <2>1, <2>6 DEF Phase
    <3> QED BY <2>1, <2>2, <2>3, <2>4, <3>1 DEF Abstract!Next, Abstract!Retire
  <2> QED BY <2>5, <2>6
<1>14. ASSUME NEW w \in Worker, WorkerStep(w) \/ spurious_wakeup(w)
      PROVE  [Abstract!Next]_(Abstract!vars)
  <2>1. CASE start_pool_pop(w)
    <3>1. /\ queue # << >> /\ queue' = Tail(queue) /\ Head(queue) \in Task
          /\ task' = [task EXCEPT ![w] = Head(queue)]
          /\ pc'[Main] = pc[Main] /\ UNCHANGED <<done, failing>>
      BY <1>0, <2>1 DEF start_pool_pop, Control, TypeOK, hist
    <3>2. task[w] = NoTask
      <4>1. pc[w] = "test"
        BY <2>1 DEF start_pool_pop
      <4> QED BY <4>1 DEF Control, WorkerInv
    <3>3. /\ task'[w] = Head(queue)
          /\ \A v \in Worker : v # w => task'[v] = task[v]
      BY <1>0, <3>1
    <3>4. Running' = Running \cup {Head(queue)}
      BY <3>1, <3>2, <3>3, NoTaskAssumption DEF Running
    <3>5. Phase' = Phase /\ Phase \in {"open", "draining"}
      <4>1. created = NThreads
        BY <3>1, NThreadsAssumption DEF Control, TypeOK, StageInv
      <4>2. pc[Main] # "done"
        BY <3>1, JoinedIdle DEF Control, StageInv
      <4>3. ~failing /\ pc[Main] \notin {"alloc", "spawn", "done", "aborted"}
        BY <4>1, <4>2, NThreadsAssumption DEF Control, StageInv
      <4> QED BY <3>1, <4>3 DEF Phase
    <3>6. Cardinality(Running) < NThreads
      BY <3>2, RunningRoom
    <3>7. Abstract!Start
      <4>1. ({task[v] : v \in Worker} \ {NoTask})'
              = ({task[v] : v \in Worker} \ {NoTask}) \cup {Head(queue)}
        BY <3>4 DEF Running
      <4>2. Abstract!Cardinality({task[v] : v \in Worker} \ {NoTask}) < NThreads
        BY <3>6 DEF Running, Cardinality, Abstract!Cardinality
      <4>3. queue # << >> /\ queue' = Tail(queue) /\ done' = done
        BY <3>1
      <4> QED BY <3>5, <4>1, <4>2, <4>3, Zenon DEF Abstract!Start
    <3> QED BY <3>7 DEF Abstract!Next
  <2>2. CASE start_pool_run(w)
    <3>1. /\ task' = [task EXCEPT ![w] = NoTask] /\ done' = done \cup {task[w]}
          /\ pc'[Main] = pc[Main] /\ UNCHANGED <<queue, failing>>
      BY <1>0, <2>2 DEF start_pool_run
    <3>2. task[w] \in Task /\ pc[w] = "run"
      BY <1>0, <2>2 DEF start_pool_run, Control, WorkerInv
    <3>3. \A v \in Worker : v # w => task[v] # task[w]
      BY <3>2, NoTaskAssumption DEF Accounting, WhereTaken
    <3>4. Running' = Running \ {task[w]}
      <4>1. task'[w] = NoTask /\ \A v \in Worker : v # w => task'[v] = task[v]
        BY <1>0, <3>1
      <4> QED BY <3>3, <4>1 DEF Running
    <3>5. task[w] \in Running
      BY <3>2, NoTaskAssumption DEF Running
    <3>6. Phase' = Phase /\ Phase \in {"open", "draining"}
      <4>1. task[w] # NoTask
        BY <3>2, NoTaskAssumption
      <4>2. created = NThreads
        BY <4>1, NThreadsAssumption DEF Control, TypeOK, StageInv
      <4>3. pc[Main] # "done"
        BY <4>1, JoinedIdle DEF Control, StageInv
      <4>4. ~failing /\ pc[Main] \notin {"alloc", "spawn", "done", "aborted"}
        BY <4>2, <4>3, NThreadsAssumption DEF Control, StageInv
      <4> QED BY <3>1, <4>4 DEF Phase
    <3>7. ({task[v] : v \in Worker} \ {NoTask})'
            = ({task[v] : v \in Worker} \ {NoTask}) \ {task[w]}
      BY <3>4 DEF Running
    <3>8. \E t \in Task : Abstract!Finish(t)
      BY <3>1, <3>2, <3>5, <3>6, <3>7 DEF Abstract!Finish, Running
    <3> QED BY <3>8, Zenon DEF Abstract!Next
  <2>3. CASE start_pool_lock(w)
    <3>1. UNCHANGED <<queue, task, done>> /\ Phase' = Phase
      BY <1>0, <2>3 DEF Phase, start_pool_lock, Lock, hist
    <3> QED BY <3>1, <1>u
  <2>4. CASE start_pool_wait(w)
    <3>1. UNCHANGED <<queue, task, done>> /\ Phase' = Phase
      BY <1>0, <2>4 DEF Phase, start_pool_wait, hist
    <3> QED BY <3>1, <1>u
  <2>5. CASE start_pool_exit(w)
    <3>1. UNCHANGED <<queue, task, done>> /\ Phase' = Phase
      BY <1>0, <2>5 DEF Phase, start_pool_exit, hist
    <3> QED BY <3>1, <1>u
  <2>6. CASE spurious_wakeup(w)
    <3>1. UNCHANGED <<queue, task, done>> /\ Phase' = Phase
      BY <1>0, <2>6 DEF Phase, spurious_wakeup, hist
    <3> QED BY <3>1, <1>u
  <2> QED BY <1>14, <2>1, <2>2, <2>3, <2>4, <2>5, <2>6 DEF WorkerStep
<1>15. CASE UNCHANGED vars
  <2>1. UNCHANGED <<queue, task, done>> /\ Phase' = Phase
    BY <1>15 DEF vars, hist, Phase
  <2> QED BY <2>1, <1>u
<1> QED BY <1>1, <1>2, <1>3, <1>4, <1>5, <1>6, <1>7, <1>8, <1>9, <1>10, <1>11, <1>12, <1>13, <1>14, <1>15 DEF Next, MainStep, Terminated

(* The pool with its mutex, its condition variable and its join loop       *)
(* implements TaskPool, the pool the server is modelled on.                *)
THEOREM PoolImplementsTaskPool == Spec => PoolSpec
<1>1. Init => Abstract!Init
  <2> SUFFICES ASSUME Init PROVE Abstract!Init
    OBVIOUS
  <2>1. pc[Main] = "alloc" /\ queue = << >> /\ done = {} /\ \A w \in Worker : task[w] = NoTask
    BY ThreadFacts DEF Init
  <2>2. Phase = "new"
    BY <2>1 DEF Phase
  <2> QED BY <2>1, <2>2 DEF Abstract!Init
<1> QED BY <1>1, PoolStep, ControlInvariant, AccountingInvariant, PTL
        DEF Spec, PoolSpec, Abstract!Spec
=============================================================================
