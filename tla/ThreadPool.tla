----------------------------- MODULE ThreadPool -----------------------------
(***************************************************************************)
(* The worker pool of src/src/thread_pool.c: a linked list of work under a *)
(* mutex, a condition variable, and workers that are created one by one    *)
(* and joined when the pool is destroyed.                                  *)
(*                                                                         *)
(* The mutex is held across actions only by a worker that has decided to   *)
(* sleep and has not slept yet: that is the stretch the unlocked store of  *)
(* shutdown in thread_pool_destroy can fall into.  The store is a plain    *)
(* write that nothing orders for the workers, so they may see it before or *)
(* after the broadcast.                                                    *)
(***************************************************************************)
EXTENDS Naturals, Sequences, FiniteSets

CONSTANTS WorkerCount,  \* worker_count
          MaxTasks      \* bound: tasks ever submitted

ASSUME ThreadPoolAssumption == WorkerCount \in Nat \ {0} /\ MaxTasks \in Nat

VARIABLES
    head, tail, next,  \* the list of ThreadPoolWork; NULL is 0
    shutdown,          \* as the workers see it
    worker,            \* where each worker is
    running,           \* the work a worker has popped, or NULL
    mutex,             \* the worker holding the mutex, or 0
    owner,             \* where the thread that creates and destroys the pool is
    created, joined,   \* its loop counters in create and destroy
    broadcast,         \* destroy has broadcast
    submitted,         \* number of tasks thread_pool_submit has accepted
    started,           \* the tasks, in the order the workers popped them
    finished           \* the tasks that have returned

listVars  == <<head, tail, next>>
ownerVars == <<owner, created, joined, broadcast>>
poolVars == <<listVars, shutdown, worker, running, mutex, ownerVars, submitted, started, finished>>

NULL == 0
Workers == 1 .. WorkerCount
Tasks == 1 .. MaxTasks
WorkerStates == {"unborn", "lock", "test", "sleep", "waiting", "run", "exited"}
OwnerStates == {"create", "up", "destroy", "destroyed", "crashed"}

PoolInit ==
    /\ head = NULL /\ tail = NULL
    /\ next = [t \in Tasks |-> NULL]
    /\ shutdown = FALSE
    /\ worker = [w \in Workers |-> "unborn"]
    /\ running = [w \in Workers |-> NULL]
    /\ mutex = NULL
    /\ owner = "create" /\ created = 0 /\ joined = 0 /\ broadcast = FALSE
    /\ submitted = 0
    /\ started = <<>>
    /\ finished = {}

(***************************************************************************)
(* A worker, thread_pool_worker.                                           *)
(***************************************************************************)

(* Takes the mutex: at the top of the loop, or on the way out of the wait. *)
WorkerLock(w) ==
    /\ worker[w] = "lock"
    /\ mutex = NULL
    /\ mutex' = w
    /\ worker' = [worker EXCEPT ![w] = "test"]
    /\ UNCHANGED <<listVars, shutdown, running, ownerVars, submitted, started, finished>>

(* Finds nothing to do: it is going to sleep, with the mutex still held. *)
WorkerWillSleep(w) ==
    /\ worker[w] = "test"
    /\ head = NULL
    /\ ~shutdown
    /\ worker' = [worker EXCEPT ![w] = "sleep"]
    /\ UNCHANGED <<listVars, shutdown, running, mutex, ownerVars, submitted, started, finished>>

(* The wait begins: the mutex is given up and the worker can be woken. *)
WorkerSleep(w) ==
    /\ worker[w] = "sleep"
    /\ worker' = [worker EXCEPT ![w] = "waiting"]
    /\ mutex' = NULL
    /\ UNCHANGED <<listVars, shutdown, running, ownerVars, submitted, started, finished>>

(* A wait may end with no one having woken it. *)
SpuriousWake(w) ==
    /\ worker[w] = "waiting"
    /\ worker' = [worker EXCEPT ![w] = "lock"]
    /\ UNCHANGED <<listVars, shutdown, running, mutex, ownerVars, submitted, started, finished>>

(* Mutant: leaves as soon as the pool shuts down, whatever is queued. *)
WorkerExitEarly(w) ==
    /\ worker[w] = "test"
    /\ shutdown
    /\ worker' = [worker EXCEPT ![w] = "exited"]
    /\ mutex' = NULL
    /\ UNCHANGED <<listVars, shutdown, running, ownerVars, submitted, started, finished>>

WorkerExit(w) ==
    /\ worker[w] = "test"
    /\ shutdown
    /\ head = NULL
    /\ worker' = [worker EXCEPT ![w] = "exited"]
    /\ mutex' = NULL
    /\ UNCHANGED <<listVars, shutdown, running, ownerVars, submitted, started, finished>>

(* Mutant: taking the last work leaves the tail on it. *)
PopKeepsTail ==
    /\ head' = next[head]
    /\ next' = [next EXCEPT ![head] = NULL]
    /\ tail' = tail

(* Mutant: the work is looked at and not unlinked. *)
PopKeepsHead == UNCHANGED listVars

(* thread_pool_pop_locked *)
Pop ==
    /\ head' = next[head]
    /\ tail' = IF next[head] = NULL THEN NULL ELSE tail
    /\ next' = [next EXCEPT ![head] = NULL]

WorkerPop(w) ==
    /\ worker[w] = "test"
    /\ head # NULL
    /\ Pop
    /\ running' = [running EXCEPT ![w] = head]
    /\ worker' = [worker EXCEPT ![w] = "run"]
    /\ mutex' = NULL
    /\ started' = Append(started, head)
    /\ UNCHANGED <<shutdown, ownerVars, submitted, finished>>

(* The task returns and its work is freed. *)
WorkerFinish(w) ==
    /\ worker[w] = "run"
    /\ finished' = finished \cup {running[w]}
    /\ running' = [running EXCEPT ![w] = NULL]
    /\ worker' = [worker EXCEPT ![w] = "lock"]
    /\ UNCHANGED <<listVars, shutdown, mutex, ownerVars, submitted, started>>

(***************************************************************************)
(* thread_pool_submit, one hold of the mutex.                              *)
(***************************************************************************)

(* thread_pool_push_locked *)
Push(t) ==
    /\ head' = IF tail = NULL THEN t ELSE head
    /\ next' = IF tail = NULL THEN [next EXCEPT ![t] = NULL]
               ELSE [next EXCEPT ![t] = NULL, ![tail] = t]
    /\ tail' = t

Waiting == {w \in Workers : worker[w] = "waiting"}

(* Mutant: no signal. *)
SignalNobody == worker' = worker

(* pthread_cond_signal wakes one waiter, if there is any. *)
Signal ==
    IF Waiting = {} THEN worker' = worker
    ELSE \E w \in Waiting : worker' = [worker EXCEPT ![w] = "lock"]

(* The pool is used by other threads while it is up, and by its own tasks  *)
(* for as long as they run: a download that ends starts the next one.      *)
InUse == owner = "up" \/ \E w \in Workers : worker[w] = "run"

Submit ==
    /\ InUse
    /\ submitted < MaxTasks
    /\ mutex = NULL
    /\ ~shutdown
    /\ Push(submitted + 1)
    /\ Signal
    /\ submitted' = submitted + 1
    /\ UNCHANGED <<shutdown, running, mutex, ownerVars, started, finished>>

(***************************************************************************)
(* The owner: thread_pool_create and thread_pool_destroy.                  *)
(***************************************************************************)

CreateWorker ==
    /\ owner = "create"
    /\ created < WorkerCount
    /\ created' = created + 1
    /\ worker' = [worker EXCEPT ![created + 1] = "lock"]
    /\ owner' = IF created + 1 = WorkerCount THEN "up" ELSE "create"
    /\ UNCHANGED <<listVars, shutdown, running, mutex, joined, broadcast, submitted, started,
                   finished>>

(* pthread_create fails, or the pool is to go: thread_pool_destroy. *)
Destroy ==
    /\ owner \in {"create", "up"}
    /\ owner' = "destroy"
    /\ UNCHANGED <<listVars, shutdown, worker, running, mutex, created, joined, broadcast,
                   submitted, started, finished>>

(* pool->shutdown = true, without the mutex, becomes visible. *)
StoreShutdown ==
    /\ owner = "destroy"
    /\ ~shutdown
    /\ shutdown' = TRUE
    /\ UNCHANGED <<listVars, worker, running, mutex, ownerVars, submitted, started, finished>>

WakeAll ==
    worker' = [w \in Workers |-> IF worker[w] = "waiting" THEN "lock" ELSE worker[w]]

Broadcast ==
    /\ owner = "destroy"
    /\ ~broadcast
    /\ broadcast' = TRUE
    /\ WakeAll
    /\ UNCHANGED <<listVars, shutdown, running, mutex, owner, created, joined, submitted,
                   started, finished>>

(* Joins all worker_count threads, the ones pthread_create never started   *)
(* included: joining a thread that does not exist is undefined, and the    *)
(* call returns an error or takes the process down.                        *)
Join ==
    /\ owner = "destroy" /\ shutdown /\ broadcast
    /\ joined < WorkerCount
    /\ worker[joined + 1] \in {"exited", "unborn"}
    /\ \/ joined' = joined + 1 /\ owner' = owner
       \/ worker[joined + 1] = "unborn" /\ owner' = "crashed" /\ joined' = joined
    /\ UNCHANGED <<listVars, shutdown, worker, running, mutex, created, broadcast, submitted,
                   started, finished>>

(* What is left of the list is freed without being run, then the pool. *)
Free ==
    /\ owner = "destroy" /\ shutdown /\ broadcast
    /\ joined = WorkerCount
    /\ owner' = "destroyed"
    /\ head' = NULL /\ tail' = NULL
    /\ UNCHANGED <<next, shutdown, worker, running, mutex, created, joined, broadcast, submitted,
                   started, finished>>
----------------------------------------------------------------------------
PoolWorkerStep(w) ==
    WorkerLock(w) \/ WorkerWillSleep(w) \/ WorkerSleep(w) \/ WorkerExit(w)
        \/ WorkerPop(w) \/ WorkerFinish(w)

OwnerStep == CreateWorker \/ StoreShutdown \/ Broadcast \/ Join \/ Free

PoolNext ==
    \/ \E w \in Workers : PoolWorkerStep(w) \/ SpuriousWake(w)
    \/ Submit
    \/ OwnerStep
    \/ Destroy

(* Every thread runs and every task returns.  The mutex is fair enough for *)
(* a worker that keeps asking for it to get it in the end.  Nothing forces *)
(* a submission, a spurious wake-up or the end of the pool.                *)
PoolFairness ==
    /\ \A w \in Workers : SF_poolVars(WorkerLock(w)) /\ WF_poolVars(PoolWorkerStep(w))
    /\ WF_poolVars(OwnerStep)

PoolSpec == PoolInit /\ [][PoolNext]_poolVars
PoolFairSpec == PoolSpec /\ PoolFairness
----------------------------------------------------------------------------
PoolTypeOK ==
    /\ head \in Tasks \cup {NULL} /\ tail \in Tasks \cup {NULL}
    /\ next \in [Tasks -> Tasks \cup {NULL}]
    /\ shutdown \in BOOLEAN /\ broadcast \in BOOLEAN
    /\ worker \in [Workers -> WorkerStates]
    /\ running \in [Workers -> Tasks \cup {NULL}]
    /\ mutex \in Workers \cup {NULL}
    /\ owner \in OwnerStates
    /\ created \in 0 .. WorkerCount /\ joined \in 0 .. WorkerCount
    /\ submitted \in 0 .. MaxTasks
    /\ started \in Seq(Tasks)
    /\ finished \subseteq Tasks

Freed == owner = "destroyed"

(* The list and the workers together start every accepted task once, in    *)
(* the order of submission: the list is at any moment exactly the accepted *)
(* tasks not yet started, and its tail is the last of them.                *)
Fifo ==
    LET k == Len(started)
    IN /\ k <= submitted
       /\ \A i \in 1 .. k : started[i] = i
       /\ ~Freed => /\ head = IF k < submitted THEN k + 1 ELSE NULL
                    /\ tail = IF k < submitted THEN submitted ELSE NULL
       /\ \A i \in k + 1 .. submitted : next[i] = IF i < submitted THEN i + 1 ELSE NULL

(* A started task is running on one worker or has returned, never both. *)
RunsOnce ==
    /\ finished \subseteq 1 .. Len(started)
    /\ \A w \in Workers : worker[w] = "run" => running[w] \in 1 .. Len(started)
    /\ \A w \in Workers : worker[w] = "run" => running[w] \notin finished
    /\ \A v, w \in Workers :
          worker[v] = "run" /\ worker[w] = "run" /\ running[v] = running[w] => v = w
    /\ \A t \in 1 .. Len(started) :
          t \in finished \/ \E w \in Workers : worker[w] = "run" /\ running[w] = t

(* No submission's wake-up is lost: while there is work in the list, a     *)
(* worker is up and will look at it.                                       *)
WorkIsNoticed ==
    head # NULL => \E w \in Workers : worker[w] \in {"lock", "test", "run"}

(* Destroying a pool runs everything it accepted: no task is thrown away   *)
(* with the list, and no worker outlives the pool.                         *)
NothingDropped ==
    Freed => /\ \A t \in 1 .. submitted : t \in finished
             /\ \A w \in Workers : worker[w] \in {"exited", "unborn"}

(* Every accepted task is run to its end, also when the pool is being      *)
(* destroyed.                                                              *)
TasksFinish == \A t \in Tasks : t <= submitted ~> t \in finished
----------------------------------------------------------------------------
(***************************************************************************)
(* The inductive invariant behind the safety properties.                   *)
(***************************************************************************)

(* Who holds the mutex, who exists, and how far the owner is. *)
PoolControlInv ==
    /\ \A w \in Workers : mutex = w <=> worker[w] \in {"test", "sleep"}
    /\ \A w \in Workers : w > created <=> worker[w] = "unborn"
    /\ \A w \in Workers : worker[w] = "exited" => shutdown
    /\ \A w \in 1 .. joined : worker[w] \in {"exited", "unborn"}
    /\ owner = "create" => created < WorkerCount
    /\ owner = "up" => created = WorkerCount
    /\ owner \in {"create", "up"} => ~shutdown /\ joined = 0
    /\ created < WorkerCount => submitted = 0
    /\ Freed => joined = WorkerCount

PoolIInv ==
    PoolTypeOK /\ PoolControlInv /\ Fifo /\ RunsOnce /\ WorkIsNoticed /\ NothingDropped
=============================================================================
