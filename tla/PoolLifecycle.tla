---------------------------- MODULE PoolLifecycle ----------------------------
(***************************************************************************)
(* The life of a pool of src/src/thread_pool.c: thpool_init with threads   *)
(* that may fail to start, its workers while they have no job, and         *)
(* thpool_destory, for a caller that makes one pool after another.  Jobs   *)
(* are ThreadPool's subject; here workers only wait and end.               *)
(***************************************************************************)
EXTENDS Integers

CONSTANTS
  ThreadNum,  \* the argument of thpool_init (thread_num of the configuration)
  MaxPools    \* pools the caller makes in a row

ASSUME LifecycleAssumption == ThreadNum \in Int /\ MaxPools \in Nat

(* thpool_init makes one thread when it is asked for none. *)
threadsN == IF ThreadNum < 1 THEN 1 ELSE ThreadNum
Slots == 1..threadsN

VARIABLES
  main,       \* the caller: "out", "create", "open", "wake", "join", "aborted"
  t,          \* the loop counter of thpool_init and thpool_destory
  pools,      \* pools made so far
  heap,       \* the current pool's memory: "none", "live" or "freed"
  failed,     \* a pthread_create of the current pool has failed
  returned,   \* what thpool_init returned: "nothing" yet, or "pool"
  keepalive,  \* thpool_keepalive: one variable for all pools, initially 1
  sem,        \* the current pool's queueSem
  worker      \* each thread of the current pool: "none", "loop", "wait", "test", "ended"

vars == <<main, t, pools, heap, failed, returned, keepalive, sem, worker>>

Init ==
  /\ main = "out" /\ t = 1 /\ pools = 0
  /\ heap = "none" /\ failed = FALSE /\ returned = "nothing"
  /\ keepalive = TRUE /\ sem = 0
  /\ worker = [i \in Slots |-> "none"]

(* thpool_init up to its loop: it does not set thpool_keepalive. *)
InitPool ==
  /\ main = "out" /\ pools < MaxPools
  /\ main' = "create" /\ t' = 1 /\ pools' = pools + 1
  /\ heap' = "live" /\ failed' = FALSE /\ returned' = "nothing" /\ sem' = 0
  /\ worker' = [i \in Slots |-> "none"]
  /\ UNCHANGED keepalive

Create ==
  /\ main = "create" /\ t <= threadsN
  /\ worker' = [worker EXCEPT ![t] = "loop"]
  /\ t' = t + 1
  /\ UNCHANGED <<main, pools, heap, failed, returned, keepalive, sem>>

(* pthread_create fails: the pool is freed, and the loop goes on.  A       *)
(* second failure frees it again, which malloc may or may not notice.      *)
CreateFails ==
  /\ main = "create" /\ t <= threadsN
  /\ failed' = TRUE
  /\ heap' = "freed"
  /\ t' = t + 1
  /\ \/ UNCHANGED main
     \/ heap = "freed" /\ main' = "aborted"
  /\ UNCHANGED <<pools, returned, keepalive, sem, worker>>

(* return tp_p *)
InitReturns ==
  /\ main = "create" /\ t > threadsN
  /\ returned' = "pool"
  /\ main' = "open"
  /\ UNCHANGED <<t, pools, heap, failed, keepalive, sem, worker>>

-----------------------------------------------------------------------------

(* Test, then the wait: the next step reads tp_p->jobqueue->queueSem. *)
LoopTest(i) ==
  /\ worker[i] = "loop"
  /\ worker' = [worker EXCEPT ![i] = IF keepalive THEN "wait" ELSE "ended"]
  /\ UNCHANGED <<main, t, pools, heap, failed, returned, keepalive, sem>>

SemWait(i) ==
  /\ worker[i] = "wait" /\ sem > 0
  /\ sem' = sem - 1
  /\ worker' = [worker EXCEPT ![i] = "test"]
  /\ UNCHANGED <<main, t, pools, heap, failed, returned, keepalive>>

KeepaliveTest(i) ==
  /\ worker[i] = "test" /\ ~keepalive
  /\ worker' = [worker EXCEPT ![i] = "ended"]
  /\ UNCHANGED <<main, t, pools, heap, failed, returned, keepalive, sem>>

-----------------------------------------------------------------------------

Destory ==
  /\ main = "open" /\ heap = "live"
  /\ keepalive' = FALSE
  /\ main' = "wake" /\ t' = 1
  /\ UNCHANGED <<pools, heap, failed, returned, sem, worker>>

(* Goes once more around the loop: t <= threadsN in the code's counting. *)
DestoryPost_OneMore ==
  /\ main = "wake" /\ t <= threadsN + 1
  /\ sem' = sem + 1
  /\ t' = t + 1
  /\ UNCHANGED <<main, pools, heap, failed, returned, keepalive, worker>>

DestoryPost ==
  /\ main = "wake" /\ t <= threadsN
  /\ sem' = sem + 1
  /\ t' = t + 1
  /\ UNCHANGED <<main, pools, heap, failed, returned, keepalive, worker>>

(* Stops posting one short. *)
DestoryPosted_OneShort ==
  /\ main = "wake" /\ t >= threadsN
  /\ main' = "join" /\ t' = 1
  /\ UNCHANGED <<pools, heap, failed, returned, keepalive, sem, worker>>

(* sem_destroy, which does nothing in glibc. *)
DestoryPosted ==
  /\ main = "wake" /\ t > threadsN
  /\ main' = "join" /\ t' = 1
  /\ UNCHANGED <<pools, heap, failed, returned, keepalive, sem, worker>>

(* Joins all but the last thread. *)
DestoryJoin_OneShort ==
  /\ main = "join" /\ t <= threadsN
  /\ t = threadsN \/ worker[t] = "ended"
  /\ t' = t + 1
  /\ UNCHANGED <<main, pools, heap, failed, returned, keepalive, sem, worker>>

(* pthread_join of the threads in turn. *)
DestoryJoin ==
  /\ main = "join" /\ t <= threadsN
  /\ worker[t] = "ended"
  /\ t' = t + 1
  /\ UNCHANGED <<main, pools, heap, failed, returned, keepalive, sem, worker>>

DestoryFree ==
  /\ main = "join" /\ t > threadsN
  /\ heap' = "freed"
  /\ main' = "out"
  /\ UNCHANGED <<t, pools, failed, returned, keepalive, sem, worker>>

-----------------------------------------------------------------------------

CallerStep ==
  \/ Create \/ CreateFails \/ InitReturns
  \/ DestoryPost \/ DestoryPosted \/ DestoryJoin \/ DestoryFree

WorkerStep(i) == LoopTest(i) \/ SemWait(i) \/ KeepaliveTest(i)

(* The caller may keep a pool, or make no other. *)
Stop ==
  /\ main \in {"out", "open", "aborted"}
  /\ UNCHANGED vars

Next ==
  \/ InitPool \/ Destory \/ CallerStep
  \/ \E i \in Slots : WorkerStep(i)
  \/ Stop

Spec == Init /\ [][Next]_vars

(* Threads that can run do run; the caller need not make or destroy pools. *)
FairSpec ==
  Spec /\ WF_vars(CallerStep) /\ \A i \in Slots : WF_vars(WorkerStep(i))

-----------------------------------------------------------------------------

TypeOK ==
  /\ main \in {"out", "create", "open", "wake", "join", "aborted"}
  /\ t \in 1..threadsN + 1 /\ pools \in 0..MaxPools
  /\ heap \in {"none", "live", "freed"} /\ failed \in BOOLEAN
  /\ returned \in {"nothing", "pool"} /\ keepalive \in BOOLEAN
  /\ sem \in 0..threadsN
  /\ worker \in [Slots -> {"none", "loop", "wait", "test", "ended"}]

(* When every thread could be started, no worker outlives its pool: one    *)
(* that has still to touch the semaphore or is in its loop keeps the       *)
(* memory it reads from being freed by thpool_destory.                     *)
FreedAfterWorkers ==
  ~failed => \A i \in Slots :
    worker[i] \in {"loop", "wait", "test"} => heap = "live"

(* thpool_destory returns, on the first pool and on those made after it,   *)
(* whose workers see thpool_keepalive cleared before they ever wait.       *)
DestoryReturns == main = "wake" ~> main = "out"

(* thread_pool.h:44: thpool_init returns null on an error. *)
InitErrorReturnsNull == failed => returned # "pool"

=============================================================================
