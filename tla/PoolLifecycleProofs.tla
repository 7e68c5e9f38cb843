-------------------------- MODULE PoolLifecycleProofs --------------------------
(* Theorems about PoolLifecycle, for any number of threads and of pools.   *)
EXTENDS PoolLifecycle, TLAPS

(* The pool has at least one thread to create. *)
LEMMA ThreadsPositive == threadsN \in Nat \ {0}
BY LifecycleAssumption DEF threadsN

(* The semaphore counts the posts of thpool_destory that nobody has taken: *)
(* none before it is called, and at most one per turn of its loop.         *)
PostsCounted ==
  /\ main \in {"create", "open"} => sem = 0
  /\ main = "wake" => sem < t

(* While thpool_init and thpool_destory are at work on a pool without a    *)
(* failed thread its memory is live; thpool_destory leaves its join loop   *)
(* when each worker has ended, and between two pools there is no worker.   *)
MemoryHeld ==
  ~failed =>
    /\ main \in {"create", "open", "wake", "join"} => heap = "live"
    /\ main = "join" => \A i \in Slots : i < t => worker[i] = "ended"
    /\ main = "out" => \A i \in Slots : worker[i] \in {"none", "ended"}
    /\ main # "aborted"

LifecycleInv == TypeOK /\ PostsCounted /\ MemoryHeld

(* The state before thpool_init satisfies the invariant. *)
LEMMA InitLifecycle == Init => LifecycleInv
<1> SUFFICES ASSUME Init PROVE LifecycleInv
  OBVIOUS
<1>1. /\ t \in 1..threadsN + 1 /\ pools \in 0..MaxPools /\ sem \in 0..threadsN
      /\ worker \in [Slots -> {"none", "loop", "wait", "test", "ended"}]
  BY ThreadsPositive, LifecycleAssumption DEF Init
<1>2. TypeOK
  BY <1>1 DEF Init, TypeOK
<1>3. PostsCounted /\ MemoryHeld
  BY DEF Init, PostsCounted, MemoryHeld
<1> QED
  BY <1>2, <1>3 DEF LifecycleInv

(* Types and the semaphore's count stand together: sem stays within the    *)
(* number of threads because the posts are counted by t.                   *)
LEMMA NextTyped ==
  ASSUME LifecycleInv, [Next]_vars
  PROVE  TypeOK' /\ PostsCounted'
<1> USE ThreadsPositive DEF LifecycleInv, TypeOK, PostsCounted, Slots
<1>1. CASE InitPool
  <2>1. pools' \in 0..MaxPools /\ t' \in 1..threadsN + 1 /\ sem' \in 0..threadsN
    BY <1>1, LifecycleAssumption DEF InitPool
  <2> QED
    BY <1>1, <2>1 DEF InitPool
<1>2. CASE Destory
  <2>1. sem = 0 /\ sem' = 0 /\ t' = 1 /\ t' \in 1..threadsN + 1
    BY <1>2 DEF Destory
  <2>2. PostsCounted'
    BY <1>2, <2>1 DEF Destory
  <2>3. main' = "wake" /\ keepalive' = FALSE /\ UNCHANGED <<pools, heap, failed, returned, worker>>
    BY <1>2 DEF Destory
  <2> QED
    BY <2>1, <2>2, <2>3
<1>3. CASE Create
  BY <1>3 DEF Create
<1>4. CASE CreateFails
  BY <1>4 DEF CreateFails
<1>5. CASE InitReturns
  BY <1>5 DEF InitReturns
<1>6. CASE DestoryPost
  BY <1>6 DEF DestoryPost
<1>7. CASE DestoryPosted
  BY <1>7 DEF DestoryPosted
<1>8. CASE DestoryJoin
  BY <1>8 DEF DestoryJoin
<1>9. CASE DestoryFree
  BY <1>9 DEF DestoryFree
<1>10. ASSUME NEW i \in Slots, WorkerStep(i)
       PROVE  TypeOK' /\ PostsCounted'
  BY <1>10 DEF WorkerStep, LoopTest, SemWait, KeepaliveTest
<1>11. CASE UNCHANGED vars \/ Stop
  BY <1>11 DEF vars, Stop
<1> QED
  BY <1>1, <1>2, <1>3, <1>4, <1>5, <1>6, <1>7, <1>8, <1>9, <1>10, <1>11
  DEF Next, CallerStep

(* Only the join loop lets thpool_destory get to its free, and it passes   *)
(* a worker only when that has ended.                                      *)
LEMMA NextMemoryHeld ==
  ASSUME LifecycleInv, [Next]_vars
  PROVE  MemoryHeld'
<1> USE ThreadsPositive DEF LifecycleInv, TypeOK, MemoryHeld, Slots
<1>1. CASE InitPool \/ Destory
  BY <1>1 DEF InitPool, Destory
<1>2. CASE Create \/ CreateFails \/ InitReturns
  BY <1>2 DEF Create, CreateFails, InitReturns
<1>3. CASE DestoryPost \/ DestoryPosted
  BY <1>3 DEF DestoryPost, DestoryPosted
<1>4. CASE DestoryJoin
  BY <1>4 DEF DestoryJoin
<1>5. CASE DestoryFree
  <2>1. \A i \in Slots : i < t
    BY <1>5 DEF DestoryFree
  <2> QED
    BY <1>5, <2>1 DEF DestoryFree
<1>6. ASSUME NEW i \in Slots, WorkerStep(i)
      PROVE  MemoryHeld'
  BY <1>6 DEF WorkerStep, LoopTest, SemWait, KeepaliveTest
<1>7. CASE UNCHANGED vars \/ Stop
  BY <1>7 DEF vars, Stop
<1> QED
  BY <1>1, <1>2, <1>3, <1>4, <1>5, <1>6, <1>7 DEF Next, CallerStep

(* The invariant holds of every reachable state. *)
LEMMA LifecycleInductive == Spec => []LifecycleInv
<1>1. LifecycleInv /\ [Next]_vars => LifecycleInv'
  BY NextTyped, NextMemoryHeld DEF LifecycleInv
<1> QED
  BY <1>1, InitLifecycle, PTL DEF Spec

(* Every variable of the pool's life keeps its type, however many threads  *)
(* and pools: in particular no post overruns the semaphore's range.        *)
THEOREM LifecycleTypeCorrect == Spec => []TypeOK
<1>1. LifecycleInv => TypeOK
  BY DEF LifecycleInv
<1> QED
  BY <1>1, LifecycleInductive, PTL

(* thpool_destory frees a pool all of whose threads were started only      *)
(* after each of them has left its loop (thread_pool.c:139-146).           *)
THEOREM MemoryOutlivesWorkers == Spec => []FreedAfterWorkers
<1>1. LifecycleInv => FreedAfterWorkers
  BY DEF LifecycleInv, TypeOK, MemoryHeld, FreedAfterWorkers
<1> QED
  BY <1>1, LifecycleInductive, PTL

=============================================================================
