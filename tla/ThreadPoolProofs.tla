--------------------------- MODULE ThreadPoolProofs ---------------------------
(***************************************************************************)
(* Proofs about ThreadPool, for any finite set of workers and any heap:    *)
(* IInv is an inductive invariant, from which type correctness, the shape  *)
(* of the job list, the semaphore's count, the ownership of the job cells  *)
(* and the safety of the unchecked peek follow.                            *)
(***************************************************************************)
EXTENDS ThreadPool, FiniteSetTheorems, SequenceTheorems, TLAPS

-----------------------------------------------------------------------------
(* What holds of the constants, of sequences and of counts.                *)

(* What the assumption on the constants says, in the form the steps use. *)
LEMMA Distinct ==
  /\ Owner \notin Workers /\ NULL \notin Workers /\ NULL # Owner
  /\ NULL \notin Addr /\ NULL \notin Args
  /\ threadsN \in Nat
BY ConstantsAssumption, FS_CardinalityType DEF threadsN

(* Append adds its cell behind the others. *)
LEMMA AppendOrder ==
  ASSUME NEW s \in Seq(Addr), NEW a \in Addr
  PROVE  /\ Append(s, a) \in Seq(Addr)
         /\ Append(s, a) # <<>>
         /\ Len(Append(s, a)) = Len(s) + 1
         /\ Len(s) \in Nat
         /\ \A i \in 1..Len(s) : Append(s, a)[i] = s[i]
         /\ Append(s, a)[Len(s) + 1] = a
OBVIOUS

(* Tail drops the oldest cell and moves the others up. *)
LEMMA TailOrder ==
  ASSUME NEW s \in Seq(Addr), s # <<>>
  PROVE  /\ Tail(s) \in Seq(Addr)
         /\ Len(s) \in Nat /\ Len(s) > 0
         /\ Len(Tail(s)) = Len(s) - 1
         /\ \A i \in 1..Len(s) - 1 : Tail(s)[i] = s[i + 1]
         /\ Tail(s) = <<>> <=> Len(s) = 1
<1>1. Len(s) \in Nat /\ Len(s) > 0
  OBVIOUS
<1>2. Tail(s) \in Seq(Addr) /\ Len(Tail(s)) = Len(s) - 1
  BY <1>1
<1>3. \A i \in 1..Len(s) - 1 : Tail(s)[i] = s[i + 1]
  BY <1>1
<1> QED BY <1>1, <1>2, <1>3

(* A sequence of cells is empty exactly when its length is 0. *)
LEMMA EmptyOrder ==
  ASSUME NEW s \in Seq(Addr)
  PROVE  /\ Len(s) \in Nat
         /\ s = <<>> <=> Len(s) = 0
         /\ \A i \in 1..Len(s) : s[i] \in Addr
OBVIOUS

-----------------------------------------------------------------------------

(* What the queue's shape says of its end: tail is a cell when there is a  *)
(* job, and NULL when there is none.                                       *)
LEMMA TailIsOldest ==
  ASSUME TypeOK, QueueIsList
  PROVE  /\ jobsN = Len(order)
         /\ jobsN = 0 <=> order = <<>>
         /\ jobsN = 0 => tail = NULL
         /\ jobsN # 0 => tail \in Addr /\ tail = order[1] /\ tail \in Queued
BY EmptyOrder DEF TypeOK, QueueIsList, Queued

(* A worker that is about to peek has a claim on a job, so there is one.   *)
LEMMA ClaimedHasJob ==
  ASSUME TypeOK, QueueIsList, ClaimsCovered, NEW w \in Claimed
  PROVE  jobsN # 0 /\ tail \in Addr
<1>1. IsFiniteSet(Claimed)
  BY ConstantsAssumption, FS_Subset DEF Claimed
<1>2. Cardinality(Claimed) # 0 /\ Cardinality(Claimed) \in Nat
  BY <1>1, FS_EmptySet, FS_CardinalityType
<1> QED BY <1>2, TailIsOldest DEF ClaimsCovered, TypeOK

(* The state thpool_init leaves is well typed. *)
LEMMA InitTypeOK == Init => TypeOK
BY Distinct DEF Init, TypeOK, Cells, OwnerLabels, WorkerLabels

(* No step of the owner or of a worker breaks a type. *)
LEMMA NextTypeOK ==
  ASSUME TypeOK, QueueIsList, ClaimsCovered, SemCountsJobs, Control, [Next]_vars
  PROVE  TypeOK'
<1> USE Distinct DEF TypeOK, Cells
<1>1. CASE \E x \in Args : AddWork(x)
  BY <1>1 DEF AddWork, queueVars, syncVars, workVars, OwnerLabels
<1>2. CASE AddWorkFails
  BY <1>2 DEF AddWorkFails, queueVars, heapVars, syncVars, OwnerLabels, WorkerLabels
<1>3. CASE Destory
  BY <1>3 DEF Destory, queueVars, heapVars, workVars, OwnerLabels
<1>4. CASE OwnerLock
  BY <1>4 DEF OwnerLock, queueVars, heapVars, workVars, OwnerLabels
<1>5. CASE JobqueueAdd
  <2>1. newjob \in Addr
    BY <1>5 DEF JobqueueAdd, Control
  <2>2. order' \in Seq(Addr) /\ jobsN' \in Nat
    BY <1>5, <2>1, AppendOrder DEF JobqueueAdd
  <2>3. next' \in [Addr -> Cells] /\ prev' \in [Addr -> Cells] /\ tail' \in Cells
    <3>1. CASE jobsN = 0
      BY <1>5, <2>1, <3>1 DEF JobqueueAdd
    <3>2. CASE jobsN # 0
      <4> DEFINE prev1 == [prev EXCEPT ![newjob] = NULL]
      <4>1. prev1 \in [Addr -> Cells]
        BY <2>1
      <4>2. [prev1 EXCEPT ![head] = newjob] \in [Addr -> Cells]
        <5> HIDE DEF prev1
        <5> QED BY <2>1, <4>1
      <4>3. prev' = [prev1 EXCEPT ![head] = newjob]
        BY <1>5, <3>2 DEF JobqueueAdd
      <4>4. next' \in [Addr -> Cells] /\ tail' \in Cells
        BY <1>5, <3>2 DEF JobqueueAdd
      <4> QED BY <4>2, <4>3, <4>4
    <3> QED BY <3>1, <3>2
  <2> QED
    BY <1>5, <2>2, <2>3 DEF JobqueueAdd, heapVars, syncVars, workVars, OwnerLabels
<1>6. CASE JobqueueAddPost
  BY <1>6 DEF JobqueueAddPost, queueVars, heapVars, workVars, OwnerLabels
<1>7. CASE OwnerUnlock
  BY <1>7 DEF OwnerUnlock, queueVars, heapVars, workVars, OwnerLabels
<1>8. CASE DestoryPost
  BY <1>8 DEF DestoryPost, queueVars, heapVars, workVars
<1>9. CASE DestorySemDestroy
  BY <1>9 DEF DestorySemDestroy, queueVars, heapVars, syncVars, workVars, OwnerLabels
<1>10. CASE DestoryJoin
  BY <1>10 DEF DestoryJoin, queueVars, heapVars, syncVars, workVars, OwnerLabels
<1>11. CASE JobqueueEmptyStep
  BY <1>11, TailIsOldest, TailOrder
  DEF JobqueueEmptyStep, Free, syncVars, ownerVars, workVars
<1>12. CASE JobqueueEmptied
  BY <1>12 DEF JobqueueEmptied, heapVars, syncVars, workVars, OwnerLabels
<1>13. ASSUME NEW w \in Workers, WorkerStep(w)
       PROVE  TypeOK'
  <2>1. CASE LoopTest(w)
    BY <2>1 DEF LoopTest, Goto, queueVars, heapVars, syncVars, ownerVars, WorkerLabels
  <2>2. CASE SemWait(w)
    BY <2>2 DEF SemWait, Goto, queueVars, heapVars, ownerVars, WorkerLabels
  <2>3. CASE KeepaliveTest(w)
    BY <2>3 DEF KeepaliveTest, Goto, queueVars, heapVars, syncVars, ownerVars, WorkerLabels
  <2>4. CASE WorkerLock(w)
    BY <2>4 DEF WorkerLock, Goto, queueVars, heapVars, ownerVars, WorkerLabels
  <2>5. CASE Peek(w)
    <3>1. tail \in Addr
      BY <2>5, ClaimedHasJob DEF Peek, Claimed
    <3> QED
      BY <2>5, <3>1 DEF Peek, Goto, queueVars, heapVars, syncVars, ownerVars, WorkerLabels
  <2>6. CASE JobqueueRemovelast(w)
    <3>1. pc' \in [Workers -> WorkerLabels]
      BY <2>6 DEF JobqueueRemovelast, Goto, WorkerLabels
    <3>2. CASE jobsN = 0
      BY <2>6, <3>1, <3>2 DEF JobqueueRemovelast, queueVars, heapVars, syncVars, ownerVars
    <3>3. CASE jobsN # 0
      <4>1. tail \in Addr /\ order # <<>>
        BY <3>3, TailIsOldest
      <4>2. order' \in Seq(Addr)
        BY <2>6, <3>3, <4>1, TailOrder DEF JobqueueRemovelast
      <4>3. next' \in [Addr -> Cells] /\ head' \in Cells /\ tail' \in Cells
        BY <2>6, <3>3, <4>1 DEF JobqueueRemovelast
      <4> QED
        BY <2>6, <3>1, <3>3, <4>2, <4>3
        DEF JobqueueRemovelast, heapVars, syncVars, ownerVars
    <3> QED BY <3>2, <3>3
  <2>7. CASE WorkerUnlock(w)
    BY <2>7 DEF WorkerUnlock, Goto, queueVars, heapVars, ownerVars, WorkerLabels
  <2>8. CASE JobReturns(w)
    BY <2>8 DEF JobReturns, Goto, queueVars, heapVars, syncVars, ownerVars, WorkerLabels
  <2>9. CASE FreeJob(w)
    BY <2>9 DEF FreeJob, Free, Goto, queueVars, syncVars, ownerVars, WorkerLabels
  <2> QED BY <1>13, <2>1, <2>2, <2>3, <2>4, <2>5, <2>6, <2>7, <2>8, <2>9 DEF WorkerStep
<1>14. CASE UNCHANGED vars
  BY <1>14 DEF vars, queueVars, heapVars, syncVars, ownerVars, workVars
<1> QED
  BY <1>1, <1>2, <1>3, <1>4, <1>5, <1>6, <1>7, <1>8, <1>9, <1>10, <1>11, <1>12,
     <1>13, <1>14 DEF Next, OwnerStep, Terminated

-----------------------------------------------------------------------------
(* The queue is touched by the holder of the mutex only.                   *)

(* At the start nobody is inside the critical section. *)
LEMMA InitMutexHeld == Init => MutexHeld
BY DEF Init, MutexHeld

(* The mutex keeps the owner and the workers apart at every step. *)
LEMMA NextMutexHeld ==
  ASSUME TypeOK, MutexHeld, [Next]_vars
  PROVE  MutexHeld'
<1> USE Distinct DEF TypeOK, MutexHeld
<1>1. CASE \E x \in Args : AddWork(x)
  BY <1>1 DEF AddWork, queueVars, syncVars, workVars
<1>2. CASE AddWorkFails
  BY <1>2 DEF AddWorkFails, queueVars, heapVars, syncVars
<1>3. CASE Destory
  BY <1>3 DEF Destory, queueVars, heapVars, workVars
<1>4. CASE OwnerLock
  BY <1>4 DEF OwnerLock, queueVars, heapVars, workVars
<1>5. CASE JobqueueAdd
  BY <1>5 DEF JobqueueAdd, heapVars, syncVars, workVars
<1>6. CASE JobqueueAddPost
  BY <1>6 DEF JobqueueAddPost, queueVars, heapVars, workVars
<1>7. CASE OwnerUnlock
  BY <1>7 DEF OwnerUnlock, queueVars, heapVars, workVars
<1>8. CASE DestoryPost
  BY <1>8 DEF DestoryPost, queueVars, heapVars, workVars
<1>9. CASE DestorySemDestroy
  BY <1>9 DEF DestorySemDestroy, queueVars, heapVars, syncVars, workVars
<1>10. CASE DestoryJoin
  BY <1>10 DEF DestoryJoin, queueVars, heapVars, syncVars, workVars
<1>11. CASE JobqueueEmptyStep
  BY <1>11 DEF JobqueueEmptyStep, Free, syncVars, ownerVars, workVars
<1>12. CASE JobqueueEmptied
  BY <1>12 DEF JobqueueEmptied, heapVars, syncVars, workVars
<1>13. ASSUME NEW w \in Workers, WorkerStep(w)
       PROVE  MutexHeld'
  <2>1. CASE LoopTest(w)
    BY <2>1 DEF LoopTest, Goto, queueVars, heapVars, syncVars, ownerVars
  <2>2. CASE SemWait(w)
    BY <2>2 DEF SemWait, Goto, queueVars, heapVars, ownerVars
  <2>3. CASE KeepaliveTest(w)
    BY <2>3 DEF KeepaliveTest, Goto, queueVars, heapVars, syncVars, ownerVars
  <2>4. CASE WorkerLock(w)
    BY <2>4 DEF WorkerLock, Goto, queueVars, heapVars, ownerVars
  <2>5. CASE Peek(w)
    BY <2>5 DEF Peek, Goto, queueVars, heapVars, syncVars, ownerVars
  <2>6. CASE JobqueueRemovelast(w)
    BY <2>6 DEF JobqueueRemovelast, Goto, queueVars, heapVars, syncVars, ownerVars
  <2>7. CASE WorkerUnlock(w)
    BY <2>7 DEF WorkerUnlock, Goto, queueVars, heapVars, ownerVars
  <2>8. CASE JobReturns(w)
    BY <2>8 DEF JobReturns, Goto, queueVars, heapVars, syncVars, ownerVars
  <2>9. CASE FreeJob(w)
    BY <2>9 DEF FreeJob, Goto, Free, queueVars, syncVars, ownerVars
  <2> QED BY <1>13, <2>1, <2>2, <2>3, <2>4, <2>5, <2>6, <2>7, <2>8, <2>9 DEF WorkerStep
<1>14. CASE UNCHANGED vars
  BY <1>14 DEF vars, queueVars, heapVars, syncVars, ownerVars, workVars
<1> QED
  BY <1>1, <1>2, <1>3, <1>4, <1>5, <1>6, <1>7, <1>8, <1>9, <1>10, <1>11, <1>12,
     <1>13, <1>14 DEF Next, OwnerStep, Terminated

-----------------------------------------------------------------------------
(* The program counters say what newjob, job_p and the flag hold.          *)

(* At the start the program counters, newjob and job_p agree. *)
LEMMA InitControl == Init => Control
BY DEF Init, Control

(* Every step keeps the program counters, newjob, job_p and the flag in    *)
(* agreement.                                                              *)
LEMMA NextControl ==
  ASSUME TypeOK, MutexHeld, QueueIsList, ClaimsCovered, Control, [Next]_vars
  PROVE  Control'
<1> USE Distinct DEF TypeOK, MutexHeld, Control
<1>1. CASE \E x \in Args : AddWork(x)
  BY <1>1, Distinct DEF AddWork, queueVars, syncVars, workVars
<1>2. CASE AddWorkFails
  BY <1>2 DEF AddWorkFails, queueVars, heapVars, syncVars
<1>3. CASE Destory
  BY <1>3 DEF Destory, queueVars, heapVars, workVars
<1>4. CASE OwnerLock
  BY <1>4 DEF OwnerLock, queueVars, heapVars, workVars
<1>5. CASE JobqueueAdd
  BY <1>5 DEF JobqueueAdd, heapVars, syncVars, workVars
<1>6. CASE JobqueueAddPost
  BY <1>6 DEF JobqueueAddPost, queueVars, heapVars, workVars
<1>7. CASE OwnerUnlock
  BY <1>7 DEF OwnerUnlock, queueVars, heapVars, workVars
<1>8. CASE DestoryPost
  BY <1>8 DEF DestoryPost, queueVars, heapVars, workVars
<1>9. CASE DestorySemDestroy
  BY <1>9 DEF DestorySemDestroy, queueVars, heapVars, syncVars, workVars
<1>10. CASE DestoryJoin
  BY <1>10 DEF DestoryJoin, queueVars, heapVars, syncVars, workVars
<1>11. CASE JobqueueEmptyStep
  BY <1>11 DEF JobqueueEmptyStep, Free, syncVars, ownerVars, workVars
<1>12. CASE JobqueueEmptied
  BY <1>12 DEF JobqueueEmptied, heapVars, syncVars, workVars
<1>13. ASSUME NEW w \in Workers, WorkerStep(w)
       PROVE  Control'
  <2>1. CASE LoopTest(w)
    BY <2>1 DEF LoopTest, Goto, queueVars, heapVars, syncVars, ownerVars
  <2>2. CASE SemWait(w)
    BY <2>2 DEF SemWait, Goto, queueVars, heapVars, ownerVars
  <2>3. CASE KeepaliveTest(w)
    BY <2>3 DEF KeepaliveTest, Goto, queueVars, heapVars, syncVars, ownerVars
  <2>4. CASE WorkerLock(w)
    BY <2>4 DEF WorkerLock, Goto, queueVars, heapVars, ownerVars
  <2>5. CASE Peek(w)
    <3>1. tail \in Addr
      BY <2>5, ClaimedHasJob DEF Peek, Claimed
    <3> QED BY <2>5, <3>1 DEF Peek, Goto, queueVars, heapVars, syncVars, ownerVars
  <2>6. CASE JobqueueRemovelast(w)
    BY <2>6 DEF JobqueueRemovelast, Goto, queueVars, heapVars, syncVars, ownerVars
  <2>7. CASE WorkerUnlock(w)
    BY <2>7 DEF WorkerUnlock, Goto, queueVars, heapVars, ownerVars
  <2>8. CASE JobReturns(w)
    BY <2>8 DEF JobReturns, Goto, queueVars, heapVars, syncVars, ownerVars
  <2>9. CASE FreeJob(w)
    BY <2>9 DEF FreeJob, Goto, Free, queueVars, syncVars, ownerVars
  <2> QED BY <1>13, <2>1, <2>2, <2>3, <2>4, <2>5, <2>6, <2>7, <2>8, <2>9 DEF WorkerStep
<1>14. CASE UNCHANGED vars
  BY <1>14 DEF vars, queueVars, heapVars, syncVars, ownerVars, workVars
<1> QED
  BY <1>1, <1>2, <1>3, <1>4, <1>5, <1>6, <1>7, <1>8, <1>9, <1>10, <1>11, <1>12,
     <1>13, <1>14 DEF Next, OwnerStep, Terminated

-----------------------------------------------------------------------------
(* The list keeps its shape: a cell added at the head is not in the list   *)
(* yet, and the cell removed at the tail is the oldest.                    *)

(* The empty queue is a well-formed list. *)
LEMMA InitQueueIsList == Init => QueueIsList
BY DEF Init, QueueIsList

(* thpool_jobqueue_add puts its cell at the head of a well-formed list. *)
LEMMA AddKeepsList ==
  ASSUME TypeOK, Control, QueueIsList, JobOwnership, JobqueueAdd
  PROVE  QueueIsList'
<1> DEFINE n == Len(order)
<1>1. newjob \in Addr /\ newjob # NULL /\ newjob \notin Queued
  BY Distinct DEF JobqueueAdd, Control, JobOwnership, TypeOK, Cells
<1>2. /\ n \in Nat /\ Len(order') = n + 1 /\ order' # <<>>
      /\ \A i \in 1..n : order'[i] = order[i] /\ order[i] \in Addr
      /\ order'[n + 1] = newjob
      /\ jobsN = n
  BY <1>1, AppendOrder, EmptyOrder DEF JobqueueAdd, TypeOK, QueueIsList
<1>3. \A i \in 1..n : order[i] # newjob
  BY <1>1 DEF Queued
<1>4. jobsN' = Len(order')
  BY <1>2 DEF JobqueueAdd
<1>5. \A i, j \in 1..Len(order') : order'[i] = order'[j] => i = j
  BY <1>2, <1>3 DEF QueueIsList
<1>6. CASE n = 0
  BY <1>1, <1>2, <1>4, <1>5, <1>6 DEF JobqueueAdd, QueueIsList, TypeOK
<1>7. CASE n # 0
  <2>1. head = order[n] /\ tail = order[1] /\ head # newjob /\ head \in Addr
    BY <1>2, <1>3, <1>7 DEF JobqueueAdd, QueueIsList
  <2>2. tail' = order'[1] /\ head' = order'[n + 1]
    BY <1>2, <1>7, <2>1 DEF JobqueueAdd
  <2>3. \A a \in Addr : prev'[a] = IF a = head THEN newjob
                                   ELSE IF a = newjob THEN NULL ELSE prev[a]
    BY <1>1, <1>2, <1>7, <2>1 DEF JobqueueAdd, TypeOK
  <2>4. \A a \in Addr : next'[a] = IF a = newjob THEN head ELSE next[a]
    BY <1>1, <1>2, <1>7 DEF JobqueueAdd, TypeOK
  <2>5. ASSUME NEW i \in 1..n + 1
        PROVE  prev'[order'[i]] = IF i = n + 1 THEN NULL ELSE order'[i + 1]
    <3>1. CASE i = n + 1
      BY <1>1, <1>2, <2>1, <2>3, <3>1
    <3>2. CASE i = n
      BY <1>2, <1>7, <2>1, <2>3, <3>2
    <3>3. CASE i \in 1..n - 1
      <4>1. order[i] # head /\ order[i] # newjob /\ order[i] \in Addr
        BY <1>2, <1>3, <2>1, <3>3 DEF QueueIsList
      <4>2. prev[order[i]] = order[i + 1]
        BY <1>2, <3>3 DEF QueueIsList
      <4> QED BY <1>2, <2>3, <3>3, <4>1, <4>2
    <3> QED BY <1>2, <3>1, <3>2, <3>3
  <2>6. ASSUME NEW i \in 1..n + 1
        PROVE  next'[order'[i]] = IF i = 1 THEN NULL ELSE order'[i - 1]
    <3>1. CASE i = n + 1
      BY <1>1, <1>2, <1>7, <2>1, <2>4, <3>1
    <3>2. CASE i \in 1..n
      <4>1. next[order[i]] = IF i = 1 THEN NULL ELSE order[i - 1]
        BY <1>2, <3>2 DEF QueueIsList, JobqueueAdd
      <4> QED BY <1>2, <1>3, <2>4, <3>2, <4>1
    <3> QED BY <1>2, <3>1, <3>2
  <2> HIDE DEF n
  <2> QED BY <1>2, <1>4, <1>5, <1>7, <2>2, <2>5, <2>6 DEF QueueIsList
<1> QED BY <1>6, <1>7

(* thpool_jobqueue_removelast leaves a well-formed list behind. *)
LEMMA RemoveKeepsList ==
  ASSUME TypeOK, Control, QueueIsList, NEW w \in Workers, JobqueueRemovelast(w)
  PROVE  QueueIsList'
<1>1. main # "empty" /\ main' = main
  BY DEF JobqueueRemovelast, Control, ownerVars
<1>2. CASE jobsN = 0
  BY <1>1, <1>2 DEF JobqueueRemovelast, queueVars, QueueIsList
<1>3. CASE jobsN # 0
  <2> DEFINE n == Len(order)
  <2>1. /\ n \in Nat /\ n > 0 /\ jobsN = n /\ order # <<>> /\ tail = order[1]
        /\ \A i \in 1..n : order[i] \in Addr
    BY <1>3, TailIsOldest, EmptyOrder DEF TypeOK
  <2>2. /\ order' = Tail(order) /\ Len(order') = n - 1
        /\ \A i \in 1..n - 1 : order'[i] = order[i + 1]
        /\ order' = <<>> <=> n = 1
    <3>1. order' = Tail(order) /\ order \in Seq(Addr)
      BY <1>3 DEF JobqueueRemovelast, TypeOK
    <3> QED BY <2>1, <3>1, TailOrder
  <2>3. jobsN' = Len(order')
    BY <1>3, <2>1, <2>2 DEF JobqueueRemovelast
  <2>4. \A i, j \in 1..Len(order') : order'[i] = order'[j] => i = j
    BY <2>1, <2>2 DEF QueueIsList
  <2>5. CASE n = 1
    <3>1. head' = NULL /\ tail' = NULL
      BY <1>3, <2>1, <2>5 DEF JobqueueRemovelast
    <3>2. order' = <<>> /\ Len(order') = 0
      BY <2>2, <2>5
    <3> HIDE DEF n
    <3> QED BY <2>3, <3>1, <3>2 DEF QueueIsList
  <2>6. CASE n # 1
    <3>1. prev[tail] = order[2] /\ order[2] \in Addr
      BY <2>1, <2>6 DEF QueueIsList
    <3>2. tail' = order'[1] /\ head' = order'[n - 1]
      BY <1>1, <1>3, <2>1, <2>2, <2>6, <3>1 DEF JobqueueRemovelast, QueueIsList
    <3>3. prev' = prev /\ \A a \in Addr : next'[a] = IF a = order[2] THEN NULL ELSE next[a]
      BY <1>3, <2>1, <2>6, <3>1 DEF JobqueueRemovelast, TypeOK
    <3>4. ASSUME NEW i \in 1..n - 1
          PROVE  /\ prev'[order'[i]] = IF i = n - 1 THEN NULL ELSE order'[i + 1]
                 /\ next'[order'[i]] = IF i = 1 THEN NULL ELSE order'[i - 1]
      <4>1. /\ order'[i] = order[i + 1] /\ order[i + 1] \in Addr
            /\ i # 1 => order'[i - 1] = order[i] /\ order[i + 1] # order[2]
            /\ i # n - 1 => order'[i + 1] = order[i + 2]
        BY <2>1, <2>2 DEF QueueIsList
      <4>2. prev[order[i + 1]] = IF i + 1 = n THEN NULL ELSE order[i + 2]
        BY <2>1 DEF QueueIsList
      <4>3. next[order[i + 1]] = order[i]
        BY <1>1, <2>1 DEF QueueIsList
      <4> QED BY <2>1, <3>3, <4>1, <4>2, <4>3
    <3>5. Len(order') = n - 1 /\ order' # <<>>
      BY <2>2, <2>6
    <3> HIDE DEF n
    <3> QED BY <2>1, <2>3, <2>4, <3>2, <3>4, <3>5 DEF QueueIsList
  <2> QED BY <2>5, <2>6
<1> QED BY <1>2, <1>3

(* thpool_jobqueue_empty follows prev only. *)
LEMMA EmptyStepKeepsList ==
  ASSUME TypeOK, QueueIsList, JobqueueEmptyStep
  PROVE  QueueIsList'
<1> DEFINE n == Len(order)
<1>1. /\ n \in Nat /\ n > 0 /\ jobsN = n /\ order # <<>> /\ tail = order[1]
      /\ \A i \in 1..n : order[i] \in Addr
  BY TailIsOldest, EmptyOrder DEF TypeOK, JobqueueEmptyStep
<1>2. /\ Len(order') = n - 1
      /\ \A i \in 1..n - 1 : order'[i] = order[i + 1]
      /\ order' = <<>> <=> n = 1
  BY <1>1, TailOrder DEF JobqueueEmptyStep, TypeOK
<1>3. prev' = prev /\ jobsN' = n - 1 /\ main' = "empty"
  BY <1>1 DEF JobqueueEmptyStep, ownerVars
<1>4. tail' = IF n = 1 THEN NULL ELSE order[2]
  BY <1>1 DEF JobqueueEmptyStep, QueueIsList
<1>5. \A i, j \in 1..n - 1 : order'[i] = order'[j] => i = j
  BY <1>1, <1>2 DEF QueueIsList
<1>6. \A i \in 1..n - 1 : prev[order'[i]] = IF i = n - 1 THEN NULL ELSE order'[i + 1]
  BY <1>1, <1>2 DEF QueueIsList
<1> HIDE DEF n
<1> QED BY <1>1, <1>2, <1>3, <1>4, <1>5, <1>6 DEF QueueIsList

(* No step leaves the list malformed. *)
LEMMA NextQueueIsList ==
  ASSUME TypeOK, Control, QueueIsList, JobOwnership, [Next]_vars
  PROVE  QueueIsList'
<1> USE DEF QueueIsList
<1>1. CASE \E x \in Args : AddWork(x)
  BY <1>1 DEF AddWork, queueVars, syncVars, workVars
<1>2. CASE AddWorkFails
  BY <1>2 DEF AddWorkFails, queueVars, heapVars, syncVars
<1>3. CASE Destory
  BY <1>3 DEF Destory, queueVars, heapVars, workVars
<1>4. CASE OwnerLock
  BY <1>4 DEF OwnerLock, queueVars, heapVars, workVars
<1>5. CASE JobqueueAdd
  BY <1>5, AddKeepsList
<1>6. CASE JobqueueAddPost
  BY <1>6 DEF JobqueueAddPost, queueVars, heapVars, workVars
<1>7. CASE OwnerUnlock
  BY <1>7 DEF OwnerUnlock, queueVars, heapVars, workVars
<1>8. CASE DestoryPost
  BY <1>8 DEF DestoryPost, queueVars, heapVars, workVars
<1>9. CASE DestorySemDestroy
  BY <1>9 DEF DestorySemDestroy, queueVars, heapVars, syncVars, workVars
<1>10. CASE DestoryJoin
  BY <1>10 DEF DestoryJoin, queueVars, heapVars, syncVars, workVars
<1>11. CASE JobqueueEmptyStep
  BY <1>11, EmptyStepKeepsList
<1>12. CASE JobqueueEmptied
  BY <1>12, TailIsOldest DEF JobqueueEmptied, heapVars, syncVars, workVars
<1>13. ASSUME NEW w \in Workers, WorkerStep(w)
       PROVE  QueueIsList'
  <2>1. CASE LoopTest(w)
    BY <2>1 DEF LoopTest, Goto, queueVars, heapVars, syncVars, ownerVars
  <2>2. CASE SemWait(w)
    BY <2>2 DEF SemWait, Goto, queueVars, heapVars, ownerVars
  <2>3. CASE KeepaliveTest(w)
    BY <2>3 DEF KeepaliveTest, Goto, queueVars, heapVars, syncVars, ownerVars
  <2>4. CASE WorkerLock(w)
    BY <2>4 DEF WorkerLock, Goto, queueVars, heapVars, ownerVars
  <2>5. CASE Peek(w)
    BY <2>5 DEF Peek, Goto, queueVars, heapVars, syncVars, ownerVars
  <2>6. CASE JobqueueRemovelast(w)
    BY <2>6, RemoveKeepsList
  <2>7. CASE WorkerUnlock(w)
    BY <2>7 DEF WorkerUnlock, Goto, queueVars, heapVars, ownerVars
  <2>8. CASE JobReturns(w)
    BY <2>8 DEF JobReturns, Goto, queueVars, heapVars, syncVars, ownerVars
  <2>9. CASE FreeJob(w)
    BY <2>9 DEF FreeJob, Goto, Free, queueVars, syncVars, ownerVars
  <2> QED BY <1>13, <2>1, <2>2, <2>3, <2>4, <2>5, <2>6, <2>7, <2>8, <2>9 DEF WorkerStep
<1>14. CASE UNCHANGED vars
  BY <1>14 DEF vars, queueVars, heapVars, syncVars, ownerVars, workVars
<1> QED
  BY <1>1, <1>2, <1>3, <1>4, <1>5, <1>6, <1>7, <1>8, <1>9, <1>10, <1>11, <1>12,
     <1>13, <1>14 DEF Next, OwnerStep, Terminated

-----------------------------------------------------------------------------
(* The semaphore's count, and the jobs it promises to the workers it lets  *)
(* through.                                                                *)

(* How counts of workers change when one worker enters or leaves a set. *)
LEMMA Counts ==
  ASSUME NEW S \in SUBSET Workers, NEW w \in Workers
  PROVE  /\ IsFiniteSet(S) /\ Cardinality(S) \in Nat
         /\ w \notin S => Cardinality(S \cup {w}) = Cardinality(S) + 1
         /\ w \in S => Cardinality(S \ {w}) = Cardinality(S) - 1
         /\ \A T \in SUBSET S : Cardinality(T) \in Nat /\ Cardinality(T) <= Cardinality(S)
<1>1. IsFiniteSet(S)
  BY ConstantsAssumption, FS_Subset
<1>2. \A T \in SUBSET S : IsFiniteSet(T) /\ Cardinality(T) <= Cardinality(S)
  BY <1>1, FS_Subset
<1> QED BY <1>1, <1>2, FS_CardinalityType, FS_AddElement, FS_RemoveElement

(* The workers at given program points are finitely many. *)
LEMMA CountIsNat ==
  ASSUME NEW S \in SUBSET Workers
  PROVE  Cardinality(S) \in Nat
BY ConstantsAssumption, FS_Subset, FS_CardinalityType

(* At the start there is neither a job nor a wake-up. *)
LEMMA InitSemCountsJobs == Init => SemCountsJobs
<1> SUFFICES ASSUME Init PROVE SemCountsJobs
  OBVIOUS
<1>1. Awake = {}
  BY DEF Init, Awake
<1> QED BY <1>1, FS_EmptySet DEF Init, SemCountsJobs

(* Every step keeps the wake-ups and the jobs in balance. *)
LEMMA NextSemCountsJobs ==
  ASSUME TypeOK, Control, QueueIsList, ClaimsCovered, SemCountsJobs, [Next]_vars
  PROVE  SemCountsJobs'
<1> USE DEF SemCountsJobs
<1>1. CASE \E x \in Args : AddWork(x)
  <2>1. Awake' = Awake
    BY <1>1 DEF AddWork, Awake, queueVars, syncVars, workVars
  <2> QED BY <1>1, <2>1 DEF AddWork, queueVars, syncVars, workVars
<1>2. CASE AddWorkFails
  BY <1>2 DEF AddWorkFails, queueVars, heapVars, syncVars
<1>3. CASE Destory
  BY <1>3 DEF Destory, queueVars, heapVars, workVars
<1>4. CASE OwnerLock
  <2>1. Awake' = Awake
    BY <1>4 DEF OwnerLock, Awake, queueVars, heapVars, workVars
  <2> QED BY <1>4, <2>1 DEF OwnerLock, queueVars, heapVars, workVars
<1>5. CASE JobqueueAdd
  <2>1. Awake' = Awake
    BY <1>5 DEF JobqueueAdd, Awake, workVars
  <2>2. Cardinality(Awake) \in Nat
    BY CountIsNat DEF Awake
  <2> QED BY <1>5, <2>1, <2>2 DEF JobqueueAdd, TypeOK, heapVars, syncVars, workVars
<1>6. CASE JobqueueAddPost
  <2>1. Awake' = Awake
    BY <1>6 DEF JobqueueAddPost, Awake, workVars
  <2>2. Cardinality(Awake) \in Nat
    BY CountIsNat DEF Awake
  <2> QED BY <1>6, <2>1, <2>2 DEF JobqueueAddPost, TypeOK, queueVars, heapVars, workVars
<1>7. CASE OwnerUnlock
  <2>1. Awake' = Awake
    BY <1>7 DEF OwnerUnlock, Awake, queueVars, heapVars, workVars
  <2> QED BY <1>7, <2>1 DEF OwnerUnlock, queueVars, heapVars, workVars
<1>8. CASE DestoryPost
  BY <1>8 DEF DestoryPost, Control, queueVars, heapVars, workVars
<1>9. CASE DestorySemDestroy
  BY <1>9 DEF DestorySemDestroy, Control, queueVars, heapVars, syncVars, workVars
<1>10. CASE DestoryJoin
  BY <1>10 DEF DestoryJoin, Control, queueVars, heapVars, syncVars, workVars
<1>11. CASE JobqueueEmptyStep
  BY <1>11 DEF JobqueueEmptyStep, Control, Free, syncVars, ownerVars, workVars
<1>12. CASE JobqueueEmptied
  BY <1>12 DEF JobqueueEmptied, Control, heapVars, syncVars, workVars
<1>13. ASSUME NEW w \in Workers, WorkerStep(w)
       PROVE  SemCountsJobs'
  <2>1. CASE LoopTest(w)
    <3>1. Awake' = Awake
      BY <2>1 DEF LoopTest, TypeOK, Awake, Goto, queueVars, heapVars, syncVars, ownerVars
    <3> QED BY <2>1, <3>1 DEF LoopTest, Goto, queueVars, heapVars, syncVars, ownerVars
  <2>2. CASE SemWait(w)
    <3>1. Awake' = Awake \cup {w} /\ w \notin Awake
      BY <2>2 DEF SemWait, TypeOK, Awake, Goto
    <3>2. Cardinality(Awake') = Cardinality(Awake) + 1 /\ Cardinality(Awake) \in Nat
      BY <3>1, Counts DEF Awake
    <3> QED BY <2>2, <3>2 DEF SemWait, TypeOK, queueVars, heapVars, ownerVars
  <2>3. CASE KeepaliveTest(w)
    <3>1. keepalive => Awake' = Awake
      BY <2>3 DEF KeepaliveTest, TypeOK, Awake, Goto
    <3> QED BY <2>3, <3>1 DEF KeepaliveTest, queueVars, heapVars, syncVars, ownerVars
  <2>4. CASE WorkerLock(w)
    <3>1. Awake' = Awake
      BY <2>4 DEF WorkerLock, TypeOK, Awake, Goto, queueVars, heapVars, ownerVars
    <3> QED BY <2>4, <3>1 DEF WorkerLock, Goto, queueVars, heapVars, ownerVars
  <2>5. CASE Peek(w)
    <3>1. Awake' = Awake
      BY <2>5 DEF Peek, TypeOK, Awake, Goto, queueVars, heapVars, syncVars, ownerVars
    <3> QED BY <2>5, <3>1 DEF Peek, Goto, queueVars, heapVars, syncVars, ownerVars
  <2>6. CASE JobqueueRemovelast(w)
    <3>1. Awake' = Awake \ {w} /\ w \in Awake
      BY <2>6 DEF JobqueueRemovelast, TypeOK, Awake, Goto
    <3>2. Cardinality(Awake') = Cardinality(Awake) - 1 /\ Cardinality(Awake) \in Nat
      BY <3>1, Counts DEF Awake
    <3>3. jobsN # 0
      BY <2>6, ClaimedHasJob DEF JobqueueRemovelast, Claimed
    <3> QED BY <2>6, <3>2, <3>3 DEF JobqueueRemovelast, TypeOK, heapVars, syncVars, ownerVars
  <2>7. CASE WorkerUnlock(w)
    <3>1. Awake' = Awake
      BY <2>7 DEF WorkerUnlock, TypeOK, Awake, Goto, queueVars, heapVars, ownerVars
    <3> QED BY <2>7, <3>1 DEF WorkerUnlock, Goto, queueVars, heapVars, ownerVars
  <2>8. CASE JobReturns(w)
    <3>1. Awake' = Awake
      BY <2>8 DEF JobReturns, TypeOK, Awake, Goto, queueVars, heapVars, syncVars, ownerVars
    <3> QED BY <2>8, <3>1 DEF JobReturns, Goto, queueVars, heapVars, syncVars, ownerVars
  <2>9. CASE FreeJob(w)
    <3>1. Awake' = Awake
      BY <2>9 DEF FreeJob, TypeOK, Awake, Goto, Free, queueVars, syncVars, ownerVars
    <3> QED BY <2>9, <3>1 DEF FreeJob, Goto, Free, queueVars, syncVars, ownerVars
  <2> QED BY <1>13, <2>1, <2>2, <2>3, <2>4, <2>5, <2>6, <2>7, <2>8, <2>9 DEF WorkerStep
<1>14. CASE UNCHANGED vars
  BY <1>14 DEF Awake, vars, queueVars, heapVars, syncVars, ownerVars, workVars
<1> QED
  BY <1>1, <1>2, <1>3, <1>4, <1>5, <1>6, <1>7, <1>8, <1>9, <1>10, <1>11, <1>12,
     <1>13, <1>14 DEF Next, OwnerStep, Terminated

(* At the start no worker has claimed a job. *)
LEMMA InitClaimsCovered == Init => ClaimsCovered
<1> SUFFICES ASSUME Init PROVE ClaimsCovered
  OBVIOUS
<1>1. Claimed = {}
  BY DEF Init, Claimed
<1> QED BY <1>1, FS_EmptySet DEF Init, ClaimsCovered

(* No step leaves more claims than jobs. *)
LEMMA NextClaimsCovered ==
  ASSUME TypeOK, Control, QueueIsList, SemCountsJobs, ClaimsCovered, [Next]_vars
  PROVE  ClaimsCovered'
<1> USE DEF ClaimsCovered
<1>1. CASE \E x \in Args : AddWork(x)
  <2>1. Claimed' = Claimed
    BY <1>1 DEF AddWork, Claimed, queueVars, syncVars, workVars
  <2> QED BY <1>1, <2>1 DEF AddWork, queueVars, syncVars, workVars
<1>2. CASE AddWorkFails
  <2>1. Claimed' = {}
    BY <1>2 DEF AddWorkFails, Claimed
  <2> QED BY <1>2, <2>1, FS_EmptySet DEF AddWorkFails, queueVars, TypeOK
<1>3. CASE Destory
  <2>1. Claimed' = Claimed
    BY <1>3 DEF Destory, Claimed, queueVars, heapVars, workVars
  <2> QED BY <1>3, <2>1 DEF Destory, queueVars, heapVars, workVars
<1>4. CASE OwnerLock
  <2>1. Claimed' = Claimed
    BY <1>4 DEF OwnerLock, Claimed, queueVars, heapVars, workVars
  <2> QED BY <1>4, <2>1 DEF OwnerLock, queueVars, heapVars, workVars
<1>5. CASE JobqueueAdd
  <2>1. Claimed' = Claimed
    BY <1>5 DEF JobqueueAdd, Claimed, workVars
  <2>2. Cardinality(Claimed) \in Nat
    BY CountIsNat DEF Claimed
  <2> QED BY <1>5, <2>1, <2>2 DEF JobqueueAdd, TypeOK
<1>6. CASE JobqueueAddPost
  <2>1. Claimed' = Claimed
    BY <1>6 DEF JobqueueAddPost, Claimed, queueVars, heapVars, workVars
  <2> QED BY <1>6, <2>1 DEF JobqueueAddPost, queueVars, heapVars, workVars
<1>7. CASE OwnerUnlock
  <2>1. Claimed' = Claimed
    BY <1>7 DEF OwnerUnlock, Claimed, queueVars, heapVars, workVars
  <2> QED BY <1>7, <2>1 DEF OwnerUnlock, queueVars, heapVars, workVars
<1>8. CASE DestoryPost
  <2>1. Claimed' = Claimed
    BY <1>8 DEF DestoryPost, Claimed, queueVars, heapVars, workVars
  <2> QED BY <1>8, <2>1 DEF DestoryPost, queueVars, heapVars, workVars
<1>9. CASE DestorySemDestroy
  <2>1. Claimed' = Claimed
    BY <1>9 DEF DestorySemDestroy, Claimed, queueVars, heapVars, syncVars, workVars
  <2> QED BY <1>9, <2>1 DEF DestorySemDestroy, queueVars, heapVars, syncVars, workVars
<1>10. CASE DestoryJoin
  <2>1. Claimed' = Claimed
    BY <1>10 DEF DestoryJoin, Claimed, queueVars, heapVars, syncVars, workVars
  <2> QED BY <1>10, <2>1 DEF DestoryJoin, queueVars, heapVars, syncVars, workVars
<1>11. CASE JobqueueEmptyStep
  <2>1. Claimed' = {}
    BY <1>11 DEF JobqueueEmptyStep, Control, Claimed, workVars
  <2> QED BY <1>11, <2>1, FS_EmptySet DEF JobqueueEmptyStep, TypeOK
<1>12. CASE JobqueueEmptied
  <2>1. Claimed' = Claimed
    BY <1>12 DEF JobqueueEmptied, Claimed, heapVars, syncVars, workVars
  <2> QED BY <1>12, <2>1 DEF JobqueueEmptied, heapVars, syncVars, workVars
<1>13. ASSUME NEW w \in Workers, WorkerStep(w)
       PROVE  ClaimsCovered'
  <2>1. CASE LoopTest(w)
    <3>1. Claimed' = Claimed
      BY <2>1 DEF LoopTest, Claimed, TypeOK, Goto, queueVars, heapVars, syncVars, ownerVars
    <3> QED BY <2>1, <3>1 DEF LoopTest, Goto, queueVars, heapVars, syncVars, ownerVars
  <2>2. CASE SemWait(w)
    <3>1. Claimed' = Claimed
      BY <2>2 DEF SemWait, Claimed, TypeOK, Goto, queueVars, heapVars, ownerVars
    <3> QED BY <2>2, <3>1 DEF SemWait, Goto, queueVars, heapVars, ownerVars
  <2>3. CASE KeepaliveTest(w)
    <3>1. Claimed' \subseteq IF keepalive THEN Awake ELSE Claimed
      BY <2>3 DEF KeepaliveTest, TypeOK, Claimed, Awake, Goto
    <3>2. CASE keepalive
      <4>1. Cardinality(Awake) \in Nat
        BY CountIsNat DEF Awake
      <4>2. Cardinality(Awake) <= jobsN
        BY <2>3, <3>2, <4>1 DEF KeepaliveTest, SemCountsJobs, Control, TypeOK
      <4>3. Cardinality(Claimed') <= Cardinality(Awake) /\ Cardinality(Claimed') \in Nat
        BY <3>1, <3>2, Counts DEF Awake
      <4> QED BY <2>3, <4>1, <4>2, <4>3 DEF KeepaliveTest, queueVars, TypeOK
    <3>3. CASE ~keepalive
      <4>1. Cardinality(Claimed') <= Cardinality(Claimed) /\ Cardinality(Claimed') \in Nat
            /\ Cardinality(Claimed) \in Nat
        BY <3>1, <3>3, Counts DEF Claimed
      <4> QED BY <2>3, <4>1 DEF KeepaliveTest, queueVars, TypeOK
    <3> QED BY <3>2, <3>3
  <2>4. CASE WorkerLock(w)
    <3>1. Claimed' = Claimed
      BY <2>4 DEF WorkerLock, Claimed, TypeOK, Goto, queueVars, heapVars, ownerVars
    <3> QED BY <2>4, <3>1 DEF WorkerLock, Goto, queueVars, heapVars, ownerVars
  <2>5. CASE Peek(w)
    <3>1. Claimed' = Claimed
      BY <2>5 DEF Peek, Claimed, TypeOK, Goto, queueVars, heapVars, syncVars, ownerVars
    <3> QED BY <2>5, <3>1 DEF Peek, Goto, queueVars, heapVars, syncVars, ownerVars
  <2>6. CASE JobqueueRemovelast(w)
    <3>1. Claimed' = Claimed \ {w} /\ w \in Claimed
      BY <2>6 DEF JobqueueRemovelast, TypeOK, Claimed, Goto
    <3>2. Cardinality(Claimed') = Cardinality(Claimed) - 1 /\ Cardinality(Claimed) \in Nat
      BY <3>1, Counts DEF Claimed
    <3>3. jobsN # 0
      BY <3>1, ClaimedHasJob
    <3> QED BY <2>6, <3>2, <3>3 DEF JobqueueRemovelast, TypeOK
  <2>7. CASE WorkerUnlock(w)
    <3>1. Claimed' = Claimed
      BY <2>7 DEF WorkerUnlock, Claimed, TypeOK, Goto, queueVars, heapVars, ownerVars
    <3> QED BY <2>7, <3>1 DEF WorkerUnlock, Goto, queueVars, heapVars, ownerVars
  <2>8. CASE JobReturns(w)
    <3>1. Claimed' = Claimed
      BY <2>8 DEF JobReturns, Claimed, TypeOK, Goto, queueVars, heapVars, syncVars, ownerVars
    <3> QED BY <2>8, <3>1 DEF JobReturns, Goto, queueVars, heapVars, syncVars, ownerVars
  <2>9. CASE FreeJob(w)
    <3>1. Claimed' = Claimed
      BY <2>9 DEF FreeJob, Claimed, TypeOK, Goto, Free, queueVars, syncVars, ownerVars
    <3> QED BY <2>9, <3>1 DEF FreeJob, Goto, Free, queueVars, syncVars, ownerVars
  <2> QED BY <1>13, <2>1, <2>2, <2>3, <2>4, <2>5, <2>6, <2>7, <2>8, <2>9 DEF WorkerStep
<1>14. CASE UNCHANGED vars
  BY <1>14 DEF Claimed, vars, queueVars, heapVars, syncVars, ownerVars, workVars
<1> QED
  BY <1>1, <1>2, <1>3, <1>4, <1>5, <1>6, <1>7, <1>8, <1>9, <1>10, <1>11, <1>12,
     <1>13, <1>14 DEF Next, OwnerStep, Terminated

-----------------------------------------------------------------------------
(* Every job cell has one owner: the queue, a worker, or add_work.         *)

(* The cell added is queued, and nothing else changes in the queue. *)
LEMMA AddQueued ==
  ASSUME TypeOK, Control, JobqueueAdd
  PROVE  newjob \in Addr /\ Queued' = Queued \cup {newjob}
<1>1. newjob \in Addr /\ order' = Append(order, newjob)
  BY DEF JobqueueAdd, Control, TypeOK, Cells
<1>2. order \in Seq(Addr)
  BY DEF TypeOK
<1>3. ASSUME NEW a \in Queued' PROVE a \in Queued \cup {newjob}
  BY <1>1, <1>2, AppendOrder DEF Queued
<1>4. ASSUME NEW a \in Queued \cup {newjob} PROVE a \in Queued'
  <2>1. CASE a = newjob
    BY <1>1, <1>2, <2>1, AppendOrder DEF Queued
  <2>2. CASE a \in Queued
    <3>1. PICK i \in 1..Len(order) : order[i] = a
      BY <2>2 DEF Queued
    <3>2. i \in 1..Len(order') /\ order'[i] = a
      BY <1>1, <1>2, <3>1, AppendOrder
    <3> QED BY <3>2 DEF Queued
  <2> QED BY <1>4, <2>1, <2>2
<1> QED BY <1>1, <1>3, <1>4

(* Dropping the oldest job takes exactly the tail cell out of the queue. *)
LEMMA TailQueued ==
  ASSUME TypeOK, QueueIsList, jobsN # 0, order' = Tail(order)
  PROVE  tail \in Queued /\ Queued' = Queued \ {tail}
<1>1. tail = order[1] /\ tail \in Queued /\ order # <<>> /\ order \in Seq(Addr)
  BY TailIsOldest DEF TypeOK
<1>2. /\ Len(order) \in Nat /\ Len(order) > 0 /\ Len(order') = Len(order) - 1
      /\ \A i \in 1..Len(order) - 1 : order'[i] = order[i + 1]
  BY <1>1, TailOrder
<1>3. \A i, j \in 1..Len(order) : order[i] = order[j] => i = j
  BY DEF QueueIsList
<1>4. ASSUME NEW a \in Queued' PROVE a \in Queued \ {tail}
  <2>1. PICK i \in 1..Len(order') : order'[i] = a
    BY DEF Queued
  <2>2. i + 1 \in 1..Len(order) /\ order[i + 1] = a /\ i + 1 # 1 /\ 1 \in 1..Len(order)
    BY <1>2, <2>1
  <2> QED BY <1>1, <1>3, <2>2 DEF Queued
<1>5. ASSUME NEW a \in Queued \ {tail} PROVE a \in Queued'
  <2>1. PICK i \in 1..Len(order) : order[i] = a
    BY DEF Queued
  <2>2. i - 1 \in 1..Len(order') /\ order'[i - 1] = a
    BY <1>1, <1>2, <2>1
  <2> QED BY <2>2 DEF Queued
<1> QED BY <1>1, <1>4, <1>5

(* At the start there is no cell to own. *)
LEMMA InitJobOwnership == Init => JobOwnership
BY DEF Init, JobOwnership, Queued, Holders

(* Every step keeps each cell in exactly one pair of hands. *)
LEMMA NextJobOwnership ==
  ASSUME TypeOK, Control, QueueIsList, ClaimsCovered, JobOwnership, [Next]_vars
  PROVE  JobOwnership'
<1>1. CASE \E x \in Args : AddWork(x)
  <2>1. /\ Queued' = Queued /\ Holders' = Holders /\ job' = job
        /\ newjob = NULL /\ main # "exited"
    BY <1>1 DEF AddWork, Control, Queued, Holders, queueVars, workVars
  <2>2. newjob' \in Addr \ live /\ live' = live \cup {newjob'}
    BY <1>1 DEF AddWork
  <2> QED BY <2>1, <2>2, Distinct DEF JobOwnership
<1>2. CASE AddWorkFails
  BY <1>2 DEF AddWorkFails, JobOwnership
<1>3. CASE Destory
  <2>1. /\ Queued' = Queued /\ Holders' = Holders
        /\ job' = job /\ newjob' = newjob /\ live' = live
    BY <1>3 DEF Destory, Queued, Holders, queueVars, heapVars, workVars
  <2> QED BY <1>3, <2>1 DEF Destory, JobOwnership
<1>4. CASE OwnerLock
  <2>1. /\ Queued' = Queued /\ Holders' = Holders
        /\ job' = job /\ newjob' = newjob /\ live' = live
    BY <1>4 DEF OwnerLock, Queued, Holders, queueVars, heapVars, workVars
  <2> QED BY <1>4, <2>1 DEF OwnerLock, JobOwnership
<1>5. CASE JobqueueAdd
  <2>1. /\ Holders' = Holders /\ job' = job /\ live' = live
        /\ newjob' = NULL /\ main # "exited"
    BY <1>5 DEF JobqueueAdd, Holders, heapVars, workVars
  <2>2. newjob \in Addr /\ Queued' = Queued \cup {newjob}
    BY <1>5, AddQueued
  <2>3. \A v \in Holders : job[v] # NULL
    BY DEF Holders
  <2>4. Queued \subseteq Addr
    BY EmptyOrder DEF Queued, TypeOK
  <2> QED BY <2>1, <2>2, <2>3, <2>4, Distinct DEF JobOwnership
<1>6. CASE JobqueueAddPost
  <2>1. /\ Queued' = Queued /\ Holders' = Holders
        /\ job' = job /\ newjob' = newjob /\ live' = live
    BY <1>6 DEF JobqueueAddPost, Queued, Holders, queueVars, heapVars, workVars
  <2> QED BY <1>6, <2>1 DEF JobqueueAddPost, JobOwnership
<1>7. CASE OwnerUnlock
  <2>1. /\ Queued' = Queued /\ Holders' = Holders
        /\ job' = job /\ newjob' = newjob /\ live' = live
    BY <1>7 DEF OwnerUnlock, Queued, Holders, queueVars, heapVars, workVars
  <2> QED BY <1>7, <2>1 DEF OwnerUnlock, JobOwnership
<1>8. CASE DestoryPost
  <2>1. /\ Queued' = Queued /\ Holders' = Holders
        /\ job' = job /\ newjob' = newjob /\ live' = live
    BY <1>8 DEF DestoryPost, Queued, Holders, queueVars, heapVars, workVars
  <2> QED BY <1>8, <2>1 DEF DestoryPost, JobOwnership
<1>9. CASE DestorySemDestroy
  <2>1. /\ Queued' = Queued /\ Holders' = Holders
        /\ job' = job /\ newjob' = newjob /\ live' = live
    BY <1>9 DEF DestorySemDestroy, Queued, Holders, queueVars, heapVars, syncVars, workVars
  <2> QED BY <1>9, <2>1 DEF DestorySemDestroy, JobOwnership
<1>10. CASE DestoryJoin
  <2>1. /\ Queued' = Queued /\ Holders' = Holders
        /\ job' = job /\ newjob' = newjob /\ live' = live
    BY <1>10 DEF DestoryJoin, Queued, Holders, queueVars, heapVars, syncVars, workVars
  <2> QED BY <1>10, <2>1 DEF DestoryJoin, JobOwnership
<1>11. CASE JobqueueEmptyStep
  <2>1. Holders' = {} /\ Holders = {} /\ newjob' = newjob /\ newjob = NULL
    BY <1>11 DEF JobqueueEmptyStep, Control, Holders, workVars, ownerVars
  <2>2. live' = live \ {tail} /\ Queued' = Queued \ {tail}
    BY <1>11, TailQueued DEF JobqueueEmptyStep, Free
  <2> QED BY <1>11, <2>1, <2>2 DEF JobqueueEmptyStep, JobOwnership
<1>12. CASE JobqueueEmptied
  <2>1. /\ Queued' = Queued /\ Holders' = Holders
        /\ job' = job /\ newjob' = newjob /\ live' = live
    BY <1>12 DEF JobqueueEmptied, Queued, Holders, heapVars, syncVars, workVars
  <2> QED BY <1>12, <2>1 DEF JobqueueEmptied, JobOwnership
<1>13. ASSUME NEW w \in Workers, WorkerStep(w)
       PROVE  JobOwnership'
  <2>1. CASE LoopTest(w)
    <3>1. /\ Queued' = Queued /\ Holders' = Holders /\ main' = main
          /\ job' = job /\ newjob' = newjob /\ live' = live
      BY <2>1 DEF LoopTest, Queued, Holders, TypeOK, Goto, queueVars, heapVars, syncVars, ownerVars
    <3> QED BY <2>1, <3>1 DEF LoopTest, JobOwnership
  <2>2. CASE SemWait(w)
    <3>1. /\ Queued' = Queued /\ Holders' = Holders /\ main' = main
          /\ job' = job /\ newjob' = newjob /\ live' = live
      BY <2>2 DEF SemWait, Queued, Holders, TypeOK, Goto, queueVars, heapVars, ownerVars
    <3> QED BY <2>2, <3>1 DEF SemWait, JobOwnership
  <2>3. CASE KeepaliveTest(w)
    <3>1. /\ Queued' = Queued /\ Holders' = Holders /\ main' = main
          /\ job' = job /\ newjob' = newjob /\ live' = live
      BY <2>3 DEF KeepaliveTest, Queued, Holders, TypeOK, Goto, queueVars, heapVars, syncVars, ownerVars
    <3> QED BY <2>3, <3>1 DEF KeepaliveTest, JobOwnership
  <2>4. CASE WorkerLock(w)
    <3>1. /\ Queued' = Queued /\ Holders' = Holders /\ main' = main
          /\ job' = job /\ newjob' = newjob /\ live' = live
      BY <2>4 DEF WorkerLock, Queued, Holders, TypeOK, Goto, queueVars, heapVars, ownerVars
    <3> QED BY <2>4, <3>1 DEF WorkerLock, JobOwnership
  <2>5. CASE Peek(w)
    <3>1. /\ Queued' = Queued /\ live' = live /\ newjob' = newjob /\ main' = main
          /\ main # "exited"
      BY <2>5 DEF Peek, Control, Queued, queueVars, heapVars, ownerVars
    <3>2. w \notin Holders /\ w \notin Holders'
      BY <2>5 DEF Peek, Control, Holders, Goto, TypeOK
    <3>3. \A v \in Workers \ {w} : job'[v] = job[v] /\ pc'[v] = pc[v]
      BY <2>5 DEF Peek, Goto, TypeOK
    <3>4. Holders' = Holders /\ \A v \in Holders : job'[v] = job[v]
      BY <3>2, <3>3 DEF Holders
    <3> QED BY <3>1, <3>4 DEF JobOwnership
  <2>6. CASE JobqueueRemovelast(w)
    <3>1. /\ live' = live /\ newjob' = newjob /\ main' = main /\ job' = job
          /\ main # "exited"
      BY <2>6 DEF JobqueueRemovelast, Control, heapVars, ownerVars
    <3>2. jobsN # 0
      BY <2>6, ClaimedHasJob DEF JobqueueRemovelast, Claimed
    <3>3. tail \in Queued /\ Queued' = Queued \ {tail}
      BY <2>6, <3>2, TailQueued DEF JobqueueRemovelast
    <3>4. Holders' = Holders \cup {w} /\ job[w] = tail
      BY <2>6, <3>1 DEF JobqueueRemovelast, Control, Holders, Goto, TypeOK
    <3> QED BY <3>1, <3>3, <3>4 DEF JobOwnership
  <2>7. CASE WorkerUnlock(w)
    <3>1. /\ Queued' = Queued /\ Holders' = Holders /\ main' = main
          /\ job' = job /\ newjob' = newjob /\ live' = live
      BY <2>7 DEF WorkerUnlock, Queued, Holders, TypeOK, Goto, queueVars, heapVars, ownerVars
    <3> QED BY <2>7, <3>1 DEF WorkerUnlock, JobOwnership
  <2>8. CASE JobReturns(w)
    <3>1. /\ Queued' = Queued /\ live' = live /\ newjob' = newjob /\ main' = main
          /\ job' = job
      BY <2>8 DEF JobReturns, Queued, queueVars, heapVars, syncVars, ownerVars
    <3>2. Holders' = Holders
      BY <2>8, <3>1 DEF JobReturns, Holders, Goto, TypeOK
    <3> QED BY <3>1, <3>2 DEF JobOwnership
  <2>9. CASE FreeJob(w)
    <3>1. /\ Queued' = Queued /\ newjob' = newjob /\ main' = main /\ main # "exited"
          /\ live' = live \ {job[w]}
      BY <2>9 DEF FreeJob, Free, Control, Queued, queueVars, ownerVars
    <3>2. w \in Holders /\ w \notin Holders'
      BY <2>9 DEF FreeJob, Control, Holders, Goto, TypeOK
    <3>3. \A v \in Workers \ {w} : job'[v] = job[v] /\ pc'[v] = pc[v]
      BY <2>9 DEF FreeJob, Goto, TypeOK
    <3>4. Holders' = Holders \ {w} /\ \A v \in Holders' : job'[v] = job[v]
      BY <3>2, <3>3 DEF Holders
    <3> QED BY <3>1, <3>2, <3>4 DEF JobOwnership
  <2> QED BY <1>13, <2>1, <2>2, <2>3, <2>4, <2>5, <2>6, <2>7, <2>8, <2>9 DEF WorkerStep
<1>14. CASE UNCHANGED vars
  BY <1>14 DEF JobOwnership, Queued, Holders, vars, queueVars, heapVars, syncVars, ownerVars, workVars
<1> QED
  BY <1>1, <1>2, <1>3, <1>4, <1>5, <1>6, <1>7, <1>8, <1>9, <1>10, <1>11, <1>12,
     <1>13, <1>14 DEF Next, OwnerStep, Terminated

-----------------------------------------------------------------------------

(* IInv holds in every reachable state of the pool. *)
THEOREM InvariantHolds == Spec => []IInv
<1>1. Init => IInv
  BY InitTypeOK, InitMutexHeld, InitControl, InitQueueIsList, InitSemCountsJobs,
     InitClaimsCovered, InitJobOwnership DEF IInv
<1>2. IInv /\ [Next]_vars => IInv'
  BY NextTypeOK, NextMutexHeld, NextControl, NextQueueIsList, NextSemCountsJobs,
     NextClaimsCovered, NextJobOwnership DEF IInv
<1> QED BY <1>1, <1>2, PTL DEF Spec

(* Every variable of the pool keeps its type, whatever the number of       *)
(* workers, cells and arguments (TypeOK of ThreadPool).                    *)
THEOREM TypeCorrect == Spec => []TypeOK
<1>1. IInv => TypeOK
  BY DEF IInv
<1> QED BY <1>1, InvariantHolds, PTL

(* The job list is well formed in every reachable state (QueueIsList).     *)
THEOREM QueueStaysAList == Spec => []QueueIsList
<1>1. IInv => QueueIsList
  BY DEF IInv
<1> QED BY <1>1, InvariantHolds, PTL

(* No worker ever dereferences the NULL of an empty queue: the unchecked   *)
(* peek of thpool_thread_do always finds a job (PeekFindsJob).             *)
THEOREM PeekIsSafe == Spec => []PeekFindsJob
<1>1. IInv => PeekFindsJob
  <2> SUFFICES ASSUME IInv, NEW w \in Workers, pc[w] = "peek"
               PROVE  tail # NULL
    BY DEF PeekFindsJob
  <2>1. w \in Claimed
    BY DEF Claimed
  <2> QED BY <2>1, ClaimedHasJob, Distinct DEF IInv
<1> QED BY <1>1, InvariantHolds, PTL

(* No wake-up of queueSem is lost or given twice (SemCountsJobs).          *)
THEOREM SemaphoreCountsJobs == Spec => []SemCountsJobs
<1>1. IInv => SemCountsJobs
  BY DEF IInv
<1> QED BY <1>1, InvariantHolds, PTL

(* No job cell is leaked, freed twice or used after free (JobOwnership).   *)
THEOREM JobsAreOwned == Spec => []JobOwnership
<1>1. IInv => JobOwnership
  BY DEF IInv
<1> QED BY <1>1, InvariantHolds, PTL

-----------------------------------------------------------------------------
(* ThreadPool implements TaskPool: every step of the workers and of the   *)
(* owner is a step of the abstract pool, or changes nothing a caller can   *)
(* see.                                                                    *)

(* What the refinement needs beyond IInv: the argument given to            *)
(* thpool_add_work stays in its cell until the worker that peeked has      *)
(* copied it, and the copy is what the job runs with.                      *)
ArgsCarried ==
  /\ newjob # NULL => arg[newjob] \in Args
  /\ \A a \in Queued : arg[a] \in Args
  /\ \A w \in Workers :
       /\ pc[w] = "remove" => argBuf[w] = arg[tail]
       /\ pc[w] \in {"unlock", "run"} => argBuf[w] \in Args

(* A pool that has just been made carries nothing. *)
LEMMA InitArgsCarried == Init => ArgsCarried
BY DEF Init, ArgsCarried, Queued

(* A worker between peek and removelast holds the oldest job of a queue    *)
(* that is not empty.                                                      *)
LEMMA RemovedIsQueued ==
  ASSUME IInv, NEW w \in Workers, pc[w] = "remove"
  PROVE  /\ jobsN # 0 /\ tail \in Queued /\ tail \in Addr
         /\ tail = order[1] /\ order # <<>>
         /\ mutex = w /\ main \notin {"add", "post", "unlock", "empty", "gone", "exited"}
<1>1. w \in Claimed
  BY DEF Claimed
<1>2. jobsN # 0 /\ tail \in Addr
  BY <1>1, ClaimedHasJob DEF IInv
<1>3. tail \in Queued /\ tail = order[1] /\ order # <<>>
  BY <1>2, TailIsOldest DEF IInv
<1>4. mutex = w /\ main \notin {"add", "post", "unlock"}
  BY Distinct DEF IInv, MutexHeld
<1> QED
  BY <1>2, <1>3, <1>4 DEF IInv, Control

(* Steps that touch neither list nor cells nor argument copies. *)
LEMMA KeepsArgs ==
  ASSUME ArgsCarried,
         UNCHANGED <<order, arg, tail, argBuf>>,
         newjob' = newjob \/ newjob' = NULL,
         \A w \in Workers : pc'[w] = "remove" => pc[w] = "remove",
         \A w \in Workers : pc'[w] \in {"unlock", "run"} => pc[w] \in {"unlock", "run"}
  PROVE  ArgsCarried'
BY DEF ArgsCarried, Queued

(* No step loses or changes an argument on its way to the job function. *)
LEMMA NextArgsCarried ==
  ASSUME IInv, ArgsCarried, [Next]_vars
  PROVE  ArgsCarried'
<1> USE DEF TypeOK
<1>0. TypeOK
  BY DEF IInv
<1>1. ASSUME NEW x \in Args, AddWork(x)
      PROVE  ArgsCarried'
  <2>1. PICK a \in Addr \ live : arg' = [arg EXCEPT ![a] = x] /\ newjob' = a
    BY <1>1 DEF AddWork
  <2>2. /\ UNCHANGED <<order, tail, pc, argBuf>> /\ Queued' = Queued
        /\ main # "exited"
    BY <1>1 DEF AddWork, queueVars, workVars, Queued
  <2>3. a \notin Queued
    BY <2>1, <2>2 DEF IInv, JobOwnership
  <2>4. \A w \in Workers : pc[w] = "remove" => tail # a
    BY <2>3, RemovedIsQueued
  <2> QED
    BY <1>0, <2>1, <2>2, <2>3, <2>4 DEF ArgsCarried
<1>2. CASE AddWorkFails
  BY <1>2, KeepsArgs DEF AddWorkFails, queueVars, heapVars
<1>3. CASE OwnerLock \/ JobqueueAddPost \/ OwnerUnlock \/ Destory \/ DestoryPost
           \/ DestorySemDestroy \/ DestoryJoin
  BY <1>3, KeepsArgs DEF OwnerLock, JobqueueAddPost, OwnerUnlock, Destory, DestoryPost,
     DestorySemDestroy, DestoryJoin, queueVars, heapVars, workVars
<1>4. CASE JobqueueAdd
  <2>1. newjob \in Addr /\ Queued' = Queued \cup {newjob}
    BY <1>0, <1>4, AddQueued DEF IInv
  <2>2. UNCHANGED <<arg, pc, argBuf>> /\ newjob' = NULL
    BY <1>4 DEF JobqueueAdd, heapVars, workVars
  <2>3. \A w \in Workers : pc[w] # "remove"
    BY <1>4, RemovedIsQueued DEF JobqueueAdd
  <2> QED
    BY <2>1, <2>2, <2>3, Distinct DEF ArgsCarried
<1>5. CASE JobqueueEmptyStep
  <2>1. jobsN # 0 /\ order' = Tail(order) /\ UNCHANGED <<newjob, argBuf>>
    BY <1>5 DEF JobqueueEmptyStep, ownerVars, workVars
  <2>2. Queued' = Queued \ {tail}
    BY <1>0, <2>1, TailQueued DEF IInv
  <2>3. \A w \in Workers : pc'[w] = "return"
    BY <1>5 DEF JobqueueEmptyStep, workVars, IInv, Control
  <2>4. newjob = NULL
    BY <1>5 DEF JobqueueEmptyStep, IInv, Control
  <2>5. \A a \in Addr : a # tail => arg'[a] = arg[a]
    BY <1>0, <1>5 DEF JobqueueEmptyStep, Free
  <2>6. Queued \subseteq Addr
    BY <1>0, EmptyOrder DEF Queued
  <2> QED
    BY <2>1, <2>2, <2>3, <2>4, <2>5, <2>6 DEF ArgsCarried
<1>6. CASE JobqueueEmptied
  <2>1. \A w \in Workers : pc[w] = "return"
    BY <1>6 DEF JobqueueEmptied, IInv, Control
  <2>2. UNCHANGED <<order, arg, newjob, pc, argBuf>>
    BY <1>6 DEF JobqueueEmptied, heapVars, workVars
  <2> QED
    BY <2>1, <2>2 DEF ArgsCarried, Queued
<1>7. ASSUME NEW w \in Workers, WorkerStep(w)
      PROVE  ArgsCarried'
  <2>1. CASE LoopTest(w) \/ SemWait(w) \/ KeepaliveTest(w) \/ WorkerLock(w) \/ WorkerUnlock(w)
    BY <1>0, <2>1, KeepsArgs DEF LoopTest, SemWait, KeepaliveTest, WorkerLock, WorkerUnlock,
       Goto, queueVars, heapVars, ownerVars
  <2>2. CASE Peek(w)
    <3>1. UNCHANGED <<order, arg, tail, newjob>> /\ Queued' = Queued
      BY <2>2 DEF Peek, queueVars, heapVars, ownerVars, Queued
    <3>2. pc'[w] = "remove" /\ argBuf'[w] = arg[tail]
      BY <1>0, <2>2 DEF Peek, Goto
    <3>3. \A v \in Workers \ {w} : pc'[v] = pc[v] /\ argBuf'[v] = argBuf[v]
      BY <1>0, <2>2 DEF Peek, Goto
    <3> QED
      BY <3>1, <3>2, <3>3 DEF ArgsCarried
  <2>3. CASE JobqueueRemovelast(w)
    <3>1. /\ pc[w] = "remove" /\ pc'[w] = "unlock"
          /\ \A v \in Workers \ {w} : pc'[v] = pc[v]
      BY <1>0, <2>3 DEF JobqueueRemovelast, Goto
    <3>2. jobsN # 0 /\ tail \in Queued
      BY <3>1, RemovedIsQueued
    <3>3. order' = Tail(order) /\ UNCHANGED <<arg, newjob, argBuf>>
      BY <2>3, <3>2 DEF JobqueueRemovelast, heapVars, ownerVars
    <3>4. Queued' = Queued \ {tail}
      BY <1>0, <3>2, <3>3, TailQueued DEF IInv
    <3>5. \A v \in Workers : pc[v] = "remove" => v = w
      BY <3>1, RemovedIsQueued
    <3> QED
      BY <3>1, <3>2, <3>3, <3>4, <3>5 DEF ArgsCarried
  <2>4. CASE JobReturns(w)
    <3>1. UNCHANGED <<order, arg, tail, newjob>> /\ Queued' = Queued
      BY <2>4 DEF JobReturns, queueVars, heapVars, ownerVars, Queued
    <3>2. pc'[w] = "free" /\ \A v \in Workers \ {w} : pc'[v] = pc[v] /\ argBuf'[v] = argBuf[v]
      BY <1>0, <2>4 DEF JobReturns, Goto
    <3> QED
      BY <3>1, <3>2 DEF ArgsCarried
  <2>5. CASE FreeJob(w)
    <3>1. UNCHANGED <<order, tail, newjob, argBuf>> /\ Queued' = Queued
      BY <2>5 DEF FreeJob, queueVars, ownerVars, Queued
    <3>2. /\ pc[w] = "free" /\ pc'[w] = "loop"
          /\ \A v \in Workers \ {w} : pc'[v] = pc[v]
          /\ arg' = [arg EXCEPT ![job[w]] = NULL]
      BY <1>0, <2>5 DEF FreeJob, Goto, Free
    <3>3. w \in Holders /\ main # "exited"
      BY <3>2 DEF IInv, Control, Holders
    <3>4. job[w] \notin Queued /\ job[w] # newjob
      BY <3>3 DEF IInv, JobOwnership
    <3>5. \A a \in Addr : a # job[w] => arg'[a] = arg[a]
      BY <1>0, <3>2
    <3>6. Queued \subseteq Addr
      BY <1>0, EmptyOrder DEF Queued
    <3>7. \A v \in Workers : pc[v] = "remove" => tail \in Queued
      BY RemovedIsQueued
    <3>8. newjob # NULL => newjob \in Addr
      BY <1>0 DEF Cells
    <3>9. (\A a \in Queued : arg'[a] \in Args) /\ (newjob # NULL => arg'[newjob] \in Args)
      BY <3>4, <3>5, <3>6, <3>8 DEF ArgsCarried
    <3>10. \A v \in Workers : pc'[v] = "remove" => argBuf'[v] = arg'[tail]
      BY <3>1, <3>2, <3>4, <3>5, <3>6, <3>7 DEF ArgsCarried
    <3>11. \A v \in Workers : pc'[v] \in {"unlock", "run"} => argBuf'[v] \in Args
      BY <3>1, <3>2 DEF ArgsCarried
    <3> QED
      BY <3>1, <3>9, <3>10, <3>11 DEF ArgsCarried
  <2> QED
    BY <1>7, <2>1, <2>2, <2>3, <2>4, <2>5 DEF WorkerStep
<1>8. CASE UNCHANGED vars \/ Terminated
  BY <1>8, KeepsArgs DEF Terminated, vars, queueVars, heapVars, ownerVars, workVars
<1> QED
  BY <1>1, <1>2, <1>3, <1>4, <1>5, <1>6, <1>7, <1>8 DEF Next, OwnerStep

-----------------------------------------------------------------------------
(***************************************************************************)
(* The abstract state, as ThreadPool substitutes it in TaskPool.           *)
(***************************************************************************)

Pending == [i \in 1..Len(order) |-> arg[order[i]]]
Running == [w \in Workers |->
             IF pc[w] \in {"unlock", "run"} THEN argBuf[w] ELSE NULL]
MayTake == IF keepalive THEN Workers ELSE Claimed
Status  == CASE main = "exited" -> "exited"
             [] main = "gone"   -> "closed"
             [] main \in {"wake", "join", "empty"} -> "closing"
             [] OTHER -> "open"
absVars == <<Pending, Running, MayTake, Status>>

(* A sequence of looked-up values grows with the sequence of cells. *)
LEMMA MapAppend ==
  ASSUME NEW S, NEW s \in Seq(S), NEW e \in S, NEW f, NEW t, t = Append(s, e)
  PROVE  [i \in 1..Len(t) |-> f[t[i]]] = Append([i \in 1..Len(s) |-> f[s[i]]], f[e])
<1> DEFINE m == [i \in 1..Len(s) |-> f[s[i]]]
           n == [i \in 1..Len(t) |-> f[t[i]]]
           T == {f[x] : x \in S}
<1>1. m \in Seq(T) /\ Len(m) = Len(s) /\ f[e] \in T
  <2>1. \A i \in 1..Len(s) : f[s[i]] \in T
    OBVIOUS
  <2>2. Len(s) \in Nat
    OBVIOUS
  <2> QED
    BY <2>1, <2>2
<1>2. t \in Seq(S) /\ Len(t) = Len(s) + 1 /\ t[Len(s) + 1] = e
      /\ \A i \in 1..Len(s) : t[i] = s[i]
  OBVIOUS
<1>3. n \in Seq(T) /\ Len(n) = Len(t)
  <2>1. \A i \in 1..Len(t) : f[t[i]] \in T
    BY <1>2
  <2> QED
    BY <1>2, <2>1
<1>4. Append(m, f[e]) \in Seq(T) /\ Len(Append(m, f[e])) = Len(t)
  BY <1>1, <1>2
<1>5. ASSUME NEW i \in 1..Len(t)
      PROVE  n[i] = Append(m, f[e])[i]
  <2>1. CASE i = Len(s) + 1
    BY <1>1, <1>2, <2>1
  <2>2. CASE i \in 1..Len(s)
    BY <1>1, <1>2, <2>2
  <2> QED
    BY <1>2, <2>1, <2>2
<1>6. n = Append(m, f[e])
  BY <1>3, <1>4, <1>5, SeqEqual
<1> QED
  BY <1>6

(* ... and loses its first value with the first cell. *)
LEMMA MapTail ==
  ASSUME NEW S, NEW s \in Seq(S), s # <<>>, NEW f, NEW t, t = Tail(s)
  PROVE  LET m == [i \in 1..Len(s) |-> f[s[i]]]
         IN  /\ [i \in 1..Len(t) |-> f[t[i]]] = Tail(m)
             /\ m # <<>> /\ Head(m) = f[s[1]]
<1> DEFINE m == [i \in 1..Len(s) |-> f[s[i]]]
           n == [i \in 1..Len(t) |-> f[t[i]]]
           T == {f[x] : x \in S}
<1>1. m \in Seq(T) /\ Len(m) = Len(s) /\ Len(s) \in Nat /\ Len(s) >= 1
  <2>1. \A i \in 1..Len(s) : f[s[i]] \in T
    OBVIOUS
  <2>2. Len(s) \in Nat /\ Len(s) # 0
    OBVIOUS
  <2> QED
    BY <2>1, <2>2
<1>2. t \in Seq(S) /\ Len(t) = Len(s) - 1 /\ \A i \in 1..Len(t) : t[i] = s[i + 1]
  BY <1>1
<1>3. n \in Seq(T) /\ Len(n) = Len(t)
  <2>1. \A i \in 1..Len(t) : f[t[i]] \in T
    BY <1>2
  <2> QED
    BY <1>2, <2>1
<1>4. m # <<>>
  BY <1>1
<1>5. Tail(m) \in Seq(T) /\ Len(Tail(m)) = Len(t)
      /\ \A i \in 1..Len(t) : Tail(m)[i] = m[i + 1]
  BY <1>1, <1>2, <1>4
<1>6. \A i \in 1..Len(t) : n[i] = Tail(m)[i]
  BY <1>1, <1>2, <1>5
<1>7. n = Tail(m)
  BY <1>3, <1>5, <1>6, SeqEqual
<1>8. Head(m) = f[s[1]]
  BY <1>1, <1>4
<1> QED
  BY <1>4, <1>7, <1>8

-----------------------------------------------------------------------------

(* The pool starts with nothing pending and nothing running. *)
LEMMA InitRefines == Init => Abstract!Init
<1> SUFFICES ASSUME Init PROVE Abstract!Init
  OBVIOUS
<1>1. Pending = <<>>
  BY DEF Init, Pending
<1>2. Running = [w \in Workers |-> NULL]
  BY DEF Init, Running
<1>3. MayTake = Workers /\ Status = "open"
  BY DEF Init, MayTake, Status
<1> QED
  BY <1>1, <1>2, <1>3 DEF Abstract!Init, Pending, Running, MayTake, Status

(* The line of arguments does not move while neither the list nor a queued *)
(* cell changes.                                                           *)
LEMMA PendingStays ==
  ASSUME order' = order, \A a \in Queued : arg'[a] = arg[a]
  PROVE  Pending' = Pending
BY DEF Pending, Queued

(* No caller sees a worker move between two program points outside a job.  *)
LEMMA RunningStays ==
  ASSUME \A w \in Workers :
           (IF pc'[w] \in {"unlock", "run"} THEN argBuf'[w] ELSE NULL)
           = (IF pc[w] \in {"unlock", "run"} THEN argBuf[w] ELSE NULL)
  PROVE  Running' = Running
BY DEF Running

(* Steps of the owner and of the workers that TaskPool does not show. *)
LEMMA HiddenSteps ==
  ASSUME IInv, ArgsCarried,
         \/ \E x \in Args : AddWork(x)
         \/ OwnerLock \/ JobqueueAddPost \/ OwnerUnlock
         \/ DestoryPost \/ DestorySemDestroy \/ DestoryJoin
         \/ \E w \in Workers : \/ LoopTest(w) \/ SemWait(w) \/ KeepaliveTest(w)
                               \/ WorkerLock(w) \/ Peek(w) \/ WorkerUnlock(w)
                               \/ FreeJob(w)
         \/ UNCHANGED vars \/ Terminated
  PROVE  UNCHANGED absVars
<1> USE DEF TypeOK
<1>0. TypeOK
  BY DEF IInv
<1>1. ASSUME NEW x \in Args, AddWork(x)
      PROVE  UNCHANGED absVars
  <2>1. PICK a \in Addr \ live : arg' = [arg EXCEPT ![a] = x]
    BY <1>1 DEF AddWork
  <2>2. /\ UNCHANGED <<order, pc, argBuf, keepalive>>
        /\ main = "idle" /\ main' = "lock"
    BY <1>1 DEF AddWork, queueVars, syncVars, workVars
  <2>3. a \notin Queued /\ Queued \subseteq Addr
    BY <1>0, <2>1, <2>2, EmptyOrder DEF IInv, JobOwnership, Queued
  <2>4. Pending' = Pending
    BY <1>0, <2>1, <2>2, <2>3, PendingStays
  <2> QED
    BY <2>2, <2>4 DEF absVars, Running, MayTake, Claimed, Status
<1>2. CASE \/ OwnerLock \/ JobqueueAddPost \/ OwnerUnlock
           \/ DestoryPost \/ DestorySemDestroy \/ DestoryJoin
  <2>1. UNCHANGED <<order, arg, pc, argBuf, keepalive>> /\ Status' = Status
    BY <1>2 DEF OwnerLock, JobqueueAddPost, OwnerUnlock, DestoryPost, DestorySemDestroy,
       DestoryJoin, queueVars, heapVars, syncVars, workVars, Status
  <2> QED
    BY <2>1 DEF absVars, Pending, Running, MayTake, Claimed
<1>3. ASSUME NEW w \in Workers,
             \/ LoopTest(w) \/ SemWait(w) \/ KeepaliveTest(w)
             \/ WorkerLock(w) \/ Peek(w) \/ WorkerUnlock(w)
      PROVE  UNCHANGED absVars
  <2>1. UNCHANGED <<order, arg, main, keepalive>>
    BY <1>3 DEF LoopTest, SemWait, KeepaliveTest, WorkerLock, Peek, WorkerUnlock,
       queueVars, heapVars, syncVars, ownerVars
  <2>2. /\ \A v \in Workers \ {w} : pc'[v] = pc[v] /\ argBuf'[v] = argBuf[v]
        /\ \/ pc[w] \notin {"unlock", "run"} /\ pc'[w] \notin {"unlock", "run"}
           \/ pc[w] = "unlock" /\ pc'[w] = "run" /\ argBuf'[w] = argBuf[w]
    BY <1>0, <1>3 DEF LoopTest, SemWait, KeepaliveTest, WorkerLock, Peek, WorkerUnlock, Goto
  <2>3. ~keepalive => Claimed' = Claimed
    <3>1. ~keepalive => (pc'[w] \in {"lock", "peek", "remove"}
                         <=> pc[w] \in {"lock", "peek", "remove"})
      BY <1>0, <1>3 DEF LoopTest, SemWait, KeepaliveTest, WorkerLock, Peek, WorkerUnlock, Goto
    <3> QED
      BY <2>2, <3>1 DEF Claimed
  <2>4. Pending' = Pending /\ Running' = Running
    BY <2>1, <2>2, PendingStays, RunningStays
  <2> QED
    BY <2>1, <2>3, <2>4 DEF absVars, MayTake, Status
<1>4. ASSUME NEW w \in Workers, FreeJob(w)
      PROVE  UNCHANGED absVars
  <2>1. /\ UNCHANGED <<order, argBuf, main, keepalive>>
        /\ pc[w] = "free" /\ pc'[w] = "loop"
        /\ \A v \in Workers \ {w} : pc'[v] = pc[v]
        /\ arg' = [arg EXCEPT ![job[w]] = NULL]
    BY <1>0, <1>4 DEF FreeJob, Goto, Free, queueVars, syncVars, ownerVars
  <2>2. job[w] \notin Queued /\ Queued \subseteq Addr
    <3>1. w \in Holders /\ main # "exited"
      BY <2>1 DEF IInv, Control, Holders
    <3> QED
      BY <1>0, <3>1, EmptyOrder DEF IInv, JobOwnership, Queued
  <2>3. Pending' = Pending
    BY <1>0, <2>1, <2>2, PendingStays
  <2>4. Running' = Running
    BY <2>1, RunningStays
  <2>5. Claimed' = Claimed
    BY <2>1 DEF Claimed
  <2> QED
    BY <2>1, <2>3, <2>4, <2>5 DEF absVars, MayTake, Status
<1>5. CASE UNCHANGED vars \/ Terminated
  <2>1. UNCHANGED <<order, arg, pc, argBuf, main, keepalive>>
    BY <1>5 DEF Terminated, vars, queueVars, heapVars, syncVars, ownerVars, workVars
  <2> QED
    BY <2>1 DEF absVars, Pending, Running, MayTake, Claimed, Status
<1> QED
  BY <1>1, <1>2, <1>3, <1>4, <1>5

(* thpool_jobqueue_add submits the argument of the new cell. *)
LEMMA AddSubmits ==
  ASSUME IInv, ArgsCarried, JobqueueAdd
  PROVE  \E x \in Args : Abstract!Submit(x)
<1>0. TypeOK
  BY DEF IInv
<1>1. newjob \in Addr /\ order \in Seq(Addr) /\ order' = Append(order, newjob)
  BY <1>0, AddQueued DEF IInv, TypeOK, JobqueueAdd
<1>2. arg' = arg /\ pc' = pc /\ argBuf' = argBuf /\ keepalive' = keepalive
      /\ main = "add" /\ main' = "post"
  BY DEF JobqueueAdd, heapVars, syncVars, workVars
<1>3. Pending' = Append(Pending, arg[newjob])
  BY <1>1, <1>2, MapAppend DEF Pending
<1>4. Running' = Running /\ MayTake' = MayTake /\ Status = "open" /\ Status' = "open"
  BY <1>2 DEF Running, MayTake, Claimed, Status
<1>5. arg[newjob] \in Args
  BY <1>1, Distinct DEF ArgsCarried
<1> QED
  BY <1>3, <1>4, <1>5 DEF Abstract!Submit, Pending, Running, MayTake, Status

(* thpool_jobqueue_removelast takes the oldest argument. *)
LEMMA RemovelastTakes ==
  ASSUME IInv, ArgsCarried, NEW w \in Workers, JobqueueRemovelast(w)
  PROVE  Abstract!Take(w)
<1>0. TypeOK
  BY DEF IInv
<1>1. pc[w] = "remove" /\ pc' = [pc EXCEPT ![w] = "unlock"]
      /\ UNCHANGED <<arg, argBuf, main, keepalive>>
  BY DEF JobqueueRemovelast, Goto, heapVars, syncVars, ownerVars
<1>2. jobsN # 0 /\ tail = order[1] /\ order # <<>> /\ order \in Seq(Addr)
      /\ main \notin {"empty", "gone", "exited"}
  BY <1>0, <1>1, RemovedIsQueued DEF TypeOK
<1>3. order' = Tail(order)
  BY <1>2 DEF JobqueueRemovelast
<1>4. Pending' = Tail(Pending) /\ Pending # <<>> /\ Head(Pending) = arg[tail]
  BY <1>1, <1>2, <1>3, MapTail DEF Pending
<1>5. argBuf[w] = arg[tail]
  BY <1>1 DEF ArgsCarried
<1>6. Running' = [Running EXCEPT ![w] = Head(Pending)] /\ Running[w] = NULL
  BY <1>0, <1>1, <1>4, <1>5 DEF Running, TypeOK
<1>7. /\ Status' = Status /\ Status \in {"open", "closing"}
      /\ Status = "open" <=> keepalive
  BY <1>0, <1>1, <1>2 DEF Status, IInv, Control, TypeOK, OwnerLabels
<1>8. Claimed' = Claimed \ {w} /\ w \in Claimed /\ Claimed \subseteq Workers
  BY <1>0, <1>1 DEF Claimed, TypeOK
<1>9. /\ w \in MayTake
      /\ MayTake' = IF Status = "open" THEN MayTake ELSE MayTake \ {w}
  BY <1>1, <1>7, <1>8 DEF MayTake
<1> QED
  BY <1>4, <1>6, <1>7, <1>9 DEF Abstract!Take, Abstract!Idle, Pending, Running, MayTake, Status

(* A job function that returns finishes its argument. *)
LEMMA ReturnFinishes ==
  ASSUME IInv, ArgsCarried, NEW w \in Workers, JobReturns(w)
  PROVE  Abstract!Finish(w)
<1>0. TypeOK
  BY DEF IInv
<1>1. pc[w] = "run" /\ pc' = [pc EXCEPT ![w] = "free"]
      /\ argBuf' = [argBuf EXCEPT ![w] = NULL]
      /\ UNCHANGED <<order, arg, main, keepalive>>
  BY DEF JobReturns, Goto, queueVars, heapVars, syncVars, ownerVars
<1>2. Running' = [Running EXCEPT ![w] = NULL] /\ Running[w] # NULL
  BY <1>0, <1>1, Distinct DEF Running, TypeOK, ArgsCarried
<1>3. Claimed' = Claimed
  BY <1>0, <1>1 DEF Claimed, TypeOK
<1>4. Pending' = Pending /\ MayTake' = MayTake /\ Status' = Status
  BY <1>1, <1>3 DEF Pending, MayTake, Status
<1> QED
  BY <1>2, <1>4 DEF Abstract!Finish, Pending, Running, MayTake, Status

(* thpool_destory closes the pool: the workers past the second keepalive   *)
(* test are on their way to a job, and run none.                           *)
LEMMA DestoryCloses ==
  ASSUME IInv, Destory
  PROVE  Abstract!Close
<1>0. TypeOK
  BY DEF IInv
<1>1. main = "idle" /\ main' = "wake" /\ keepalive' = FALSE
      /\ UNCHANGED <<order, arg, pc, argBuf>>
  BY DEF Destory, queueVars, heapVars, workVars
<1>2. MayTake' = Claimed /\ \A w \in Claimed : w \in Workers /\ Running[w] = NULL
  BY <1>1 DEF MayTake, Claimed, Running
<1>3. Pending' = Pending /\ Running' = Running /\ Status = "open" /\ Status' = "closing"
  BY <1>1 DEF Pending, Running, Status
<1> QED
  BY <1>2, <1>3 DEF Abstract!Close, Abstract!Idle, Pending, Running, MayTake, Status

(* The malloc that fails ends the process under the pool. *)
LEMMA FailureExits ==
  ASSUME IInv, AddWorkFails
  PROVE  Abstract!Exit
<1>1. main = "idle" /\ main' = "exited" /\ keepalive' = keepalive /\ keepalive
      /\ pc' = [w \in Workers |-> "exited"] /\ UNCHANGED <<order, arg>>
  BY DEF AddWorkFails, queueVars, heapVars, syncVars, IInv, Control
<1>2. Running' = [w \in Workers |-> NULL]
  BY <1>1 DEF Running
<1>3. Pending' = Pending /\ MayTake' = MayTake /\ Status = "open" /\ Status' = "exited"
  BY <1>1 DEF Pending, MayTake, Status
<1> QED
  BY <1>2, <1>3 DEF Abstract!Exit, Pending, Running, MayTake, Status

(* Once the workers are joined, nothing runs and nothing will. *)
LEMMA JoinedIsIdle ==
  ASSUME IInv, main = "empty"
  PROVE  Abstract!Idle = Workers /\ MayTake = {} /\ Status = "closing"
<1>1. ~keepalive /\ \A w \in Workers : pc[w] = "return"
  BY DEF IInv, Control
<1>2. \A w \in Workers : Running[w] = NULL
  BY <1>1 DEF Running
<1>3. MayTake = {} /\ Status = "closing"
  BY <1>1 DEF MayTake, Claimed, Status
<1> QED
  BY <1>2, <1>3 DEF Abstract!Idle, Running

(* A turn of thpool_jobqueue_empty discards one argument. *)
LEMMA EmptyDiscards ==
  ASSUME IInv, JobqueueEmptyStep
  PROVE  Abstract!Discard
<1>0. TypeOK
  BY DEF IInv
<1>1. jobsN # 0 /\ order' = Tail(order) /\ main = "empty"
      /\ UNCHANGED <<pc, argBuf, main, keepalive>>
      /\ arg' = [arg EXCEPT ![tail] = NULL]
  BY DEF JobqueueEmptyStep, Free, syncVars, ownerVars, workVars
<1>2. order # <<>> /\ order \in Seq(Addr)
  BY <1>0, <1>1, TailIsOldest DEF IInv, TypeOK
<1>3. tail \notin Queued' /\ Queued' \subseteq Addr
  <2>1. Queued' = Queued \ {tail}
    BY <1>0, <1>1, TailQueued DEF IInv
  <2>2. Queued \subseteq Addr
    BY <1>2, EmptyOrder DEF Queued
  <2> QED
    BY <2>1, <2>2
<1>4. \A i \in 1..Len(order') : order'[i] \in Queued'
  BY DEF Queued
<1>5. Pending' = [i \in 1..Len(order') |-> arg[order'[i]]]
  BY <1>0, <1>1, <1>3, <1>4 DEF Pending, TypeOK
<1>6. [i \in 1..Len(order') |-> arg[order'[i]]] = Tail(Pending) /\ Pending # <<>>
  BY <1>1, <1>2, MapTail DEF Pending
<1>7. Running' = Running /\ MayTake' = MayTake /\ Status' = Status
  BY <1>1 DEF Running, MayTake, Claimed, Status
<1>8. Abstract!Idle = Workers /\ MayTake = {} /\ Status = "closing"
  BY <1>1, JoinedIsIdle
<1> QED
  BY <1>5, <1>6, <1>7, <1>8 DEF Abstract!Discard, Pending, Running, MayTake, Status

(* The end of thpool_jobqueue_empty closes the pool for good. *)
LEMMA EmptiedIsClosed ==
  ASSUME IInv, JobqueueEmptied
  PROVE  Abstract!Closed
<1>1. jobsN = 0 /\ main = "empty" /\ main' = "gone"
      /\ UNCHANGED <<order, arg, pc, argBuf, keepalive>>
  BY DEF JobqueueEmptied, heapVars, syncVars, workVars
<1>2. Len(order) = 0
  BY <1>1 DEF IInv, QueueIsList
<1>3. Pending = <<>> /\ Pending' = Pending
  BY <1>1, <1>2 DEF Pending
<1>4. Running' = Running /\ MayTake' = MayTake /\ Status' = "closed"
  BY <1>1 DEF Running, MayTake, Claimed, Status
<1>5. Abstract!Idle = Workers /\ MayTake = {} /\ Status = "closing"
  BY <1>1, JoinedIsIdle
<1> QED
  BY <1>3, <1>4, <1>5 DEF Abstract!Closed, Pending, Running, MayTake, Status

(* Every step of the pool is a step of TaskPool or hidden from it. *)
LEMMA NextRefines ==
  ASSUME IInv, ArgsCarried, [Next]_vars
  PROVE  [Abstract!Next]_(Abstract!vars)
<1>1. CASE UNCHANGED absVars
  BY <1>1 DEF absVars, Abstract!vars, Pending, Running, MayTake, Status
<1>2. CASE JobqueueAdd
  BY <1>2, AddSubmits DEF Abstract!Next
<1>3. CASE Destory
  BY <1>3, DestoryCloses DEF Abstract!Next
<1>4. CASE AddWorkFails
  BY <1>4, FailureExits DEF Abstract!Next
<1>5. CASE JobqueueEmptyStep
  BY <1>5, EmptyDiscards DEF Abstract!Next
<1>6. CASE JobqueueEmptied
  BY <1>6, EmptiedIsClosed DEF Abstract!Next
<1>7. ASSUME NEW w \in Workers, JobqueueRemovelast(w) \/ JobReturns(w)
      PROVE  Abstract!Next
  BY <1>7, RemovelastTakes, ReturnFinishes DEF Abstract!Next
<1> QED
  BY <1>1, <1>2, <1>3, <1>4, <1>5, <1>6, <1>7, HiddenSteps
     DEF Next, OwnerStep, WorkerStep

(* The pool of thread_pool.c gives its caller what TaskPool promises: one  *)
(* FIFO line, each argument taken once, run once to its end, and after     *)
(* thpool_destory at most one more job per worker (ImplementsTaskPool).    *)
THEOREM PoolRefines == Spec => ImplementsTaskPool
<1>1. Init => Abstract!Init /\ ArgsCarried
  BY InitRefines, InitArgsCarried
<1>2. IInv /\ ArgsCarried /\ [Next]_vars => ArgsCarried'
  BY NextArgsCarried
<1>3. IInv /\ ArgsCarried /\ [Next]_vars => [Abstract!Next]_(Abstract!vars)
  BY NextRefines
<1> QED
  BY <1>1, <1>2, <1>3, InvariantHolds, PTL DEF Spec, ImplementsTaskPool, Abstract!Spec

=============================================================================
