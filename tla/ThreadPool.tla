------------------------------ MODULE ThreadPool ------------------------------
(***************************************************************************)
(* The thread pool of src/src/thread_pool.c after thpool_init returned:    *)
(* the worker loop thpool_thread_do, and the calls its owner makes,        *)
(* thpool_add_work any number of times and then, perhaps, thpool_destory.  *)
(*                                                                         *)
(* The job queue is the doubly linked list of the code: `head`, `tail`,    *)
(* `jobsN` and the `next`/`prev` fields of heap cells.  A job enters at    *)
(* `head` and leaves at `tail`, so `tail` is the oldest job.  Each step is *)
(* what a thread does between two points where another thread can get in   *)
(* between: a semaphore operation, a read or write of thpool_keepalive, a  *)
(* lock or unlock, or one access to the queue while the mutex is held.     *)
(***************************************************************************)
EXTENDS Naturals, Sequences, FiniteSets

CONSTANTS
  Workers,  \* the threads thpool_init created
  Owner,    \* the thread that owns the pool (the main thread of coix.c)
  Addr,     \* the heap cells malloc can return for a thpool_job_t
  Args,     \* the arguments given to thpool_add_work
  NULL      \* the null pointer

ASSUME ConstantsAssumption ==
  /\ IsFiniteSet(Workers)
  /\ Owner \notin Workers
  /\ NULL \notin Workers \cup {Owner} \cup Addr \cup Args

threadsN == Cardinality(Workers)

VARIABLES
  (* the job queue (thpool_jobqueue) and the cells it links *)
  head, tail, jobsN, next, prev, arg,
  live,       \* heap cells malloc has returned and free has not taken back
  order,      \* history: the queued cells, oldest first
  (* what the threads synchronise on *)
  sem,        \* value of queueSem
  mutex,      \* the thread that holds `mutex`, or NULL
  keepalive,  \* thpool_keepalive
  (* the owner: program counter, newjob, loop counter of thpool_destory *)
  main, newjob, posts,
  (* each worker: program counter, job_p, arg_buff *)
  pc, job, argBuf

queueVars == <<head, tail, jobsN, next, prev, order>>
heapVars  == <<arg, live>>
syncVars  == <<sem, mutex, keepalive>>
ownerVars == <<main, newjob, posts>>
workVars  == <<pc, job, argBuf>>
vars == <<queueVars, heapVars, syncVars, ownerVars, workVars>>

Cells == Addr \cup {NULL}

Goto(w, label) == pc' = [pc EXCEPT ![w] = label]

Queued == {order[i] : i \in 1..Len(order)}

(* free(a): what a freed cell holds is cleared, so that it does not        *)
(* multiply states; JobOwnership says that nobody can read it.             *)
Free(a) ==
  /\ live' = live \ {a}
  /\ arg' = [arg EXCEPT ![a] = NULL]

(***************************************************************************)
(* The initial state: thpool_init has set up an empty queue and a          *)
(* semaphore at 0 and started every worker.                                *)
(***************************************************************************)
Init ==
  /\ head = NULL /\ tail = NULL /\ jobsN = 0
  /\ next = [a \in Addr |-> NULL]
  /\ prev = [a \in Addr |-> NULL]
  /\ arg  = [a \in Addr |-> NULL]
  /\ live = {} /\ order = <<>>
  /\ sem = 0 /\ mutex = NULL /\ keepalive = TRUE
  /\ main = "idle" /\ newjob = NULL /\ posts = 0
  /\ pc     = [w \in Workers |-> "loop"]
  /\ job    = [w \in Workers |-> NULL]
  /\ argBuf = [w \in Workers |-> NULL]

(***************************************************************************)
(* thpool_add_work, called by the owner.                                   *)
(***************************************************************************)

(* malloc a cell and store the job in it. *)
AddWork(x) ==
  /\ main = "idle"
  /\ \E a \in Addr \ live :
       /\ live' = live \cup {a}
       /\ arg' = [arg EXCEPT ![a] = x]
       /\ newjob' = a
  /\ main' = "lock"
  /\ UNCHANGED <<queueVars, syncVars, posts, workVars>>

(* malloc returns NULL: log_error ends the process, with all its threads. *)
AddWorkFails ==
  /\ main = "idle"
  /\ live = Addr
  /\ main' = "exited"
  /\ pc' = [w \in Workers |-> "exited"]
  /\ UNCHANGED <<queueVars, heapVars, syncVars, newjob, posts, job, argBuf>>

OwnerLock ==
  /\ main = "lock"
  /\ mutex = NULL
  /\ mutex' = Owner
  /\ main' = "add"
  /\ UNCHANGED <<queueVars, heapVars, sem, keepalive, newjob, posts, workVars>>

(* thpool_jobqueue_add, up to the sem_post. *)
JobqueueAdd ==
  /\ main = "add"
  /\ \/ /\ jobsN = 0
        /\ tail' = newjob
        /\ next' = [next EXCEPT ![newjob] = NULL]
        /\ prev' = [prev EXCEPT ![newjob] = NULL]
     \/ /\ jobsN # 0
        /\ next' = [next EXCEPT ![newjob] = head]
        /\ prev' = [prev EXCEPT ![newjob] = NULL, ![head] = newjob]
        /\ UNCHANGED tail
  /\ head' = newjob
  /\ jobsN' = jobsN + 1
  /\ order' = Append(order, newjob)
  /\ newjob' = NULL
  /\ main' = "post"
  /\ UNCHANGED <<heapVars, syncVars, posts, workVars>>

(* A post that is forgotten, for the mutation checks below. *)
JobqueueAddPost_Forgotten ==
  /\ main = "post"
  /\ main' = "unlock"
  /\ UNCHANGED <<queueVars, heapVars, syncVars, newjob, posts, workVars>>

(* The end of thpool_jobqueue_add: sem_post, still under the mutex. *)
JobqueueAddPost ==
  /\ main = "post"
  /\ sem' = sem + 1
  /\ main' = "unlock"
  /\ UNCHANGED <<queueVars, heapVars, mutex, keepalive, newjob, posts, workVars>>

OwnerUnlock ==
  /\ main = "unlock"
  /\ mutex' = NULL
  /\ main' = "idle"
  /\ UNCHANGED <<queueVars, heapVars, sem, keepalive, newjob, posts, workVars>>

(***************************************************************************)
(* thpool_thread_do, the worker loop.                                      *)
(***************************************************************************)

(* while (thpool_keepalive) *)
LoopTest(w) ==
  /\ pc[w] = "loop"
  /\ Goto(w, IF keepalive THEN "wait" ELSE "return")
  /\ UNCHANGED <<queueVars, heapVars, syncVars, ownerVars, job, argBuf>>

(* A wait that does not block at 0, for the mutation checks. *)
SemWait_NoBlock(w) ==
  /\ pc[w] = "wait"
  /\ sem' = sem - 1
  /\ Goto(w, "test")
  /\ UNCHANGED <<queueVars, heapVars, mutex, keepalive, ownerVars, job, argBuf>>

SemWait(w) ==
  /\ pc[w] = "wait"
  /\ sem > 0
  /\ sem' = sem - 1
  /\ Goto(w, "test")
  /\ UNCHANGED <<queueVars, heapVars, mutex, keepalive, ownerVars, job, argBuf>>

(* if (thpool_keepalive), read again after the wait. *)
KeepaliveTest(w) ==
  /\ pc[w] = "test"
  /\ Goto(w, IF keepalive THEN "lock" ELSE "return")
  /\ UNCHANGED <<queueVars, heapVars, syncVars, ownerVars, job, argBuf>>

(* A lock that does not wait for the holder, for the mutation checks. *)
WorkerLock_NoWait(w) ==
  /\ pc[w] = "lock"
  /\ mutex' = w
  /\ Goto(w, "peek")
  /\ UNCHANGED <<queueVars, heapVars, sem, keepalive, ownerVars, job, argBuf>>

WorkerLock(w) ==
  /\ pc[w] = "lock"
  /\ mutex = NULL
  /\ mutex' = w
  /\ Goto(w, "peek")
  /\ UNCHANGED <<queueVars, heapVars, sem, keepalive, ownerVars, job, argBuf>>

(* thpool_jobqueue_peek, and the read of the job's argument through it. *)
Peek(w) ==
  /\ pc[w] = "peek"
  /\ job' = [job EXCEPT ![w] = tail]
  /\ argBuf' = [argBuf EXCEPT ![w] = arg[tail]]
  /\ Goto(w, "remove")
  /\ UNCHANGED <<queueVars, heapVars, syncVars, ownerVars>>

(* Leaves the new last cell pointing at the one removed. *)
JobqueueRemovelast_StaleNext(w) ==
  /\ pc[w] = "remove"
  /\ jobsN' = jobsN - 1
  /\ head' = IF jobsN = 1 THEN NULL ELSE head
  /\ tail' = IF jobsN = 1 THEN NULL ELSE prev[tail]
  /\ order' = Tail(order)
  /\ Goto(w, "unlock")
  /\ UNCHANGED <<next, prev, heapVars, syncVars, ownerVars, job, argBuf>>

(* thpool_jobqueue_removelast: on an empty queue it returns -1, which the  *)
(* worker ignores.                                                         *)
JobqueueRemovelast(w) ==
  /\ pc[w] = "remove"
  /\ IF jobsN = 0
     THEN UNCHANGED queueVars
     ELSE /\ jobsN' = jobsN - 1
          /\ head' = IF jobsN = 1 THEN NULL ELSE head
          /\ tail' = IF jobsN = 1 THEN NULL ELSE prev[tail]
          /\ next' = IF jobsN = 1 THEN next ELSE [next EXCEPT ![prev[tail]] = NULL]
          /\ order' = Tail(order)
          /\ UNCHANGED prev
  /\ Goto(w, "unlock")
  /\ UNCHANGED <<heapVars, syncVars, ownerVars, job, argBuf>>

WorkerUnlock(w) ==
  /\ pc[w] = "unlock"
  /\ mutex' = NULL
  /\ Goto(w, "run")
  /\ UNCHANGED <<queueVars, heapVars, sem, keepalive, ownerVars, job, argBuf>>

(* func_buff(arg_buff) returns. *)
JobReturns(w) ==
  /\ pc[w] = "run"
  /\ argBuf' = [argBuf EXCEPT ![w] = NULL]
  /\ Goto(w, "free")
  /\ UNCHANGED <<queueVars, heapVars, syncVars, ownerVars, job>>

(* The worker forgets free(job_p). *)
FreeJob_Leak(w) ==
  /\ pc[w] = "free"
  /\ job' = [job EXCEPT ![w] = NULL]
  /\ Goto(w, "loop")
  /\ UNCHANGED <<queueVars, heapVars, syncVars, ownerVars, argBuf>>

(* free(job_p) *)
FreeJob(w) ==
  /\ pc[w] = "free"
  /\ Free(job[w])
  /\ job' = [job EXCEPT ![w] = NULL]
  /\ Goto(w, "loop")
  /\ UNCHANGED <<queueVars, syncVars, ownerVars, argBuf>>

(***************************************************************************)
(* thpool_destory, called by the owner after its last thpool_add_work.     *)
(***************************************************************************)

(* Goes on to post without telling the workers to stop. *)
Destory_NoFlag ==
  /\ main = "idle"
  /\ main' = "wake"
  /\ UNCHANGED <<queueVars, heapVars, syncVars, newjob, posts, workVars>>

(* thpool_keepalive = 0 *)
Destory ==
  /\ main = "idle"
  /\ keepalive' = FALSE
  /\ main' = "wake"
  /\ UNCHANGED <<queueVars, heapVars, sem, mutex, newjob, posts, workVars>>

(* One turn of the loop that posts once per worker. *)
DestoryPost ==
  /\ main = "wake"
  /\ posts < threadsN
  /\ sem' = sem + 1
  /\ posts' = posts + 1
  /\ UNCHANGED <<queueVars, heapVars, mutex, keepalive, main, newjob, workVars>>

(* The loop stops one post short. *)
DestorySemDestroy_OneShort ==
  /\ main = "wake"
  /\ posts + 1 >= threadsN
  /\ main' = "join"
  /\ UNCHANGED <<queueVars, heapVars, syncVars, newjob, posts, workVars>>

(* sem_destroy, while workers may still be waiting on the semaphore or on  *)
(* their way to it.  glibc's does nothing to the semaphore, so that they   *)
(* still find it working.                                                  *)
DestorySemDestroy ==
  /\ main = "wake"
  /\ posts = threadsN
  /\ main' = "join"
  /\ UNCHANGED <<queueVars, heapVars, syncVars, newjob, posts, workVars>>

(* pthread_join of every worker. *)
DestoryJoin ==
  /\ main = "join"
  /\ \A w \in Workers : pc[w] = "return"
  /\ main' = "empty"
  /\ UNCHANGED <<queueVars, heapVars, syncVars, newjob, posts, workVars>>

(* One turn of the loop of thpool_jobqueue_empty. *)
JobqueueEmptyStep ==
  /\ main = "empty"
  /\ jobsN # 0
  /\ tail' = prev[tail]
  /\ Free(tail)
  /\ jobsN' = jobsN - 1
  /\ order' = Tail(order)
  /\ UNCHANGED <<head, next, prev, syncVars, ownerVars, workVars>>

(* The end of thpool_jobqueue_empty, and the four frees of the pool. *)
JobqueueEmptied ==
  /\ main = "empty"
  /\ jobsN = 0
  /\ tail' = NULL
  /\ head' = NULL
  /\ main' = "gone"
  /\ UNCHANGED <<jobsN, next, prev, order, heapVars, syncVars, newjob, posts, workVars>>

-----------------------------------------------------------------------------

OwnerStep ==
  \/ OwnerLock \/ JobqueueAdd \/ JobqueueAddPost \/ OwnerUnlock
  \/ DestoryPost \/ DestorySemDestroy \/ DestoryJoin
  \/ JobqueueEmptyStep \/ JobqueueEmptied

WorkerStep(w) ==
  \/ LoopTest(w) \/ SemWait(w) \/ KeepaliveTest(w)
  \/ WorkerLock(w) \/ Peek(w) \/ JobqueueRemovelast(w) \/ WorkerUnlock(w)
  \/ JobReturns(w) \/ FreeJob(w)

(* The process has ended, or the pool is destroyed: nothing is left to do. *)
Terminated ==
  /\ main \in {"exited", "gone"}
  /\ UNCHANGED vars

Next ==
  \/ \E x \in Args : AddWork(x)
  \/ AddWorkFails
  \/ Destory
  \/ OwnerStep
  \/ \E w \in Workers : WorkerStep(w)
  \/ Terminated

Spec == Init /\ [][Next]_vars

(***************************************************************************)
(* A thread that can run does run, and a thread waiting for the mutex gets *)
(* it if the mutex is released again and again.  JobReturns is part of     *)
(* WorkerStep: job functions return.  Nobody has to call thpool_add_work   *)
(* or thpool_destory.                                                      *)
(***************************************************************************)
Fairness ==
  /\ WF_vars(OwnerStep) /\ SF_vars(OwnerLock)
  /\ \A w \in Workers : WF_vars(WorkerStep(w)) /\ SF_vars(WorkerLock(w))

FairSpec == Spec /\ Fairness

-----------------------------------------------------------------------------
(***************************************************************************)
(* Properties.                                                             *)
(***************************************************************************)

OwnerLabels == {"idle", "lock", "add", "post", "unlock",
                "wake", "join", "empty", "gone", "exited"}
WorkerLabels == {"loop", "wait", "test", "lock", "peek", "remove", "unlock",
                 "run", "free", "return", "exited"}

(* Every variable stays in the range its C declaration gives it. *)
TypeOK ==
  /\ head \in Cells /\ tail \in Cells /\ jobsN \in Nat
  /\ next \in [Addr -> Cells] /\ prev \in [Addr -> Cells]
  /\ arg \in [Addr -> Args \cup {NULL}]
  /\ live \in SUBSET Addr /\ order \in Seq(Addr)
  /\ sem \in Nat /\ keepalive \in BOOLEAN
  /\ mutex \in Workers \cup {Owner, NULL}
  /\ main \in OwnerLabels /\ newjob \in Cells /\ posts \in 0..threadsN
  /\ pc \in [Workers -> WorkerLabels]
  /\ job \in [Workers -> Cells]
  /\ argBuf \in [Workers -> Args \cup {NULL}]

(* The pointers of the list (thread_pool.c:165-217) always spell out the   *)
(* jobs in submission order: prev leads from tail, the oldest, to head,    *)
(* the newest, next leads back, both ends are NULL-terminated and jobsN    *)
(* counts the cells.  thpool_jobqueue_empty no longer maintains head and   *)
(* next, which nobody reads then.                                          *)
QueueIsList ==
  /\ jobsN = Len(order)
  /\ \A i, j \in 1..Len(order) : order[i] = order[j] => i = j
  /\ tail = IF order = <<>> THEN NULL ELSE order[1]
  /\ \A i \in 1..Len(order) :
       prev[order[i]] = IF i = Len(order) THEN NULL ELSE order[i + 1]
  /\ main # "empty" =>
       /\ head = IF order = <<>> THEN NULL ELSE order[Len(order)]
       /\ \A i \in 1..Len(order) :
            next[order[i]] = IF i = 1 THEN NULL ELSE order[i - 1]

(* A worker that got past the semaphore and the second keepalive test      *)
(* always finds a job: thread_do dereferences peek's result unchecked      *)
(* (thread_pool.c:84-85).  It takes the wake-ups of thpool_destory, which  *)
(* announce no job, to break it.                                           *)
PeekFindsJob == \A w \in Workers : pc[w] = "peek" => tail # NULL

(* While the pool is open, queueSem plus the workers it let through and    *)
(* that have not dequeued yet (plus the post add_work still owes) is       *)
(* exactly the number of queued jobs: no wake-up is lost or duplicated.    *)
Awake == {w \in Workers : pc[w] \in {"test", "lock", "peek", "remove"}}
SemCountsJobs ==
  keepalive /\ main # "exited" =>
    jobsN = sem + Cardinality(Awake) + (IF main = "post" THEN 1 ELSE 0)

(* The heap cells of jobs: each one that malloc gave out is in the queue,  *)
(* or held by one worker, or is the job the owner is adding; never two of  *)
(* these, and never none.  So no job is freed twice, used after free or    *)
(* leaked, whatever the interleaving of workers, add_work and destory.     *)
(* Once the process has exited there is no heap left to speak of.          *)
Holders == {w \in Workers : job[w] # NULL /\ pc[w] # "remove"}
JobOwnership ==
  main # "exited" =>
  /\ live = Queued \cup {job[w] : w \in Holders} \cup ({newjob} \ {NULL})
  /\ \A w \in Holders : job[w] \notin Queued \cup {newjob}
  /\ \A v, w \in Holders : job[v] = job[w] => v = w
  /\ newjob \notin Queued

(* The inductive invariant behind the safety properties.  MutexHeld: the   *)
(* queue is touched by the mutex's holder only.  Control: what the program *)
(* counters say of newjob, job_p and thpool_keepalive.  ClaimsCovered: a   *)
(* worker past the second keepalive test has a job of its own in the       *)
(* queue, and keeps it when thpool_destory clears the flag behind it.      *)
Claimed == {w \in Workers : pc[w] \in {"lock", "peek", "remove"}}

MutexHeld ==
  /\ main \in {"add", "post", "unlock"} => mutex = Owner
  /\ \A w \in Workers : pc[w] \in {"peek", "remove", "unlock"} => mutex = w

Control ==
  /\ keepalive <=> main \notin {"wake", "join", "empty", "gone"}
  /\ \A w \in Workers :
       /\ main = "exited" <=> pc[w] = "exited"
       /\ main \in {"empty", "gone"} => pc[w] = "return"
       /\ main # "exited" =>
            (job[w] # NULL <=> pc[w] \in {"remove", "unlock", "run", "free"})
       /\ pc[w] = "remove" => job[w] = tail
  /\ main # "exited" => (newjob # NULL <=> main \in {"lock", "add"})

ClaimsCovered == jobsN >= Cardinality(Claimed)

IInv ==
  /\ TypeOK /\ MutexHeld /\ Control /\ QueueIsList
  /\ SemCountsJobs /\ ClaimsCovered /\ JobOwnership

(* Every job in the queue is started by some worker, unless the pool is    *)
(* destroyed or the process ends first.                                    *)
QueuedJobStarts ==
  \A a \in Addr :
    (a \in Queued /\ keepalive) ~>
      (\/ \E w \in Workers : pc[w] = "run" /\ job[w] = a
       \/ ~keepalive \/ main = "exited")

(* thpool_destory returns: its posts reach every worker, wherever each is  *)
(* in its loop when thpool_keepalive is cleared.                           *)
DestoryReturns == (main = "wake") ~> (main = "gone")

(* The pool implements TaskPool: the queue is the list's arguments oldest  *)
(* first, a job is taken when it leaves the list and finished when its     *)
(* function returns.                                                       *)
Abstract == INSTANCE TaskPool WITH
  pending <- [i \in 1..Len(order) |-> arg[order[i]]],
  running <- [w \in Workers |->
               IF pc[w] \in {"unlock", "run"} THEN argBuf[w] ELSE NULL],
  mayTake <- IF keepalive THEN Workers ELSE Claimed,
  status  <- CASE main = "exited" -> "exited"
               [] main = "gone"   -> "closed"
               [] main \in {"wake", "join", "empty"} -> "closing"
               [] OTHER -> "open"
ImplementsTaskPool == Abstract!Spec

=============================================================================
