------------------------------- MODULE TaskPool -------------------------------
(***************************************************************************)
(* What thread_pool.c promises its caller, with no lists, semaphores or    *)
(* mutexes in sight: arguments handed to thpool_add_work wait in one FIFO  *)
(* line, each is taken once by one worker, and runs there to its end.      *)
(* Once the owner closes the pool, a worker takes at most one more job;    *)
(* what is left in the line is thrown away after the last worker stops.    *)
(***************************************************************************)
EXTENDS Naturals, Sequences

CONSTANTS
  Workers,   \* the worker threads
  Args,      \* the arguments a job can carry (for coix: client descriptors)
  NULL       \* "no job"

VARIABLES
  pending,   \* arguments submitted and not yet taken, oldest first
  running,   \* the argument each worker is serving, or NULL
  mayTake,   \* the workers that may still take a job
  status     \* "open", "closing", "closed" or "exited"

vars == <<pending, running, mayTake, status>>

Idle == {w \in Workers : running[w] = NULL}

Init ==
  /\ pending = <<>>
  /\ running = [w \in Workers |-> NULL]
  /\ mayTake = Workers
  /\ status  = "open"

Submit(x) ==
  /\ status = "open"
  /\ pending' = Append(pending, x)
  /\ UNCHANGED <<running, mayTake, status>>

Take(w) ==
  /\ status \in {"open", "closing"}
  /\ pending # <<>>
  /\ w \in Idle \cap mayTake
  /\ running' = [running EXCEPT ![w] = Head(pending)]
  /\ pending' = Tail(pending)
  /\ mayTake' = IF status = "open" THEN mayTake ELSE mayTake \ {w}
  /\ UNCHANGED status

Finish(w) ==
  /\ running[w] # NULL
  /\ running' = [running EXCEPT ![w] = NULL]
  /\ UNCHANGED <<pending, mayTake, status>>

(* Closing picks which idle workers are already on their way to a job. *)
Close ==
  /\ status = "open"
  /\ status' = "closing"
  /\ mayTake' \in SUBSET Idle
  /\ UNCHANGED <<pending, running>>

(* Nobody is running or about to run: the rest of the line is dropped. *)
Discard ==
  /\ status = "closing"
  /\ Idle = Workers /\ mayTake = {}
  /\ pending # <<>>
  /\ pending' = Tail(pending)
  /\ UNCHANGED <<running, mayTake, status>>

Closed ==
  /\ status = "closing"
  /\ Idle = Workers /\ mayTake = {} /\ pending = <<>>
  /\ status' = "closed"
  /\ UNCHANGED <<pending, running, mayTake>>

(* The process may end under the pool: every job in progress is cut off. *)
Exit ==
  /\ status = "open"
  /\ status' = "exited"
  /\ running' = [w \in Workers |-> NULL]
  /\ UNCHANGED <<pending, mayTake>>

Next ==
  \/ \E x \in Args : Submit(x)
  \/ \E w \in Workers : Take(w) \/ Finish(w)
  \/ Close \/ Discard \/ Closed \/ Exit

Spec == Init /\ [][Next]_vars

=============================================================================
