--------------------------------- MODULE Cgi ---------------------------------
(***************************************************************************)
(* cgi_get and cgi_post of http.c: a worker makes two pipes, forks, and    *)
(* reads the program's output to its end.  What makes this hard is that    *)
(* fork copies the whole process: every pipe end and every connection the  *)
(* other workers have open at that moment, and the job queue.  A child     *)
(* whose execl fails returns from cgi_get into the worker loop of its own  *)
(* copy of the pool, with the pipe its parent reads as its standard output, *)
(* where its log goes.                                                     *)
(*                                                                         *)
(* Every request here is one for a CGI program.  A request is read from    *)
(* its connection once, in whichever process, so it has one pair of pipes  *)
(* and one child; both go by the request's name.  Text is counted in       *)
(* units.                                                                  *)
(***************************************************************************)
EXTENDS Naturals, Sequences

CONSTANTS
  Workers,      \* threads of the server's pool
  Requests,     \* connections, with one request each
  Posts,        \* those that POST; the others GET
  MaxBody,      \* longest Content-Length a client sends (no limit in the code)
  MaxContent,   \* size of response_content (2048 bytes)
  PipeSize,     \* what a pipe holds (64 KiB)
  Outputs,      \* lengths a program's output can have
  Server,       \* the server process
  Mortal,       \* the processes that may die of something else at any time
  NULL

ASSUME CgiAssumption ==
  /\ Posts \subseteq Requests
  /\ MaxBody \in Nat /\ Outputs \subseteq Nat
  /\ MaxContent \in Nat \ {0} /\ PipeSize \in Nat \ {0}
  /\ Mortal \subseteq {Server} \cup Requests
  /\ Server \notin Requests /\ NULL \notin Requests
  /\ Workers \cap Requests = {}

Procs == {Server} \cup Requests       \* the server, and a child per request
Threads == Workers \cup Requests      \* a child has one thread
Home(t) == IF t \in Workers THEN Server ELSE t

(* What a descriptor can stand for: in_fd[0], in_fd[1], out_fd[0] and      *)
(* out_fd[1] of a request, and its connection.                             *)
Ends == {"inR", "inW", "outR", "outW", "sock"} \X Requests

VARIABLES
  holds,     \* the ends each process has open
  pending,   \* the job queue in each process's memory
  accepted,  \* the connections main has accepted
  unread,    \* the requests still to be read from their connections
  pc, job,   \* each thread's program counter and the request it serves
  left,      \* of each request's body, what is still to be written to in_fd
  inBuf, outBuf,      \* units in the two pipes of each request
  toRead, toWrite,    \* what each program will still read and write
  writesFirst,        \* the programs that write before they read
  pos,       \* of what comes from each child, what its reader has
  parent,    \* the process that has forked each child
  strays,    \* children that did not become their program
  (* history: what each program has written, and what has been logged to   *)
  (* the pipe of a stray's standard output                                 *)
  written, logged

threadVars == <<pc, job>>
pipeVars   == <<left, inBuf, outBuf, pos>>
progVars   == <<toRead, toWrite, writesFirst, written>>
kinVars    == <<parent, strays>>
vars == <<holds, pending, accepted, unread, threadVars, pipeVars, progVars, kinVars, logged>>

Open(e, r) == \E p \in Procs : <<e, r>> \in holds[p]
Alive(p) == \A t \in Threads : Home(t) = p => pc[t] # "ended"
Goto(t, label) == pc' = [pc EXCEPT ![t] = label]
Opens(p, es) == holds' = [holds EXCEPT ![p] = @ \cup es]
Closes(p, es) == holds' = [holds EXCEPT ![p] = @ \ es]

(* The process ends: its threads stop and the kernel closes what it holds. *)
ProcessEnds(p) ==
  /\ holds' = [holds EXCEPT ![p] = {}]
  /\ pc' = [t \in Threads |-> IF Home(t) = p THEN "ended" ELSE pc[t]]

(* What the standard output of a process is: a stray's is the pipe of its  *)
(* own request, after dup2; a child's that has not come so far, its        *)
(* parent's.  The server's own is a terminal or a file.                    *)
Stdout(p) ==
  IF pc[p] \in {"childLog", "child"}
  THEN IF parent[p] = Server THEN NULL ELSE parent[p]
  ELSE p

(* Where the server itself logs is of no interest here. *)
Piped(p) == p # Server /\ Stdout(p) # NULL

(* log_info and printf: the text stays in stdio's buffer, or fills it, and *)
(* then goes to standard output as one unit.                               *)
Logs(p) ==
  \/ UNCHANGED <<outBuf, logged>>
  \/ LET r == Stdout(p) IN
     /\ Piped(p) /\ Open("outR", r) /\ outBuf[r] < PipeSize
     /\ outBuf' = [outBuf EXCEPT ![r] = @ + 1]
     /\ logged' = [logged EXCEPT ![r] = @ + 1]

(* Where the text of a request, its body or its answer is logged. *)
Logging(t) ==
  \/ pc[t] \in {"pipeIn", "reply", "childLog"}
  \/ pc[t] = "closeOut" /\ job[t] \in Posts

Init ==
  /\ holds = [p \in Procs |-> {}]
  /\ pending = [p \in Procs |-> <<>>]
  /\ accepted = {} /\ unread = Requests
  /\ pc = [t \in Threads |-> IF t \in Workers THEN "idle" ELSE "unborn"]
  /\ job = [t \in Threads |-> NULL]
  /\ left = [r \in Requests |-> 0]
  /\ inBuf = [r \in Requests |-> 0] /\ outBuf = [r \in Requests |-> 0]
  /\ toRead = [r \in Requests |-> 0] /\ toWrite = [r \in Requests |-> 0]
  /\ writesFirst = {}
  /\ pos = [r \in Requests |-> 0] /\ written = [r \in Requests |-> 0]
  /\ logged = [r \in Requests |-> 0]
  /\ parent = [r \in Requests |-> NULL] /\ strays = {}

-----------------------------------------------------------------------------
(* main accepts a connection and queues it; a thread of any process that   *)
(* runs the worker loop takes it from its own copy of the queue.           *)

Accept(r) ==
  /\ Alive(Server)
  /\ r \notin accepted
  /\ accepted' = accepted \cup {r}
  /\ Opens(Server, {<<"sock", r>>})
  /\ pending' = [pending EXCEPT ![Server] = Append(@, r)]
  /\ UNCHANGED <<unread, threadVars, pipeVars, progVars, kinVars, logged>>

Take(t) ==
  LET p == Home(t) IN
  /\ pc[t] = "idle"
  /\ pending[p] # <<>>
  /\ job' = [job EXCEPT ![t] = Head(pending[p])]
  /\ pending' = [pending EXCEPT ![p] = Tail(@)]
  /\ Goto(t, "read")
  /\ UNCHANGED <<holds, accepted, unread, pipeVars, progVars, kinVars, logged>>

(* read and http_request_parse; a connection whose request another process *)
(* has read gives nothing, and read blocks.                                *)
Read(t) ==
  LET r == job[t] IN
  /\ pc[t] = "read"
  /\ r \in unread
  /\ unread' = unread \ {r}
  /\ \E n \in IF r \in Posts THEN 0..MaxBody ELSE {0} :
       left' = [left EXCEPT ![r] = n]
  /\ Goto(t, "pipeIn")
  /\ UNCHANGED <<holds, pending, accepted, job, inBuf, outBuf, pos, progVars, kinVars, logged>>

-----------------------------------------------------------------------------
(* The parent's side.                                                      *)

(* Logs the request and makes the first pipe. *)
PipeIn(t) ==
  /\ pc[t] = "pipeIn"
  /\ Logs(Home(t))
  /\ Opens(Home(t), {"inR", "inW"} \X {job[t]})
  /\ Goto(t, "pipeOut")
  /\ UNCHANGED <<pending, accepted, unread, job, left, inBuf, pos, progVars, kinVars>>

PipeOut(t) ==
  /\ pc[t] = "pipeOut"
  /\ Opens(Home(t), {"outR", "outW"} \X {job[t]})
  /\ Goto(t, "fork")
  /\ UNCHANGED <<pending, accepted, unread, job, pipeVars, progVars, kinVars, logged>>

(* The child is a copy of the process with the calling thread alone. *)
Fork(t) ==
  LET p == Home(t)  r == job[t] IN
  /\ pc[t] = "fork"
  /\ holds' = [holds EXCEPT ![r] = holds[p]]
  /\ pending' = [pending EXCEPT ![r] = pending[p]]
  /\ job' = [job EXCEPT ![r] = r]
  /\ parent' = [parent EXCEPT ![r] = p]
  /\ pc' = [pc EXCEPT ![t] = "closeIn",
                      ![r] = IF r \in Posts THEN "childLog" ELSE "child"]
  /\ UNCHANGED <<accepted, unread, pipeVars, progVars, strays, logged>>

(* pid < 0: neither branch is taken, the four ends stay open. *)
ForkFails(t) ==
  /\ pc[t] = "fork"
  /\ Goto(t, "close")
  /\ UNCHANGED <<holds, pending, accepted, unread, job, pipeVars, progVars, kinVars, logged>>

CloseIn(t) ==
  /\ pc[t] = "closeIn"
  /\ Closes(Home(t), {<<"inR", job[t]>>})
  /\ Goto(t, "closeOut")
  /\ UNCHANGED <<pending, accepted, unread, job, pipeVars, progVars, kinVars, logged>>

(* Forgets close(out_fd[1]). *)
CloseOut_Forgotten(t) ==
  /\ pc[t] = "closeOut"
  /\ IF job[t] \in Posts THEN Logs(Home(t)) ELSE UNCHANGED <<outBuf, logged>>
  /\ Goto(t, "body")
  /\ UNCHANGED <<holds, pending, accepted, unread, job, left, inBuf, pos, progVars, kinVars>>

(* cgi_post then logs the body. *)
CloseOut(t) ==
  /\ pc[t] = "closeOut"
  /\ Closes(Home(t), {<<"outW", job[t]>>})
  /\ IF job[t] \in Posts THEN Logs(Home(t)) ELSE UNCHANGED <<outBuf, logged>>
  /\ Goto(t, "body")
  /\ UNCHANGED <<pending, accepted, unread, job, left, inBuf, pos, progVars, kinVars>>

(* The write of the body (cgi_get has none): a unit, as the pipe has room. *)
WriteBody(t) ==
  LET r == job[t] IN
  /\ pc[t] = "body"
  /\ left[r] > 0 /\ Open("inR", r)
  /\ inBuf[r] < PipeSize
  /\ inBuf' = [inBuf EXCEPT ![r] = @ + 1]
  /\ left' = [left EXCEPT ![r] = @ - 1]
  /\ UNCHANGED <<holds, pending, accepted, unread, threadVars, outBuf, pos, progVars, kinVars, logged>>

(* Nobody can read the body any more, or a stray's log: SIGPIPE, and no    *)
(* handler.                                                                *)
SigPipe(t) ==
  /\ \/ pc[t] = "body" /\ left[job[t]] > 0 /\ ~Open("inR", job[t])
     \/ Logging(t) /\ Piped(Home(t)) /\ ~Open("outR", Stdout(Home(t)))
  /\ ProcessEnds(Home(t))
  /\ UNCHANGED <<pending, accepted, unread, job, pipeVars, progVars, kinVars, logged>>

BodyWritten(t) ==
  /\ pc[t] = "body"
  /\ left[job[t]] = 0
  /\ Goto(t, "output")
  /\ UNCHANGED <<holds, pending, accepted, unread, job, pipeVars, progVars, kinVars, logged>>

(* Asks read for the whole buffer each time. *)
ReadOutput_WholeBuffer(t) ==
  LET r == job[t] IN
  /\ pc[t] = "output"
  /\ outBuf[r] > 0
  /\ pos' = [pos EXCEPT ![r] = @ + 1]
  /\ outBuf' = [outBuf EXCEPT ![r] = @ - 1]
  /\ UNCHANGED <<holds, pending, accepted, unread, threadVars, left, inBuf, progVars, kinVars, logged>>

ReadOutput(t) ==
  LET r == job[t] IN
  /\ pc[t] = "output"
  /\ pos[r] < MaxContent /\ outBuf[r] > 0
  /\ pos' = [pos EXCEPT ![r] = @ + 1]
  /\ outBuf' = [outBuf EXCEPT ![r] = @ - 1]
  /\ UNCHANGED <<holds, pending, accepted, unread, threadVars, left, inBuf, progVars, kinVars, logged>>

(* Takes a pipe that is empty for the moment for its end. *)
OutputEnds_WhenEmpty(t) ==
  LET r == job[t] IN
  /\ pc[t] = "output"
  /\ pos[r] = MaxContent \/ outBuf[r] = 0
  /\ Goto(t, "reply")
  /\ UNCHANGED <<holds, pending, accepted, unread, job, pipeVars, progVars, kinVars, logged>>

(* read returns 0: at end of file, when no process has out_fd[1] open, and *)
(* also when response_content is full and 0 bytes are asked for.           *)
OutputEnds(t) ==
  LET r == job[t] IN
  /\ pc[t] = "output"
  /\ pos[r] = MaxContent \/ (outBuf[r] = 0 /\ ~Open("outW", r))
  /\ Goto(t, "reply")
  /\ UNCHANGED <<holds, pending, accepted, unread, job, pipeVars, progVars, kinVars, logged>>

(* Logs the answer and sends it, header and content; in_fd[1] and          *)
(* out_fd[0] stay open.                                                    *)
Reply(t) ==
  /\ pc[t] = "reply"
  /\ Logs(Home(t))
  /\ Goto(t, "close")
  /\ UNCHANGED <<holds, pending, accepted, unread, job, left, inBuf, pos, progVars, kinVars>>

(* handle_request closes the connection and the thread is back in its loop.*)
CloseSock(t) ==
  /\ pc[t] = "close"
  /\ Closes(Home(t), {<<"sock", job[t]>>})
  /\ job' = [job EXCEPT ![t] = NULL]
  /\ Goto(t, "idle")
  /\ UNCHANGED <<pending, accepted, unread, pipeVars, progVars, kinVars, logged>>

-----------------------------------------------------------------------------
(* The child's side.                                                       *)

(* What the child closes of its own pipes, and of its parent's where those *)
(* were standard input and output, which dup2 replaces.                    *)
Closed(r) == ({"inW", "outR"} \X {r}) \cup ({"inR", "outW"} \X {parent[r]})

(* cgi_post's child logs before it closes anything. *)
ChildLogs(r) ==
  /\ pc[r] = "childLog"
  /\ Logs(r)
  /\ Goto(r, "child")
  /\ UNCHANGED <<holds, pending, accepted, unread, job, left, inBuf, pos, progVars, kinVars>>

(* localtime waits for a lock that another thread of the server held when  *)
(* the process was copied.                                                 *)
LogBlocks(r) ==
  /\ pc[r] = "childLog" /\ parent[r] = Server
  /\ Goto(r, "blocked")
  /\ strays' = strays \cup {r}
  /\ UNCHANGED <<holds, pending, accepted, unread, job, pipeVars, progVars, parent, logged>>

(* execl succeeds: the program has the child's descriptors, none of its    *)
(* memory.  It reads as much as it likes of the CONTENT_LENGTH units it    *)
(* may expect, and writes before that or after it.                         *)
Exec(r) ==
  /\ pc[r] = "child"
  /\ Closes(r, Closed(r))
  /\ pending' = [pending EXCEPT ![r] = <<>>]
  /\ job' = [job EXCEPT ![r] = NULL]
  /\ Goto(r, "program")
  /\ \E n \in 0..(inBuf[r] + left[r]), m \in Outputs :
       /\ toRead' = [toRead EXCEPT ![r] = n]
       /\ toWrite' = [toWrite EXCEPT ![r] = m]
  /\ writesFirst' \in {writesFirst, writesFirst \cup {r}}
  /\ UNCHANGED <<accepted, unread, pipeVars, written, kinVars, logged>>

(* execl fails: the child returns to handle_request as a worker would. *)
ExecFails(r) ==
  /\ pc[r] = "child"
  /\ Closes(r, Closed(r))
  /\ Goto(r, "close")
  /\ strays' = strays \cup {r}
  /\ UNCHANGED <<pending, accepted, unread, job, pipeVars, progVars, parent, logged>>

Reading(r) ==
  pc[r] = "program" /\ toRead[r] > 0 /\ (r \in writesFirst => toWrite[r] = 0)
Writing(r) ==
  pc[r] = "program" /\ toWrite[r] > 0 /\ (r \notin writesFirst => toRead[r] = 0)

ProgramReads(r) ==
  /\ Reading(r) /\ inBuf[r] > 0
  /\ toRead' = [toRead EXCEPT ![r] = @ - 1]
  /\ inBuf' = [inBuf EXCEPT ![r] = @ - 1]
  /\ UNCHANGED <<holds, pending, accepted, unread, threadVars, left, outBuf, pos,
                 toWrite, writesFirst, written, kinVars, logged>>

(* Its parent has died with a part of the body. *)
ProgramReadsEnd(r) ==
  /\ Reading(r) /\ inBuf[r] = 0 /\ ~Open("inW", r)
  /\ toRead' = [toRead EXCEPT ![r] = 0]
  /\ UNCHANGED <<holds, pending, accepted, unread, threadVars, pipeVars,
                 toWrite, writesFirst, written, kinVars, logged>>

ProgramWrites(r) ==
  /\ Writing(r)
  /\ Open("outR", r) /\ outBuf[r] < PipeSize
  /\ toWrite' = [toWrite EXCEPT ![r] = @ - 1]
  /\ written' = [written EXCEPT ![r] = @ + 1]
  /\ outBuf' = [outBuf EXCEPT ![r] = @ + 1]
  /\ UNCHANGED <<holds, pending, accepted, unread, threadVars, left, inBuf, pos,
                 toRead, writesFirst, kinVars, logged>>

(* The program is through, or nobody can read what it writes any more. *)
ProgramEnds(r) ==
  /\ pc[r] = "program"
  /\ ~Reading(r)
  /\ Writing(r) => ~Open("outR", r)
  /\ ProcessEnds(r)
  /\ UNCHANGED <<pending, accepted, unread, job, pipeVars, progVars, kinVars, logged>>

-----------------------------------------------------------------------------

(* A crash, log_error, a client that hangs up: modules Http and Server.    *)
Dies(p) ==
  /\ p \in Mortal
  /\ Alive(p) /\ (p # Server => pc[p] # "unborn")
  /\ ProcessEnds(p)
  /\ UNCHANGED <<pending, accepted, unread, job, pipeVars, progVars, kinVars, logged>>

Serve(t) ==
  \/ Read(t) \/ PipeIn(t) \/ PipeOut(t) \/ Fork(t) \/ ForkFails(t)
  \/ CloseIn(t) \/ CloseOut(t) \/ WriteBody(t) \/ SigPipe(t) \/ BodyWritten(t)
  \/ ReadOutput(t) \/ OutputEnds(t) \/ Reply(t) \/ CloseSock(t)

Child(r) ==
  \/ ChildLogs(r) \/ LogBlocks(r) \/ Exec(r) \/ ExecFails(r)
  \/ ProgramReads(r) \/ ProgramReadsEnd(r) \/ ProgramWrites(r) \/ ProgramEnds(r)

Next ==
  \/ \E r \in Requests : Accept(r) \/ Child(r)
  \/ \E t \in Threads : Take(t) \/ Serve(t)
  \/ \E p \in Procs : Dies(p)

Spec == Init /\ [][Next]_vars

(* Workers and programs that can run do, and a queued job is taken by some *)
(* worker.  Nothing is asked of a stray.                                   *)
Fairness ==
  /\ WF_vars(\E w \in Workers : Take(w))
  /\ \A w \in Workers : WF_vars(Serve(w))
  /\ \A r \in Requests : WF_vars(Child(r))

FairSpec == Spec /\ Fairness

-----------------------------------------------------------------------------
(***************************************************************************)
(* Properties.                                                             *)
(***************************************************************************)

ServeLabels == {"idle", "read", "pipeIn", "pipeOut", "fork", "closeIn", "closeOut",
                "body", "output", "reply", "close", "ended"}
ChildLabels == {"unborn", "childLog", "child", "program", "blocked"}

(* Every variable has its type; the buffers stay within their sizes. *)
TypeOK ==
  /\ holds \in [Procs -> SUBSET Ends]
  /\ \A p \in Procs : pending[p] \in Seq(Requests)
  /\ accepted \subseteq Requests /\ unread \subseteq Requests
  /\ parent \in [Requests -> Procs \cup {NULL}]
  /\ strays \subseteq Requests /\ writesFirst \subseteq Requests
  /\ \A w \in Workers : pc[w] \in ServeLabels
  /\ \A r \in Requests : pc[r] \in ServeLabels \cup ChildLabels
  /\ job \in [Threads -> Requests \cup {NULL}]
  /\ left \in [Requests -> 0..MaxBody] /\ toRead \in [Requests -> 0..MaxBody]
  /\ inBuf \in [Requests -> 0..PipeSize] /\ outBuf \in [Requests -> 0..PipeSize]
  /\ pos \in [Requests -> 0..MaxContent]
  /\ toWrite \in [Requests -> Nat] /\ written \in [Requests -> Nat]
  /\ logged \in [Requests -> Nat]
  /\ \A r \in Requests : written[r] + toWrite[r] \in Outputs \cup {0}

(* An answer is as much as response_content holds of what was put into the *)
(* pipe behind it, or all of it, when no process can put more into it,     *)
(* whichever have inherited ends of it; and it is what the program wrote   *)
(* and nothing else, unless the child has gone astray.  What a stray logs  *)
(* goes to the client of its own request only, and to no other's           *)
(* (http.c:123, 132, 181, logger.c:40).                                    *)
AnswerIsOutput ==
  \A t \in Threads : pc[t] = "reply" =>
    LET r == job[t] IN
    /\ pos[r] = MaxContent \/ (pc[r] = "ended" /\ pos[r] = written[r] + logged[r])
    /\ r \notin strays => pos[r] <= written[r]

(* A child that has gone astray, or was forked by one that has. *)
Astray(q) == q \in strays \/ parent[q] \in strays

(* A program that waits for ever: for room in a pipe, although its reader  *)
(* is full, or writes the body into a full pipe itself, or has died and    *)
(* others hold its end; or for the body of one that has died.              *)
Stuck(q) ==
  \/ /\ Writing(q) /\ outBuf[q] = PipeSize /\ Open("outR", q)
     /\ \A t \in Threads : job[t] = q =>
          \/ pc[t] = "body" /\ left[q] > 0 /\ inBuf[q] = PipeSize
          \/ pc[t] = "output" /\ pos[q] = MaxContent
          \/ pc[t] \in {"read", "reply", "close", "ended"}
  \/ /\ Reading(q) /\ inBuf[q] = 0 /\ Open("inW", q)
     /\ \A t \in Threads : job[t] = q => pc[t] \in {"read", "ended"}

(* A worker that waits for a request a stray has read, or for the end of a *)
(* pipe that a stray holds.                                                *)
Lost(w) ==
  \/ pc[w] = "read" /\ job[w] \notin unread
  \/ \E q \in Requests : Astray(q) /\ <<"outW", job[w]>> \in holds[q]

(* Every accepted connection is closed in every process that has inherited *)
(* it, so that the client sees the end of its answer, although workers     *)
(* wait for output pipes that other programs hold too, and also when the   *)
(* server dies.  It stays open only if a program is stuck, or if a child   *)
(* gone astray has a copy of it, keeps its worker waiting, or all workers. *)
(* (A connection once accepted stays in `accepted`, so this is `~>`, in a  *)
(* form that is cheaper to check.)                                         *)
ConnectionEnds ==
  \A r \in Requests :
    []<>(r \in accepted =>
           \/ ~Open("sock", r)
           \/ \E q \in Requests : Stuck(q) \/ (Astray(q) /\ <<"sock", r>> \in holds[q])
           \/ \E w \in Workers : job[w] = r /\ Lost(w)
           \/ \A w \in Workers : Lost(w))

(* README.md:7, "support HTTP GET and POST method": a worker that has     *)
(* forked for a request answers it, with what the program wrote, or with   *)
(* nothing when the file is no program.                                    *)
CgiGetIsAnswered ==
  \A w \in Workers : pc[w] = "closeIn" ~> pc[w] \in {"reply", "ended"}

=============================================================================
