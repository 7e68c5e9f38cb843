------------------------------ MODULE CgiProofs ------------------------------
(* Theorems about Cgi, for any workers, requests, bodies, outputs and pipe *)
(* and buffer sizes.                                                       *)
EXTENDS Cgi, TLAPS

AllLabels == ServeLabels \cup ChildLabels

(* The parts of TypeOK, with the shape of the functions: where threads     *)
(* are, what is kept where, and what has been counted.                     *)
LabelsTyped ==
  /\ pc \in [Threads -> AllLabels]
  /\ \A w \in Workers : pc[w] \in ServeLabels

PlacesTyped ==
  /\ holds \in [Procs -> SUBSET Ends]
  /\ pending \in [Procs -> Seq(Requests)]
  /\ accepted \subseteq Requests /\ unread \subseteq Requests
  /\ parent \in [Requests -> Procs \cup {NULL}]
  /\ strays \subseteq Requests /\ writesFirst \subseteq Requests
  /\ job \in [Threads -> Requests \cup {NULL}]

NumbersTyped ==
  /\ left \in [Requests -> 0..MaxBody] /\ toRead \in [Requests -> 0..MaxBody]
  /\ inBuf \in [Requests -> 0..PipeSize] /\ outBuf \in [Requests -> 0..PipeSize]
  /\ pos \in [Requests -> 0..MaxContent]
  /\ toWrite \in [Requests -> Nat] /\ written \in [Requests -> Nat]
  /\ logged \in [Requests -> Nat]
  /\ \A r \in Requests : written[r] + toWrite[r] \in Outputs \cup {0}

Types == LabelsTyped /\ PlacesTyped /\ NumbersTyped

(* From the read of its request to the end of the output, a thread is the  *)
(* only one at work on that request; its child comes to be on the way.     *)
Before == {"pipeIn", "pipeOut", "fork"}
After == {"closeIn", "closeOut", "body", "output", "reply"}
Newborn == {"childLog", "child"}
Active(t) == pc[t] \in Before \cup After

Readers ==
  /\ \A t \in Threads : pc[t] \in {"read", "close"} \cup Newborn => job[t] \in Requests
  /\ \A t \in Threads : Active(t) =>
       /\ job[t] \in Requests \ unread /\ job[t] # t
       /\ pc[t] \in Before <=> pc[job[t]] = "unborn"
  /\ \A t, u \in Threads : Active(t) /\ Active(u) /\ job[t] = job[u] => t = u
  /\ \A r \in Requests : r \in unread => pc[r] = "unborn"

(* Only a stray works as a worker does, and forks; and no child is its own *)
(* parent.                                                                 *)
Kin ==
  /\ \A r \in Requests : pc[r] \in ServeLabels \ {"ended"} => r \in strays
  /\ \A r \in Requests : pc[r] \in {"childLog", "child"} => parent[r] \in {Server} \cup strays
  /\ \A r \in Requests : parent[r] # r

(* A unit of a body is still to be written or in the pipe, until the       *)
(* program has read it; a unit that has been written or logged is in the   *)
(* pipe or has been read; and only what strays have is logged there.       *)
Counts ==
  \A r \in Requests :
    /\ r \in unread => left[r] = 0 /\ inBuf[r] = 0
    /\ inBuf[r] + left[r] <= MaxBody
    /\ pos[r] + outBuf[r] = written[r] + logged[r]
    /\ pc[r] \in {"unborn", "childLog", "child"} => written[r] = 0 /\ toWrite[r] = 0
    /\ r \notin strays => logged[r] = 0

(* A child holds the write end of its own output for as long as it lives,  *)
(* whatever it closes, and inherits it from the process that forks it; and *)
(* that of its parent's output, if it has inherited that as its own.       *)
EndsHeld ==
  /\ \A r \in Requests : pc[r] \notin {"unborn", "ended"} => <<"outW", r>> \in holds[r]
  /\ \A t \in Threads : pc[t] = "fork" => <<"outW", job[t]>> \in holds[Home(t)]
  /\ \A r \in Requests : pc[r] \in {"childLog", "child"} /\ parent[r] # Server =>
       <<"outW", parent[r]>> \in holds[r]

(* When a worker answers with less than response_content holds, nobody is  *)
(* left who could put more into the pipe.                                  *)
AnswerIsComplete ==
  \A t \in Threads : pc[t] = "reply" =>
    LET r == job[t] IN
    \/ pos[r] = MaxContent
    \/ ~Open("outW", r) /\ pc[r] = "ended" /\ pos[r] = written[r] + logged[r]

CgiInv == Types /\ Readers /\ Kin /\ Counts /\ EndsHeld /\ AnswerIsComplete

(* What a call of the log may do: nothing that another process sees, or    *)
(* write to the pipe of a stray, by a process that holds its end.          *)
LogStep(p) ==
  \/ UNCHANGED <<outBuf, logged>>
  \/ \E r \in strays :
       /\ <<"outW", r>> \in holds[p] /\ outBuf[r] < PipeSize
       /\ outBuf' = [outBuf EXCEPT ![r] = @ + 1]
       /\ logged' = [logged EXCEPT ![r] = @ + 1]

(* Where threads live: workers in the server, the thread of a child in it. *)
LEMMA Homes ==
  /\ \A t \in Threads : Home(t) \in Procs
  /\ \A t \in Threads : t \in Requests => Home(t) = t
  /\ \A t \in Threads, r \in Requests : Home(t) = r => t = r
  /\ Requests \subseteq Threads /\ Requests \subseteq Procs
BY CgiAssumption DEF Home, Procs, Threads

(* The state before the first connection satisfies the invariant. *)
LEMMA InitCgi == Init => CgiInv
<1> SUFFICES ASSUME Init PROVE CgiInv
  OBVIOUS
<1>1. Types
  <2>1. LabelsTyped
    BY CgiAssumption DEF Init, LabelsTyped, AllLabels, ServeLabels, ChildLabels, Threads
  <2>2. PlacesTyped
    BY DEF Init, PlacesTyped
  <2>3. NumbersTyped
    BY CgiAssumption DEF Init, NumbersTyped
  <2> QED
    BY <2>1, <2>2, <2>3 DEF Types
<1>2. Readers
  BY CgiAssumption DEF Init, Readers, Active, Before, After, Newborn, Threads
<1>3. Counts
  BY CgiAssumption DEF Init, Counts
<1>4. EndsHeld /\ AnswerIsComplete
  BY CgiAssumption DEF Init, EndsHeld, AnswerIsComplete, Threads
<1>5. Kin
  BY CgiAssumption DEF Init, Kin, ServeLabels, Threads
<1> QED
  BY <1>1, <1>2, <1>3, <1>4, <1>5 DEF CgiInv

(* The log of the server goes nowhere; that of a stray to its own pipe, of *)
(* which it has the end; that of its child, before dup2, to the same.      *)
LEMMA LogsAre ==
  ASSUME Types, Kin, EndsHeld, NEW t \in Threads,
         PipeIn(t) \/ CloseOut(t) \/ Reply(t) \/ (t \in Requests /\ ChildLogs(t))
  PROVE  LogStep(Home(t))
<1> USE CgiAssumption, Homes
<1>1. CASE UNCHANGED <<outBuf, logged>>
  BY <1>1 DEF LogStep
<1>2. CASE ~UNCHANGED <<outBuf, logged>>
  <2> DEFINE p == Home(t)  r == Stdout(p)
  <2>1. Logs(p) /\ pc[t] \in {"pipeIn", "closeOut", "reply", "childLog"}
    BY <1>2 DEF PipeIn, CloseOut, Reply, ChildLogs
  <2>2. /\ p # Server /\ r # NULL /\ outBuf[r] < PipeSize
        /\ outBuf' = [outBuf EXCEPT ![r] = @ + 1]
        /\ logged' = [logged EXCEPT ![r] = @ + 1]
    BY <1>2, <2>1 DEF Logs, Piped
  <2>3. t \in Requests /\ p = t
    BY <2>2 DEF Home, Threads
  <2>4. r \in strays /\ <<"outW", r>> \in holds[p]
    <3>1. CASE pc[t] = "childLog"
      <4>1. parent[t] # Server /\ r = parent[t]
        BY <2>2, <2>3, <3>1 DEF Stdout
      <4> QED
        BY <2>3, <3>1, <4>1 DEF Kin, EndsHeld
    <3>2. CASE pc[t] # "childLog"
      <4>1. r = t /\ pc[t] \in ServeLabels \ {"ended"}
        BY <2>1, <2>3, <3>2 DEF Stdout, ServeLabels
      <4> QED
        BY <2>3, <4>1 DEF Kin, EndsHeld, ServeLabels
    <3> QED
      BY <3>1, <3>2
  <2> QED
    BY <2>2, <2>4 DEF LogStep
<1> QED
  BY <1>1, <1>2

(* What is logged is in the pipe, and only strays' pipes have any of it.   *)
LEMMA LogCounts ==
  ASSUME Types, NEW p \in Procs, LogStep(p)
  PROVE  /\ outBuf' \in [Requests -> 0..PipeSize] /\ logged' \in [Requests -> Nat]
         /\ \A q \in Requests : outBuf'[q] + logged[q] = outBuf[q] + logged'[q]
         /\ \A q \in Requests \ strays : logged'[q] = logged[q]
<1> USE CgiAssumption DEF Types, NumbersTyped, PlacesTyped
<1>1. CASE UNCHANGED <<outBuf, logged>>
  BY <1>1
<1>2. ASSUME NEW r \in strays, outBuf[r] < PipeSize,
             outBuf' = [outBuf EXCEPT ![r] = @ + 1], logged' = [logged EXCEPT ![r] = @ + 1]
      PROVE  /\ outBuf' \in [Requests -> 0..PipeSize] /\ logged' \in [Requests -> Nat]
             /\ \A q \in Requests : outBuf'[q] + logged[q] = outBuf[q] + logged'[q]
             /\ \A q \in Requests \ strays : logged'[q] = logged[q]
  <2>1. r \in Requests
    OBVIOUS
  <2>2. outBuf' \in [Requests -> 0..PipeSize] /\ logged' \in [Requests -> Nat]
    BY <1>2, <2>1, SMTT(60)
  <2>3. \A q \in Requests : outBuf'[q] + logged[q] = outBuf[q] + logged'[q]
    BY <1>2, <2>1
  <2> QED
    BY <1>2, <2>1, <2>2, <2>3
<1> QED
  BY <1>1, <1>2 DEF LogStep

(* The three steps in which a process ends change nothing else. *)
Death(p) ==
  /\ p # Server => pc[p] # "unborn"
  /\ ProcessEnds(p)
  /\ UNCHANGED <<pending, accepted, unread, job, pipeVars, progVars, kinVars, logged>>

LEMMA Deaths ==
  /\ \A t \in Threads : SigPipe(t) => \E p \in Procs : Death(p)
  /\ \A r \in Requests : ProgramEnds(r) => \E p \in Procs : Death(p)
  /\ \A q \in Procs : Dies(q) => \E p \in Procs : Death(p)
BY Homes DEF SigPipe, ProgramEnds, Dies, Death, Home, Logging, Piped

(* The threads' program counters keep to their labels. *)
LEMMA NextLabels ==
  ASSUME Types, Readers, [Next]_vars
  PROVE  LabelsTyped'
<1> USE CgiAssumption DEF Types, LabelsTyped, AllLabels, ServeLabels, ChildLabels, Threads
<1>1. ASSUME NEW r \in Requests, Accept(r) PROVE LabelsTyped'
  BY <1>1 DEF Accept, threadVars
<1>2. ASSUME NEW t \in Threads, Take(t) \/ Read(t) \/ PipeIn(t) \/ PipeOut(t) PROVE LabelsTyped'
  BY <1>2 DEF Take, Read, PipeIn, PipeOut, Goto
<1>3. ASSUME NEW t \in Threads, Fork(t) PROVE LabelsTyped'
  <2>1. job[t] \in Requests
    BY <1>3 DEF Fork, Readers, Active, Before
  <2> QED
    BY <1>3, <2>1 DEF Fork
<1>4. ASSUME NEW t \in Threads, ForkFails(t) \/ CloseIn(t) \/ CloseOut(t) \/ BodyWritten(t)
      PROVE LabelsTyped'
  BY <1>4 DEF ForkFails, CloseIn, CloseOut, BodyWritten, Goto
<1>5. ASSUME NEW t \in Threads, WriteBody(t) \/ ReadOutput(t) PROVE LabelsTyped'
  BY <1>5 DEF WriteBody, ReadOutput, threadVars
<1>6. ASSUME NEW t \in Threads, OutputEnds(t) \/ Reply(t) \/ CloseSock(t) PROVE LabelsTyped'
  BY <1>6 DEF OutputEnds, Reply, CloseSock, Goto
<1>7. ASSUME NEW p \in Procs, Death(p) PROVE LabelsTyped'
  BY <1>7 DEF Death, ProcessEnds
<1>8. ASSUME NEW r \in Requests, ChildLogs(r) \/ Exec(r) \/ ExecFails(r) \/ LogBlocks(r)
      PROVE LabelsTyped'
  BY <1>8 DEF ChildLogs, Exec, ExecFails, LogBlocks, Goto
<1>9. ASSUME NEW r \in Requests, ProgramReads(r) \/ ProgramReadsEnd(r) \/ ProgramWrites(r)
      PROVE LabelsTyped'
  BY <1>9 DEF ProgramReads, ProgramReadsEnd, ProgramWrites, threadVars
<1>10. CASE UNCHANGED vars
  BY <1>10 DEF vars, threadVars
<1> QED
  BY <1>1, <1>2, <1>3, <1>4, <1>5, <1>6, <1>7, <1>8, <1>9, <1>10, Deaths DEF Next, Serve, Child

(* What processes hold, the queues and the jobs keep to their types. *)
LEMMA NextPlaces ==
  ASSUME Types, Readers, [Next]_vars
  PROVE  PlacesTyped'
<1> USE Homes DEF Types, PlacesTyped
<1>1. ASSUME NEW r \in Requests, Accept(r) PROVE PlacesTyped'
  <2>1. Server \in Procs /\ <<"sock", r>> \in Ends
    BY DEF Procs, Ends
  <2>2. holds' \in [Procs -> SUBSET Ends]
    BY <1>1, <2>1 DEF Accept, Opens
  <2>3. pending' \in [Procs -> Seq(Requests)]
    BY <1>1, <2>1 DEF Accept
  <2> QED
    BY <1>1, <2>2, <2>3 DEF Accept, threadVars, progVars, kinVars
<1>2. ASSUME NEW t \in Threads, Take(t) PROVE PlacesTyped'
  <2>1. pending[Home(t)] \in Seq(Requests) /\ pending[Home(t)] # <<>>
    BY <1>2 DEF Take
  <2>2. Head(pending[Home(t)]) \in Requests /\ Tail(pending[Home(t)]) \in Seq(Requests)
    BY <2>1
  <2> QED
    BY <1>2, <2>2 DEF Take, progVars, kinVars
<1>3. ASSUME NEW t \in Threads, Read(t) PROVE PlacesTyped'
  BY <1>3 DEF Read, progVars, kinVars
<1>4. ASSUME NEW t \in Threads, PipeIn(t) \/ PipeOut(t) PROVE PlacesTyped'
  <2>1. job[t] \in Requests
    BY <1>4 DEF PipeIn, PipeOut, Readers, Active, Before
  <2>2. {"inR", "inW"} \X {job[t]} \subseteq Ends /\ {"outR", "outW"} \X {job[t]} \subseteq Ends
    BY <2>1 DEF Ends
  <2>3. PICK es \in SUBSET Ends : holds' = [holds EXCEPT ![Home(t)] = @ \cup es]
    BY <1>4, <2>2 DEF PipeIn, PipeOut, Opens
  <2>4. holds' \in [Procs -> SUBSET Ends]
    BY <2>3
  <2>5. UNCHANGED <<pending, accepted, unread, parent, strays, writesFirst, job>>
    BY <1>4 DEF PipeIn, PipeOut, kinVars, progVars
  <2> QED
    BY <2>4, <2>5
<1>5. ASSUME NEW t \in Threads, Fork(t) PROVE PlacesTyped'
  <2>1. job[t] \in Requests
    BY <1>5 DEF Fork, Readers, Active, Before
  <2> QED
    BY <1>5, <2>1 DEF Fork, progVars
<1>6. ASSUME NEW t \in Threads, ForkFails(t) \/ BodyWritten(t) \/ OutputEnds(t) \/ Reply(t)
      PROVE PlacesTyped'
  BY <1>6 DEF ForkFails, BodyWritten, OutputEnds, Reply, progVars, kinVars
<1>7. ASSUME NEW t \in Threads, CloseIn(t) \/ CloseOut(t) \/ CloseSock(t) PROVE PlacesTyped'
  <2>1. CASE CloseIn(t)
    BY <2>1 DEF CloseIn, Closes, progVars, kinVars
  <2>2. CASE CloseOut(t)
    BY <2>2 DEF CloseOut, Closes, progVars, kinVars
  <2>3. CASE CloseSock(t)
    BY <2>3 DEF CloseSock, Closes, progVars, kinVars
  <2> QED
    BY <1>7, <2>1, <2>2, <2>3
<1>8. ASSUME NEW t \in Threads, WriteBody(t) \/ ReadOutput(t) PROVE PlacesTyped'
  BY <1>8 DEF WriteBody, ReadOutput, threadVars, progVars, kinVars
<1>9. ASSUME NEW p \in Procs, Death(p) PROVE PlacesTyped'
  BY <1>9 DEF Death, ProcessEnds, progVars, kinVars
<1>10. ASSUME NEW r \in Requests, ChildLogs(r) \/ Exec(r) \/ ExecFails(r) \/ LogBlocks(r)
       PROVE PlacesTyped'
  <2>1. <<>> \in Seq(Requests)
    OBVIOUS
  <2>2. CASE Exec(r)
    BY <2>1, <2>2 DEF Exec, Closes, kinVars
  <2>3. CASE ExecFails(r) \/ LogBlocks(r)
    BY <2>3 DEF ExecFails, LogBlocks, Closes, progVars
  <2>4. CASE ChildLogs(r)
    BY <2>4 DEF ChildLogs, progVars, kinVars
  <2> QED
    BY <1>10, <2>2, <2>3, <2>4
<1>11. ASSUME NEW r \in Requests, ProgramReads(r) \/ ProgramReadsEnd(r) \/ ProgramWrites(r)
       PROVE PlacesTyped'
  BY <1>11 DEF ProgramReads, ProgramReadsEnd, ProgramWrites, threadVars, kinVars
<1>12. CASE UNCHANGED vars
  BY <1>12 DEF vars, threadVars, progVars, kinVars
<1> QED
  BY <1>1, <1>2, <1>3, <1>4, <1>5, <1>6, <1>7, <1>8, <1>9, <1>10, <1>11, <1>12, Deaths
     DEF Next, Serve, Child

(* Buffers stay within their sizes, and what a program writes is one of    *)
(* its outputs.                                                            *)
LEMMA NextNumbers ==
  ASSUME Types, Readers, Kin, Counts, EndsHeld, [Next]_vars
  PROVE  NumbersTyped'
<1> USE CgiAssumption DEF Types, NumbersTyped
<1>1. ASSUME NEW t \in Threads, Read(t) PROVE NumbersTyped'
  <2>1. job[t] \in Requests
    BY <1>1 DEF Read, PlacesTyped
  <2>2. left' \in [Requests -> 0..MaxBody]
    BY <1>1, <2>1 DEF Read
  <2> QED
    BY <1>1, <2>2 DEF Read, progVars
<1>2. ASSUME NEW t \in Threads, WriteBody(t) PROVE NumbersTyped'
  <2>1. job[t] \in Requests
    BY <1>2 DEF WriteBody, Readers, Active, After
  <2>2. left' \in [Requests -> 0..MaxBody] /\ inBuf' \in [Requests -> 0..PipeSize]
    BY <1>2, <2>1 DEF WriteBody
  <2> QED
    BY <1>2, <2>2 DEF WriteBody, progVars
<1>3. ASSUME NEW t \in Threads, ReadOutput(t) PROVE NumbersTyped'
  <2>1. job[t] \in Requests
    BY <1>3 DEF ReadOutput, Readers, Active, After
  <2>2. pos' \in [Requests -> 0..MaxContent] /\ outBuf' \in [Requests -> 0..PipeSize]
    BY <1>3, <2>1 DEF ReadOutput
  <2> QED
    BY <1>3, <2>2 DEF ReadOutput, progVars
<1>4. ASSUME NEW r \in Requests, Exec(r) PROVE NumbersTyped'
  <2>1. PICK n \in 0..(inBuf[r] + left[r]), m \in Outputs :
          toRead' = [toRead EXCEPT ![r] = n] /\ toWrite' = [toWrite EXCEPT ![r] = m]
    BY <1>4 DEF Exec
  <2>2. n \in 0..MaxBody /\ m \in Nat /\ written[r] = 0
    <3>1. inBuf[r] + left[r] \in Nat /\ inBuf[r] + left[r] <= MaxBody
      BY DEF Counts
    <3> QED
      BY <2>1, <1>4, <3>1, SMTT(60) DEF Counts, Exec
  <2>3. /\ toRead' \in [Requests -> 0..MaxBody] /\ toWrite' \in [Requests -> Nat]
        /\ written' = written
    BY <1>4, <2>1, <2>2 DEF Exec
  <2>4. \A q \in Requests : written'[q] + toWrite'[q] \in Outputs \cup {0}
    BY <2>1, <2>2, <2>3
  <2> QED
    BY <1>4, <2>3, <2>4 DEF Exec, pipeVars
<1>5. ASSUME NEW r \in Requests, ProgramReads(r) \/ ProgramReadsEnd(r) PROVE NumbersTyped'
  <2>1. CASE ProgramReads(r)
    <3>1. toRead' \in [Requests -> 0..MaxBody] /\ inBuf' \in [Requests -> 0..PipeSize]
      BY <2>1 DEF ProgramReads, Reading
    <3> QED
      BY <2>1, <3>1 DEF ProgramReads
  <2>2. CASE ProgramReadsEnd(r)
    BY <2>2 DEF ProgramReadsEnd, pipeVars
  <2> QED
    BY <1>5, <2>1, <2>2
<1>6. ASSUME NEW r \in Requests, ProgramWrites(r) PROVE NumbersTyped'
  <2>1. /\ toWrite' \in [Requests -> Nat] /\ written' \in [Requests -> Nat]
        /\ outBuf' \in [Requests -> 0..PipeSize]
    BY <1>6 DEF ProgramWrites, Writing
  <2>2. \A q \in Requests : written'[q] + toWrite'[q] = written[q] + toWrite[q]
    BY <1>6 DEF ProgramWrites, Writing
  <2> QED
    BY <1>6, <2>1, <2>2 DEF ProgramWrites
<1>7. CASE UNCHANGED <<pipeVars, progVars, logged>>
  BY <1>7 DEF pipeVars, progVars
<1>8. ASSUME NEW t \in Threads,
             PipeIn(t) \/ CloseOut(t) \/ Reply(t) \/ (t \in Requests /\ ChildLogs(t))
      PROVE NumbersTyped'
  <2>1. outBuf' \in [Requests -> 0..PipeSize] /\ logged' \in [Requests -> Nat]
    BY <1>8, LogsAre, LogCounts, Homes
  <2>2. UNCHANGED <<left, inBuf, pos, progVars>>
    BY <1>8 DEF PipeIn, CloseOut, Reply, ChildLogs
  <2> QED
    BY <2>1, <2>2 DEF progVars
<1> QED
  BY <1>1, <1>2, <1>3, <1>4, <1>5, <1>6, <1>7, <1>8, Homes
     DEF Next, Serve, Child, vars, Accept, Take, PipeOut, Fork, ForkFails, CloseIn,
         SigPipe, BodyWritten, OutputEnds, CloseSock, ExecFails, LogBlocks,
         ProgramEnds, Dies

(* A step along the pipes, before the fork or after it, changes no place. *)
LEMMA ReadersAlong ==
  ASSUME Types, Readers, NEW t \in Threads, NEW label \in Before \cup After,
         pc' = [pc EXCEPT ![t] = label], job' = job, unread' = unread,
         (pc[t] \in Before /\ label \in Before) \/ (pc[t] \in After /\ label \in After)
  PROVE  Readers'
<1> USE Homes DEF Types, LabelsTyped, Active, Before, After, Newborn
<1>1. \A u \in Threads : /\ pc'[u] \in Before \cup After <=> Active(u)
                         /\ pc'[u] \in Before <=> pc[u] \in Before
  OBVIOUS
<1>2. \A u \in Threads : /\ pc'[u] = "unborn" <=> pc[u] = "unborn"
                         /\ pc'[u] \in {"read", "close"} \cup Newborn => pc[u] = pc'[u]
  OBVIOUS
<1> QED
  BY <1>1, <1>2 DEF Readers

(* One thread is at work on a request, and finds its child where it left it. *)
LEMMA NextReaders ==
  ASSUME Types, Readers, [Next]_vars
  PROVE  Readers'
<1> USE CgiAssumption, Homes DEF Types, LabelsTyped, PlacesTyped, Readers, Active, Before, After, Newborn
<1>1. ASSUME NEW t \in Threads, Take(t) PROVE Readers'
  <2>1. pending[Home(t)] \in Seq(Requests) /\ pending[Home(t)] # <<>>
    BY <1>1 DEF Take
  <2>2. Head(pending[Home(t)]) \in Requests
    BY <2>1
  <2> QED
    BY <1>1, <2>2 DEF Take, Goto
<1>2. ASSUME NEW t \in Threads, Read(t) PROVE Readers'
  BY <1>2 DEF Read, Goto
<1>3. ASSUME NEW t \in Threads, PipeIn(t) \/ PipeOut(t) PROVE Readers'
  <2>1. PICK label \in Before : pc' = [pc EXCEPT ![t] = label]
    BY <1>3 DEF PipeIn, PipeOut, Goto
  <2>2. pc[t] \in Before /\ job' = job /\ unread' = unread
    BY <1>3 DEF PipeIn, PipeOut
  <2> QED
    BY <2>1, <2>2, ReadersAlong
<1>4. ASSUME NEW t \in Threads, CloseIn(t) \/ CloseOut(t) \/ BodyWritten(t) \/ OutputEnds(t)
      PROVE Readers'
  <2>1. PICK label \in After : pc' = [pc EXCEPT ![t] = label]
    BY <1>4 DEF CloseIn, CloseOut, BodyWritten, OutputEnds, Goto
  <2>2. pc[t] \in After /\ job' = job /\ unread' = unread
    BY <1>4 DEF CloseIn, CloseOut, BodyWritten, OutputEnds
  <2> QED
    BY <2>1, <2>2, ReadersAlong
<1>5. ASSUME NEW t \in Threads, Fork(t) PROVE Readers'
  <2> DEFINE r == job[t]
  <2>1. /\ r \in Requests \ unread /\ r # t /\ pc[r] = "unborn" /\ pc[t] = "fork"
        /\ job' = [job EXCEPT ![r] = r] /\ unread' = unread
    BY <1>5 DEF Fork
  <2>2. /\ pc'[t] = "closeIn" /\ pc'[r] \in Newborn
        /\ \A u \in Threads \ {t, r} : pc'[u] = pc[u] /\ job'[u] = job[u]
        /\ job'[t] = r /\ job'[r] = r
    BY <1>5, <2>1 DEF Fork
  <2>3. /\ \A u \in Threads : Active(u)' <=> Active(u)
        /\ \A u \in Threads : Active(u) => u # r /\ job'[u] = job[u]
        /\ \A u \in Threads : Active(u) /\ u # t => job[u] # r
    <3>1. \A u \in Threads : Active(u)' <=> Active(u)
      BY <2>1, <2>2
    <3>2. \A u \in Threads : Active(u) => u # r
      BY <2>1
    <3>3. \A u \in Threads : Active(u) => job'[u] = job[u]
      BY <2>1, <2>2, <3>2
    <3>4. \A u \in Threads : Active(u) /\ u # t => job[u] # r
      BY <2>1
    <3> QED
      BY <3>1, <3>2, <3>3, <3>4
  <2>4. \A u \in Threads : pc'[u] \in {"read", "close"} \cup Newborn => job'[u] \in Requests
    BY <2>1, <2>2
  <2>5. ASSUME NEW u \in Threads, Active(u)
        PROVE  /\ job'[u] \in Requests \ unread' /\ job'[u] # u
               /\ pc'[u] \in Before <=> pc'[job'[u]] = "unborn"
    <3>1. CASE u = t
      BY <3>1, <2>1, <2>2
    <3>2. CASE u # t
      <4>1. u # r /\ job[u] # r /\ job'[u] = job[u] /\ pc'[u] = pc[u]
        BY <2>5, <3>2, <2>2, <2>3
      <4>2. pc'[job[u]] = "unborn" <=> pc[job[u]] = "unborn"
        BY <2>5, <4>1, <2>1, <2>2
      <4> QED
        BY <2>5, <4>1, <4>2, <2>1
    <3> QED
      BY <3>1, <3>2
  <2>6. ASSUME NEW q \in Requests, q \in unread' PROVE pc'[q] = "unborn"
    <3>1. q \in unread /\ q # r
      BY <2>1, <2>6
    <3>2. pc[q] = "unborn" /\ q # t
      BY <2>1, <3>1
    <3> QED
      BY <2>2, <3>1, <3>2
  <2>7. \A u, v \in Threads : Active(u)' /\ Active(v)' /\ job'[u] = job'[v] => u = v
    <3>1. \A u, v \in Threads : Active(u) /\ Active(v) /\ job[u] = job[v] => u = v
      OBVIOUS
    <3> HIDE DEF Active, Readers
    <3> QED
      BY <2>3, <3>1
  <2> QED
    BY <2>3, <2>4, <2>5, <2>6, <2>7
<1>6. ASSUME NEW t \in Threads, ForkFails(t) PROVE Readers'
  BY <1>6 DEF ForkFails, Goto
<1>7. ASSUME NEW t \in Threads, Reply(t) \/ CloseSock(t) PROVE Readers'
  <2>1. CASE Reply(t)
    BY <2>1 DEF Reply, Goto
  <2>2. CASE CloseSock(t)
    BY <2>2 DEF CloseSock, Goto
  <2> QED
    BY <1>7, <2>1, <2>2
<1>8. ASSUME NEW p \in Procs, Death(p) PROVE Readers'
  <2>1. /\ \A u \in Threads : pc'[u] \in {pc[u], "ended"} /\ (Home(u) # p => pc'[u] = pc[u])
        /\ job' = job /\ unread' = unread
    BY <1>8 DEF Death, ProcessEnds
  <2>2. ASSUME NEW r \in Requests, pc[r] = "unborn" PROVE pc'[r] = "unborn"
    <3>1. Home(r) = r /\ r # p
      BY <1>8, <2>2 DEF Death
    <3> QED
      BY <2>1, <2>2, <3>1
  <2>3. \A u \in Threads : Active(u)' => Active(u) /\ pc'[u] = pc[u]
    BY <2>1
  <2>4. \A u \in Threads : pc'[u] = "unborn" => pc[u] = "unborn"
    BY <2>1
  <2>5. \A u \in Threads : Active(u)' =>
          /\ job'[u] \in Requests \ unread' /\ job'[u] # u
          /\ pc'[u] \in Before <=> pc'[job'[u]] = "unborn"
    BY <2>1, <2>2, <2>3, <2>4
  <2>6. \A u, v \in Threads : Active(u)' /\ Active(v)' /\ job'[u] = job'[v] => u = v
    BY <2>1, <2>3
  <2>7. /\ \A u \in Threads : pc'[u] \in {"read", "close"} \cup Newborn => job'[u] \in Requests
        /\ \A r \in Requests : r \in unread' => pc'[r] = "unborn"
    BY <2>1, <2>2
  <2> QED
    BY <2>5, <2>6, <2>7
<1>9. ASSUME NEW r \in Requests, ChildLogs(r) \/ Exec(r) \/ ExecFails(r) \/ LogBlocks(r) PROVE Readers'
  <2>1. CASE Exec(r)
    BY <2>1 DEF Exec, Goto
  <2>2. CASE ExecFails(r)
    BY <2>2 DEF ExecFails, Goto
  <2>3. CASE LogBlocks(r)
    BY <2>3 DEF LogBlocks, Goto
  <2>4. CASE ChildLogs(r)
    BY <2>4 DEF ChildLogs, Goto
  <2> QED
    BY <1>9, <2>1, <2>2, <2>3, <2>4
<1>10. CASE UNCHANGED <<threadVars, unread>>
  BY <1>10 DEF threadVars
<1> QED
  BY <1>1, <1>2, <1>3, <1>4, <1>5, <1>6, <1>7, <1>8, <1>9, <1>10, Deaths
     DEF Next, Serve, Child, vars, threadVars, Accept, WriteBody, ReadOutput, ProgramReads,
         ProgramReadsEnd, ProgramWrites

(* Only a stray goes on as a worker, and what it forks is its child. *)
LEMMA NextKin ==
  ASSUME Types, Readers, Kin, [Next]_vars
  PROVE  Kin'
<1> USE CgiAssumption, Homes DEF Types, LabelsTyped, PlacesTyped, Kin, ServeLabels
<1>1. ASSUME UNCHANGED kinVars,
             \A r \in Requests :
               /\ pc'[r] \in ServeLabels \ {"ended"} => pc[r] \in ServeLabels \ {"ended"}
               /\ pc'[r] \in Newborn => pc[r] \in Newborn
      PROVE  Kin'
  BY <1>1 DEF kinVars, Newborn
<1>2. ASSUME NEW t \in Threads, Fork(t) PROVE Kin'
  <2>1. job[t] \in Requests /\ pc[job[t]] = "unborn" /\ job[t] # t
    BY <1>2 DEF Fork, Readers, Active, Before
  <2>2. Home(t) \in {Server} \cup strays /\ Home(t) # job[t]
    BY <1>2, <2>1 DEF Fork, Home, Threads
  <2>3. /\ parent' = [parent EXCEPT ![job[t]] = Home(t)] /\ strays' = strays
        /\ pc'[job[t]] \in Newborn
        /\ \A r \in Requests \ {job[t]} : pc'[r] = pc[r] \/ (r = t /\ pc'[r] = "closeIn" /\ pc[r] = "fork")
    BY <1>2, <2>1 DEF Fork, Newborn
  <2> QED
    BY <2>1, <2>2, <2>3 DEF Newborn
<1>3. ASSUME NEW t \in Threads,
             \/ Take(t) \/ Read(t) \/ PipeIn(t) \/ PipeOut(t) \/ ForkFails(t) \/ CloseIn(t)
             \/ CloseOut(t) \/ BodyWritten(t) \/ OutputEnds(t) \/ Reply(t) \/ CloseSock(t)
      PROVE  Kin'
  <2>1. /\ \E label \in ServeLabels \ {"ended"} : Goto(t, label)
        /\ pc[t] \in ServeLabels \ {"ended"} /\ UNCHANGED kinVars
    BY <1>3 DEF Take, Read, PipeIn, PipeOut, ForkFails, CloseIn, CloseOut, BodyWritten,
       OutputEnds, Reply, CloseSock
  <2> QED
    BY <1>1, <2>1 DEF Goto, Newborn
<1>4. ASSUME NEW r \in Requests, ChildLogs(r) \/ Exec(r) \/ ExecFails(r) \/ LogBlocks(r)
      PROVE  Kin'
  <2>1. CASE ChildLogs(r)
    BY <1>1, <2>1 DEF ChildLogs, Goto, Newborn
  <2>2. CASE Exec(r)
    BY <1>1, <2>2 DEF Exec, Goto, Newborn
  <2>3. CASE ExecFails(r)
    BY <2>3 DEF ExecFails, Goto
  <2>4. CASE LogBlocks(r)
    BY <2>4 DEF LogBlocks, Goto
  <2> QED
    BY <1>4, <2>1, <2>2, <2>3, <2>4
<1>5. ASSUME NEW p \in Procs, Death(p) PROVE Kin'
  BY <1>1, <1>5 DEF Death, ProcessEnds, Newborn
<1>6. CASE UNCHANGED <<threadVars, kinVars>>
  BY <1>1, <1>6 DEF threadVars
<1> QED
  BY <1>2, <1>3, <1>4, <1>5, <1>6, Deaths
     DEF Next, Serve, Child, vars, Accept, WriteBody, ReadOutput, ProgramReads,
         ProgramReadsEnd, ProgramWrites

(* One unit more in the pipe is one unit more that has been written. *)
LEMMA OneMore ==
  \A a, b, c, d \in Nat : a + b = c + d => a + (b + 1) = (c + 1) + d
  OBVIOUS

(* Bodies and outputs are counted without a loss. *)
LEMMA NextCounts ==
  ASSUME Types, Readers, Kin, Counts, EndsHeld, [Next]_vars
  PROVE  Counts'
<1> USE CgiAssumption, Homes
        DEF Types, LabelsTyped, PlacesTyped, NumbersTyped, Counts
<1>1. ASSUME NEW t \in Threads, Read(t) PROVE Counts'
  <2>1. job[t] \in Requests /\ left[job[t]] = 0 /\ inBuf[job[t]] = 0
    BY <1>1 DEF Read
  <2>2. PICK n \in IF job[t] \in Posts THEN 0..MaxBody ELSE {0} :
          left' = [left EXCEPT ![job[t]] = n]
    BY <1>1 DEF Read
  <2>3. n \in Nat /\ n <= MaxBody
    BY <2>2
  <2>4. /\ unread' = unread \ {job[t]}
        /\ UNCHANGED <<inBuf, outBuf, pos, toWrite, written, logged, strays>>
        /\ pc' = [pc EXCEPT ![t] = "pipeIn"]
    BY <1>1 DEF Read, Goto, progVars, kinVars
  <2>5. ASSUME NEW q \in Requests
        PROVE  /\ q \in unread' => left'[q] = 0 /\ inBuf'[q] = 0
               /\ inBuf'[q] + left'[q] <= MaxBody
    <3>1. CASE q = job[t]
      <4>1. left'[q] = n /\ inBuf'[q] = 0 /\ q \notin unread'
        BY <2>1, <2>2, <2>4, <3>1
      <4> QED
        BY <2>3, <4>1
    <3>2. CASE q # job[t]
      <4>1. left'[q] = left[q] /\ inBuf'[q] = inBuf[q] /\ (q \in unread' => q \in unread)
        BY <2>2, <2>4, <3>2
      <4> QED
        BY <4>1
    <3> QED
      BY <3>1, <3>2
  <2> QED
    BY <2>4, <2>5
<1>2. ASSUME NEW t \in Threads, Fork(t) PROVE Counts'
  <2>1. /\ job[t] \in Requests /\ pc[job[t]] = "unborn"
        /\ written[job[t]] = 0 /\ toWrite[job[t]] = 0
    BY <1>2 DEF Fork, Readers, Active, Before
  <2>2. \A q \in Requests : pc'[q] \in {"unborn"} \cup Newborn => pc[q] \in {"unborn"} \cup Newborn
    BY <1>2, <2>1 DEF Fork, Newborn
  <2> QED
    BY <1>2, <2>2 DEF Fork, pipeVars, progVars, Newborn
<1>3. ASSUME NEW t \in Threads, WriteBody(t) PROVE Counts'
  <2>1. job[t] \in Requests \ unread
    BY <1>3 DEF WriteBody, Readers, Active, After
  <2>2. \A q \in Requests : inBuf'[q] + left'[q] = inBuf[q] + left[q]
    BY <1>3, <2>1 DEF WriteBody
  <2> QED
    BY <1>3, <2>1, <2>2, SMTT(60) DEF WriteBody, progVars, threadVars, kinVars
<1>4. ASSUME NEW t \in Threads, ReadOutput(t) PROVE Counts'
  <2>1. job[t] \in Requests
    BY <1>4 DEF ReadOutput, Readers, Active, After
  <2>2. \A q \in Requests : pos'[q] + outBuf'[q] = pos[q] + outBuf[q]
    BY <1>4, <2>1 DEF ReadOutput
  <2> QED
    BY <1>4, <2>2 DEF ReadOutput, progVars, threadVars, kinVars
<1>5. ASSUME NEW r \in Requests, Exec(r) PROVE Counts'
  <2>1. PICK m \in Outputs : toWrite' = [toWrite EXCEPT ![r] = m]
    BY <1>5 DEF Exec
  <2>2. pc' = [pc EXCEPT ![r] = "program"]
    BY <1>5 DEF Exec, Goto
  <2> QED
    BY <1>5, <2>1, <2>2 DEF Exec, pipeVars, kinVars
<1>6. ASSUME NEW r \in Requests, ProgramReads(r) PROVE Counts'
  <2>1. r \notin unread
    BY <1>6 DEF ProgramReads, Reading, Readers
  <2>2. inBuf'[r] = inBuf[r] - 1 /\ \A q \in Requests \ {r} : inBuf'[q] = inBuf[q]
    BY <1>6 DEF ProgramReads
  <2>3. ASSUME NEW q \in Requests PROVE inBuf'[q] + left[q] <= MaxBody
    <3>1. inBuf[q] \in Nat /\ left[q] \in Nat /\ inBuf[q] + left[q] <= MaxBody /\ MaxBody \in Nat
      OBVIOUS
    <3>2. inBuf'[q] = inBuf[q] \/ inBuf'[q] = inBuf[q] - 1
      BY <2>2
    <3> HIDE DEF Types, LabelsTyped, PlacesTyped, NumbersTyped, Counts
    <3> QED
      BY <3>1, <3>2
  <2> QED
    BY <1>6, <2>1, <2>2, <2>3 DEF ProgramReads, threadVars, kinVars
<1>7. ASSUME NEW r \in Requests, ProgramWrites(r) PROVE Counts'
  <2>1. ASSUME NEW q \in Requests PROVE pos[q] + outBuf'[q] = written'[q] + logged[q]
    <3>1. /\ pos[q] \in Nat /\ outBuf[q] \in Nat /\ written[q] \in Nat /\ logged[q] \in Nat
          /\ pos[q] + outBuf[q] = written[q] + logged[q]
      OBVIOUS
    <3>2. \/ outBuf'[q] = outBuf[q] /\ written'[q] = written[q]
          \/ outBuf'[q] = outBuf[q] + 1 /\ written'[q] = written[q] + 1
      BY <1>7 DEF ProgramWrites
    <3> HIDE DEF Types, LabelsTyped, PlacesTyped, NumbersTyped, Counts
    <3>3. CASE outBuf'[q] = outBuf[q] /\ written'[q] = written[q]
      BY <3>1, <3>3
    <3>4. CASE outBuf'[q] = outBuf[q] + 1 /\ written'[q] = written[q] + 1
      BY <3>1, <3>4, OneMore
    <3> QED
      BY <3>2, <3>3, <3>4
  <2>2. pc[r] = "program" /\ \A q \in Requests \ {r} : written'[q] = written[q] /\ toWrite'[q] = toWrite[q]
    BY <1>7 DEF ProgramWrites, Writing
  <2> QED
    BY <1>7, <2>1, <2>2 DEF ProgramWrites, threadVars, kinVars
<1>8. ASSUME UNCHANGED <<pipeVars, progVars, unread, logged>>, strays \subseteq strays',
             \A q \in Requests :
               pc'[q] \in {"unborn"} \cup Newborn => pc[q] \in {"unborn"} \cup Newborn
      PROVE Counts'
  BY <1>8 DEF pipeVars, progVars, Newborn
<1>9. ASSUME NEW t \in Threads,
             \/ Take(t) \/ PipeOut(t) \/ ForkFails(t) \/ CloseIn(t)
             \/ BodyWritten(t) \/ OutputEnds(t) \/ CloseSock(t)
      PROVE Counts'
  <2>1. /\ \E label \in {"read", "fork", "close", "closeOut", "output", "reply", "idle"} :
             Goto(t, label)
        /\ UNCHANGED <<pipeVars, progVars, unread, logged, strays>>
    BY <1>9 DEF Take, PipeOut, ForkFails, CloseIn, BodyWritten, OutputEnds, CloseSock, kinVars
  <2> QED
    BY <1>8, <2>1 DEF Goto, Newborn
<1>10. ASSUME NEW r \in Requests, ExecFails(r) \/ LogBlocks(r) \/ ProgramReadsEnd(r) \/ Accept(r)
       PROVE Counts'
  <2>1. CASE ExecFails(r)
    BY <1>8, <2>1 DEF ExecFails, Goto, Newborn
  <2>2. CASE LogBlocks(r)
    BY <1>8, <2>2 DEF LogBlocks, Goto, Newborn
  <2>3. CASE ProgramReadsEnd(r)
    BY <2>3 DEF ProgramReadsEnd, threadVars, kinVars, pipeVars
  <2>4. CASE Accept(r)
    BY <1>8, <2>4 DEF Accept, threadVars, kinVars
  <2> QED
    BY <1>10, <2>1, <2>2, <2>3, <2>4
<1>11. ASSUME NEW p \in Procs, Death(p) PROVE Counts'
  BY <1>8, <1>11 DEF Death, ProcessEnds, kinVars, Newborn
<1>12. ASSUME NEW t \in Threads,
              PipeIn(t) \/ CloseOut(t) \/ Reply(t) \/ (t \in Requests /\ ChildLogs(t))
       PROVE Counts'
  <2>1. /\ outBuf' \in [Requests -> 0..PipeSize] /\ logged' \in [Requests -> Nat]
        /\ \A q \in Requests : outBuf'[q] + logged[q] = outBuf[q] + logged'[q]
        /\ \A q \in Requests \ strays : logged'[q] = logged[q]
    BY <1>12, LogsAre, LogCounts
  <2>2. /\ UNCHANGED <<left, inBuf, pos, toWrite, written, unread, strays>>
        /\ \A q \in Requests : pc'[q] \in {"unborn"} \cup Newborn => pc[q] \in {"unborn"} \cup Newborn
    BY <1>12 DEF PipeIn, CloseOut, Reply, ChildLogs, Goto, progVars, kinVars, Newborn
  <2>3. ASSUME NEW q \in Requests PROVE pos'[q] + outBuf'[q] = written'[q] + logged'[q]
    <3>1. /\ pos[q] \in Nat /\ outBuf[q] \in Nat /\ written[q] \in Nat /\ logged[q] \in Nat
          /\ pos[q] + outBuf[q] = written[q] + logged[q]
      OBVIOUS
    <3>2. /\ outBuf'[q] \in Nat /\ logged'[q] \in Nat /\ pos'[q] = pos[q] /\ written'[q] = written[q]
          /\ outBuf'[q] + logged[q] = outBuf[q] + logged'[q]
      BY <2>1, <2>2
    <3> HIDE DEF Types, LabelsTyped, PlacesTyped, NumbersTyped, Counts
    <3> QED
      BY <3>1, <3>2
  <2> QED
    BY <2>1, <2>2, <2>3 DEF Newborn
<1>13. CASE UNCHANGED vars
  BY <1>8, <1>13 DEF vars, threadVars, kinVars
<1> QED
  BY <1>1, <1>2, <1>3, <1>4, <1>5, <1>6, <1>7, <1>9, <1>10, <1>11, <1>12, <1>13, Deaths, Homes
     DEF Next, Serve, Child

(* No child loses the write end of its output before it ends. *)
LEMMA NextEndsHeld ==
  ASSUME Types, Readers, Kin, EndsHeld, [Next]_vars
  PROVE  EndsHeld'
<1> USE CgiAssumption, Homes DEF Types, LabelsTyped, PlacesTyped, EndsHeld
<1>1. ASSUME \A p \in Procs : holds[p] \subseteq holds'[p], parent' = parent,
             \A r \in Requests :
               /\ pc'[r] \in {"childLog", "child"} => pc[r] \in {"childLog", "child"}
               /\ pc'[r] \notin {"unborn", "ended"} => pc[r] \notin {"unborn", "ended"},
             \A t \in Threads : pc'[t] = "fork" => pc[t] = "fork" /\ job'[t] = job[t]
      PROVE  EndsHeld'
  BY <1>1
<1>2. ASSUME NEW r \in Requests, Accept(r) PROVE EndsHeld'
  BY <1>1, <1>2 DEF Accept, Opens, threadVars, kinVars
<1>3. ASSUME NEW t \in Threads, Take(t) \/ Read(t) \/ ForkFails(t) PROVE EndsHeld'
  BY <1>1, <1>3 DEF Take, Read, ForkFails, Goto, kinVars
<1>4. ASSUME NEW t \in Threads, BodyWritten(t) \/ OutputEnds(t) \/ Reply(t) PROVE EndsHeld'
  BY <1>1, <1>4 DEF BodyWritten, OutputEnds, Reply, Goto, kinVars
<1>5. ASSUME NEW t \in Threads, PipeIn(t) PROVE EndsHeld'
  BY <1>1, <1>5 DEF PipeIn, Opens, Goto, kinVars
<1>6. ASSUME NEW t \in Threads, PipeOut(t) PROVE EndsHeld'
  <2>1. /\ holds' = [holds EXCEPT ![Home(t)] = @ \cup ({"outR", "outW"} \X {job[t]})]
        /\ pc' = [pc EXCEPT ![t] = "fork"] /\ pc[t] = "pipeOut" /\ UNCHANGED <<job, parent>>
    BY <1>6 DEF PipeOut, Opens, Goto, kinVars
  <2>2. /\ \A p \in Procs : holds[p] \subseteq holds'[p]
        /\ <<"outW", job[t]>> \in holds'[Home(t)]
    BY <2>1
  <2> QED
    BY <2>1, <2>2
<1>7. ASSUME NEW t \in Threads, Fork(t) PROVE EndsHeld'
  <2> DEFINE r == job[t]  p == Home(t)
  <2>1. r \in Requests /\ pc[r] = "unborn" /\ r # t /\ pc[t] = "fork" /\ p # r /\ p \in Procs
    BY <1>7 DEF Fork, Readers, Active, Before
  <2>2. /\ pc'[t] = "closeIn" /\ pc'[r] \in {"childLog", "child"}
        /\ \A u \in Threads \ {t, r} : pc'[u] = pc[u] /\ job'[u] = job[u]
        /\ holds'[r] = holds[p] /\ \A q \in Procs \ {r} : holds'[q] = holds[q]
        /\ parent'[r] = p /\ \A q \in Requests \ {r} : parent'[q] = parent[q]
    BY <1>7, <2>1 DEF Fork
  <2>3. p # Server => p = t /\ t \in Requests
    BY DEF Home, Threads
  <2>4. \A q \in Requests : pc'[q] \notin {"unborn", "ended"} => <<"outW", q>> \in holds'[q]
    BY <2>1, <2>2
  <2>5. \A u \in Threads : pc'[u] = "fork" => <<"outW", job'[u]>> \in holds'[Home(u)]
    <3>1. \A u \in Threads : pc'[u] = "fork" => u \notin {t, r} /\ Home(u) # r
      BY <2>1, <2>2
    <3> QED
      BY <2>2, <3>1
  <2>6. \A q \in Requests : pc'[q] \in {"childLog", "child"} /\ parent'[q] # Server =>
          <<"outW", parent'[q]>> \in holds'[q]
    <3>1. p # Server => <<"outW", p>> \in holds[p]
      BY <2>1, <2>3
    <3> QED
      BY <2>1, <2>2, <3>1
  <2> QED
    BY <2>4, <2>5, <2>6
<1>8. ASSUME NEW t \in Threads, CloseOut(t) PROVE EndsHeld'
  <2>1. /\ job[t] \in Requests /\ job[t] # t
        /\ \A u \in Threads : pc[u] = "fork" => job[u] # job[t]
    BY <1>8 DEF CloseOut, Readers, Active, Before, After
  <2>2. /\ pc' = [pc EXCEPT ![t] = "body"] /\ pc[t] = "closeOut" /\ UNCHANGED <<job, parent>>
        /\ holds' = [holds EXCEPT ![Home(t)] = @ \ {<<"outW", job[t]>>}]
    BY <1>8 DEF CloseOut, Closes, Goto, kinVars
  <2>3. \A q \in Requests : pc[q] \in {"childLog", "child"} => holds'[q] = holds[q]
    BY <2>2
  <2>4. \A q \in Requests : <<"outW", q>> \in holds[q] => <<"outW", q>> \in holds'[q]
    BY <2>1, <2>2
  <2>5. \A u \in Threads : pc[u] = "fork" /\ <<"outW", job[u]>> \in holds[Home(u)] =>
          <<"outW", job[u]>> \in holds'[Home(u)]
    BY <2>1, <2>2
  <2> QED
    BY <2>2, <2>3, <2>4, <2>5
<1>9. ASSUME NEW t \in Threads, CloseIn(t) \/ CloseSock(t) PROVE EndsHeld'
  <2>1. PICK e \in Ends : e[1] # "outW" /\ holds' = [holds EXCEPT ![Home(t)] = @ \ {e}]
    <3>1. job[t] \in Requests
      BY <1>9 DEF CloseIn, CloseSock, Readers, Active, After
    <3> QED
      BY <1>9, <3>1 DEF CloseIn, CloseSock, Closes, Ends
  <2>2. /\ \E label \in {"closeOut", "idle"} : pc' = [pc EXCEPT ![t] = label]
        /\ pc[t] \in {"closeIn", "close"} /\ parent' = parent
        /\ \A u \in Threads \ {t} : job'[u] = job[u]
    BY <1>9 DEF CloseIn, CloseSock, Goto, kinVars
  <2>3. \A p \in Procs, r \in Requests : <<"outW", r>> \in holds[p] => <<"outW", r>> \in holds'[p]
    BY <2>1
  <2>4. \A u \in Threads : pc'[u] = "fork" => pc[u] = "fork" /\ job'[u] = job[u] /\ job[u] \in Requests
    BY <2>2 DEF Readers, Active, Before
  <2>5. \A r \in Requests :
           /\ pc'[r] \notin {"unborn", "ended"} => pc[r] \notin {"unborn", "ended"}
           /\ pc'[r] \in {"childLog", "child"} => pc[r] \in {"childLog", "child"} /\ parent[r] \in {Server} \cup Requests
    BY <2>2 DEF Kin
  <2> QED
    BY <2>2, <2>3, <2>4, <2>5
<1>10. ASSUME NEW p \in Procs, Death(p) PROVE EndsHeld'
  <2>1. /\ parent' = parent /\ job' = job
        /\ \A q \in Procs \ {p} : holds'[q] = holds[q]
        /\ \A u \in Threads : pc'[u] = IF Home(u) = p THEN "ended" ELSE pc[u]
    BY <1>10 DEF Death, ProcessEnds, kinVars
  <2> QED
    BY <2>1
<1>11. ASSUME NEW r \in Requests, Exec(r) \/ ExecFails(r) PROVE EndsHeld'
  <2>1. /\ \E label \in {"program", "close"} : pc' = [pc EXCEPT ![r] = label]
        /\ pc[r] = "child" /\ parent' = parent
        /\ \A u \in Threads \ {r} : job'[u] = job[u]
        /\ holds' = [holds EXCEPT ![r] = @ \ Closed(r)]
    BY <1>11 DEF Exec, ExecFails, Closes, Goto, kinVars
  <2>2. <<"outW", r>> \notin Closed(r)
    BY DEF Closed, Kin
  <2>3. /\ <<"outW", r>> \in holds'[r] /\ \A q \in Procs \ {r} : holds'[q] = holds[q]
    BY <2>1, <2>2
  <2>4. \A u \in Threads : pc'[u] = "fork" => pc[u] = "fork" /\ u # r /\ Home(u) # r
    BY <2>1
  <2> QED
    BY <2>1, <2>3, <2>4
<1>12. ASSUME NEW r \in Requests, LogBlocks(r) \/ ChildLogs(r) PROVE EndsHeld'
  <2>1. CASE LogBlocks(r)
    BY <1>1, <2>1 DEF LogBlocks, Goto
  <2>2. CASE ChildLogs(r)
    BY <1>1, <2>2 DEF ChildLogs, Goto, kinVars
  <2> QED
    BY <1>12, <2>1, <2>2
<1>13. CASE UNCHANGED <<holds, threadVars, parent>>
  BY <1>1, <1>13 DEF threadVars
<1> QED
  BY <1>2, <1>3, <1>4, <1>5, <1>6, <1>7, <1>8, <1>9, <1>10, <1>11, <1>12, <1>13, Deaths
     DEF Next, Serve, Child, vars, threadVars, kinVars, WriteBody, ReadOutput, ProgramReads,
         ProgramReadsEnd, ProgramWrites

(* Nobody comes to hold the write end of an output again, once its reader  *)
(* has found that nobody does; only a process that holds it passes it on.  *)
LEMMA OutputStaysClosed ==
  ASSUME Types, Readers, [Next]_vars,
         NEW t \in Threads, pc[t] = "reply", ~Open("outW", job[t])
  PROVE  \A p \in Procs : <<"outW", job[t]>> \notin holds'[p]
<1> USE CgiAssumption, Homes DEF Types, PlacesTyped, LabelsTyped
<1> DEFINE e == <<"outW", job[t]>>  Free == \A p \in Procs : e \notin holds'[p]
<1>1. \A p \in Procs : e \notin holds[p]
  BY DEF Open
<1>2. job[t] \in Requests /\ \A u \in Threads : pc[u] = "pipeOut" => job[u] # job[t]
  BY DEF Readers, Active, Before, After
<1>3. ASSUME \A p \in Procs : holds'[p] \subseteq holds[p] PROVE Free
  BY <1>1, <1>3
<1>4. ASSUME NEW r \in Requests, Accept(r) PROVE Free
  BY <1>1, <1>4 DEF Accept, Opens
<1>5. ASSUME NEW u \in Threads, PipeIn(u) \/ PipeOut(u) PROVE Free
  <2>1. PICK es : e \notin es /\ holds' = [holds EXCEPT ![Home(u)] = @ \cup es]
    BY <1>2, <1>5 DEF PipeIn, PipeOut, Opens
  <2> QED
    BY <1>1, <2>1
<1>6. ASSUME NEW u \in Threads, Fork(u) PROVE Free
  <2>1. holds' = [holds EXCEPT ![job[u]] = holds[Home(u)]]
    BY <1>6 DEF Fork
  <2> QED
    BY <1>1, <2>1
<1>7. ASSUME NEW u \in Threads, CloseIn(u) \/ CloseOut(u) \/ CloseSock(u) PROVE Free
  <2>1. PICK es : holds' = [holds EXCEPT ![Home(u)] = @ \ es]
    BY <1>7 DEF CloseIn, CloseOut, CloseSock, Closes
  <2> QED
    BY <1>1, <2>1
<1>8. ASSUME NEW r \in Requests, Exec(r) \/ ExecFails(r) PROVE Free
  <2>1. holds' = [holds EXCEPT ![r] = @ \ Closed(r)]
    BY <1>8 DEF Exec, ExecFails, Closes
  <2> QED
    BY <1>1, <2>1
<1>9. ASSUME NEW p \in Procs, Death(p) PROVE Free
  <2>1. holds' = [holds EXCEPT ![p] = {}]
    BY <1>9 DEF Death, ProcessEnds
  <2> QED
    BY <1>1, <2>1
<1>10. CASE UNCHANGED holds
  BY <1>1, <1>10
<1> QED
  BY <1>4, <1>5, <1>6, <1>7, <1>8, <1>9, <1>10, Deaths
     DEF Next, Serve, Child, vars, Take, Read, ForkFails, WriteBody, BodyWritten, ReadOutput,
         OutputEnds, Reply, ChildLogs, LogBlocks, ProgramReads, ProgramReadsEnd, ProgramWrites

(* Only the reader of an output takes from it, only the program writes to  *)
(* it, only who has its write end logs to it, and who has ended stays so.  *)
LEMMA CompleteIsKept ==
  ASSUME CgiInv, [Next]_vars,
         NEW t \in Threads, pc[t] = "reply"
  PROVE  /\ pos'[job[t]] = pos[job[t]]
         /\ ~Open("outW", job[t]) /\ pc[job[t]] = "ended" =>
              /\ written'[job[t]] = written[job[t]] /\ logged'[job[t]] = logged[job[t]]
              /\ pc'[job[t]] = "ended"
<1> USE CgiAssumption, Homes DEF CgiInv, Types, PlacesTyped, LabelsTyped, NumbersTyped
<1> DEFINE r == job[t]
           Kept == /\ pos'[r] = pos[r]
                   /\ ~Open("outW", r) /\ pc[r] = "ended" =>
                        written'[r] = written[r] /\ logged'[r] = logged[r] /\ pc'[r] = "ended"
<1>1. r \in Requests /\ \A u \in Threads : u # t /\ Active(u) => job[u] # r
  BY DEF Readers, Active, After
<1>2. ASSUME UNCHANGED <<pos, written, logged>>, pc[r] = "ended" => pc'[r] = "ended"
      PROVE  Kept
  BY <1>2
<1>3. ASSUME NEW u \in Threads,
             \/ Take(u) \/ Read(u) \/ PipeOut(u) \/ ForkFails(u) \/ CloseIn(u)
             \/ WriteBody(u) \/ BodyWritten(u) \/ OutputEnds(u) \/ CloseSock(u)
      PROVE  Kept
  <2>1. UNCHANGED <<pos, written, logged>>
    BY <1>3 DEF Take, Read, PipeOut, ForkFails, CloseIn, WriteBody, BodyWritten,
       OutputEnds, CloseSock, pipeVars, progVars
  <2>2. pc' = pc \/ (pc[u] # "ended" /\ \E label \in AllLabels : pc' = [pc EXCEPT ![u] = label])
    BY <1>3 DEF Take, Read, PipeOut, ForkFails, CloseIn, WriteBody, BodyWritten,
       OutputEnds, CloseSock, Goto, threadVars, AllLabels, ServeLabels
  <2> QED
    BY <1>1, <1>2, <2>1, <2>2
<1>4. ASSUME NEW u \in Threads, Fork(u) PROVE Kept
  <2>1. job[u] \in Requests /\ pc[job[u]] = "unborn" /\ pc[u] = "fork"
    BY <1>4 DEF Fork, Readers, Active, Before
  <2>2. UNCHANGED <<pos, written, logged>> /\ (pc[r] = "ended" => pc'[r] = "ended")
    BY <1>1, <1>4, <2>1 DEF Fork, pipeVars, progVars
  <2> QED
    BY <1>2, <2>2
<1>5. ASSUME NEW u \in Threads,
             PipeIn(u) \/ CloseOut(u) \/ Reply(u) \/ (u \in Requests /\ ChildLogs(u))
      PROVE  Kept
  <2>1. /\ pos' = pos /\ written' = written
        /\ pc[r] = "ended" => pc'[r] = "ended"
    BY <1>1, <1>5 DEF PipeIn, CloseOut, Reply, ChildLogs, Goto, progVars
  <2>2. ~Open("outW", r) => logged'[r] = logged[r]
    <3>1. LogStep(Home(u)) /\ Home(u) \in Procs
      BY <1>5, LogsAre
    <3>2. CASE UNCHANGED <<outBuf, logged>>
      BY <3>2
    <3>3. ASSUME ~Open("outW", r), NEW q \in strays, <<"outW", q>> \in holds[Home(u)],
                 logged' = [logged EXCEPT ![q] = @ + 1]
          PROVE  logged'[r] = logged[r]
      <4>1. q # r
        BY <3>1, <3>3 DEF Open
      <4> QED
        BY <1>1, <3>3, <4>1
    <3> QED
      BY <3>1, <3>2, <3>3 DEF LogStep
  <2> QED
    BY <2>1, <2>2
<1>6. ASSUME NEW u \in Threads, ReadOutput(u) PROVE Kept
  <2>1. job[u] # r
    BY <1>1, <1>6 DEF ReadOutput, Active, After
  <2>2. /\ pos' = [pos EXCEPT ![job[u]] = @ + 1]
        /\ UNCHANGED <<pc, written, logged>>
    BY <1>6 DEF ReadOutput, threadVars, progVars
  <2> QED
    BY <1>1, <2>1, <2>2
<1>7. ASSUME NEW q \in Requests, ProgramWrites(q) PROVE Kept
  <2>1. /\ pc[q] = "program" /\ UNCHANGED <<pc, pos, logged>>
        /\ written' = [written EXCEPT ![q] = @ + 1]
    BY <1>7 DEF ProgramWrites, Writing, threadVars
  <2> QED
    BY <1>1, <2>1
<1>8. ASSUME NEW q \in Requests,
             Accept(q) \/ Exec(q) \/ ExecFails(q) \/ LogBlocks(q) \/ ProgramReads(q) \/ ProgramReadsEnd(q)
      PROVE  Kept
  <2>1. UNCHANGED <<pos, written, logged>>
    BY <1>8 DEF Accept, Exec, ExecFails, LogBlocks, ProgramReads, ProgramReadsEnd, pipeVars, progVars
  <2>2. pc' = pc \/ (pc[q] # "ended" /\ \E label \in AllLabels : pc' = [pc EXCEPT ![q] = label])
    BY <1>8 DEF Accept, Exec, ExecFails, LogBlocks, ProgramReads, ProgramReadsEnd, Goto,
       threadVars, AllLabels, ServeLabels, ChildLabels
  <2> QED
    BY <1>1, <1>2, <2>1, <2>2
<1>9. ASSUME NEW p \in Procs, Death(p) PROVE Kept
  BY <1>1, <1>2, <1>9 DEF Death, ProcessEnds, pipeVars, progVars
<1>10. CASE UNCHANGED vars
  BY <1>2, <1>10 DEF vars, threadVars, pipeVars, progVars
<1> QED
  BY <1>3, <1>4, <1>5, <1>6, <1>7, <1>8, <1>9, <1>10, Deaths DEF Next, Serve, Child

(* A worker comes to its answer from the end of the output only. *)
LEMMA RepliesCome ==
  ASSUME CgiInv, [Next]_vars,
         NEW t \in Threads, pc'[t] = "reply"
  PROVE  job'[t] = job[t] /\ (pc[t] = "reply" \/ OutputEnds(t))
<1> USE CgiAssumption, Homes DEF CgiInv, Types, PlacesTyped, LabelsTyped
<1> DEFINE Came == job'[t] = job[t] /\ (pc[t] = "reply" \/ OutputEnds(t))
<1>1. ASSUME NEW u \in Threads, NEW label, label # "reply", pc' = [pc EXCEPT ![u] = label],
             \A v \in Threads \ {u} : job'[v] = job[v]
      PROVE  Came
  BY <1>1
<1>2. ASSUME NEW u \in Threads,
             \/ Take(u) \/ Read(u) \/ PipeIn(u) \/ PipeOut(u) \/ ForkFails(u) \/ CloseIn(u)
             \/ CloseOut(u) \/ BodyWritten(u) \/ Reply(u) \/ CloseSock(u)
      PROVE  Came
  <2>1. /\ \E label \in AllLabels \ {"reply"} : pc' = [pc EXCEPT ![u] = label]
        /\ \A v \in Threads \ {u} : job'[v] = job[v]
    BY <1>2 DEF Take, Read, PipeIn, PipeOut, ForkFails, CloseIn, CloseOut, BodyWritten,
       Reply, CloseSock, Goto, AllLabels, ServeLabels
  <2> QED
    BY <1>1, <2>1
<1>3. ASSUME NEW u \in Threads, Fork(u) PROVE Came
  <2>1. job[u] \in Requests /\ pc[job[u]] = "unborn" /\ pc[u] = "fork"
    BY <1>3 DEF Fork, Readers, Active, Before
  <2> QED
    BY <1>3, <2>1 DEF Fork
<1>4. ASSUME NEW u \in Threads, OutputEnds(u) PROVE Came
  BY <1>4 DEF OutputEnds, Goto
<1>5. ASSUME NEW q \in Requests, ChildLogs(q) \/ Exec(q) \/ ExecFails(q) \/ LogBlocks(q)
      PROVE  Came
  <2>1. /\ \E label \in AllLabels \ {"reply"} : pc' = [pc EXCEPT ![q] = label]
        /\ \A v \in Threads \ {q} : job'[v] = job[v]
    BY <1>5 DEF ChildLogs, Exec, ExecFails, LogBlocks, Goto, AllLabels, ServeLabels, ChildLabels
  <2> QED
    BY <1>1, <2>1
<1>6. ASSUME NEW p \in Procs, Death(p) PROVE Came
  BY <1>6 DEF Death, ProcessEnds
<1>7. CASE UNCHANGED threadVars
  BY <1>7 DEF threadVars
<1> QED
  BY <1>2, <1>3, <1>4, <1>5, <1>6, <1>7, Deaths
     DEF Next, Serve, Child, vars, Accept, WriteBody, ReadOutput, ProgramReads,
         ProgramReadsEnd, ProgramWrites

(* An answer that is complete stays so until it is sent: its request has   *)
(* no other reader, and nobody has an end to write to.                     *)
LEMMA NextAnswer ==
  ASSUME CgiInv, [Next]_vars
  PROVE  AnswerIsComplete'
<1> SUFFICES ASSUME NEW t \in Threads, pc'[t] = "reply"
             PROVE  \/ pos'[job'[t]] = MaxContent
                    \/ /\ \A p \in Procs : <<"outW", job'[t]>> \notin holds'[p]
                       /\ pc'[job'[t]] = "ended"
                       /\ pos'[job'[t]] = written'[job'[t]] + logged'[job'[t]]
  BY DEF AnswerIsComplete, Open
<1> USE CgiAssumption, Homes DEF CgiInv
<1>1. job'[t] = job[t] /\ (pc[t] = "reply" \/ OutputEnds(t))
  BY RepliesCome
<1>2. CASE pc[t] = "reply"
  <2>1. CASE pos[job[t]] = MaxContent
    BY <1>1, <1>2, <2>1, CompleteIsKept
  <2>2. CASE ~Open("outW", job[t]) /\ pc[job[t]] = "ended" /\ pos[job[t]] = written[job[t]] + logged[job[t]]
    BY <1>1, <1>2, <2>2, CompleteIsKept, OutputStaysClosed
  <2> QED
    BY <1>2, <2>1, <2>2 DEF AnswerIsComplete
<1>3. CASE OutputEnds(t)
  <2>1. job[t] \in Requests /\ pc[job[t]] # "unborn" /\ job[t] # t
    BY <1>3 DEF OutputEnds, Readers, Active, Before, After
  <2>2. /\ UNCHANGED <<holds, pos, written, logged>> /\ pc' = [pc EXCEPT ![t] = "reply"]
        /\ pos[job[t]] = MaxContent \/ (outBuf[job[t]] = 0 /\ ~Open("outW", job[t]))
    BY <1>3 DEF OutputEnds, Goto, pipeVars, progVars
  <2>3. CASE outBuf[job[t]] = 0 /\ ~Open("outW", job[t])
    <3>1. pc[job[t]] = "ended" /\ \A p \in Procs : <<"outW", job[t]>> \notin holds[p]
      BY <2>1, <2>3 DEF EndsHeld, Open
    <3>2. pos[job[t]] = written[job[t]] + logged[job[t]]
      BY <2>1, <2>3 DEF Counts, Types, NumbersTyped
    <3>3. pc'[job[t]] = "ended"
      BY <2>1, <2>2, <3>1 DEF Types, LabelsTyped
    <3> QED
      BY <1>1, <2>2, <3>1, <3>2, <3>3
  <2> QED
    BY <1>1, <2>2, <2>3
<1> QED
  BY <1>1, <1>2, <1>3

(* The invariant holds at the start and after every step. *)
LEMMA CgiInductive == Spec => []CgiInv
<1>1. ASSUME CgiInv, [Next]_vars PROVE CgiInv'
  <2>1. Types'
    BY <1>1, NextLabels, NextPlaces, NextNumbers DEF CgiInv, Types
  <2>2. Readers' /\ Kin' /\ Counts' /\ EndsHeld' /\ AnswerIsComplete'
    BY <1>1, NextReaders, NextKin, NextCounts, NextEndsHeld, NextAnswer DEF CgiInv
  <2> QED
    BY <2>1, <2>2 DEF CgiInv
<1> QED
  BY InitCgi, <1>1, PTL DEF Spec

(* Threads stay at their places, processes hold pipe ends and connections, *)
(* and what a pipe, response_content and a program's input hold stays      *)
(* within their sizes, in the server and in every copy that fork makes.    *)
THEOREM CgiTypeCorrect == Spec => []TypeOK
<1>1. CgiInv => TypeOK
  BY CgiAssumption DEF CgiInv, Types, LabelsTyped, PlacesTyped, NumbersTyped, TypeOK,
     AllLabels, Threads
<1> QED
  BY CgiInductive, <1>1, PTL

(* Whatever pipe ends other processes inherit, a worker that answers has   *)
(* read all that has been put into its pipe and nobody can add to it, or   *)
(* as much as response_content holds; and it is the program's output only, *)
(* unless its child has gone astray (http.c:123, 132, 181, logger.c:40).   *)
THEOREM AnswerIsTheOutput == Spec => []AnswerIsOutput
<1>1. CgiInv => AnswerIsOutput
  <2> SUFFICES ASSUME CgiInv, NEW t \in Threads, pc[t] = "reply"
               PROVE  LET r == job[t] IN
                      /\ pos[r] = MaxContent \/ (pc[r] = "ended" /\ pos[r] = written[r] + logged[r])
                      /\ r \notin strays => pos[r] <= written[r]
    BY DEF AnswerIsOutput
  <2>1. job[t] \in Requests
    BY DEF CgiInv, Readers, Active, After
  <2>2. job[t] \notin strays => pos[job[t]] + outBuf[job[t]] = written[job[t]]
    BY <2>1 DEF CgiInv, Counts, Types, NumbersTyped
  <2>3. job[t] \notin strays => pos[job[t]] <= written[job[t]]
    BY <2>1, <2>2, CgiAssumption DEF CgiInv, Types, NumbersTyped
  <2> QED
    BY <2>3 DEF CgiInv, AnswerIsComplete
<1> QED
  BY CgiInductive, <1>1, PTL

=============================================================================
