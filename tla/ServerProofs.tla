----------------------------- MODULE ServerProofs -----------------------------
(* Theorems about the accept loop of Server, for any number of workers,    *)
(* clients, descriptors and jobs.                                          *)
EXTENDS Server, TLAPS

(* Every step but those of main and the kernel's Connect leaves the accept *)
(* queue, the edge and main's place alone, or ends the process.            *)
LEMMA OthersKeepAcceptLoop ==
  ASSUME NEW w \in Workers, Take(w) \/ Handle(w)
  PROVE  UNCHANGED <<backlog, ready, main>> \/ main' = "exited"
<1>1. CASE Take(w)
  BY <1>1 DEF Take, kernelVars, mainVars
<1>2. CASE Handle(w)
  <2>1. CASE Read(w) \/ SendHeader(w) \/ CgiAnswer(w) \/ Return(w)
    BY <2>1 DEF Read, SendHeader, CgiAnswer, Return, kernelVars, mainVars
  <2>2. CASE OpenFile(w) \/ SendContent(w) \/ CgiPipes(w) \/ Close(w)
    BY <2>2 DEF OpenFile, SendContent, CgiPipes, Close, kernelVars, mainVars
  <2>3. CASE CgiPipeFails(w) \/ SigPipe(w)
    BY <2>3 DEF CgiPipeFails, SigPipe, ProcessEnds
  <2> QED
    BY <1>2, <2>1, <2>2, <2>3 DEF Handle
<1> QED
  BY <1>1, <1>2

(* No edge of the edge-triggered listening socket is lost: while a         *)
(* connection is queued, an edge is still to be reported or main is in the *)
(* loop that accepts until EAGAIN (util.c:14, coix.c:121).                 *)
THEOREM EdgeIsNeverLost == Spec => []NoLostEdge
<1>1. Init => NoLostEdge
  BY DEF Init, NoLostEdge
<1>2. ASSUME NoLostEdge, [Next]_vars
      PROVE  NoLostEdge'
  <2>1. CASE UNCHANGED vars
    BY <1>2, <2>1 DEF NoLostEdge, vars, kernelVars, mainVars
  <2>2. ASSUME NEW c \in Clients, ClientStep(c)
        PROVE  NoLostEdge'
    <3>1. CASE Connect(c)
      BY <3>1 DEF Connect, NoLostEdge
    <3>2. CASE (\E k \in Requests : Send(c, k)) \/ HalfClose(c) \/ HangUp(c)
      BY <1>2, <3>2 DEF Send, HalfClose, HangUp, NoLostEdge, kernelVars, mainVars
    <3> QED
      BY <2>2, <3>1, <3>2 DEF ClientStep
  <2>3. CASE MainStep
    <3>1. CASE EpollWait
      BY <3>1 DEF EpollWait, NoLostEdge
    <3>2. CASE Accept
      BY <3>2 DEF Accept, NoLostEdge
    <3>3. CASE AcceptAgain
      BY <3>3 DEF AcceptAgain, NoLostEdge, kernelVars
    <3>4. CASE AcceptFails
      BY <3>4 DEF AcceptFails, NoLostEdge
    <3>5. CASE Submit
      BY <3>5 DEF Submit, NoLostEdge
    <3>6. CASE SubmitFails
      BY <3>6 DEF SubmitFails, ProcessEnds, NoLostEdge
    <3> QED
      BY <2>3, <3>1, <3>2, <3>3, <3>4, <3>5, <3>6 DEF MainStep
  <2>4. ASSUME NEW w \in Workers, Take(w) \/ Handle(w)
        PROVE  NoLostEdge'
    BY <1>2, <2>4, OthersKeepAcceptLoop DEF NoLostEdge
  <2>5. CASE Done
    BY <2>1, <2>5 DEF Done
  <2> QED
    BY <1>2, <2>1, <2>2, <2>3, <2>4, <2>5 DEF Next
<1> QED
  BY <1>1, <1>2, PTL DEF Spec

(* What keeps descriptors in one place: a worker holds a job exactly when  *)
(* it is not idle.                                                         *)
IdleMatches ==
  main # "exited" => \A w \in Workers : pc[w] = "idle" <=> running[w] = NULL

(* The end of the process stops every worker, and the pool. *)
Stopped ==
  main = "exited" => status = "exited" /\ \A w \in Workers : pc[w] = "exited"

Typed == TypeOK /\ IdleMatches /\ Stopped

USE DEF Labels, Fd, BadFd

(* The server starts well typed, with no connection open. *)
LEMMA InitTyped == Init => Typed
<1>1. ASSUME Init PROVE TypeOK
  <2>1. pending \in Seq(Fd \cup {BadFd}) /\ backlog \in Seq(Clients)
    BY <1>1 DEF Init, Pool!Init
  <2>2. cliFd \in Fd \cup {BadFd} /\ file \in [Workers -> Fd \cup {BadFd}]
    BY <1>1 DEF Init
  <2>3. /\ conn \in [Clients -> {"out", "backlog", "open", "closed"}]
        /\ sent \in [Clients -> Requests \cup {NULL}]
        /\ fin \in [Clients -> BOOLEAN] /\ gone \in [Clients -> BOOLEAN]
        /\ got \in [Clients -> {"nothing", "header", "all"}]
        /\ ready \in BOOLEAN
        /\ fds \in [Fd -> Clients \cup {NULL, "file", "pipe"}]
        /\ main \in {"wait", "accept", "submit", "exited"}
    BY <1>1 DEF Init
  <2>4. /\ running \in [Workers -> Fd \cup {BadFd, NULL}]
        /\ mayTake = Workers /\ status \in {"open", "exited"}
        /\ pc \in [Workers -> Labels] /\ peer \in [Workers -> Clients \cup {NULL}]
    BY <1>1 DEF Init, Pool!Init
  <2> QED
    BY <2>1, <2>2, <2>3, <2>4 DEF TypeOK
<1>2. Init => IdleMatches
  BY DEF Init, IdleMatches, Pool!Init
<1>3. Init => Stopped
  BY DEF Init, Stopped
<1> QED
  BY <1>1, <1>2, <1>3 DEF Typed

(* The process ends: only main, the program counters and the pool change. *)
LEMMA ProcessEndsTyped ==
  ASSUME Typed, ProcessEnds
  PROVE  Typed'
<1>1. TypeOK'
  BY ServerAssumption DEF Typed, TypeOK, ProcessEnds, Pool!Exit, netVars, kernelVars
<1>2. IdleMatches'
  BY DEF ProcessEnds, IdleMatches
<1>3. Stopped'
  BY DEF ProcessEnds, Pool!Exit, Stopped
<1> QED
  BY <1>1, <1>2, <1>3 DEF Typed

(* Once the process has ended no worker moves. *)
LEMMA WorkerRuns ==
  ASSUME Typed, NEW w \in Workers, Take(w) \/ Handle(w)
  PROVE  main # "exited"
<1>1. CASE Take(w)
  BY <1>1 DEF Take, Pool!Take, Typed, Stopped
<1>2. CASE Handle(w)
  BY <1>2 DEF Handle, Read, SendHeader, OpenFile, SendContent, CgiPipes, CgiPipeFails,
              CgiAnswer, SigPipe, Close, Return, Typed, Stopped
<1> QED
  BY <1>1, <1>2

(* A step of a client or the kernel keeps the types. *)
LEMMA ClientTyped ==
  ASSUME Typed, NEW c \in Clients, ClientStep(c)
  PROVE  Typed'
<1>1. CASE Connect(c)
  BY <1>1, ServerAssumption DEF Connect, Typed, TypeOK, IdleMatches, Stopped, netVars, kernelVars, mainVars, poolVars, workVars
<1>2. CASE \E k \in Requests : Send(c, k)
  BY <1>2, ServerAssumption DEF Send, Typed, TypeOK, IdleMatches, Stopped, netVars, kernelVars, mainVars, poolVars, workVars
<1>3. CASE HalfClose(c)
  BY <1>3, ServerAssumption DEF HalfClose, Typed, TypeOK, IdleMatches, Stopped, netVars, kernelVars, mainVars, poolVars, workVars
<1>4. CASE HangUp(c)
  BY <1>4, ServerAssumption DEF HangUp, Typed, TypeOK, IdleMatches, Stopped, netVars, kernelVars, mainVars, poolVars, workVars
<1> QED
  BY <1>1, <1>2, <1>3, <1>4 DEF ClientStep

(* So does a step of main. *)
LEMMA MainTyped ==
  ASSUME Typed, MainStep
  PROVE  Typed'
<1>1. CASE EpollWait
  BY <1>1, ServerAssumption DEF EpollWait, Typed, TypeOK, IdleMatches, Stopped, netVars, kernelVars, mainVars, poolVars, workVars
<1>2. CASE Accept
  BY <1>2, ServerAssumption DEF Accept, LowestFree, Free, Typed, TypeOK, IdleMatches, Stopped, netVars, kernelVars, mainVars, poolVars, workVars
<1>3. CASE AcceptAgain
  BY <1>3, ServerAssumption DEF AcceptAgain, Typed, TypeOK, IdleMatches, Stopped, netVars, kernelVars, mainVars, poolVars, workVars
<1>4. CASE AcceptFails
  BY <1>4, ServerAssumption DEF AcceptFails, Typed, TypeOK, IdleMatches, Stopped, netVars, kernelVars, mainVars, poolVars, workVars
<1>5. CASE Submit
  BY <1>5, ServerAssumption DEF Submit, Pool!Submit, Typed, TypeOK, IdleMatches, Stopped, netVars, kernelVars, mainVars, poolVars, workVars
<1>6. CASE SubmitFails
  BY <1>6, ProcessEndsTyped DEF SubmitFails
<1> QED
  BY <1>1, <1>2, <1>3, <1>4, <1>5, <1>6 DEF MainStep

(* A worker that reads has the descriptor of a client, or -1. *)
LEMMA ReaderHasClient ==
  ASSUME Typed, OnePlacePerConnection, NEW w \in Workers,
         main # "exited", Holding(w)
  PROVE  Peer(w) \in Clients \cup {NULL}
<1>1. running[w] \in Fd \cup {BadFd} /\ BadFd \notin Fd
  BY ServerAssumption DEF Typed, TypeOK, IdleMatches, Stopped, Holding
<1>2. CASE running[w] = BadFd
  BY <1>2 DEF Peer
<1>3. CASE running[w] \in Fd
  <2>1. w \in Handled(running[w])
    BY DEF Handled
  <2>2. fds[running[w]] \in Clients
    BY <1>3, <2>1 DEF OnePlacePerConnection, InNoPlace
  <2> QED
    BY <1>1, <1>3, <2>2 DEF Peer
<1> QED
  BY <1>1, <1>2, <1>3

(* So does a step of a worker. *)
LEMMA WorkerTyped ==
  ASSUME Typed, OnePlacePerConnection, NEW w \in Workers, Take(w) \/ Handle(w)
  PROVE  Typed'
<1>0. main # "exited"
  BY WorkerRuns
<1>1. CASE Take(w)
  BY <1>1, <1>0, ServerAssumption DEF Take, Goto, Pool!Take, Pool!Idle, Typed, TypeOK, IdleMatches, Stopped, netVars, kernelVars, mainVars, poolVars, workVars
<1>2. CASE Read(w)
  <2>1. Peer(w) \in Clients \cup {NULL}
    BY <1>0, <1>2, ReaderHasClient DEF Read, Holding
  <2>2. PICK l \in Labels \ {"idle"} : pc' = [pc EXCEPT ![w] = l]
    BY <1>2 DEF Read, Goto, AfterParse, Kinds
  <2>3. pc[w] = "read" /\ peer' = [peer EXCEPT ![w] = Peer(w)]
    BY <1>2 DEF Read
  <2>4. UNCHANGED <<netVars, kernelVars, mainVars, poolVars, file>>
    BY <1>2 DEF Read
  <2> QED
    BY <1>0, <2>1, <2>2, <2>3, <2>4
    DEF Typed, TypeOK, IdleMatches, Stopped, netVars, kernelVars, mainVars, poolVars
<1>3. CASE SendHeader(w)
  BY <1>3, <1>0, ServerAssumption DEF SendHeader, Goto, Deliver, Typed, TypeOK, IdleMatches, Stopped, netVars, kernelVars, mainVars, poolVars, workVars
<1>4. CASE OpenFile(w)
  <2>1. /\ pc[w] = "open" /\ pc' = [pc EXCEPT ![w] = "content"]
        /\ UNCHANGED <<netVars, backlog, ready, mainVars, poolVars, peer>>
    BY <1>4 DEF OpenFile, Goto
  <2>2. /\ fds' \in [Fd -> Clients \cup {NULL, "file", "pipe"}]
        /\ file' \in [Workers -> Fd \cup {BadFd}]
    <3>1. CASE Free = {} /\ file' = [file EXCEPT ![w] = BadFd] /\ UNCHANGED fds
      BY <3>1 DEF Typed, TypeOK
    <3>2. CASE \E f \in Fd : /\ fds' = [fds EXCEPT ![f] = "file"]
                             /\ file' = [file EXCEPT ![w] = f]
      BY <3>2 DEF Typed, TypeOK
    <3> QED
      BY <1>4, <3>1, <3>2 DEF OpenFile
  <2> QED
    BY <1>0, <2>1, <2>2 DEF Typed, TypeOK, IdleMatches, Stopped, netVars, mainVars, poolVars
<1>5. CASE SendContent(w)
  BY <1>5, <1>0, ServerAssumption DEF SendContent, Goto, Deliver, Typed, TypeOK, IdleMatches, Stopped, netVars, kernelVars, mainVars, poolVars, workVars
<1>6. CASE CgiPipes(w)
  <2>1. /\ pc[w] = "pipe" /\ pc' = [pc EXCEPT ![w] = "cgi"]
        /\ UNCHANGED <<netVars, backlog, ready, mainVars, poolVars, file, peer>>
    BY <1>6 DEF CgiPipes, Goto
  <2>2. fds' \in [Fd -> Clients \cup {NULL, "file", "pipe"}]
    BY <1>6 DEF CgiPipes, Free, Typed, TypeOK
  <2> QED
    BY <1>0, <2>1, <2>2 DEF Typed, TypeOK, IdleMatches, Stopped, netVars, mainVars, poolVars
<1>7. CASE CgiAnswer(w)
  BY <1>7, <1>0, ServerAssumption DEF CgiAnswer, Goto, Deliver, Typed, TypeOK, IdleMatches, Stopped, netVars, kernelVars, mainVars, poolVars, workVars
<1>8. CASE Close(w)
  BY <1>8, <1>0, ServerAssumption DEF Close, Goto, Typed, TypeOK, IdleMatches, Stopped, netVars, kernelVars, mainVars, poolVars, workVars
<1>9. CASE Return(w)
  BY <1>9, <1>0, ServerAssumption DEF Return, Goto, Pool!Finish, Typed, TypeOK, IdleMatches, Stopped, netVars, kernelVars, mainVars, poolVars, workVars
<1>10. CASE CgiPipeFails(w) \/ SigPipe(w)
  BY <1>10, ProcessEndsTyped DEF CgiPipeFails, SigPipe
<1> QED
  BY <1>1, <1>2, <1>3, <1>4, <1>5, <1>6, <1>7, <1>8, <1>9, <1>10 DEF Handle

(* A step that leaves the three kinds of places as they are, and every     *)
(* descriptor a client's or not as it was, keeps one place per connection. *)
LEMMA PlacesKept ==
  ASSUME OnePlacePerConnection, main # "exited", pending' = pending,
         \A f \in Fd : InMain(f)' = InMain(f),
         \A f \in Fd : Handled(f)' = Handled(f),
         \A f \in Fd : (fds[f] \in Clients)' <=> fds[f] \in Clients
  PROVE  OnePlacePerConnection'
<1>1. \A f \in Fd : Queued(f)' = Queued(f)
  BY DEF Queued
<1>2. \A f \in Fd : InOnePlace(f)' <=> InOnePlace(f)
  BY <1>1 DEF InOnePlace
<1>3. \A f \in Fd : InNoPlace(f)' <=> InNoPlace(f)
  BY <1>1 DEF InNoPlace
<1> QED
  BY <1>2, <1>3 DEF OnePlacePerConnection

(* A step of a client changes no place. *)
LEMMA ClientOnePlace ==
  ASSUME Typed, OnePlacePerConnection, NEW c \in Clients, ClientStep(c)
  PROVE  OnePlacePerConnection'
<1>1. /\ main # "exited"
      /\ UNCHANGED <<fds, main, cliFd, pending, running, pc>>
  BY DEF ClientStep, Connect, Send, HalfClose, HangUp, Connected,
         kernelVars, mainVars, poolVars, workVars
<1>2. \A f \in Fd : InMain(f)' = InMain(f) /\ Handled(f)' = Handled(f)
  BY <1>1 DEF InMain, Handled, Holding
<1> QED
  BY <1>1, <1>2, PlacesKept

(* main takes a connection out of the accept queue under a descriptor that *)
(* was free, and so in no place, and moves it to the end of the job queue. *)
LEMMA MainOnePlace ==
  ASSUME Typed, OnePlacePerConnection, MainStep
  PROVE  OnePlacePerConnection'
<1>1. CASE EpollWait \/ AcceptAgain \/ AcceptFails
  <2>1. /\ main # "exited" /\ UNCHANGED <<fds, pending, running, pc>>
        /\ \A f \in Fd : InMain(f)' = InMain(f)
    BY <1>1, ServerAssumption
    DEF EpollWait, AcceptAgain, AcceptFails, InMain, kernelVars, mainVars, poolVars, workVars
  <2>2. \A f \in Fd : Handled(f)' = Handled(f)
    BY <2>1 DEF Handled, Holding
  <2> QED
    BY <2>1, <2>2, PlacesKept
<1>2. CASE Accept
  <2>1. PICK g \in Fd : /\ fds[g] = NULL /\ cliFd' = g
                        /\ fds' = [fds EXCEPT ![g] = Head(backlog)]
    BY <1>2 DEF Accept, LowestFree, Free
  <2>2. /\ main = "accept" /\ main' = "submit"
        /\ UNCHANGED <<pending, running, pc>>
    BY <1>2 DEF Accept, poolVars, workVars
  <2>3. Head(backlog) \in Clients
    BY <1>2 DEF Accept, Typed, TypeOK
  <2>4. \A f \in Fd : Queued(f)' = Queued(f) /\ Handled(f)' = Handled(f)
    BY <2>2 DEF Queued, Handled, Holding
  <2>5. \A f \in Fd : ~InMain(f) /\ (InMain(f)' <=> f = g)
    BY <2>1, <2>2 DEF InMain
  <2>6. InNoPlace(g) /\ fds'[g] \in Clients
    BY <2>1, <2>2, <2>3, ServerAssumption DEF OnePlacePerConnection, Typed, TypeOK
  <2>7. InOnePlace(g)'
    BY <2>4, <2>5, <2>6 DEF InOnePlace, InNoPlace
  <2>8. ASSUME NEW f \in Fd, f # g
        PROVE  IF fds'[f] \in Clients THEN InOnePlace(f)' ELSE InNoPlace(f)'
    <3>1. fds'[f] = fds[f]
      BY <2>1, <2>8
    <3>2. (InOnePlace(f)' <=> InOnePlace(f)) /\ (InNoPlace(f)' <=> InNoPlace(f))
      BY <2>2, <2>4, <2>5, <2>8 DEF InOnePlace, InNoPlace
    <3> QED
      BY <2>2, <3>1, <3>2 DEF OnePlacePerConnection
  <2> QED
    BY <2>6, <2>7, <2>8 DEF OnePlacePerConnection
<1>3. CASE Submit
  <2>1. /\ main = "submit" /\ main' = "accept"
        /\ pending' = Append(pending, cliFd)
        /\ UNCHANGED <<fds, cliFd, running, pc>>
    BY <1>3 DEF Submit, Pool!Submit, kernelVars, workVars
  <2>2. pending \in Seq(Fd \cup {BadFd}) /\ cliFd \in Fd \cup {BadFd}
    BY DEF Typed, TypeOK
  <2> DEFINE n == Len(pending) + 1
  <2>3. /\ DOMAIN pending = 1..Len(pending) /\ DOMAIN pending' = 1..n
        /\ pending'[n] = cliFd /\ n \notin DOMAIN pending
        /\ \A i \in DOMAIN pending : pending'[i] = pending[i]
    BY <2>1, <2>2
  <2>4. \A f \in Fd : Queued(f)' = IF f = cliFd THEN Queued(f) \cup {n} ELSE Queued(f)
    <3>1. DOMAIN pending' = DOMAIN pending \cup {n}
      BY <2>2, <2>3
    <3> QED
      BY <2>3, <3>1 DEF Queued
  <2>5. \A f \in Fd : ~InMain(f)' /\ (InMain(f) <=> f = cliFd)
    BY <2>1 DEF InMain
  <2>6. \A f \in Fd : Handled(f)' = Handled(f)
    BY <2>1 DEF Handled, Holding
  <2>7. ASSUME NEW f \in Fd
        PROVE  IF fds'[f] \in Clients THEN InOnePlace(f)' ELSE InNoPlace(f)'
    <3>1. CASE f = cliFd
      <4>1. fds[f] \in Clients /\ Queued(f) = {} /\ Handled(f) = {}
        BY <2>1, <2>5, <3>1 DEF OnePlacePerConnection, InOnePlace, InNoPlace
      <4>2. Queued(f)' = {n} /\ n \in DOMAIN pending'
        BY <2>2, <2>3, <2>4, <3>1, <4>1
      <4> QED
        BY <2>1, <2>5, <2>6, <4>1, <4>2 DEF InOnePlace
    <3>2. CASE f # cliFd
      <4>1. Queued(f)' = Queued(f) /\ ~InMain(f) /\ ~InMain(f)'
        BY <2>4, <2>5, <3>2
      <4>2. DOMAIN pending \subseteq DOMAIN pending'
        BY <2>2, <2>3
      <4>3. InOnePlace(f) => InOnePlace(f)'
        BY <2>6, <4>1, <4>2 DEF InOnePlace
      <4>4. InNoPlace(f) => InNoPlace(f)'
        BY <2>6, <4>1 DEF InNoPlace
      <4> QED
        BY <2>1, <4>3, <4>4 DEF OnePlacePerConnection
    <3> QED
      BY <3>1, <3>2
  <2> QED
    BY <2>7 DEF OnePlacePerConnection
<1>4. CASE SubmitFails
  BY <1>4 DEF SubmitFails, ProcessEnds, OnePlacePerConnection
<1> QED
  BY <1>1, <1>2, <1>3, <1>4 DEF MainStep

(* The oldest job moves from the queue to the worker that takes it. *)
LEMMA TakeOnePlace ==
  ASSUME Typed, OnePlacePerConnection, NEW w \in Workers, Take(w)
  PROVE  OnePlacePerConnection'
<1>1. main # "exited"
  BY WorkerRuns
<1>2. /\ pending # <<>> /\ pending' = Tail(pending)
      /\ running[w] = NULL /\ running' = [running EXCEPT ![w] = Head(pending)]
      /\ pc' = [pc EXCEPT ![w] = "read"]
      /\ UNCHANGED <<fds, main, cliFd>>
  BY DEF Take, Goto, Pool!Take, Pool!Idle, kernelVars, mainVars
<1>3. pending \in Seq(Fd \cup {BadFd}) /\ pc[w] = "idle"
  BY <1>1, <1>2 DEF Typed, TypeOK, IdleMatches
<1> DEFINE h == Head(pending)
           n == Len(pending)
<1>4. /\ n \in Nat \ {0} /\ DOMAIN pending = 1..n /\ DOMAIN pending' = 1..(n - 1)
      /\ pending[1] = h
      /\ \A i \in 1..(n - 1) : pending'[i] = pending[i + 1]
  BY <1>2, <1>3
<1>5. \A f \in Fd : InMain(f)' = InMain(f)
  BY <1>2 DEF InMain
<1>6. \A f \in Fd : Handled(f)' = IF f = h THEN Handled(f) \cup {w} ELSE Handled(f)
  <2>1. running'[w] = h /\ pc'[w] = "read"
    BY <1>2 DEF Typed, TypeOK
  <2>2. \A v \in Workers \ {w} : running'[v] = running[v] /\ pc'[v] = pc[v]
    BY <1>2 DEF Typed, TypeOK
  <2> QED
    BY <1>3, <2>1, <2>2 DEF Handled, Holding
<1>7. \A f \in Fd : \A i \in 1..(n - 1) : i \in Queued(f)' <=> i + 1 \in Queued(f)
  BY <1>4 DEF Queued
<1>8. \A f \in Fd : Queued(f) \subseteq 1..n /\ Queued(f)' \subseteq 1..(n - 1)
  BY <1>4 DEF Queued
<1>9. ASSUME NEW f \in Fd
      PROVE  IF fds'[f] \in Clients THEN InOnePlace(f)' ELSE InNoPlace(f)'
  <2>1. CASE f = h
    <3>1. 1 \in Queued(f)
      BY <1>4, <2>1 DEF Queued
    <3>2. fds[f] \in Clients /\ ~InMain(f) /\ Queued(f) = {1} /\ Handled(f) = {}
      BY <1>1, <3>1 DEF OnePlacePerConnection, InOnePlace, InNoPlace
    <3>3. Queued(f)' = {}
      BY <1>4, <1>7, <1>8, <3>2
    <3>4. Handled(f)' = {w}
      BY <1>6, <2>1, <3>2
    <3> QED
      BY <1>2, <1>5, <3>2, <3>3, <3>4 DEF InOnePlace
  <2>2. CASE f # h
    <3>1. Handled(f)' = Handled(f) /\ (InMain(f)' <=> InMain(f))
      BY <1>5, <1>6, <2>2
    <3>2. 1 \notin Queued(f)
      BY <1>4, <2>2 DEF Queued
    <3>3. Queued(f) = {} => Queued(f)' = {}
      BY <1>7, <1>8
    <3>4. ASSUME NEW i \in DOMAIN pending, Queued(f) = {i}
          PROVE  \E j \in DOMAIN pending' : Queued(f)' = {j}
      <4>1. i \in 2..n /\ i - 1 \in 1..(n - 1)
        BY <1>4, <3>2, <3>4
      <4>2. i - 1 \in Queued(f)'
        BY <1>7, <3>4, <4>1
      <4>3. \A j \in 1..(n - 1) : j \in Queued(f)' => j = i - 1
        BY <1>7, <3>4, <4>1
      <4>4. Queued(f)' = {i - 1}
        BY <1>8, <4>2, <4>3
      <4> QED
        BY <1>4, <4>1, <4>4
    <3>5. InOnePlace(f) => InOnePlace(f)'
      BY <3>1, <3>3, <3>4 DEF InOnePlace
    <3>6. InNoPlace(f) => InNoPlace(f)'
      BY <3>1, <3>3 DEF InNoPlace
    <3> QED
      BY <1>1, <1>2, <3>5, <3>6 DEF OnePlacePerConnection
  <2> QED
    BY <2>1, <2>2
<1> QED
  BY <1>9 DEF OnePlacePerConnection

(* close ends the one place its descriptor had. *)
LEMMA CloseOnePlace ==
  ASSUME Typed, OnePlacePerConnection, NEW w \in Workers, Close(w)
  PROVE  OnePlacePerConnection'
<1>1. main # "exited"
  BY WorkerRuns DEF Handle
<1>2. /\ pc[w] = "close" /\ pc' = [pc EXCEPT ![w] = "return"]
      /\ fds' = [f \in Fd |-> IF f = running[w] THEN NULL ELSE fds[f]]
      /\ UNCHANGED <<main, cliFd, pending, running>>
  BY DEF Close, Goto, mainVars, poolVars
<1>3. \A f \in Fd : InMain(f)' = InMain(f) /\ Queued(f)' = Queued(f)
  BY <1>2 DEF InMain, Queued
<1>4. \A f \in Fd : Handled(f)' = Handled(f) \ {w}
  <2>1. pc'[w] = "return" /\ \A v \in Workers \ {w} : pc'[v] = pc[v]
    BY <1>2 DEF Typed, TypeOK
  <2> QED
    BY <1>2, <2>1 DEF Handled, Holding
<1>5. ASSUME NEW f \in Fd
      PROVE  IF fds'[f] \in Clients THEN InOnePlace(f)' ELSE InNoPlace(f)'
  <2>1. CASE f = running[w]
    <3>1. w \in Handled(f)
      BY <1>2, <2>1 DEF Handled, Holding
    <3>2. ~InMain(f) /\ Queued(f) = {} /\ Handled(f) = {w}
      BY <1>1, <3>1 DEF OnePlacePerConnection, InOnePlace, InNoPlace
    <3>3. Handled(f)' = {} /\ fds'[f] \notin Clients
      BY <1>2, <1>4, <2>1, <3>2, ServerAssumption
    <3> QED
      BY <1>3, <3>2, <3>3 DEF InNoPlace
  <2>2. CASE f # running[w]
    <3>1. Handled(f)' = Handled(f) /\ fds'[f] = fds[f]
      BY <1>2, <1>4, <2>2 DEF Handled
    <3>2. (InOnePlace(f)' <=> InOnePlace(f)) /\ (InNoPlace(f)' <=> InNoPlace(f))
      BY <1>2, <1>3, <3>1 DEF InOnePlace, InNoPlace
    <3> QED
      BY <1>1, <3>1, <3>2 DEF OnePlacePerConnection
  <2> QED
    BY <2>1, <2>2
<1> QED
  BY <1>5 DEF OnePlacePerConnection

(* A worker's other steps move no connection: they open descriptors that   *)
(* are free, and go from one label of a job to another.                    *)
LEMMA WorkerOnePlace ==
  ASSUME Typed, OnePlacePerConnection, NEW w \in Workers, Take(w) \/ Handle(w)
  PROVE  OnePlacePerConnection'
<1>0. main # "exited"
  BY WorkerRuns
<1>1. CASE Take(w)
  BY <1>1, TakeOnePlace
<1>2. CASE Close(w)
  BY <1>2, CloseOnePlace
<1>3. CASE CgiPipeFails(w) \/ SigPipe(w)
  BY <1>3 DEF CgiPipeFails, SigPipe, ProcessEnds, OnePlacePerConnection
<1>4. ASSUME UNCHANGED <<main, cliFd, pending>>,
             \A f \in Fd : Handled(f)' = Handled(f),
             \A f \in Fd : (fds[f] \in Clients)' <=> fds[f] \in Clients
      PROVE  OnePlacePerConnection'
  BY <1>0, <1>4, PlacesKept DEF InMain
<1>5. ASSUME UNCHANGED running, NEW l \in Labels \ {"idle", "return"},
             Holding(w), pc' = [pc EXCEPT ![w] = l]
      PROVE  \A f \in Fd : Handled(f)' = Handled(f)
  <2>1. pc'[w] = l /\ \A v \in Workers \ {w} : pc'[v] = pc[v]
    BY <1>5 DEF Typed, TypeOK
  <2> QED
    BY <1>5, <2>1 DEF Handled, Holding
<1>6. CASE Read(w) \/ SendHeader(w) \/ SendContent(w) \/ CgiAnswer(w)
  <2>1. UNCHANGED <<fds, main, cliFd, pending, running>> /\ Holding(w)
    BY <1>6 DEF Read, SendHeader, SendContent, CgiAnswer, Holding,
                kernelVars, mainVars, poolVars
  <2>2. \E l \in Labels \ {"idle", "return"} : pc' = [pc EXCEPT ![w] = l]
    BY <1>6 DEF Read, SendHeader, SendContent, CgiAnswer, Goto, AfterParse, Kinds
  <2> QED
    BY <1>4, <1>5, <2>1, <2>2
<1>7. CASE OpenFile(w)
  <2>1. /\ UNCHANGED <<main, cliFd, pending, running>> /\ Holding(w)
        /\ pc' = [pc EXCEPT ![w] = "content"]
    BY <1>7 DEF OpenFile, Goto, Holding, mainVars, poolVars
  <2>2. \A f \in Fd : (fds[f] \in Clients)' <=> fds[f] \in Clients
    <3>1. CASE UNCHANGED fds
      BY <3>1
    <3>2. CASE \E g \in Fd : LowestFree(g) /\ fds' = [fds EXCEPT ![g] = "file"]
      BY <3>2, ServerAssumption DEF LowestFree, Free, Typed, TypeOK
    <3> QED
      BY <1>7, <3>1, <3>2 DEF OpenFile
  <2> QED
    BY <1>4, <1>5, <2>1, <2>2
<1>8. CASE CgiPipes(w)
  <2>1. /\ UNCHANGED <<main, cliFd, pending, running>> /\ Holding(w)
        /\ pc' = [pc EXCEPT ![w] = "cgi"]
    BY <1>8 DEF CgiPipes, Goto, Holding, mainVars, poolVars
  <2>2. PICK in, out \in Free : fds' = [fds EXCEPT ![in] = "pipe", ![out] = "pipe"]
    BY <1>8 DEF CgiPipes
  <2>3. \A f \in Fd : (fds[f] \in Clients)' <=> fds[f] \in Clients
    BY <2>2, ServerAssumption DEF Free, Typed, TypeOK
  <2> QED
    BY <1>4, <1>5, <2>1, <2>3
<1>9. CASE Return(w)
  <2>1. /\ UNCHANGED <<fds, main, cliFd, pending>> /\ pc[w] = "return"
        /\ pc' = [pc EXCEPT ![w] = "idle"]
        /\ running' = [running EXCEPT ![w] = NULL]
    BY <1>9 DEF Return, Goto, Pool!Finish, kernelVars, mainVars
  <2>2. \A v \in Workers \ {w} : running'[v] = running[v] /\ pc'[v] = pc[v]
    BY <2>1 DEF Typed, TypeOK
  <2>3. pc'[w] = "idle"
    BY <2>1 DEF Typed, TypeOK
  <2>4. \A f \in Fd : Handled(f)' = Handled(f)
    BY <2>1, <2>2, <2>3 DEF Handled, Holding
  <2> QED
    BY <1>4, <2>1, <2>4
<1> QED
  BY <1>1, <1>2, <1>3, <1>6, <1>7, <1>8, <1>9 DEF Handle

(* The inductive invariant: types, and one place per connection.  Neither  *)
(* is inductive alone: what a worker reads from is a connection, and not a *)
(* file or a pipe, because its descriptor has a place.                     *)
LEMMA PlacesInductive == Spec => [](Typed /\ OnePlacePerConnection)
<1>1. Init => Typed /\ OnePlacePerConnection
  <2>1. Init => OnePlacePerConnection
    BY ServerAssumption DEF Init, Pool!Init, OnePlacePerConnection, InNoPlace,
                            InMain, Queued, Handled, Holding
  <2> QED
    BY <2>1, InitTyped
<1>2. ASSUME Typed, OnePlacePerConnection, [Next]_vars
      PROVE  Typed' /\ OnePlacePerConnection'
  <2>1. CASE UNCHANGED vars
    <3>1. Typed'
      BY <1>2, <2>1 DEF Typed, TypeOK, IdleMatches, Stopped,
         vars, netVars, kernelVars, mainVars, poolVars, workVars
    <3>2. UNCHANGED <<fds, main, cliFd, pending, running, pc>>
      BY <2>1 DEF vars, kernelVars, mainVars, poolVars, workVars
    <3>3. OnePlacePerConnection'
      BY <1>2, <3>2
      DEF OnePlacePerConnection, InOnePlace, InNoPlace, InMain, Queued, Handled, Holding
    <3> QED
      BY <3>1, <3>3
  <2>2. CASE \E c \in Clients : ClientStep(c)
    BY <1>2, <2>2, ClientTyped, ClientOnePlace
  <2>3. CASE MainStep
    BY <1>2, <2>3, MainTyped, MainOnePlace
  <2>4. CASE \E w \in Workers : Take(w) \/ Handle(w)
    BY <1>2, <2>4, WorkerTyped, WorkerOnePlace
  <2>5. CASE Done
    BY <2>1, <2>5 DEF Done
  <2> QED
    BY <1>2, <2>1, <2>2, <2>3, <2>4, <2>5 DEF Next
<1> QED
  BY <1>1, <1>2, PTL DEF Spec

(* Every variable of Server keeps its type: the job argument -1 included,  *)
(* and what a worker read from is a client or nothing (coix.c:93).         *)
THEOREM ServerTypeCorrect == Spec => []TypeOK
BY PlacesInductive, PTL DEF Typed

(* Every accepted connection is in exactly one of main's cli_fd, the job   *)
(* queue and a worker that has not closed it, and no other descriptor is   *)
(* in any: none is leaked, served twice or closed twice (coix.c:87).       *)
THEOREM ConnectionsHaveOnePlace == Spec => []OnePlacePerConnection
BY PlacesInductive, PTL

(* Between its read and its close, a worker's descriptor is still the      *)
(* connection it read from.                                                *)
Answering(w) == pc[w] \in {"header", "open", "content", "pipe", "cgi", "close"}
PeerStays ==
  main # "exited" => \A w \in Workers : Answering(w) => Peer(w) = peer[w]

(* No step but its worker's close changes the connection a descriptor in   *)
(* use stands for: what is handed out was free, and what is closed was the *)
(* closing worker's alone.                                                 *)
LEMMA DescriptorStays ==
  ASSUME Typed, OnePlacePerConnection, [Next]_vars, main # "exited", main' # "exited",
         NEW w \in Workers, Answering(w), ~Close(w), running'[w] = running[w]
  PROVE  Peer(w)' = Peer(w)
<1> DEFINE f == running[w]
<1>1. f \in Fd \cup {BadFd} /\ BadFd \notin Fd
  BY ServerAssumption DEF Typed, TypeOK, IdleMatches, Answering
<1>2. CASE f = BadFd
  BY <1>2 DEF Peer
<1>3. CASE f \in Fd
  <2>1. w \in Handled(f)
    BY DEF Handled, Holding, Answering
  <2>2. fds[f] \in Clients /\ fds[f] # NULL
    BY <1>3, <2>1, ServerAssumption DEF OnePlacePerConnection, InNoPlace
  <2>3. Handled(f) = {w}
    BY <1>3, <2>1, <2>2 DEF OnePlacePerConnection, InOnePlace
  <2>4. SUFFICES fds'[f] = fds[f]
    BY <1>1, <1>3 DEF Peer
  <2>5. CASE UNCHANGED fds
    BY <2>5
  <2>6. CASE \E g \in Free : \E x : fds' = [fds EXCEPT ![g] = x]
    BY <1>3, <2>2, <2>6 DEF Free, Typed, TypeOK
  <2>7. ASSUME NEW v \in Workers, Take(v) \/ Handle(v)
        PROVE  fds'[f] = fds[f]
    <3>1. CASE Take(v) \/ Read(v) \/ SendHeader(v) \/ SendContent(v) \/ CgiAnswer(v)
               \/ Return(v)
      BY <2>5, <3>1 DEF Take, Read, SendHeader, SendContent, CgiAnswer, Return, kernelVars
    <3>2. CASE OpenFile(v)
      BY <2>5, <2>6, <3>2 DEF OpenFile, LowestFree
    <3>3. CASE CgiPipes(v)
      <4>1. PICK in, out \in Free : fds' = [fds EXCEPT ![in] = "pipe", ![out] = "pipe"]
        BY <3>3 DEF CgiPipes
      <4> QED
        BY <1>3, <2>2, <4>1 DEF Free, Typed, TypeOK
    <3>4. CASE Close(v)
      <4>1. v # w /\ Holding(v)
        BY <3>4 DEF Close, Holding
      <4>2. running[v] # f
        BY <2>3, <4>1 DEF Handled
      <4> QED
        BY <1>3, <3>4, <4>2 DEF Close
    <3>5. CASE CgiPipeFails(v) \/ SigPipe(v)
      BY <3>5 DEF CgiPipeFails, SigPipe, ProcessEnds
    <3> QED
      BY <2>7, <3>1, <3>2, <3>3, <3>4, <3>5 DEF Handle
  <2>8. CASE MainStep
    <3>1. CASE Accept
      BY <2>6, <3>1 DEF Accept, LowestFree
    <3>2. CASE EpollWait \/ AcceptAgain \/ AcceptFails \/ Submit
      BY <2>5, <3>2 DEF EpollWait, AcceptAgain, AcceptFails, Submit, kernelVars
    <3>3. CASE SubmitFails
      BY <3>3 DEF SubmitFails, ProcessEnds
    <3> QED
      BY <2>8, <3>1, <3>2, <3>3 DEF MainStep
  <2>9. CASE \E c \in Clients : ClientStep(c)
    BY <2>5, <2>9 DEF ClientStep, Connect, Send, HalfClose, HangUp, kernelVars
  <2>10. CASE UNCHANGED vars \/ Done
    BY <2>5, <2>10 DEF Done, vars, kernelVars
  <2> QED
    BY <2>7, <2>8, <2>9, <2>10 DEF Next
<1> QED
  BY <1>1, <1>2, <1>3

(* What a step does to the history of one worker: it reads, it stays, or   *)
(* it is no longer answering.                                              *)
LEMMA AnswerSteps ==
  ASSUME Typed, [Next]_vars, main' # "exited", NEW w \in Workers, Answering(w)'
  PROVE  \/ Read(w)
         \/ /\ Answering(w) /\ ~Close(w)
            /\ running'[w] = running[w] /\ peer'[w] = peer[w]
<1>1. CASE Take(w) \/ Return(w) \/ Close(w)
  BY <1>1 DEF Take, Return, Close, Goto, Answering, Typed, TypeOK
<1>2. CASE SendHeader(w) \/ OpenFile(w) \/ SendContent(w) \/ CgiPipes(w) \/ CgiAnswer(w)
  BY <1>2 DEF SendHeader, OpenFile, SendContent, CgiPipes, CgiAnswer, Close,
              Answering, poolVars
<1>3. CASE Read(w)
  BY <1>3
<1>4. CASE UNCHANGED <<running, pc, peer>>
  <2>1. ~Close(w)
    BY <1>4 DEF Close, Goto, Typed, TypeOK
  <2> QED
    BY <1>4, <2>1 DEF Answering
<1>5. CASE MainStep
  <2>1. CASE SubmitFails
    BY <2>1 DEF SubmitFails, ProcessEnds
  <2>2. CASE EpollWait \/ Accept \/ AcceptAgain \/ AcceptFails
    BY <1>4, <2>2 DEF EpollWait, Accept, AcceptAgain, AcceptFails, poolVars, workVars
  <2>3. CASE Submit
    BY <1>4, <2>3 DEF Submit, Pool!Submit, workVars
  <2> QED
    BY <1>5, <2>1, <2>2, <2>3 DEF MainStep
<1>6. CASE \E c \in Clients : ClientStep(c)
  BY <1>4, <1>6 DEF ClientStep, Connect, Send, HalfClose, HangUp, poolVars, workVars
<1>7. ASSUME NEW v \in Workers \ {w}, Take(v) \/ Handle(v)
      PROVE  /\ running'[w] = running[w] /\ peer'[w] = peer[w]
             /\ pc'[w] = pc[w] /\ pc'[v] # pc[v]
  <2>1. CASE Take(v)
    BY <2>1 DEF Take, Goto, Pool!Take, Typed, TypeOK, IdleMatches, Stopped, Pool!Idle
  <2>2. CASE Read(v)
    BY <2>2 DEF Read, Goto, AfterParse, Kinds, poolVars, Typed, TypeOK
  <2>3. CASE SendHeader(v) \/ OpenFile(v) \/ SendContent(v) \/ CgiPipes(v) \/ CgiAnswer(v)
             \/ Close(v)
    BY <2>3 DEF SendHeader, OpenFile, SendContent, CgiPipes, CgiAnswer, Close, Goto,
                poolVars, Typed, TypeOK
  <2>4. CASE Return(v)
    BY <2>4 DEF Return, Goto, Pool!Finish, Typed, TypeOK
  <2>5. CASE CgiPipeFails(v) \/ SigPipe(v)
    BY <2>5 DEF CgiPipeFails, SigPipe, ProcessEnds
  <2> QED
    BY <1>7, <2>1, <2>2, <2>3, <2>4, <2>5 DEF Handle
<1>8. CASE \E v \in Workers \ {w} : Take(v) \/ Handle(v)
  <2>1. PICK v \in Workers \ {w} : Take(v) \/ Handle(v)
    BY <1>8
  <2>2. /\ running'[w] = running[w] /\ peer'[w] = peer[w] /\ pc'[w] = pc[w]
        /\ pc'[v] # pc[v]
    BY <1>7, <2>1
  <2>3. ~Close(w)
    BY <2>2 DEF Close, Goto, Typed, TypeOK
  <2> QED
    BY <2>2, <2>3 DEF Answering
<1>9. CASE CgiPipeFails(w) \/ SigPipe(w)
  BY <1>9 DEF CgiPipeFails, SigPipe, ProcessEnds
<1>10. CASE UNCHANGED vars \/ Done
  BY <1>4, <1>10 DEF Done, vars, poolVars, workVars
<1> QED
  BY <1>1, <1>2, <1>3, <1>5, <1>6, <1>8, <1>9, <1>10 DEF Next, Handle

(* A worker answers on the connection it read from, for as long as it      *)
(* answers.                                                                *)
LEMMA PeerInductive == Spec => []PeerStays
<1>1. Init => PeerStays
  BY DEF Init, PeerStays, Answering
<1>2. ASSUME Typed, OnePlacePerConnection, PeerStays, [Next]_vars
      PROVE  PeerStays'
  <2>1. SUFFICES ASSUME main' # "exited", NEW w \in Workers, Answering(w)'
                 PROVE  Peer(w)' = peer'[w]
    BY DEF PeerStays
  <2>2. CASE Read(w)
    BY <1>2, <2>2 DEF Read, Peer, kernelVars, poolVars, Typed, TypeOK
  <2>3. CASE /\ Answering(w) /\ ~Close(w)
             /\ running'[w] = running[w] /\ peer'[w] = peer[w]
    <3>1. main # "exited"
      BY <1>2, <2>3 DEF Typed, TypeOK, Stopped, Answering
    <3>2. Peer(w)' = Peer(w)
      BY <1>2, <2>1, <2>3, <3>1, DescriptorStays
    <3> QED
      BY <1>2, <2>3, <3>1, <3>2 DEF PeerStays
  <2> QED
    BY <1>2, <2>1, <2>2, <2>3, AnswerSteps
<1> QED
  BY <1>1, <1>2, PlacesInductive, PTL DEF Spec

(* What a client receives was sent by a worker that read from that client, *)
(* although descriptor numbers are used again at once (coix.c:87, 121).    *)
THEOREM AnswersGoToTheirReader == Spec => AnswerGoesToReader
<1> DEFINE Sends == \A c \in Clients : got'[c] # got[c] =>
              \E w \in Workers : peer[w] = c /\ pc[w] \in {"header", "content", "cgi"}
<1>1. ASSUME Typed, PeerStays, [Next]_vars
      PROVE  Sends
  <2>1. CASE UNCHANGED got
    BY <2>1
  <2>2. ASSUME NEW w \in Workers, NEW part, Deliver(w, part),
               pc[w] \in {"header", "content", "cgi"}
        PROVE  Sends
    <3>1. Peer(w) = peer[w]
      BY <1>1, <2>2 DEF PeerStays, Answering, Typed, Stopped
    <3>2. \A c \in Clients : got'[c] # got[c] => c = Peer(w)
      BY <2>2 DEF Deliver
    <3> QED
      BY <2>2, <3>1, <3>2
  <2>3. ASSUME NEW w \in Workers, Take(w) \/ Handle(w)
        PROVE  Sends
    <3>1. CASE SendHeader(w)
      BY <2>2, <3>1 DEF SendHeader
    <3>2. CASE SendContent(w)
      BY <2>1, <2>2, <3>2 DEF SendContent
    <3>3. CASE CgiAnswer(w)
      BY <2>2, <3>3 DEF CgiAnswer
    <3>4. CASE Take(w) \/ Read(w) \/ OpenFile(w) \/ CgiPipes(w) \/ Close(w) \/ Return(w)
      BY <2>1, <3>4 DEF Take, Read, OpenFile, CgiPipes, Close, Return, netVars
    <3>5. CASE CgiPipeFails(w) \/ SigPipe(w)
      BY <2>1, <3>5 DEF CgiPipeFails, SigPipe, ProcessEnds, netVars
    <3> QED
      BY <2>3, <3>1, <3>2, <3>3, <3>4, <3>5 DEF Handle
  <2>4. CASE MainStep
    BY <2>1, <2>4 DEF MainStep, EpollWait, Accept, AcceptAgain, AcceptFails, Submit,
       SubmitFails, ProcessEnds, netVars
  <2>5. CASE \E c \in Clients : ClientStep(c)
    BY <2>1, <2>5 DEF ClientStep, Connect, Send, HalfClose, HangUp
  <2>6. CASE UNCHANGED vars \/ Done
    BY <2>1, <2>6 DEF Done, vars, netVars
  <2> QED
    BY <1>1, <2>3, <2>4, <2>5, <2>6 DEF Next
<1> QED
  BY <1>1, PlacesInductive, PeerInductive, PTL DEF Spec, AnswerGoesToReader

=============================================================================
