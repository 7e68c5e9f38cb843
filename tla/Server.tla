-------------------------------- MODULE Server --------------------------------
(***************************************************************************)
(* coix at run time: the edge-triggered accept loop of main (coix.c), the  *)
(* thread pool as TaskPool promises it, and in each worker cli_handler and *)
(* the descriptors its answer costs (http.c).                              *)
(*                                                                         *)
(* A connection is one client.  The content of a request matters only for  *)
(* what it makes the server do:                                            *)
(*   "file"   GET of a file that exists, without '?'                       *)
(*   "cgi"    GET with '?', or POST, of a program that exists and runs     *)
(*   "none"   anything the server does not answer: a missing file, another *)
(*            method, bytes that are no request                            *)
(***************************************************************************)
EXTENDS Integers, Sequences, FiniteSets

CONSTANTS
  Workers,       \* threads of the pool
  Clients,       \* connections, one per client
  FdLimit,       \* descriptors the process can still open
  BacklogLimit,  \* connections the listening socket holds (listen(srv_fd, 5))
  MaxJobs,       \* jobs malloc can hold before it returns NULL
  Requests,      \* kinds of requests clients send
  Rude,          \* clients that may close their end before they are answered
  NULL

ASSUME ServerAssumption ==
  /\ FdLimit \in Nat /\ BacklogLimit \in Nat \ {0} /\ MaxJobs \in Nat \ {0}
  /\ Requests \subseteq {"file", "cgi", "none"}
  /\ Rude \subseteq Clients
  /\ IsFiniteSet(Workers)
  /\ NULL \notin Workers \cup Clients \cup Requests \cup Int
  /\ Clients \cap {"file", "pipe"} = {}

Fd == 0..FdLimit - 1
BadFd == -1           \* what accept and open return on failure
Kinds == {"file", "cgi", "none"}

VARIABLES
  (* the network: each client's connection, what it sent and received *)
  conn,     \* "out", "backlog", "open" (accepted) or "closed" (by the server)
  sent,     \* the request that has arrived on the connection, or NULL
  fin,      \* the client has closed its sending side
  gone,     \* the client has closed both sides
  got,      \* "nothing", "header" or "all" of an answer
  (* the kernel: the accept queue, the epoll edge, the descriptor table *)
  backlog, ready, fds,
  (* the main thread: program counter and cli_fd *)
  main, cliFd,
  (* the pool, as TaskPool keeps it *)
  pending, running, mayTake, status,
  (* each worker: program counter and the file it opened;                  *)
  (* peer is a history variable: whose connection it read from             *)
  pc, file, peer

netVars    == <<conn, sent, fin, gone, got>>
kernelVars == <<backlog, ready, fds>>
mainVars   == <<main, cliFd>>
poolVars   == <<pending, running, mayTake, status>>
workVars   == <<pc, file, peer>>
vars == <<netVars, kernelVars, mainVars, poolVars, workVars>>

Pool == INSTANCE TaskPool WITH Args <- Fd \cup {BadFd}

Goto(w, label) == pc' = [pc EXCEPT ![w] = label]

Free == {f \in Fd : fds[f] = NULL}

(* The kernel hands out the lowest free descriptor. *)
LowestFree(f) == f \in Free /\ \A g \in Free : f <= g

(* exit(), or death by a signal: every thread stops where it is. *)
ProcessEnds ==
  /\ Pool!Exit
  /\ main' = "exited"
  /\ pc' = [w \in Workers |-> "exited"]
  /\ UNCHANGED <<netVars, kernelVars, cliFd, file, peer>>

(* The state in which main's loop starts (coix_init has succeeded). *)
Init ==
  /\ conn = [c \in Clients |-> "out"]
  /\ sent = [c \in Clients |-> NULL]
  /\ fin  = [c \in Clients |-> FALSE]
  /\ gone = [c \in Clients |-> FALSE]
  /\ got  = [c \in Clients |-> "nothing"]
  /\ backlog = <<>> /\ ready = FALSE
  /\ fds = [f \in Fd |-> NULL]
  /\ main = "wait" /\ cliFd = BadFd
  /\ Pool!Init
  /\ pc   = [w \in Workers |-> "idle"]
  /\ file = [w \in Workers |-> BadFd]
  /\ peer = [w \in Workers |-> NULL]

-----------------------------------------------------------------------------
(* Clients and the kernel.                                                 *)

(* A handshake completes: the connection queues up, and the listening      *)
(* socket, registered with EPOLLIN | EPOLLET, reports an edge.             *)
Connect(c) ==
  /\ main # "exited"
  /\ conn[c] = "out"
  /\ Len(backlog) < BacklogLimit
  /\ conn' = [conn EXCEPT ![c] = "backlog"]
  /\ backlog' = Append(backlog, c)
  /\ ready' = TRUE
  /\ UNCHANGED <<sent, fin, gone, got, fds, mainVars, poolVars, workVars>>

Connected(c) == main # "exited" /\ conn[c] \in {"backlog", "open"}

Send(c, k) ==
  /\ Connected(c)
  /\ sent[c] = NULL /\ ~fin[c]
  /\ sent' = [sent EXCEPT ![c] = k]
  /\ UNCHANGED <<conn, fin, gone, got, kernelVars, mainVars, poolVars, workVars>>

(* shutdown(SHUT_WR): the client still reads. *)
HalfClose(c) ==
  /\ Connected(c) /\ c \in Rude
  /\ ~fin[c]
  /\ fin' = [fin EXCEPT ![c] = TRUE]
  /\ UNCHANGED <<conn, sent, gone, got, kernelVars, mainVars, poolVars, workVars>>

HangUp(c) ==
  /\ Connected(c) /\ c \in Rude
  /\ ~gone[c]
  /\ fin' = [fin EXCEPT ![c] = TRUE]
  /\ gone' = [gone EXCEPT ![c] = TRUE]
  /\ UNCHANGED <<conn, sent, got, kernelVars, mainVars, poolVars, workVars>>

-----------------------------------------------------------------------------
(* The main thread: epoll_wait, then accept until EAGAIN.                  *)

EpollWait ==
  /\ main = "wait" /\ ready
  /\ ready' = FALSE
  /\ main' = "accept"
  /\ UNCHANGED <<netVars, backlog, fds, cliFd, poolVars, workVars>>

Accept ==
  /\ main = "accept"
  /\ backlog # <<>>
  /\ \E f \in Fd :
       /\ LowestFree(f)
       /\ fds' = [fds EXCEPT ![f] = Head(backlog)]
       /\ cliFd' = f
  /\ conn' = [conn EXCEPT ![Head(backlog)] = "open"]
  /\ backlog' = Tail(backlog)
  /\ main' = "submit"
  /\ UNCHANGED <<sent, fin, gone, got, ready, poolVars, workVars>>

(* EAGAIN: the accept queue is empty. *)
AcceptAgain ==
  /\ main = "accept"
  /\ backlog = <<>> /\ Free # {}
  /\ main' = "wait"
  /\ UNCHANGED <<netVars, kernelVars, cliFd, poolVars, workVars>>

(* Hands on the errno itself. *)
AcceptFails_Errno ==
  /\ main = "accept"
  /\ Free = {}
  /\ cliFd' = -24
  /\ main' = "submit"
  /\ UNCHANGED <<netVars, kernelVars, poolVars, workVars>>

(* EMFILE, which accept reports before it looks at the queue: main only    *)
(* tells EAGAIN and EINTR apart, and goes on with cli_fd = -1.             *)
AcceptFails ==
  /\ main = "accept"
  /\ Free = {}
  /\ cliFd' = BadFd
  /\ main' = "submit"
  /\ UNCHANGED <<netVars, kernelVars, poolVars, workVars>>

Jobs == Len(pending) + Cardinality({w \in Workers : running[w] # NULL})

(* Back to epoll_wait after one connection: no inner accept loop. *)
Submit_OnePerEdge ==
  /\ main = "submit"
  /\ Jobs < MaxJobs
  /\ Pool!Submit(cliFd)
  /\ main' = "wait"
  /\ UNCHANGED <<netVars, kernelVars, cliFd, workVars>>

(* thpool_add_work, with cli_handler and cli_fd. *)
Submit ==
  /\ main = "submit"
  /\ Jobs < MaxJobs
  /\ Pool!Submit(cliFd)
  /\ main' = "accept"
  /\ UNCHANGED <<netVars, kernelVars, cliFd, workVars>>

(* malloc fails in thpool_add_work: log_error exits. *)
SubmitFails ==
  /\ main = "submit"
  /\ Jobs = MaxJobs
  /\ ProcessEnds

-----------------------------------------------------------------------------
(* A worker: cli_handler, handle_request, send_response.                   *)

Take(w) ==
  /\ Pool!Take(w)
  /\ Goto(w, "read")
  /\ UNCHANGED <<netVars, kernelVars, mainVars, file, peer>>

(* The client on the other end of the worker's cli_fd; NULL for -1. *)
Peer(w) == IF running[w] = BadFd THEN NULL ELSE fds[running[w]]

(* Returns without the close when there is nothing to answer. *)
AfterParse_SkipsClose(k) ==
  CASE k = "none" -> "return" [] k = "file" -> "header" [] k = "cgi" -> "pipe"

(* What send_response does with the request. *)
AfterParse(k) ==
  CASE k = "none" -> "close" [] k = "file" -> "header" [] k = "cgi" -> "pipe"

(* Closes at end of file, and then goes on as cli_handler does. *)
Read_ClosesAtEof(w) ==
  /\ pc[w] = "read"
  /\ LET c == Peer(w) IN
       /\ \E k \in Kinds :
            /\ c # NULL => IF sent[c] # NULL THEN k = sent[c] ELSE fin[c]
            /\ Goto(w, AfterParse(k))
       /\ peer' = [peer EXCEPT ![w] = c]
       /\ fds' = IF c # NULL /\ sent[c] = NULL
                 THEN [fds EXCEPT ![running[w]] = NULL] ELSE fds
  /\ UNCHANGED <<netVars, backlog, ready, mainVars, poolVars, file>>

(* The blocking read, and the parse of what is in rd_buf.  The result of   *)
(* read is not looked at: at end of file and on -1 the buffer is the       *)
(* uninitialised stack, and what gets parsed may be any request.           *)
Read(w) ==
  /\ pc[w] = "read"
  /\ LET c == Peer(w) IN
       /\ \E k \in Kinds :
            /\ c # NULL => IF sent[c] # NULL THEN k = sent[c] ELSE fin[c]
            /\ Goto(w, AfterParse(k))
       /\ peer' = [peer EXCEPT ![w] = c]
  /\ UNCHANGED <<netVars, kernelVars, mainVars, poolVars, file>>

(* A write to the client makes what it received `part`; it goes nowhere on *)
(* a closed connection or descriptor -1.                                   *)
Deliver(w, part) ==
  got' = [c \in Clients |->
           IF c = Peer(w) /\ ~gone[c] THEN part ELSE got[c]]

(* srv_file: the header, then open, then the content. *)
SendHeader(w) ==
  /\ pc[w] = "header"
  /\ Deliver(w, "header")
  /\ Goto(w, "open")
  /\ UNCHANGED <<conn, sent, fin, gone, kernelVars, mainVars, poolVars, file, peer>>

OpenFile(w) ==
  /\ pc[w] = "open"
  /\ \/ \E f \in Fd :
          /\ LowestFree(f)
          /\ fds' = [fds EXCEPT ![f] = "file"]
          /\ file' = [file EXCEPT ![w] = f]
     \/ /\ Free = {}
        /\ file' = [file EXCEPT ![w] = BadFd]
        /\ UNCHANGED fds
  /\ Goto(w, "content")
  /\ UNCHANGED <<netVars, backlog, ready, mainVars, poolVars, peer>>

(* With descriptor -1 nothing is read, and the write of length -1 fails.   *)
(* Nobody closes the file.                                                 *)
SendContent(w) ==
  /\ pc[w] = "content"
  /\ IF file[w] = BadFd THEN UNCHANGED got ELSE Deliver(w, "all")
  /\ file' = [file EXCEPT ![w] = BadFd]
  /\ Goto(w, "close")
  /\ UNCHANGED <<conn, sent, fin, gone, kernelVars, mainVars, poolVars, peer>>

(* cgi_get and cgi_post: two pipes, of which the parent closes the far     *)
(* ends after fork and keeps the near ends, in_fd[1] and out_fd[0].        *)
CgiPipes(w) ==
  /\ pc[w] = "pipe"
  /\ \E in, out \in Free :
       /\ Cardinality({f \in Free : f < out}) = 2
       /\ Cardinality({f \in Free : f < in}) = 1
       /\ Cardinality(Free) >= 4
       /\ fds' = [fds EXCEPT ![in] = "pipe", ![out] = "pipe"]
  /\ Goto(w, "cgi")
  /\ UNCHANGED <<netVars, backlog, ready, mainVars, poolVars, file, peer>>

(* pipe() fails: log_error exits. *)
CgiPipeFails(w) ==
  /\ pc[w] = "pipe"
  /\ Cardinality(Free) < 4
  /\ ProcessEnds

(* The program ended its output: header and content are sent. *)
CgiAnswer(w) ==
  /\ pc[w] = "cgi"
  /\ Deliver(w, "all")
  /\ Goto(w, "close")
  /\ UNCHANGED <<conn, sent, fin, gone, kernelVars, mainVars, poolVars, file, peer>>

(* A write to a connection the client has closed and reset: SIGPIPE, which *)
(* nothing in the program handles.                                         *)
SigPipe(w) ==
  /\ pc[w] \in {"header", "content", "cgi"}
  /\ Peer(w) # NULL /\ gone[Peer(w)]
  /\ ProcessEnds

Close(w) ==
  /\ pc[w] = "close"
  /\ conn' = [c \in Clients |-> IF c = Peer(w) THEN "closed" ELSE conn[c]]
  /\ fds' = [f \in Fd |-> IF f = running[w] THEN NULL ELSE fds[f]]
  /\ Goto(w, "return")
  /\ UNCHANGED <<sent, fin, gone, got, backlog, ready, mainVars, poolVars, file, peer>>

(* cli_handler returns to the pool. *)
Return(w) ==
  /\ pc[w] = "return"
  /\ Pool!Finish(w)
  /\ Goto(w, "idle")
  /\ peer' = [peer EXCEPT ![w] = NULL]
  /\ UNCHANGED <<netVars, kernelVars, mainVars, file>>

-----------------------------------------------------------------------------

ClientStep(c) ==
  Connect(c) \/ (\E k \in Requests : Send(c, k)) \/ HalfClose(c) \/ HangUp(c)

MainStep ==
  EpollWait \/ Accept \/ AcceptAgain \/ AcceptFails \/ Submit \/ SubmitFails

Handle(w) ==
  \/ Read(w) \/ SendHeader(w) \/ OpenFile(w) \/ SendContent(w)
  \/ CgiPipes(w) \/ CgiPipeFails(w) \/ CgiAnswer(w) \/ SigPipe(w)
  \/ Close(w) \/ Return(w)

(* The process has ended, or main sleeps in epoll_wait with no client left *)
(* and every worker idle.                                                  *)
Done ==
  /\ \/ main = "exited"
     \/ /\ main = "wait" /\ ~ready
        /\ pending = <<>> /\ \A w \in Workers : pc[w] = "idle"
        /\ \A c \in Clients : conn[c] = "closed"
  /\ UNCHANGED vars

Next ==
  \/ \E c \in Clients : ClientStep(c)
  \/ MainStep
  \/ \E w \in Workers : Take(w) \/ Handle(w)
  \/ Done

Spec == Init /\ [][Next]_vars

(* Threads that can run do run; a queued job is taken by some worker, as   *)
(* ThreadPool's QueuedJobStarts shows; a client sends its request (or      *)
(* hangs up) some time after it is connected.                              *)
Fairness ==
  /\ WF_vars(MainStep)
  /\ WF_vars(\E w \in Workers : Take(w))
  /\ \A w \in Workers : WF_vars(Handle(w))
  /\ \A c \in Clients : WF_vars(\E k \in Requests : Send(c, k))

FairSpec == Spec /\ Fairness

-----------------------------------------------------------------------------
(***************************************************************************)
(* Properties.                                                             *)
(***************************************************************************)

Labels == {"idle", "read", "header", "open", "content", "pipe", "cgi",
           "close", "return", "exited"}

(* Every variable has its type; descriptor -1 is a legal job argument. *)
TypeOK ==
  /\ conn \in [Clients -> {"out", "backlog", "open", "closed"}]
  /\ sent \in [Clients -> Requests \cup {NULL}]
  /\ fin \in [Clients -> BOOLEAN] /\ gone \in [Clients -> BOOLEAN]
  /\ got \in [Clients -> {"nothing", "header", "all"}]
  /\ backlog \in Seq(Clients) /\ ready \in BOOLEAN
  /\ fds \in [Fd -> Clients \cup {NULL, "file", "pipe"}]
  /\ main \in {"wait", "accept", "submit", "exited"}
  /\ cliFd \in Fd \cup {BadFd}
  /\ pending \in Seq(Fd \cup {BadFd})
  /\ running \in [Workers -> Fd \cup {BadFd, NULL}]
  /\ mayTake = Workers /\ status \in {"open", "exited"}
  /\ pc \in [Workers -> Labels]
  /\ file \in [Workers -> Fd \cup {BadFd}]
  /\ peer \in [Workers -> Clients \cup {NULL}]

(* The accept loop loses no connection: as epoll reports the listening     *)
(* socket once per edge (util.c:14), whenever a connection is queued there *)
(* is an edge still to be reported or main is in the loop that empties the *)
(* queue.                                                                  *)
NoLostEdge ==
  backlog # <<>> /\ main # "exited" => ready \/ main \in {"accept", "submit"}

(* Every accepted connection is in exactly one place: main's cli_fd, one   *)
(* queued job, or one worker that has not closed it; and a descriptor in   *)
(* one of these places is an open connection.  So no connection is leaked, *)
(* served twice, closed twice or used after its descriptor was reused.     *)
Holding(w) == pc[w] \notin {"idle", "return"}

InMain(f)  == main = "submit" /\ cliFd = f
Queued(f)  == {i \in DOMAIN pending : pending[i] = f}
Handled(f) == {w \in Workers : Holding(w) /\ running[w] = f}

InOnePlace(f) ==
  \/ InMain(f)  /\ Queued(f) = {} /\ Handled(f) = {}
  \/ ~InMain(f) /\ (\E i \in DOMAIN pending : Queued(f) = {i}) /\ Handled(f) = {}
  \/ ~InMain(f) /\ Queued(f) = {} /\ (\E w \in Workers : Handled(f) = {w})
InNoPlace(f) == ~InMain(f) /\ Queued(f) = {} /\ Handled(f) = {}

OnePlacePerConnection ==
  main # "exited" =>
    \A f \in Fd : IF fds[f] \in Clients THEN InOnePlace(f) ELSE InNoPlace(f)

(* What a client receives comes from a worker that read its request: no    *)
(* answer goes astray to a client that got a descriptor number later.      *)
AnswerGoesToReader ==
  [][\A c \in Clients : got'[c] # got[c] =>
       \E w \in Workers : peer[w] = c /\ pc[w] \in {"header", "content", "cgi"}]_vars

(* Every connection that completed its handshake is accepted, unless the   *)
(* process ends.                                                           *)
BacklogDrained ==
  \A c \in Clients : conn[c] = "backlog" ~> conn[c] # "backlog" \/ main = "exited"

(* Every accepted connection is closed in the end, unless the process ends.*)
ConnectionCloses ==
  \A c \in Clients : conn[c] = "open" ~> conn[c] = "closed" \/ main = "exited"

(* README.md:7, "support HTTP GET and POST method": a client that asks for *)
(* a file that exists, and waits, gets it.                                 *)
GetIsAnswered ==
  \A c \in Clients : sent[c] = "file" ~> got[c] = "all" \/ gone[c]

=============================================================================
