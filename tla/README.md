# A verification project for coix

coix is a small web server: one main thread accepts connections with an
edge-triggered epoll loop and hands each of them, as a job, to a pool of worker
threads; a worker reads one request, answers it from a file or through a CGI
program, and closes the connection. This directory holds TLA+ models of it,
configurations that model-check them with TLC, and TLAPS proofs.

## Inventory

| Component | Source | State | Operations | Talks to |
|---|---|---|---|---|
| Thread pool | `src/thread_pool.c`, `.h` | job list (`head`, `tail`, `jobsN`, cells), `queueSem`, `mutex`, `thpool_keepalive`, threads | `thpool_init`, `thpool_add_work`, `thpool_destory`, worker loop `thpool_thread_do`, `thpool_jobqueue_*` | called by main; calls the job function; `log_error` exits |
| Accept loop | `src/coix.c`, `src/util.c` | listening socket, epoll edge, `cli_fd` | `main`, `cli_handler`, `handle_request`, `coix_init`, `listenfd_create` | pool (jobs), kernel, HTTP |
| HTTP | `src/http.c` | `rd_buf`, `struct http_request`, `file_path` and `response_content` on each worker's stack, descriptors | `http_request_parse`, `send_response`, `srv_file` | file system, client, CGI |
| CGI execution | `src/http.c` | two pipes, a child process | `cgi_get`, `cgi_post` | child program, other workers' descriptors (inherited) |
| Configuration | `src/options_parser.c` | `struct config` | `cmd_options_parse`, `json_options_parse` | JSON parser |
| JSON parser | `src/json.c` | value tree, two-pass allocator, the scan within a token | `json_parse_ex`, `json_value_free_ex` | configuration |
| Logger | `src/logger.c` | `log_p` | `log_info`, `log_warn`, `log_error` (ends the process) | all |
| CGI programs | `htdocs/cgi-bin/*.c` | `data.txt`, shared by all that run | `collect`, `viewdata`, `multi` | run by the server |
| Demonstration server | `htdocs/main.c` | - | - | content of the document tree, not built |

The hard behaviours are: the hand-over of jobs between main and the workers
(semaphore, mutex and a flag that is tested twice outside the mutex); the
destruction of a pool whose workers are anywhere in their loop; the
edge-triggered accept loop, which gets each edge once; the reuse of descriptor
numbers between threads; the exhaustion of descriptors; clients that hang up or
stay silent; and fork in a threaded process. `PROJECT.json` lists each under
"hazards", at its line, with the properties that would catch it going wrong.

What makes each component correct:

* pool: a job is run once, in FIFO order, by one worker; no wake-up is lost; the
  unchecked `peek` always finds a job; a cell is freed once, after its last use;
  `thpool_destory` returns and frees nothing a worker still reads;
* accept loop: no connection is left in the accept queue; every accepted one is
  in one place and is closed once; an answer goes to the client that asked;
* HTTP: a request is understood as it was sent, whatever an earlier one has left
  in the buffer; its answer is the file it names, or the program's output; nothing
  is written outside an array;
* CGI: the parent sees the end of the child's output, and all of it before, and
  nothing else;
* CGI programs: a form is stored as the user typed it, no line is lost or torn, and a
  page shows what is stored;
* configuration: the command line wins over the file;
* JSON: both passes agree, blocks are filled and not overrun, everything allocated
  is freed once, strings and numbers are what the text writes.

## Modules

| Module | Models | Used by |
|---|---|---|
| `TaskPool` | what the pool promises: a FIFO line of arguments, one worker per job, an orderly end | abstract specification of `ThreadPool`; component of `Server` |
| `ThreadPool` | `thread_pool.c` between `thpool_init` and `thpool_destory`, one action per step another thread can see | `MCThreadPool`, `ThreadPoolProofs` |
| `ThreadPoolProofs` | theorems about `ThreadPool`, and that it implements `TaskPool` | |
| `PoolLifecycle` | `thpool_init` with failing `pthread_create`, `thpool_destory`, one pool after another | `PoolLifecycleProofs` |
| `PoolLifecycleProofs` | theorems about `PoolLifecycle` | |
| `HttpRequest` | the functions of `http_request_parse` on the text of a buffer | `Collect` |
| `Collect` | the functions of the CGI programs: `unencode`, the tests of `collect`, `multi` | `Http` |
| `Http` | the life of a request with its content, several clients and workers and one `data.txt` | `MCHttp`, `HttpProofs` |
| `DataInduction` | lemmas for proofs about texts: induction up to a number, recursive functions, sequences joined | `HttpProofs`, `JsonProofs` |
| `HttpProofs` | theorems about `Http` | |
| `Cgi` | `cgi_get`, `cgi_post`: pipes, fork, exec, the descriptors and the job queue a child inherits | `MCCgi`, `CgiProofs` |
| `CgiProofs` | theorems about `Cgi` | |
| `Json` | the two-pass parser of `json.c` and the release of its tree | `Startup`, `JsonProofs` |
| `JsonText` | the characters within its tokens: strings, escapes, words, numbers | `JsonGrammar` |
| `JsonGrammar` | what JSON and UTF-8 say of them: the ways to write a character, the forms of a number; no code | `Startup` |
| `Startup` | `coix_init`: command line, configuration file, services; extends `Json` and `JsonGrammar` | `MCStartup`, `StartupProofs` |
| `JsonProofs` | the inductive invariant of `Json`, kept by each of its steps, and what its tree writes | `StartupProofs` |
| `StartupProofs` | theorems about `Startup`, and so about `Json` and `JsonText` | |
| `Server` | main's accept loop, `cli_handler`, the descriptors an answer costs; the pool is `TaskPool` | `MCServer`, `ServerProofs` |
| `ServerProofs` | theorems about `Server` | |

### ThreadPool

The list is the code's: cells with `next` and `prev`, a job enters at `head` and
leaves at `tail`. `order` is a history variable, the queued cells oldest first;
`QueueIsList` ties the pointers to it. The program counters `main` (the owner)
and `pc[w]` (each worker) name the points where another thread can step in:

* owner: `idle` -> malloc (`AddWork`) -> `lock` -> `add` -> `post` -> `unlock` -> `idle`,
  or `Destory` -> `wake` (posts) -> `join` -> `empty` -> `gone`; when malloc fails,
  `log_error` ends the process (`exited`);
* worker: `loop` (test of `thpool_keepalive`) -> `wait` (`sem_wait`) -> `test` (second
  test) -> `lock` -> `peek` -> `remove` -> `unlock` -> `run` -> `free` -> `loop`; `return`
  when it has left the loop.

`thpool_keepalive` is read without synchronisation. A call of an external
function lies between any two reads, so the build reads memory each time, and
an `int` is read whole; the model lets the read happen at any moment.
`sem_destroy` runs while workers may still wait, which POSIX leaves undefined;
glibc's does nothing, and so does the model's. `sem_wait` fails only when a
signal handler interrupts it, and the program installs none. The two
`sem_getvalue` calls have no effect. The content of a freed cell is cleared.

### PoolLifecycle

Jobs are left out; workers only wait and end. `thpool_keepalive` is one variable
for all pools. `CreateFails` frees the pool and goes on, as the code does; a
second failure frees it again, which may or may not abort the process. The
caller destroys only a pool whose memory it has not lost.

### Server

A connection is one client. A request is abstracted to what it makes the server
do (`file`, `cgi`, `none`). The descriptor table is `fds`, of `FdLimit` free
places; the kernel hands out the lowest, and reports EMFILE before it looks at
the accept queue. `ready` is the epoll edge. `Read` chooses any request when
`read` returned 0 or -1, because the code then parses an uninitialised buffer.
A write to a client that has gone either vanishes or raises SIGPIPE. A file stays
open for ever, and a CGI answer keeps two pipe ends, as in the code. The pool's
actions are those of `TaskPool`; a pool that is not destroyed stays "open".

A request is taken to arrive whole, CGI programs are taken to start and to end
their output, and EINTR (no handler is installed) is left out. `CgiPipes` is one step
for the two `pipe` calls, `fork` and the parent's two `close` calls, because no other
thread of this process can tell them apart but by the number of free places; a `fork`
that fails is left to `Cgi`, which has each of these as a step (`ForkFails`).

### HttpRequest, Collect and Http

`Server` and `Cgi` ask who holds which connection and which descriptor; `Http` asks
what the bytes become. Text is a sequence of units, each of length 1: a method, a
blank, an end of line, a digit, the name of the `Content-Length` header, any other
header, a piece of a path or of a form, NUL. `Alphabet` is the set of all units.
The parser's loops are functions on such sequences (`Uri`, `LengthDigits`, `Content`),
with the limits of `http.h` (`MaxUri`, `MaxContent`, `MaxPath`, `MaxBuf`) in units.

`read` is called once, and nobody looks at its result. `Read` lets it get the whole
request, a first segment of it, or nothing (`Segments`; 0 stands for a client that hangs up
and for a connection that breaks), and leaves behind that what the worker's stack held:
NULs, the rest of an earlier request or all of it, or anything (`Junk`). What is then
parsed and acted on is whatever the buffer holds. The history variable `whole` records
whose requests were read whole; the second part of one that was cut is never read, as in
the code. A request is what a browser sends, except that a POST may lack its length, or
have headers behind it, or more digits than `content_length` holds, or carry a stray `%`,
or be for a program that does not read it, and that one request has no path.
`WellFormed` says what the properties ask of a request: that its method, path and query
are there and hold no blank, that its length is that of its body, in digits that fit the
field, and that `rd_buf` has room for it.

`faults` records whose requests led to a write outside an array, to a pointer that was
not set, or to a signal: the byte cleared behind (or, after a failed read, before)
`response_content`; `index.html` appended to a path that fills `file_path`; the digits of
`Content-Length`, which run over their 32 bytes (`LengthSpills`) and are then overwritten
by `content` (`LengthField`); a POST without its length; a file type that is not in the
table, through whose unset pointer the header gets any type, or the server dies; a body
written to a program that has ended (`WriteBodyKills`). What a write outside an
array hits cannot be told, so the server may die at any time afterwards (`SpillCrashes`).
`Harmless` says which requests meet none of this, and `ServerSurvives` that they
indeed do not, whatever other requests do before and beside them.

The programs of `cgi-bin` are processes of their own, with one `prog[w]` for each worker
that waits for one. `collect` tests the length, reads its input, opens the file, appends
with the one write of `fclose`, and thanks; `viewdata` opens the file and reads it a
block at a time; their steps mix with those of the other programs and workers. What a
program has not flushed when it dies is lost. `Decoded` and `Overruns` are the loop of
`unencode`, which jumps over its end when a `%` is among the last two characters. `Line`
is what `fputs` stores of it: the line end is put behind everything decoded, so that a
body with NULs, such as a cut one, stores no line end or nothing at all. `stored` records
which client had which stretch of `data.txt` appended.

Left out: a child whose program does not start leaves its worker waiting (`stuck`), and
what else follows from that is in `Cgi`. Bodies and outputs have room in their pipes, and
descriptors never run out: `Cgi` and `Server` have these. `viewdata` opens `data.txt`
relative to the directory that the server runs in, so that it may find it or not
(`ViewdataOpens`); when it finds one, that is the file of `collect`. Programs that
still run when the server has ended are not followed. `atoi` of more digits than an
`int` holds, a body so long that the write runs past the thread's stack, and what
`strstr` and the log read behind a buffer that no NUL ends, are left out as well.

### Cgi

Each process has the set of ends it holds (`holds`): the four pipe ends of a
request and its connection. `fork` copies that set and the job queue (`pending`),
`execl` keeps the set and drops the memory, the end of a process empties the
set. End of file on a pipe, SIGPIPE, and the close a client sees are then
questions about all processes (`Open`). The two `pipe` calls and the parent's
two `close` calls are steps of their own, since another worker may fork between
them; the child's closes, which no other process can observe, are one step with
its `execl`.

A body is as long as the client says (`MaxBody` bounds it for TLC only), and the write of
it blocks while the pipe is full. A program reads as much of it as it likes, before it
writes or after; so a parent that writes and a program that writes may block each other,
and a program that leaves its body makes the write raise SIGPIPE (`SigPipe`), which ends
the server.

A child that fails to start its program is a stray: it closes its copy of the connection
and goes on in the worker loop with its own copy of the queue, by the same actions as a
worker, and what those make of other requests. Its standard output is the pipe that its
parent reads (`Stdout`), and the log and `printf` write there: `Logs` lets each call put a
unit into that pipe or leave it in stdio's buffer, at every place where text of a
request, a body or an answer is logged (`Logging`). `logged` counts these units beside
what the program has written (`written`). A stray may also never get past a mutex or
a semaphore that was taken when it was forked: it has no fairness. Any process in
`Mortal` may die at any time of what other modules have.

Accepting a connection and queueing it are one step, requests arrive whole,
clients wait for their answer, and descriptors never run out; `Server` has these.
A stray reads a connection that nobody has read yet; one whose request is read blocks
it, since its client sends no second one.

### Json and Startup

Start-up is one thread, so the actions of `Startup` follow each other; what is
open is the command line, the file, and which call fails. `main` is the step of
`coix_init`, and while it is `json` or `free` the steps of `Json` run.

`Json` reads tokens. In the first pass any token may come next, which makes TLC
try every text; the second pass reads back what the first has recorded (`text`).
A token at which the parser gives up is not recorded, since nothing reads it
again. `flags` holds the four flags that outlive a token. Numbers, `true`, `false`
and `null` are `Scalars`, and what the scanner rejects inside a string or a number
is the token `Bad`. Comments are off, as `json_parse` has them. `val` is the heap:
`cell` and `block` say of each value and of the block it owns whether they are
live, freed or freed twice, `length`, `bytes`, `room` and `used` are the counts of
the first pass and what the second reserves and writes. Every malloc may fail.
When one of the second pass does, the value at hand has left the chain and is in
no tree yet: the clean-up loses it and its ancestors below the root, and when it is
the root itself and a container, walks through a NULL pointer (`crashed`).
`MemoryReturned` states what is true then, and everything else without it.

`JsonText` is what lies below the tokens, as functions on bytes, with `x` the byte
behind the text in memory: `file_content` has no NUL of its own, and some of the
tests of how much text is left let the parser read it. `JsonGrammar` has what they are
compared with, written from the definitions of UTF-8 and of JSON. They are functions of the
text alone, so `StringsDecoded`, `EndIsSeen` and `NumbersRead` are claimed of the first
state, and evaluated once. `StringAt` and `NumberAt` are recursive functions on the places
of the text: what a scan makes of a place, from what it makes of a later or of the last one.
An integer from `IntLimit` (2^63) on overflows, and nothing is claimed of it; a string
longer than 2^32 - 9 bytes is refused by a test (`json.c:284`) which the model leaves out.

`process_value` does not look at types. The model reads the union as a 64-bit
build lays it out: a length shares the bytes of `u.integer`, and a pointer lies
behind them, so that a string or a container has a pointer and a scalar has none
(`AsInteger`, `AsString`, `ProcessMemberCrashes`).

## Runs

| Run | Bounds | Shows |
|---|---|---|
| `pool_safety` | 3 workers, 3 cells, 2 arguments, symmetry | type, list shape, safe `peek`, semaphore count, cell ownership, the inductive invariant, refinement of `TaskPool` |
| `pool_liveness` | 2 workers, 2 cells, 1 argument | queued jobs start; `thpool_destory` returns |
| `lifecycle` | 3 threads, 2 pools | a fully started pool is freed after its workers; `thpool_destory` returns |
| `lifecycle_initerror` | same | violated: an error of `thpool_init` returns null (`thread_pool.h:44`) |
| `server_safety` | 3 clients (1 may hang up), 2 workers, 5 descriptors, 2 jobs, accept queue of 2, requests for a file or a CGI program | no lost edge, one place per connection, answers reach their reader; the table fills, jobs for -1 and exits happen |
| `server_liveness` | 2 clients (1 may hang up), 8 descriptors (never exhausted) | every connection is accepted and closed |
| `server_emfile` | 3 patient clients, 2 descriptors | violated: a GET is answered (`README.md:7`) |
| `cgi` | 2 requests (one a POST), 2 workers, bodies of up to 2 units, a `response_content` of 3 units, a pipe of 1, an output of 2; the server may die at any time | an answer is the program's output, or a full buffer of it, and nothing of what strays log for others; every connection is closed in all processes, unless a program is stuck on a full pipe or a child goes astray |
| `cgi_execfails` | 2 GETs | violated: a GET is answered (`README.md:7`), when the file is no program |
| `http` | 2 clients, 2 workers, symmetry, 19 requests (17 of them well-formed), whole, cut after 13 units, or not sent at all; a buffer of 20 units, a uri and a path of 4, a length of 2 digits, a content of 4; `viewdata` reads blocks of 2 | whole, well-formed requests are understood, files arrive, forms are stored as typed, pages of `viewdata` are the file's beginning, only harmful requests do harm |
| `http_post` | forms only, whole, cut behind the headers, or not sent at all | violated: a POST's body reaches its program (`README.md:7`), when the body comes in a segment of its own, or a header follows `Content-Length` |
| `startup` | texts of up to 9 tokens, 3 strings (2 of them options, one empty), one scalar, one option on the command line; integers overflow at 1011 | the passes agree, blocks are filled and never overrun, memory is given back once, the tree is the text's, options are the first ones offered, start-up ends; all pairs of 14 code points in all their spellings, cut anywhere, and all number texts of up to 5 characters are read as JSON defines them |

Why the bounds are enough. Three cells reach the three cases of the list code (no
job, one, more) with a job in a worker's hands beside them; three workers give one
in the critical section, one waiting for it and one woken late. Two workers and
two cells make every order of posts, tests and joins in `thpool_destory`. In
`server_safety` five descriptors are the fewest with which a CGI request can
succeed, and three clients leak enough to exhaust them; two jobs fill the heap.
A request that is not answered (`none`) is not sent there, but still comes up when
the code parses a buffer that `read` has not filled.
In `server_liveness` 8 descriptors cover two clients, two leaked pairs and the
four a CGI start needs. Heap (`Addr`, `MaxJobs`), accept queue (`BacklogLimit`),
descriptors (`FdLimit`), pools (`MaxPools`) and one request per client are the
only bounds. In `cgi` a pipe of one unit does not hold the output of 2, nor the longer of
the bodies, which has 2; so a program and a worker can each wait for the other to read.
`response_content` has room for the output and one unit more: its reader sees end of
file, and what strays log fills it. Two requests at once are what makes ends be
inherited and a stray have another's request to log, and a third would add a second pair
of the same.
In `http` the limits are as small as lets each be met from both sides: paths that
fit and one that does not (`/dir/a` with `index.html`), a file shorter and one longer
than the buffer, lengths of one digit and one of three, which its field does not hold, a
form of 3 units and one over `MaxContent`, a `data.txt` of one block and of more; the cut
lies in the body of a form. Two clients and two workers give one
worker that serves both in turn, whose buffer keeps the first request, and two programs
at once.
In `startup` nine tokens make an object of two members, the least that tells the
order of members, and reach containers in containers, empty ones, and every place
at which a text can stop being JSON; the empty string is a number 0 to an option.

### Fairness

`ThreadPool`: each thread that can step does (weak fairness), as the operating
system's scheduler runs every runnable thread, and a thread waiting for the mutex
gets it when it is released again and again (strong fairness on the two lock
actions); glibc mutexes are not strictly fair, but no thread holds this one for
ever or spins on it. Job functions return (`JobReturns` is a worker step). No
fairness on `AddWork` or `Destory`: nobody has to call them.
`Server`: weak fairness of main, of each worker that handles a connection, and of
"some worker takes a job", which is what `QueuedJobStarts` gives; no single worker
is promised a job. A client sends its request some time after it is connected:
the code has no timeout, so without this assumption `ConnectionCloses` is false.
`Cgi`: weak fairness of each worker, of each child and program, and of "some worker
takes a job"; none of strays, which may hang for good, and none of what kills a process.
`Startup`: the one thread runs.

## Proofs

`ThreadPoolProofs` proves, for any finite set of workers, any heap and any
arguments (assumption `ConstantsAssumption`):

* `InvariantHolds`: `IInv` is invariant, with its parts each carried by a lemma
  of its own (`NextTypeOK`, `NextMutexHeld`, `NextControl`, `NextQueueIsList`,
  `NextSemCountsJobs`, `NextClaimsCovered`, `NextJobOwnership`);
* from it `TypeCorrect`, `QueueStaysAList`, `PeekIsSafe`, `SemaphoreCountsJobs`
  and `JobsAreOwned`.

None of these is inductive alone. That `peek` finds a job needs a count: the
workers past their second test of `thpool_keepalive` never outnumber the jobs
(`ClaimsCovered`). While the pool is open that follows from the exact semaphore
count (`SemCountsJobs`); when `thpool_destory` clears the flag the count stops
being exact, because its posts announce no job, but no further worker passes
the test. The list needs to know that the cell being added is not in it
(`JobOwnership`), and ownership that the cell being removed is the one the
worker peeked (`Control`), which only mutual exclusion keeps true (`MutexHeld`).
`IInv` is itself an invariant of the run `pool_safety`.

It also proves `PoolRefines`: `Spec => ImplementsTaskPool`. Beside
`IInv` it needs `ArgsCarried`, that an argument stays in its cell until the worker
that peeked has copied it, and that the copy is what the job runs with. Then
`JobqueueAdd` is `Submit`, `JobqueueRemovelast` is `Take`, the return of the job
function `Finish`, `Destory` `Close`, a turn of `thpool_jobqueue_empty` `Discard`,
its end `Closed`, a failed malloc `Exit`, and every other step is hidden
(`HiddenSteps`). Because of this theorem `Server` may use `TaskPool` for the pool.

`PoolLifecycleProofs` proves `LifecycleTypeCorrect` and `MemoryOutlivesWorkers`
for any number of threads and pools (`LifecycleAssumption`). The invariant
counts the posts of `thpool_destory` by its loop counter (`PostsCounted`) and
says where the join loop has got to (`MemoryHeld`).

`ServerProofs` proves, for any clients, workers, descriptor table and bounds
(`ServerAssumption`):

* `EdgeIsNeverLost`, which is inductive by itself;
* `ServerTypeCorrect` and `ConnectionsHaveOnePlace`, proved together: that no
  step puts a connection in two places needs the types, the agreement between
  the worker's program counter and what the pool says it runs (`IdleMatches`)
  and that nothing moves once the process has ended (`Stopped`); that they keep
  their types needs the one place;
* `AnswersGoToTheirReader`: while a worker answers, its descriptor is still the
  connection it read from (`PeerStays`), because only the holder closes it.

`CgiProofs` proves `CgiTypeCorrect` and `AnswerIsTheOutput`, for any workers, requests,
outputs, bodies and pipe sizes (`CgiAssumption`, which relates none of them). That an
answer is all that was put into its pipe rests on four facts kept together: one thread
works on a request, and its program counter tells whether the child has been born
(`Readers`); a unit that the program wrote or a stray logged is in the pipe or has been
read (`Counts`); a live child holds the write end of its own output, whatever it closes
and whatever was open when it was forked (`EndsHeld`); and the types. That nothing is
logged into the answer of a child that is no stray needs that only strays work and
fork as workers do (`Kin`).

`HttpProofs` proves `HttpTypeCorrect` for any alphabet, requests, document tree, clients,
workers and limits (the assumptions of `HttpRequest`, `Collect` and `Http`). The lemmas
`UntilIsPrefix`, `AfterIsSuffix` and `CutFits` bound what the loops of the parser copy,
`DigitsOf` and `AtoiIsNumber` what becomes of the digits, `ParseFits` puts them together,
and `FilledFits` says that any `read` into any left-over is a buffer again. `LineIsText` and
`PagesAreTyped` do the same for what programs store and print. The invariant behind it,
`HttpInv`, has four parts beside the types: that a connection is
served by one worker, once (`ServedOnce`), the sizes (`Sizes`), that the stretches of
`stored` lie in `data.txt` one behind the other (`DataTyped`), and for each value of the
program counter what exists and how far the program can be (`Routed`).

From the same assumptions it proves what a request and its answer say:
`WholeRequestsUnderstood`, `FilesAnswered`, `HarmlessSurvived`, `PagesAreOfData` and
`TypedIsStored`. The first half is about text and has no state. `TextIs` cuts a request behind its first line;
`MethodRead` and `UriRead` say that `Method` and `Uri` find their words again in any
buffer that begins with it, `LengthIsRead` that `strstr` finds the first
`Content-Length`, the digits end with the digits, and the body is behind the ends of
line. `ParseUnderstands` puts them together, and `FilledBegins`, `PathFound` and
`FileFound` lead from the buffer to the file that the path names. None of it needs
induction: that a loop stops at a place is a statement about the least place of its
kind (`MinIs`, `StopsBehind`).

The second half follows a worker (`AnswerInv`). `Follows` says, for each value of its
program counter, what it has made of a request that it got whole: the buffer begins with
it, then the fields are its fields, then `path` is the file it names, then the header has
the file's type, then its client has the content. What other workers do in between
disturbs nothing (`OthersFollow`), because a step changes only its own worker and its own
client (`TurnsAlone`) and no two have one client (`ServedOnce`). `ReadOnce` says that a
connection is read by one worker, once, so that nothing is recorded of a request before it
is read; `Unanswered` that an answer starts empty; `AnswersStay` that a closed
connection keeps it. `LinesRight` says that each stretch of `data.txt` is what `collect` makes
of the form of the client that `stored` names, and `PagesRight` what a page may say: thanks,
only when the client's stretch is there, and units of `data.txt`, only those at the
same places of it. Both stay true because nothing but the end of `data.txt` ever changes
(`DataGrows`), so that a block read later goes on where the last one ended
(`BlockIsNext`). `ServerSurvives` is a part of the invariant: that no step on behalf of a
harmless request is a fault follows from where its worker is (`NextSurvives`), and a
step of another worker adds only its own client to `faults`.

`TypedIsStored` also needs that the line which `collect` makes of a form is what was typed
(`LineIsTyped`), and that is an induction over the text. `IsForm` says what the browser does:
it writes a blank as `+`, a character that means another as `%` and its two digits, and the
rest as it is. No code of the repository does this, so the browser is the model's; the
assumption on `Escapes` says that two characters never share their digits. `DataInduction`
has what the argument needs. `LeastOne` says that a set of numbers has a least one, which
the library's `WFMin` gives for sets; so a set that holds 0 and with each number the next
holds all numbers up to a bound (`Induction`), and a function whose value at a place hangs
on its value at a later place exists (`Recursion`). With it `DecodedSteps` unfolds the loop of
`unencode` once, `Flattened` says at which places of the body the characters lie, and `DecodedIsTyped`
goes through them from the last to the first.

`StartupProofs` proves `PassesAlwaysAgree`, `BlocksAlwaysFit`, `MemoryIsReturned`,
`TreeIsAlwaysText`, `StartupTypeCorrect` and `FirstOfferWins`, for any strings, scalars, options, texts and
bounds (`JsonAssumption`, `StartupAssumption`); the lemmas are in `JsonProofs`. The
second pass writes without looking, so its safety is a statement about two readings of
one text, and no relation between the counters alone is inductive. `JsonInv` therefore
speaks of a history `h` of the first pass (`Run`): what it knew after each token, namely
its flags, the value it was in, the number of values made, and for each value the
entries, names and bytes counted so far. It is no variable: the invariant says that such
a history exists (`\E h`).

* `FirstPass`: the counts in the heap are those at the end of `h`. `OpenStack` says that
  the containers not yet closed are a path from the root to `top`, `Paired` that an
  object has as many names as values, or one more while it waits for a value, without
  which the names would not fit behind the entries.
* `SecondPass`: with `pos` tokens read, the parser is at `h[pos]`, the chain is at the
  value that `h[pos]` makes next, and each value taken is filled up to the counts of
  `h[pos]` and has room for those at the end, which are no smaller (`Below`). So no
  token is refused, no block overrun, and at the end every block is full (`Built`).
* `UnwindsFirst` and `UnwindsSecond` say how far the loop of `e_failed` has got;
  in the second, no value that the tree points to is in the part that the loop frees.
* `Walks`: `A`, the values that the walk has entered and not left, is a path from the
  root to `cur`, and what a live container still counts is live and not in it. Without a
  failed malloc every other live value is so counted, by a parent that is live. At the end
  `A` is empty, and the first value that was left over would have a live parent before it;
  so there is none.

Each step of the parser is a lemma (`FirstStep`, `SecondStep`, `UnwindStep`,
`UnwoundStep`, `ValueFreeStep`, `DescendStep`, `FreeValueStep`, `FreeEndsStep`).
`StartupInv` adds the step of `coix_init` at which the parser is in which state
(`Placed`) and what the options heard so far are (`Heard`); that a freed tree still says
the same is `FreeingKeeps`. TLC has checked `JsonInv` with the history as a variable, on
texts of nine tokens, and `Placed` and `Heard` on texts of eight, before they were proved.

`TreeIsAlwaysText` needs more than `JsonInv`: what the blocks have to do with the tokens.
`TreeInv` says that the second pass is where half of the tree writes half of the text.
`Spells` has for each complete value what it writes, and for each open container what is
written before it (`Behind`); at the innermost one, what comes before it, its entries so
far and the name that waits for its value (`Begun`) are the tokens read, up to the comma or
colon that has to come next (`Owed`). For that the flags must tell what was read last
(`Marks`), and the names of an object must keep pace with its values (`Paired`, which the
first pass has, holds of the second again). `Effect` says what a token does to the blocks:
nothing, one more entry for the parent of a value that is complete, or one more name; the
lemmas of the second pass prove it beside what they prove for `JsonInv`. For each kind of
token a lemma then makes both sides longer by the same (`SpellsOpens`, `SpellsLeaf`,
`SpellsNames`, `SpellsEnds`, `SpellsParts`), and at the end nothing is open. That the
function `written`, which is recursive over the tree, has these values is an induction from
the last value to the first, as the children of a value come after it (`WrittenIs`).

The second half of `StartupProofs` is about text and has no state: `StringsAreDecoded`,
`EndIsAlwaysSeen` and `NumbersAreRead`, for strings and numbers of any length, any
characters, and any bytes behind the text (`GrammarAssumption`, `TextAssumption`). The
assumption on `Points` leaves out the characters that `json.c:331` takes for others. Each
of the two recursive functions is unfolded once, by `Recursion` and `RecursionUp` of
`DataInduction`; from then on only one turn of the loop matters.

* Strings: `StringSteps` says what `StringAt` makes of a place from what it makes of a later one.
  `Utf8Agrees`, `EscapeRead` and `PairJoins` compare the arithmetic of the code with the
  definitions of UTF-8 and of the halves of a pair, `WaysAre` goes through the ways to
  write a character, and `CharIsRead` puts them together: the scan at a character is
  its UTF-8 before the scan behind it. `Flattened` says where the characters lie, and the
  induction goes from the last to the first (`StringIsRead`). A cut text ends in part of a
  character; that fails (`CutChar`), unless the missing byte is one that the memory may
  supply (`Tempts`), and a failure behind a character is a failure before it
  (`BeforeFailed`).
* Numbers: `InInt`, `InFrac` and `InExp` say in which part of a number the scan stands, how many
  digits of it there are, and, for an integer, that its value so far is what the digits
  make. `IntSteps`, `FracSteps` and `ExpSteps` say which bytes lead where. By induction
  from the first byte on, a scan that reads on stands in one of the parts
  (`AlwaysStands`), which gives that what is accepted is a number; and each part of a
  number is read through (`ReadsInt`, `ReadsFrac`, `ReadsExp`), which gives the converse.
  That a scan which has read all bytes may still fail at the byte behind is the case of a
  part without digits.

Only model-checked: the liveness properties, which are out of the prover's reach, and the
disagreements below. Every safety invariant of a passing run has a theorem.

## Disagreements between code and documents

The four violation runs, under "findings" in `PROJECT.json`: `lifecycle_initerror`,
`server_emfile`, `cgi_execfails` and `http_post`. These were met too, and have no run:

* `http.c:88`, `http.c:177-178`: a client that hangs up, or a program that ends without
  reading its body, does not make the write return an error, as the code that tests its
  result expects, but raises SIGPIPE, which ends the server (`SigPipe` of `Server` and of
  `Cgi`, `WriteBodyKills`);
* `coix.c:93`: when `read` returns 0 or -1 the buffer of the worker's last request is
  parsed again, so that a form is stored once more, and a client that has sent none is
  thanked for it (`collect.c:53`); a form with NULs in it may be thanked for and not
  stored (`collect.c:22-23, 51`); `Http` has these steps (`Read`, `Line`);
* `thread_pool.h:76-77`: `thpool_destory` stops the jobs in progress; it waits for
  them (`thread_pool.c:139`);
* `thread_pool.h:50-51`: a worker's loop ends only when the pool is destroyed; that
  of a second pool ends at once, since nothing sets `thpool_keepalive` again
  (`thread_pool.c:14`); `PoolLifecycle` has this case;
* `thread_pool.c:190` calls the value of `sem_getvalue` the number of blocked threads;
  the code never uses it;
* `htdocs/cgi-bin/view.html:2-3`: at most 80 characters; `collect.c` compares 80 with
  the whole `Content-Length`, "data=" and escapes included, so that 76 are refused;
* `json.c:331`: the halves of a surrogate pair are joined with `|`, so that the
  characters whose first half has bit 6 set, such as U+20000, come out as others;
  `StringsDecoded` leaves them out;
* `json.c:300, 317, 596, 612, 627`: the tests of the text's end allow one byte too
  few, and the byte behind the text may be read; `EndIsSeen` says when that matters;
* `http.c:55-59`: the digits of `Content-Length` run over `content_length`, whose 32 bytes
  the code never compares with; `LengthSpills` has it;
* `json.c:738-850`: a lone `-` is read as the number 0; `NumbersRead` states it;
* `README.md:9` claims gzip output, of which the source has nothing.

## Plan

Done, in this order: `TaskPool`, `ThreadPool`, its proofs, `PoolLifecycle`, `Server`,
`Cgi`, `Json` and `Startup`, the proofs of `Server` and `PoolLifecycle`, the refinement
of `TaskPool`, `HttpRequest`, `Collect` and `Http`, `JsonText`, the proofs of `Cgi`, `Http`, `Json`
and `Startup`, those of what `Http` answers, and those of what `JsonText` reads, with
`JsonGrammar`, and of what the tree of `Json` writes.

## Not modelled, and why

The system calls of `listenfd_create` run once before any thread exists, and each
gets what it asks for or ends the process (`StartServices`, `StartFails`). The
wording of log lines and headers is layout; `log_error` is modelled by its effect, the
end of the process, where the code calls it. That `localtime` returns a buffer which all
threads share can only mix up the time of a log line. `htdocs/main.c` is a server of its
own in the document tree, which the Makefile does not build and nothing runs.
Static files have no behaviour. Of `json.c`, comments are off as `json_parse` has
them, floating-point arithmetic has no property, and `settings` other than the
default are not reached from this program.
