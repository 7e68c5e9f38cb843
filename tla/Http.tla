--------------------------------- MODULE Http ---------------------------------
(***************************************************************************)
(* The life of a request in src/src/http.c, with its content: cli_handler  *)
(* reads it once, http_request_parse takes it apart, send_response answers *)
(* it from a file or through one of the CGI programs of htdocs/cgi-bin,    *)
(* and handle_request closes the connection.  The programs are processes   *)
(* that run beside each other and beside the workers.                      *)
(*                                                                         *)
(* What modules Server and Cgi are about is left out here: descriptors do  *)
(* not run out, the write of an answer succeeds, a pipe has room for a     *)
(* body, a program's output arrives.  Nothing is followed further when the *)
(* server has ended.                                                       *)
(***************************************************************************)
EXTENDS Collect

CONSTANTS
  Workers, Clients,
  Requests,  \* what clients may ask (records, see Text)
  Segments,  \* how many units of a request may arrive before the rest; 0
             \* is a client that hangs up, or whose connection breaks
  Htdocs,    \* conf_p->htdocs
  Tree,      \* the document tree: the kind of each path that exists
  FileSize,  \* of each path that is no directory
  MaxBuf,    \* MAX_BUF_SIZE, of rd_buf and of response_content
  MaxPath,   \* MAX_PATH_SIZE, the final NUL included
  OldData,   \* what data.txt holds when the server starts
  Block,     \* what viewdata's getc reads of data.txt at a time (4096 bytes)
  NULL

(* The table of file types, and the last units of file names it knows. *)
Extensions ==
  [gif |-> "image/gif", jpg |-> "image/jpg", jpeg |-> "image/jpeg", png |-> "image/png",
   ico |-> "image/ico", zip |-> "image/zip", gz |-> "image/gz", tar |-> "image/tar",
   htm |-> "text/html", html |-> "text/html", css |-> "text/css", js |-> "text/javascript"]

Types == {Extensions[e] : e \in DOMAIN Extensions}
Programs == {"collect", "viewdata", "multi"}
NoQuery == "no query"
OtherHeader == "other header"

ASSUME HttpAssumption ==
  /\ Requests \subseteq [method : Alphabet, path : Seq(Alphabet), query : Alphabet,
                         before : Nat, length : Seq(Alphabet), after : Nat,
                         body : Seq(Alphabet), typed : Seq(Alphabet)]
  /\ {OtherHeader, "index.", "html"} \subseteq Alphabet
  /\ Segments \subseteq Nat
  /\ Htdocs \in Seq(Alphabet) /\ OldData \in Seq(Alphabet)
  /\ MaxBuf \in Nat \ {0} /\ MaxPath \in Nat \ {0} /\ Block \in Nat \ {0}
  /\ \A p \in DOMAIN Tree : Tree[p] \in {"file", "dir"} \cup Programs
  /\ DOMAIN FileSize = {p \in DOMAIN Tree : Tree[p] # "dir"}
  /\ \A p \in DOMAIN FileSize : FileSize[p] \in Nat
  /\ NULL \notin Requests \cup Clients

VARIABLES
  asked,    \* each client's request, NULL before it has one
  conn,     \* "none", "queued", "taken" or "closed"
  got,      \* the header's type and the content a client has received
  pc, job,  \* each worker's program counter and the client it serves
  buf,      \* rd_buf: what the worker's stack holds between its requests too
  req,      \* struct http_request
  path,     \* file_path
  query,    \* query_string
  prog,     \* how far the program is that the worker has started
  output,   \* what it has written
  data,     \* the text of data.txt
  server,   \* "up" or "dead"
  (* history: the clients whose requests have led to a write outside an    *)
  (* array, to a pointer that was not set, or to a signal; whose requests  *)
  (* have been read whole; and who had what part of data appended, in order*)
  faults, whole, stored

netVars  == <<asked, conn, got>>
localVars == <<job, buf, req, path, query>>
progVars == <<prog, output>>
workVars == <<pc, localVars, progVars>>
vars == <<netVars, workVars, data, server, faults, whole, stored>>

Goto(w, label) == pc' = [pc EXCEPT ![w] = label]

(***************************************************************************)
(* A request r as a client writes it: r.before other headers, the length   *)
(* as digits if it has one, r.after other headers, and the body; r.typed   *)
(* is what a user has typed into the form of view.html to get there.       *)
(***************************************************************************)
Target(r) == r.path \o (IF r.query = NoQuery THEN <<>> ELSE <<"?", r.query>>)

Headers(n) == [i \in 1..2 * n |-> IF i % 2 = 1 THEN OtherHeader ELSE NewLine]

Text(r) ==
  <<r.method, Space>> \o Target(r) \o <<Space, NewLine>> \o Headers(r.before)
  \o (IF r.length = <<>> THEN <<>> ELSE <<ContentLength>> \o r.length \o <<NewLine>>)
  \o Headers(r.after) \o <<NewLine>> \o r.body

NoRequest == [method |-> "", uri |-> <<>>, length |-> <<>>, content |-> <<>>]
NoAnswer == [type |-> "", content |-> <<>>]

Init ==
  /\ asked = [c \in Clients |-> NULL] /\ conn = [c \in Clients |-> "none"]
  /\ got = [c \in Clients |-> NoAnswer]
  /\ pc = [w \in Workers |-> "idle"] /\ job = [w \in Workers |-> NULL]
  /\ buf = [w \in Workers |-> [i \in 1..MaxBuf |-> NUL]]
  /\ req = [w \in Workers |-> NoRequest]
  /\ path = [w \in Workers |-> <<>>] /\ query = [w \in Workers |-> <<>>]
  /\ prog = [w \in Workers |-> "none"] /\ output = [w \in Workers |-> <<>>]
  /\ data = OldData /\ server = "up"
  /\ faults = {} /\ whole = {} /\ stored = <<>>

Ask(c) ==
  /\ server = "up" /\ conn[c] = "none"
  /\ \E r \in Requests : asked' = [asked EXCEPT ![c] = r]
  /\ conn' = [conn EXCEPT ![c] = "queued"]
  /\ UNCHANGED <<got, workVars, data, server, faults, whole, stored>>

Faults(w, bad) == faults' = IF bad THEN faults \cup {job[w]} ELSE faults

(* The process ends: every thread stops where it is. *)
ProcessEnds ==
  /\ server' = "dead"
  /\ UNCHANGED <<netVars, workVars, data, whole, stored>>

-----------------------------------------------------------------------------

Take(w, c) ==
  /\ server = "up" /\ pc[w] = "idle" /\ conn[c] = "queued"
  /\ conn' = [conn EXCEPT ![c] = "taken"]
  /\ job' = [job EXCEPT ![w] = c]
  /\ Goto(w, "read")
  /\ UNCHANGED <<asked, got, buf, req, path, query, progVars, data, server, faults, whole, stored>>

(* Behind what it has read, rd_buf is what the worker's stack holds there: *)
(* the rest of an earlier request, or anything.                            *)
Filled(w, t) ==
  {Cut(t \o [i \in 1..MaxBuf |-> IF Len(t) + i <= MaxBuf THEN rest[Len(t) + i] ELSE NUL], MaxBuf) :
     rest \in {buf[w], [i \in 1..MaxBuf |-> Junk]}}

(* The one read: as much of the request as has arrived.  It may return 0   *)
(* or -1, which nobody looks at, and rd_buf is as it was.                  *)
Read(w) ==
  LET c == job[w]  t == Text(asked[c]) IN
  /\ server = "up" /\ pc[w] = "read"
  /\ \E n \in {k \in Segments : k < Len(t)} \cup {Len(t)} :
       /\ \E b \in Filled(w, SubSeq(t, 1, n)) : buf' = [buf EXCEPT ![w] = b]
       /\ whole' = IF n = Len(t) THEN whole \cup {c} ELSE whole
  /\ Goto(w, "parse")
  /\ UNCHANGED <<netVars, job, req, path, query, progVars, data, server, faults, stored>>

HttpRequestParse(w) ==
  /\ server = "up" /\ pc[w] = "parse"
  /\ ~ParseCrashes(buf[w])
  /\ req' = [req EXCEPT ![w] = Parse(buf[w])]
  /\ Faults(w, LengthSpills(buf[w]))
  /\ Goto(w, "route")
  /\ UNCHANGED <<netVars, job, buf, path, query, progVars, data, server, whole, stored>>

(* A POST without Content-Length: strstr has returned NULL. *)
HttpRequestParseCrashes(w) ==
  /\ server = "up" /\ pc[w] = "parse"
  /\ ParseCrashes(buf[w])
  /\ Faults(w, TRUE)
  /\ ProcessEnds

-----------------------------------------------------------------------------
(***************************************************************************)
(* send_response                                                           *)
(***************************************************************************)

IsQuery(u) == u = "?"

(* snprintf of htdocs and uri *)
FilePath(uri) == Cut(Htdocs \o uri, MaxPath - 1)
Index == <<"index.", "html">>

Exists(p) == p \in DOMAIN Tree

(* GET: '?' ends the path and makes it a CGI request. *)
RouteGet(w) ==
  LET uri == req[w].uri
      name == FilePath(Until(uri, IsQuery))
      p == IF Last(name) = "/" THEN name \o Index ELSE name
      cgi == \E i \in DOMAIN uri : IsQuery(uri[i])
  IN
  /\ server = "up" /\ pc[w] = "route" /\ req[w].method = "GET"
  /\ path' = [path EXCEPT ![w] = p]
  /\ query' = [query EXCEPT ![w] = IF cgi THEN Tail(After(uri, IsQuery)) ELSE <<>>]
  /\ Faults(w, Len(p) >= MaxPath)
  /\ Goto(w, IF ~Exists(p) THEN "close" ELSE IF cgi THEN "cgi" ELSE "header")
  /\ UNCHANGED <<netVars, job, buf, req, progVars, data, server, whole, stored>>

RoutePost(w) ==
  LET p == FilePath(req[w].uri) IN
  /\ server = "up" /\ pc[w] = "route" /\ req[w].method = "POST"
  /\ path' = [path EXCEPT ![w] = p]
  /\ query' = [query EXCEPT ![w] = <<>>]
  /\ Goto(w, IF Exists(p) THEN "cgi" ELSE "close")
  /\ UNCHANGED <<netVars, job, buf, req, progVars, data, server, faults, whole, stored>>

RouteNone(w) ==
  /\ server = "up" /\ pc[w] = "route" /\ req[w].method \notin {"GET", "POST"}
  /\ Goto(w, "close")
  /\ UNCHANGED <<netVars, localVars, progVars, data, server, faults, whole, stored>>

(***************************************************************************)
(* srv_file                                                                *)
(***************************************************************************)

Known(p) == Last(p) \in DOMAIN Extensions

(* get_filetype leaves the pointer alone when no entry matches, and then   *)
(* it is whatever the stack holds.                                         *)
FileTypes(p) == IF Known(p) THEN {Extensions[Last(p)]} ELSE Types \cup {Junk}

SendHeader(w) ==
  /\ server = "up" /\ pc[w] = "header"
  /\ \E t \in FileTypes(path[w]) : got' = [got EXCEPT ![job[w]].type = t]
  /\ Goto(w, "content")
  /\ UNCHANGED <<asked, conn, localVars, progVars, data, server, faults, whole, stored>>

SendHeaderCrashes(w) ==
  /\ server = "up" /\ pc[w] = "header" /\ ~Known(path[w])
  /\ Faults(w, TRUE)
  /\ ProcessEnds

(* What is in a file. *)
Units(p) == [i \in 1..FileSize[p] |-> <<"a unit of", p>>]
Readable(p) == Tree[p] # "dir"

(* Reads the file into a buffer of one unit less. *)
SendContent_OneLess(w) ==
  /\ server = "up" /\ pc[w] = "content"
  /\ got' = IF Readable(path[w])
            THEN [got EXCEPT ![job[w]].content = Cut(Units(path[w]), MaxBuf - 1)] ELSE got
  /\ Faults(w, ~Readable(path[w]))
  /\ Goto(w, "close")
  /\ UNCHANGED <<asked, conn, localVars, progVars, data, server, whole, stored>>

(* The loop over read fills response_content with as much as it holds; the *)
(* byte behind that is cleared.  read of a directory fails: the byte before *)
(* the buffer is cleared, and the write of length -1 fails.                *)
SendContent(w) ==
  /\ server = "up" /\ pc[w] = "content"
  /\ got' = IF Readable(path[w])
            THEN [got EXCEPT ![job[w]].content = Cut(Units(path[w]), MaxBuf)] ELSE got
  /\ Faults(w, ~Readable(path[w]) \/ FileSize[path[w]] >= MaxBuf)
  /\ Goto(w, "close")
  /\ UNCHANGED <<asked, conn, localVars, progVars, data, server, whole, stored>>

(* What a write outside its array hits may be needed. *)
SpillCrashes ==
  /\ server = "up" /\ faults # {}
  /\ ProcessEnds
  /\ UNCHANGED faults

-----------------------------------------------------------------------------
(***************************************************************************)
(* cgi_get and cgi_post: the program runs on the query, or on the length   *)
(* and the body, and what it has written is sent to the client.            *)
(***************************************************************************)

(* fork and execl; cgi_get has nothing to write. *)
StartProgram(w) ==
  /\ server = "up" /\ pc[w] = "cgi" /\ Tree[path[w]] \in Programs
  /\ prog' = [prog EXCEPT ![w] = "started"]
  /\ Goto(w, IF req[w].method = "POST" THEN "body" ELSE "output")
  /\ UNCHANGED <<netVars, localVars, output, data, server, faults, whole, stored>>

(* execl fails: the worker waits for ever (module Cgi has what follows). *)
NoProgram(w) ==
  /\ server = "up" /\ pc[w] = "cgi" /\ Tree[path[w]] \notin Programs
  /\ Goto(w, "stuck")
  /\ UNCHANGED <<netVars, localVars, progVars, data, server, faults, whole, stored>>

WriteBody(w) ==
  /\ server = "up" /\ pc[w] = "body"
  /\ prog[w] = "ended" => Atoi(req[w].length) = 0
  /\ Goto(w, "output")
  /\ UNCHANGED <<netVars, localVars, progVars, data, server, faults, whole, stored>>

(* The program has ended and left its body: SIGPIPE, and no handler. *)
WriteBodyKills(w) ==
  /\ server = "up" /\ pc[w] = "body"
  /\ prog[w] = "ended" /\ Atoi(req[w].length) > 0
  /\ Faults(w, TRUE)
  /\ ProcessEnds

Running(w, program, stage) ==
  server = "up" /\ prog[w] = stage /\ Tree[path[w]] = program
Advances(w, stage) == prog' = [prog EXCEPT ![w] = stage]
Writes(w, page) == output' = [output EXCEPT ![w] = page]
Elsewhere == UNCHANGED <<netVars, pc, localVars, server, faults, whole>>

(* CONTENT_LENGTH is only set for a POST.  Nothing is read of the body.    *)
CollectRefuses(w) ==
  /\ Running(w, "collect", "started") /\ Refuses(req[w].length)
  /\ Writes(w, <<<<"refused">>>>)
  /\ Advances(w, "ended")
  /\ Elsewhere /\ UNCHANGED <<data, stored>>

(* fgets and unencode; the input has come when the body is written.  A     *)
(* program that dies takes with it what its standard output has not        *)
(* flushed.                                                                *)
CollectReads(w) ==
  LET length == req[w].length IN
  /\ Running(w, "collect", "started") /\ ~Refuses(length)
  /\ Atoi(length) > 0 => pc[w] = "output"
  /\ Advances(w, IF Dies(length, Body(req[w])) THEN "ended" ELSE "read")
  /\ Elsewhere /\ UNCHANGED <<output, data, stored>>

(* Opens the file as if to write it anew. *)
CollectOpens_Truncates(w) ==
  /\ Running(w, "collect", "read")
  /\ Advances(w, "opened")
  /\ data' = <<>>
  /\ Elsewhere /\ UNCHANGED <<output, stored>>

(* fopen to append; fclose of a file that has not opened crashes. *)
CollectOpens(w) ==
  /\ Running(w, "collect", "read")
  /\ \E stage \in {"opened", "ended"} : Advances(w, stage)
  /\ Elsewhere /\ UNCHANGED <<output, data, stored>>

(* fputs, and the one write of fclose, to where the file ends by then. *)
CollectStores(w) ==
  LET line == Line(req[w].length, Body(req[w])) IN
  /\ Running(w, "collect", "opened")
  /\ data' = data \o line
  /\ stored' = Append(stored, [client |-> job[w], from |-> Len(data), to |-> Len(data) + Len(line)])
  /\ Advances(w, "written")
  /\ Elsewhere /\ UNCHANGED output

CollectEnds(w) ==
  /\ Running(w, "collect", "written")
  /\ Writes(w, <<<<"stored">>>>)
  /\ Advances(w, "ended")
  /\ Elsewhere /\ UNCHANGED <<data, stored>>

(* viewdata opens the file, if the directory it runs in has it beside it,  *)
(* and reads it to the end, a block at a time.                             *)
Shown(text) == [i \in 1..Len(text) |-> <<"data", text[i]>>]

ViewdataOpens(w) ==
  /\ Running(w, "viewdata", "started")
  /\ \/ Advances(w, "opened") /\ UNCHANGED output
     \/ Advances(w, "ended") /\ Writes(w, <<<<"no file">>>>)
  /\ Elsewhere /\ UNCHANGED <<data, stored>>

ViewdataReads(w) ==
  /\ Running(w, "viewdata", "opened")
  /\ Len(output[w]) < Len(data)
  /\ Writes(w, output[w] \o Shown(Cut(SubSeq(data, Len(output[w]) + 1, Len(data)), Block)))
  /\ Elsewhere /\ UNCHANGED <<prog, data, stored>>

ViewdataEnds(w) ==
  /\ Running(w, "viewdata", "opened")
  /\ Len(output[w]) = Len(data)
  /\ Advances(w, "ended")
  /\ Elsewhere /\ UNCHANGED <<output, data, stored>>

(* QUERY_STRING is only set for a GET; standard input is not looked at. *)
Multi(w) ==
  /\ Running(w, "multi", "started")
  /\ Writes(w, IF req[w].method = "GET" THEN Product(query[w]) ELSE <<<<"no query">>>>)
  /\ Advances(w, "ended")
  /\ Elsewhere /\ UNCHANGED <<data, stored>>

(* As much as response_content holds, when the program has ended. *)
Reply(w) ==
  /\ server = "up" /\ pc[w] = "output" /\ prog[w] = "ended"
  /\ got' = [got EXCEPT ![job[w]] = [type |-> "text/html", content |-> Cut(output[w], MaxContent)]]
  /\ Goto(w, "close")
  /\ UNCHANGED <<asked, conn, localVars, progVars, data, server, faults, whole, stored>>

(* The connection is closed, and the locals of the request are gone. *)
Close(w) ==
  /\ server = "up" /\ pc[w] = "close"
  /\ conn' = [conn EXCEPT ![job[w]] = "closed"]
  /\ job' = [job EXCEPT ![w] = NULL]
  /\ req' = [req EXCEPT ![w] = NoRequest]
  /\ path' = [path EXCEPT ![w] = <<>>]
  /\ query' = [query EXCEPT ![w] = <<>>]
  /\ prog' = [prog EXCEPT ![w] = "none"]
  /\ output' = [output EXCEPT ![w] = <<>>]
  /\ Goto(w, "idle")
  /\ UNCHANGED <<asked, got, buf, data, server, faults, whole, stored>>

-----------------------------------------------------------------------------

Handle(w) ==
  \/ Read(w) \/ HttpRequestParse(w) \/ HttpRequestParseCrashes(w)
  \/ RouteGet(w) \/ RoutePost(w) \/ RouteNone(w)
  \/ SendHeader(w) \/ SendHeaderCrashes(w) \/ SendContent(w)
  \/ StartProgram(w) \/ NoProgram(w) \/ WriteBody(w) \/ WriteBodyKills(w)
  \/ Reply(w) \/ Close(w)

Program(w) ==
  \/ CollectRefuses(w) \/ CollectReads(w) \/ CollectOpens(w) \/ CollectStores(w)
  \/ CollectEnds(w)
  \/ ViewdataOpens(w) \/ ViewdataReads(w) \/ ViewdataEnds(w)
  \/ Multi(w)

(* Nothing is left to do. *)
Done ==
  /\ \/ server = "dead"
     \/ \A w \in Workers : pc[w] = "stuck"
     \/ /\ \A w \in Workers : pc[w] \in {"idle", "stuck"}
        /\ \A c \in Clients : conn[c] \in {"taken", "closed"}
  /\ UNCHANGED vars

Next ==
  \/ \E c \in Clients : Ask(c)
  \/ \E w \in Workers : Handle(w) \/ Program(w) \/ \E c \in Clients : Take(w, c)
  \/ SpillCrashes \/ Done

Spec == Init /\ [][Next]_vars

-----------------------------------------------------------------------------
(***************************************************************************)
(* Properties.                                                             *)
(***************************************************************************)

Labels == {"idle", "read", "parse", "route", "header", "content", "cgi", "stuck", "body",
           "output", "close"}
Stages == {"none", "started", "read", "opened", "written", "ended"}

(* What is in a page: what a program prints, a unit of data.txt, or one of *)
(* another file.                                                           *)
PageUnits ==
  {<<"refused">>, <<"stored">>, <<"no file">>, <<"no query">>, <<"product">>, <<"invalid">>}
  \cup ({"data"} \X Alphabet) \cup ({"a unit of"} \X DOMAIN FileSize)

(* Every variable has its type.  The fields of struct http_request and     *)
(* file_path stay within the sizes they have in http.h as long as nothing  *)
(* has been written outside its array, and the others always.              *)
TypeOK ==
  /\ asked \in [Clients -> Requests \cup {NULL}]
  /\ conn \in [Clients -> {"none", "queued", "taken", "closed"}]
  /\ \A c \in Clients :
       /\ got[c].type \in Types \cup {"", Junk}
       /\ got[c].content \in Seq(PageUnits)
       /\ Len(got[c].content) <= (IF MaxBuf >= MaxContent THEN MaxBuf ELSE MaxContent)
  /\ pc \in [Workers -> Labels] /\ job \in [Workers -> Clients \cup {NULL}]
  /\ prog \in [Workers -> Stages]
  /\ \A w \in Workers :
       /\ pc[w] # "idle" => job[w] # NULL /\ asked[job[w]] # NULL
       /\ buf[w] \in [1..MaxBuf -> Alphabet]
       /\ req[w].method \in Words \cup {""}
       /\ req[w].uri \in Seq(Alphabet) /\ Len(req[w].uri) < MaxUri
       /\ req[w].length \in Seq(DOMAIN DigitValue)
       /\ Len(req[w].length) < MaxLength \/ faults # {}
       /\ req[w].content \in Seq(Alphabet) /\ Len(req[w].content) <= MaxContent
       /\ path[w] \in Seq(Alphabet) /\ (Len(path[w]) < MaxPath \/ faults # {})
       /\ query[w] \in Seq(Alphabet) /\ Len(query[w]) < MaxUri
       /\ output[w] \in Seq(PageUnits)
  /\ data \in Seq(Alphabet) /\ server \in {"up", "dead"}
  /\ faults \subseteq Clients /\ whole \subseteq Clients
  /\ \A i \in DOMAIN stored : stored[i] \in [client : Clients, from : Nat, to : 0..Len(data)]

(* A request as HTTP writes it, and rd_buf has room for: a method, a path  *)
(* and a query without blanks, and the length of the body, in digits.      *)
Legible(u) == ~Blank(u) /\ u \notin {NUL, ContentLength}
WellFormed(r) ==
  /\ r.method \in Words
  /\ r.path # <<>> /\ \A i \in DOMAIN r.path : Legible(r.path[i]) /\ r.path[i] # "?"
  /\ Legible(r.query)
  /\ \A i \in DOMAIN r.length : IsDigit(r.length[i])
  /\ Len(r.length) < MaxLength
  /\ r.length # <<>> => Atoi(r.length) = Len(r.body)
  /\ \A i \in DOMAIN r.body : r.body[i] # NUL
  /\ Len(Text(r)) <= MaxBuf

(* A POST whose body the parser can find: its length is its last header,   *)
(* and it begins on the line behind the empty one.                         *)
BodyIsFound(r) ==
  /\ r.length # <<>> /\ r.after = 0
  /\ Len(r.body) <= MaxContent
  /\ r.body # <<>> => r.body[1] # NewLine

(* A well-formed request that one read got whole is understood as meant,   *)
(* whatever an earlier request has left in the buffer behind it, and what  *)
(* the program is given as its input is the body and nothing else          *)
(* (http.c:35-64, 177).                                                    *)
RequestUnderstood ==
  \A w \in Workers : pc[w] = "route" /\ job[w] \in whole =>
    LET r == asked[job[w]] IN
    WellFormed(r) =>
      /\ req[w].method = r.method
      /\ req[w].uri = Cut(Target(r), MaxUri - 1)
      /\ r.method = "POST" /\ BodyIsFound(r) => Body(req[w]) = r.body

Fits(r) == Len(Target(r)) < MaxUri /\ Len(Htdocs \o r.path) < MaxPath

(* The file that a path names. *)
Named(r) == Htdocs \o r.path \o (IF Last(r.path) = "/" THEN Index ELSE <<>>)

(* A client that asked for a file, in one piece, has received that file,   *)
(* as far as response_content holds it, under its type; and nothing when   *)
(* there is no such file (http.c:66-109, 196-224).                         *)
FileAnswered ==
  \A c \in whole :
    LET r == asked[c]  p == Named(asked[c]) IN
    conn[c] = "closed" /\ WellFormed(r) /\ r.method = "GET" /\ r.query = NoQuery /\ Fits(r) =>
      IF Exists(p) /\ Readable(p)
      THEN /\ got[c].content = Cut(Units(p), MaxBuf)
           /\ Known(p) => got[c].type = Extensions[Last(p)]
      ELSE got[c].content = <<>>

(* A form that has come whole, with a body that a browser makes of a text. *)
GoodForm(c) ==
  LET r == asked[c] IN
  c \in whole /\ WellFormed(r) /\ BodyIsFound(r) /\ IsForm(r.body, r.typed)

Told(c) == got[c].content = <<<<"stored">>>>
LineOf(s) == SubSeq(data, s.from + 1, s.to)

(* What collects append to data.txt stands there one behind the other,     *)
(* whole, in the order in which they came to it, and nothing else does.    *)
(* What a form has added is what the user has typed, and a line end, when  *)
(* the body is what a browser makes of it; and a user who is told that it  *)
(* is stored has a line there, with collect run by several workers on      *)
(* requests of several clients, and buffers that still hold the forms of   *)
(* others (http.c:143-193, collect.c:10-53).                               *)
StoredIsTyped ==
  /\ \A i \in DOMAIN stored :
       /\ stored[i].from = IF i = 1 THEN Len(OldData) ELSE stored[i - 1].to
       /\ GoodForm(stored[i].client) => LineOf(stored[i]) = asked[stored[i].client].typed \o <<NewLine>>
  /\ Len(data) = IF stored = <<>> THEN Len(OldData) ELSE Last(stored).to
  /\ \A c \in Clients :
       GoodForm(c) /\ Told(c) => \E i \in DOMAIN stored : stored[i].client = c

ShowsData(page) == page # <<>> /\ page[1] \in {"data"} \X Alphabet

(* A page of viewdata, while it is written and when the client has it, is  *)
(* the beginning of data.txt: no part of it is missing, there twice or     *)
(* half-written, whichever collects append while viewdata reads, and       *)
(* nothing that has been shown is changed later (collect.c:46-51,          *)
(* viewdata.c:6-18).                                                       *)
PageIsOfData ==
  /\ \A w \in Workers : ShowsData(output[w]) => IsPrefix(output[w], Shown(data))
  /\ \A c \in Clients : ShowsData(got[c].content) => IsPrefix(got[c].content, Shown(data))

(* Requests that do no harm.  A GET is for nothing that exists, for a      *)
(* query, or for a file of a known type that response_content has room     *)
(* for, and its path fits into file_path, index.html included.  A POST has *)
(* its length, and is for nothing that exists, or for collect, with a body *)
(* that it reads.                                                          *)
Harmless(r) ==
  /\ WellFormed(r)
  /\ r.method = "GET" =>
       /\ Len(Target(r)) < MaxUri /\ Len(Named(r)) < MaxPath
       /\ r.query # NoQuery \/ ~Exists(Named(r))
          \/ (Readable(Named(r)) /\ Known(Named(r)) /\ FileSize[Named(r)] < MaxBuf)
  /\ r.method = "POST" =>
       LET p == FilePath(Cut(Target(r), MaxUri - 1)) IN
       /\ r.length # <<>>
       /\ ~Exists(p) \/ (Tree[p] = "collect" /\ ~Refuses(r.length))

(* A harmless request that has come whole never leads to a write outside   *)
(* an array, to a pointer that was not set, or to a signal, whatever       *)
(* harmful requests its worker has served before it and left in rd_buf,    *)
(* or others serve beside it; and the server ends by nothing else          *)
(* (http.c:51-62, 80, 98, 177, 211-213).                                   *)
ServerSurvives ==
  /\ \A c \in faults \cap whole : ~Harmless(asked[c])
  /\ server = "dead" => faults # {}

(* README.md:7, "support HTTP GET and POST method": what a client posts to *)
(* a program reaches it.                                                   *)
PostReachesProgram ==
  \A w \in Workers :
    pc[w] = "cgi" /\ req[w].method = "POST" => Body(req[w]) = asked[job[w]].body

=============================================================================
