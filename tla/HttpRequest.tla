----------------------------- MODULE HttpRequest -----------------------------
(***************************************************************************)
(* http_request_parse of src/src/http.c and what cgi_post hands on of its  *)
(* result.  The buffer is a sequence of units: a word of letters, a space, *)
(* an end of line, a digit, the name of the Content-Length header, the     *)
(* text of any other header, a piece of a path or of a form, and NUL.      *)
(* Every unit has length 1, in the buffer and in the limits below.         *)
(***************************************************************************)
EXTENDS Integers, Sequences, SequencesExt

CONSTANTS
  Alphabet,   \* the units of text
  MaxUri,     \* MAX_URI_SIZE, the final NUL included
  MaxLength,  \* MAX_CL_SIZE, the final NUL included
  MaxContent  \* MAX_CONTENT_SIZE

Words == {"GET", "POST", "PUT"}   \* what isalpha accepts, whole
Space == " "
NewLine == "\r\n"
Blank(u) == u \in {Space, NewLine}
ContentLength == "Content-Length: "
NUL == "NUL"
Junk == "junk"                    \* what a place nobody has written may hold

ASSUME HttpRequestAssumption ==
  /\ MaxUri \in Nat \ {0} /\ MaxLength \in Nat \ {0} /\ MaxContent \in Nat
  /\ Words \cup {Space, NewLine, ContentLength, NUL, Junk} \subseteq Alphabet

DigitValue ==
  LET digits == <<"0", "1", "2", "3", "4", "5", "6", "7", "8", "9">>
  IN  [d \in Range(digits) |-> (CHOOSE i \in DOMAIN digits : digits[i] = d) - 1]
IsDigit(u) == u \in DOMAIN DigitValue

(* The units before the first that satisfies Stop, and those from there.   *)
Until(s, Stop(_)) ==
  LET i == SelectInSeq(s, Stop) IN IF i = 0 THEN s ELSE SubSeq(s, 1, i - 1)
After(s, Stop(_)) == SubSeq(s, Len(Until(s, Stop)) + 1, Len(s))

CString(s) == Until(s, LAMBDA u : u = NUL)
Cut(s, n) == IF Len(s) <= n THEN s ELSE SubSeq(s, 1, n)

Method(b) == IF b[1] \in Words THEN b[1] ELSE ""

(* Has no limit but the next blank. *)
Uri_NoLimit(b) ==
  LET rest == IF b[1] \in Words THEN Tail(b) ELSE b
  IN  CString(Until(After(rest, LAMBDA u : ~Blank(u)), Blank))

(* The loop over the uri copies a NUL too, where the string then ends. *)
Uri(b) ==
  LET rest == IF b[1] \in Words THEN Tail(b) ELSE b
  IN  CString(Cut(Until(After(rest, LAMBDA u : ~Blank(u)), Blank), MaxUri - 1))

(* strstr(rb_buf,"Content-Length: "), 0 for NULL. *)
LengthAt(b) == SelectInSeq(CString(b), LAMBDA u : u = ContentLength)

BehindLength(b) == SubSeq(CString(b), LengthAt(b) + 1, Len(CString(b)))
LengthDigits(b) == Until(BehindLength(b), LAMBDA u : ~IsDigit(u))

(* strncpy of what follows the digits and any ends of line behind them. *)
Content(b) ==
  Cut(After(After(BehindLength(b), LAMBDA u : ~IsDigit(u)),
            LAMBDA u : u # NewLine),
      MaxContent)

(* The loop over the digits has no limit: they run over content_length.    *)
LengthSpills(b) == Method(b) = "POST" /\ Len(LengthDigits(b)) >= MaxLength

(* What atoi, and sscanf in the program, then read in content_length: the  *)
(* strncpy has overwritten its end, and content follows it in the struct.  *)
LengthField(b) ==
  IF Len(LengthDigits(b)) < MaxLength THEN LengthDigits(b)
  ELSE Until(Cut(LengthDigits(b), MaxLength) \o Content(b), LAMBDA u : ~IsDigit(u))

Parse(b) ==
  [method |-> Method(b), uri |-> Uri(b),
   length |-> IF Method(b) = "POST" THEN LengthField(b) ELSE <<>>,
   content |-> IF Method(b) = "POST" THEN Content(b) ELSE <<>>]

(* Looks for the length of every request. *)
ParseCrashes_EveryMethod(b) == LengthAt(b) = 0

(* It follows the NULL that strstr returns. *)
ParseCrashes(b) == Method(b) = "POST" /\ LengthAt(b) = 0

Atoi(digits) ==
  LET upto[i \in 0..Len(digits)] == IF i = 0 THEN 0 ELSE 10 * upto[i - 1] + DigitValue[digits[i]]
  IN  upto[Len(digits)]

(* Writes the string in content. *)
Body_Strlen(req) == req.content

(* write(in_fd[1],req->content,atoi(req->content_length)): strncpy has     *)
(* filled content up with NULs, and what lies behind it is not its own.    *)
Body(req) ==
  [i \in 1..Atoi(req.length) |->
     IF i <= Len(req.content) THEN req.content[i]
     ELSE IF i <= MaxContent THEN NUL ELSE Junk]

=============================================================================
