------------------------------- MODULE Collect -------------------------------
(***************************************************************************)
(* What the CGI programs of src/htdocs/cgi-bin compute.  collect takes a   *)
(* form from its standard input, decodes it and appends it to a file, as a *)
(* line if all goes well; multi looks at the query.  Text is counted in    *)
(* units, of which the name of the form's field with its "=" is one.       *)
(***************************************************************************)
EXTENDS HttpRequest

CONSTANTS
  MaxLen,   \* MAXLEN of collect.c
  Extra,    \* EXTRA of collect.c: the units of "data="
  Escapes   \* the characters a browser escapes, with their two hex digits

ASSUME CollectAssumption ==
  /\ MaxLen \in Nat /\ Extra \in Nat
  /\ DOMAIN Escapes \cup {"?", "+", "%", "byte"} \subseteq Alphabet
  /\ \A ch \in DOMAIN Escapes :
       Escapes[ch] # <<"0", "0">> /\ \E a, b \in DOMAIN DigitValue : Escapes[ch] = <<a, b>>
  /\ \A ch, other \in DOMAIN Escapes : Escapes[ch] = Escapes[other] => ch = other

(* sscanf(src+1, "%2x", &code): two digits, one, or none.  A code that is  *)
(* no character of a form is a byte of its own, or NUL.                    *)
Code(u, v) ==
  IF ~IsDigit(u) THEN "?"
  ELSE IF u = "0" /\ (v = "0" \/ ~IsDigit(v)) THEN NUL
  ELSE IF \E ch \in DOMAIN Escapes : Escapes[ch] = <<u, v>>
       THEN CHOOSE ch \in DOMAIN Escapes : Escapes[ch] = <<u, v>>
       ELSE "byte"

At(s, i) == IF i <= Len(s) THEN s[i] ELSE NUL

(* Skips one character behind a '%'. *)
Decoded_ShortSkip(s) ==
  LET from[i \in 1..Len(s) + 3] ==
        IF i > Len(s) THEN <<>>
        ELSE IF s[i] = "+" THEN <<Space>> \o from[i + 1]
        ELSE IF s[i] = "%" THEN <<Code(At(s, i + 1), At(s, i + 2))>> \o from[i + 2]
        ELSE <<s[i]>> \o from[i + 1]
  IN  from[1]

(* The loop of unencode over s; where it jumps over `last`, what it would  *)
(* write does not matter (Overruns).                                       *)
Decoded(s) ==
  LET from[i \in 1..Len(s) + 3] ==
        IF i > Len(s) THEN <<>>
        ELSE IF s[i] = "+" THEN <<Space>> \o from[i + 1]
        ELSE IF s[i] = "%" THEN <<Code(At(s, i + 1), At(s, i + 2))>> \o from[i + 3]
        ELSE <<s[i]>> \o from[i + 1]
  IN  from[1]

(* src never equals last: it runs on until it leaves the stack. *)
Overruns(s) ==
  LET ends[i \in 1..Len(s) + 3] ==
        IF i > Len(s) THEN i = Len(s) + 1
        ELSE ends[IF s[i] = "%" THEN i + 3 ELSE i + 1]
  IN  ~ends[1]

(* fgets(input, n+1, stdin): up to and with the end of a line; what lies   *)
(* behind it in input has not been written.                                *)
Fgets(stdin, n) ==
  LET i == SelectInSeq(stdin, LAMBDA u : u = NewLine)
      read == IF i = 0 THEN Cut(stdin, n) ELSE Cut(stdin, IF i < n THEN i ELSE n)
  IN  [k \in 1..n |-> IF k <= Len(read) THEN read[k]
                      ELSE IF k = Len(read) + 1 THEN NUL ELSE Junk]

Field(input) == SubSeq(input, Extra + 1, Len(input))

(* What a browser makes of a typed text, and the body it sends: the field  *)
(* with its name before it, no character of which means another.           *)
Escaped(ch) ==
  IF ch = Space THEN <<"+">>
  ELSE IF ch \in DOMAIN Escapes THEN <<"%", Escapes[ch][1], Escapes[ch][2]>>
  ELSE <<ch>>
Encoded(typed) == FlattenSeq([i \in 1..Len(typed) |-> Escaped(typed[i])])
IsForm(body, typed) ==
  /\ \A i \in DOMAIN typed :
       typed[i] # NUL /\ (typed[i] \in {"+", "%", NewLine} => typed[i] \in DOMAIN Escapes)
  /\ Len(body) >= Extra /\ \A i \in 1..Extra : body[i] # NewLine
  /\ Field(body) = Encoded(typed)

(* What collect does with CONTENT_LENGTH and its input: it refuses it,     *)
(* dies, or has a line to append.                                          *)
Refuses(length) == length = <<>> \/ Atoi(length) > MaxLen
Dies(length, stdin) ==
  LET input == Fgets(stdin, Atoi(length))
  IN  Len(input) < Extra \/ Overruns(Field(input))

(* unencode ends the text with a line feed and a NUL, wherever a NUL has   *)
(* ended it before; fputs appends what stands before the first.            *)
Line(length, stdin) ==
  CString(Decoded(Field(Fgets(stdin, Atoi(length)))) \o <<NewLine>>)

(* multi: sscanf of QUERY_STRING finds its two numbers. *)
GoodQuery == "m=6&n=7"
Product(query) == IF query = GoodQuery THEN <<<<"product">>>> ELSE <<<<"invalid">>>>

=============================================================================
