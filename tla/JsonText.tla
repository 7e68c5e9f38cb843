------------------------------- MODULE JsonText -------------------------------
(***************************************************************************)
(* The characters inside the tokens of module Json: how src/src/json.c     *)
(* reads a string, a number or a word that begins at a place p of a text   *)
(* t.  Characters are bytes.  The parser tests how far the text still goes *)
(* and then reads on; x is the byte that lies behind the text in memory,   *)
(* where file_content has no room for a NUL of its own.                    *)
(***************************************************************************)
EXTENDS Integers, Sequences, SequencesExt, FiniteSetsExt

CONSTANT IntLimit  \* the integers from here on overflow: 2^63

ASSUME TextAssumption == IntLimit \in Nat \ {0}

Quote == 34
Plus == 43
Minus == 45
Dot == 46
Slash == 47
Zero == 48
Backslash == 92
LetterU == 117
DigitBytes == 48..57
ExpBytes == {69, 101}
NumberBytes == DigitBytes \cup ExpBytes \cup {Plus, Minus, Dot}

Byte(t, x, p) == IF p <= Len(t) THEN t[p] ELSE x

(* What a scan has come to: the last byte it has taken, and what it made   *)
(* of the bytes; `to` is 0 when it fails, and past the end of the text     *)
(* when it has missed that end.                                            *)
Failed == [to |-> 0, bytes |-> <<>>]
Taken(q, bytes) == [to |-> q, bytes |-> bytes]

-----------------------------------------------------------------------------
(***************************************************************************)
(* Strings                                                                 *)
(***************************************************************************)

NoHex == 255
HexValue(b) ==
  IF b \in DigitBytes THEN b - 48
  ELSE IF b \in 97..102 THEN b - 87
  ELSE IF b \in 65..70 THEN b - 55 ELSE NoHex

(* Four digits from p on, NoHex if one of them is none. *)
Hex4(t, x, p) ==
  LET d(i) == HexValue(Byte(t, x, p + i)) IN
  IF \E i \in 0..3 : d(i) = NoHex THEN -1
  ELSE 4096 * d(0) + 256 * d(1) + 16 * d(2) + d(3)

(* uchar & 0xF800 is 0xD800: either half of a pair. *)
IsSurrogate(u) == u \div 2048 = 27

(* 0x010000 | (u & 0x3FF) << 10 | (v & 0x3FF) *)
Pair(u, v) ==
  LET high == u % 1024 IN
  high * 1024 + (IF (high \div 64) % 2 = 1 THEN 0 ELSE 65536) + (v % 1024)

(* Two bytes for 0x7F too. *)
Utf8_SevenBits(u) ==
  IF u < 127 THEN <<u>>
  ELSE IF u <= 2047 THEN <<192 + (u \div 64), 128 + (u % 64)>>
  ELSE IF u <= 65535
       THEN <<224 + (u \div 4096), 128 + ((u \div 64) % 64), 128 + (u % 64)>>
  ELSE <<240 + (u \div 262144), 128 + ((u \div 4096) % 64),
         128 + ((u \div 64) % 64), 128 + (u % 64)>>

Utf8(u) ==
  IF u <= 127 THEN <<u>>
  ELSE IF u <= 2047 THEN <<192 + (u \div 64), 128 + (u % 64)>>
  ELSE IF u <= 65535
       THEN <<224 + (u \div 4096), 128 + ((u \div 64) % 64), 128 + (u % 64)>>
  ELSE <<240 + (u \div 262144), 128 + ((u \div 4096) % 64),
         128 + ((u \div 64) % 64), 128 + (u % 64)>>

(* `end - ptr` with the pointer at p. *)
Left(t, p) == Len(t) + 1 - p

(* A \u at p does not test how much of the text is left. *)
Unicode_NoTest(t, x, p) ==
  LET u == Hex4(t, x, p + 1)  v == Hex4(t, x, p + 7) IN
  IF u = -1 THEN Failed
  ELSE IF ~IsSurrogate(u) THEN Taken(p + 4, Utf8(u))
  ELSE IF \/ Byte(t, x, p + 5) # Backslash \/ Byte(t, x, p + 6) # LetterU \/ v = -1
       THEN Failed
  ELSE Taken(p + 10, Utf8(Pair(u, v)))

(* The u of an escape is at p: four digits, and another escape behind them *)
(* if they are half of a pair.                                             *)
Unicode(t, x, p) ==
  LET u == Hex4(t, x, p + 1)  v == Hex4(t, x, p + 7) IN
  IF Left(t, p) < 4 \/ u = -1 THEN Failed
  ELSE IF ~IsSurrogate(u) THEN Taken(p + 4, Utf8(u))
  ELSE IF \/ Left(t, p + 4) < 6
          \/ Byte(t, x, p + 5) # Backslash \/ Byte(t, x, p + 6) # LetterU \/ v = -1
       THEN Failed
  ELSE Taken(p + 10, Utf8(Pair(u, v)))

(* What the letters b, f, n, r, t stand for; any other byte is itself. *)
Controls ==
  [b \in {98, 102, 110, 114, 116} |->
     IF b = 98 THEN 8 ELSE IF b = 102 THEN 12 ELSE IF b = 110 THEN 10
     ELSE IF b = 114 THEN 13 ELSE 9]

Escape(t, x, p) ==
  IF Left(t, p) = 0 \/ t[p] = 0 THEN Failed
  ELSE IF t[p] = LetterU THEN Unicode(t, x, p)
  ELSE Taken(p, <<IF t[p] \in DOMAIN Controls THEN Controls[t[p]] ELSE t[p]>>)

(* One turn of the loop over a string, and what it makes of the rest. *)
One(t, x, q) == IF t[q] = Backslash THEN Escape(t, x, q + 1) ELSE Taken(q, <<t[q]>>)
Before(bytes, rest) == IF rest = Failed THEN Failed ELSE Taken(rest.to, bytes \o rest.bytes)

(* The string whose first byte behind its quote is at p: both passes run   *)
(* this, the first to count the bytes that the second writes.              *)
StringAt(t, x, p) ==
  LET from[q \in 1..Len(t) + 12] ==
        IF q > Len(t) + 1 THEN Taken(q, <<>>)
        ELSE IF q = Len(t) + 1 \/ t[q] = 0 THEN Failed
        ELSE IF t[q] = Quote THEN Taken(q, <<>>)
        ELSE IF One(t, x, q) = Failed THEN Failed
        ELSE Before(One(t, x, q).bytes, from[One(t, x, q).to + 1])
  IN  from[p]

-----------------------------------------------------------------------------
(***************************************************************************)
(* Words and numbers                                                       *)
(***************************************************************************)

TrueWord == <<116, 114, 117, 101>>
FalseWord == <<102, 97, 108, 115, 101>>
NullWord == <<110, 117, 108, 108>>
JsonWords == {TrueWord, FalseWord, NullWord}

(* The test lets through a text that ends one byte too early. *)
WordAt(t, x, p) ==
  LET is(word) == /\ Left(t, p) >= Len(word) - 1
                  /\ \A i \in 1..Len(word) : Byte(t, x, p + i - 1) = word[i]
      found == {word \in JsonWords : is(word)}
  IN  IF found = {} THEN Failed
      ELSE Taken(p + Len(CHOOSE word \in found : TRUE) - 1, <<>>)

(* The first pass over a number.  num_digits, the flags num_zero, num_e    *)
(* and num_e_got_sign, the type and the integer.                           *)
NewNumber ==
  [digits |-> 0, zero |-> FALSE, exp |-> FALSE, sign |-> FALSE, double |-> FALSE,
   int |-> 0, status |-> "reads"]

(* An integer in the making; C does not say what is left of one that       *)
(* overflows, nor of what is made of it, and -1 stands for that.           *)
Kept(i) == IF 0 <= i /\ i < IntLimit THEN i ELSE -1

NumberDigit(n, b) ==
  IF n.exp THEN [n EXCEPT !.digits = @ + 1, !.sign = TRUE]
  ELSE IF n.double THEN [n EXCEPT !.digits = @ + 1]
  ELSE IF n.zero THEN [n EXCEPT !.status = "failed"]
  ELSE [n EXCEPT !.digits = @ + 1, !.zero = (n.digits = 0 /\ b = Zero),
                 !.int = Kept(10 * @ + (b - Zero))]

(* Goes on into an exponent without digits. *)
NumberOther_EmptyExponent(n, b) ==
  IF b \in {Plus, Minus} /\ n.exp /\ ~n.sign THEN [n EXCEPT !.sign = TRUE]
  ELSE IF b = Dot /\ ~n.double /\ n.digits # 0
       THEN [n EXCEPT !.double = TRUE, !.digits = 0]
  ELSE IF (b = Dot /\ ~n.double) \/ (n.digits = 0 /\ n.double /\ ~n.exp)
       THEN [n EXCEPT !.status = "failed"]
  ELSE IF b \in ExpBytes /\ ~n.exp
       THEN [n EXCEPT !.exp = TRUE, !.double = TRUE, !.digits = 0, !.zero = FALSE]
  ELSE [n EXCEPT !.status = "done"]

(* A byte that is no digit: part of the number, or its end. *)
NumberOther(n, b) ==
  IF b \in {Plus, Minus} /\ n.exp /\ ~n.sign THEN [n EXCEPT !.sign = TRUE]
  ELSE IF b = Dot /\ ~n.double /\ n.digits # 0
       THEN [n EXCEPT !.double = TRUE, !.digits = 0]
  ELSE IF (b = Dot /\ ~n.double) \/ (n.digits = 0 /\ n.double)
       THEN [n EXCEPT !.status = "failed"]
  ELSE IF b \in ExpBytes /\ ~n.exp
       THEN [n EXCEPT !.exp = TRUE, !.double = TRUE, !.digits = 0, !.zero = FALSE]
  ELSE [n EXCEPT !.status = "done"]

NumberStep(n, b) ==
  IF n.status # "reads" THEN n
  ELSE IF b \in DigitBytes THEN NumberDigit(n, b) ELSE NumberOther(n, b)

(* The number at p, with the last place it takes; behind the text comes 0. *)
NumberAt(t, p) ==
  LET first == IF t[p] = Minus THEN p + 1 ELSE p
      upTo[q \in first - 1..Len(t) + 1] ==
        IF q < first THEN NewNumber ELSE NumberStep(upTo[q - 1], Byte(t, 0, q))
      end == Min({q \in first..Len(t) + 1 : upTo[q].status # "reads"})
  IN  [status |-> upTo[end].status, to |-> end - 1, double |-> upTo[end].double,
       int |-> IF t[p] = Minus THEN -upTo[end].int ELSE upTo[end].int]

(* The second pass skips what looks like a number. *)
NumberSkipped(t, p) ==
  LET behind == {q \in p..Len(t) : t[q] \notin NumberBytes} IN
  IF behind = {} THEN Len(t) ELSE Min(behind) - 1

=============================================================================
