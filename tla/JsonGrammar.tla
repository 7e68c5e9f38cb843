----------------------------- MODULE JsonGrammar -----------------------------
(***************************************************************************)
(* What JSON and UTF-8 say of the characters within a token, for module    *)
(* JsonText to be compared with: the ways to write a character, and the    *)
(* forms of a number.                                                      *)
(***************************************************************************)
EXTENDS JsonText

CONSTANTS
  Points,    \* characters, by their code points, of which strings are made
  MaxChars,  \* bound on the characters of a string
  Beyond,    \* the bytes that may lie in memory behind a text
  Symbols,   \* bytes of which numbers are made
  MaxSymbols \* bound on the bytes of a number

(* The code points there are; and those whose pair of escapes has bit 6    *)
(* set in its first half (0x20000 is the first): the | in json.c:331 takes *)
(* them for others.                                                        *)
IsCodePoint(u) == u \in Nat /\ u <= 1114111 /\ ~(55296 <= u /\ u <= 57343)
Misjoined(u) == u >= 65536 /\ ((u - 65536) \div 65536) % 2 = 1

ASSUME GrammarAssumption ==
  /\ \A u \in Points : IsCodePoint(u) /\ ~Misjoined(u)
  /\ MaxChars \in Nat /\ MaxSymbols \in Nat
  /\ Beyond \subseteq Nat /\ Symbols \subseteq Nat

(* A code point in UTF-8, by the definition of that encoding: k bytes of   *)
(* six bits each, but for the first, which has the mark of the length.     *)
Utf8Length(u) ==
  IF u < 128 THEN 1 ELSE IF u < 2048 THEN 2 ELSE IF u < 65536 THEN 3 ELSE 4
InUtf8(u) ==
  LET k == Utf8Length(u)
      mark == <<0, 192, 224, 240>>[k]
      sixes(i) == u \div <<1, 64, 4096, 262144>>[i]
  IN  [i \in 1..k |-> IF i = 1 THEN mark + sixes(k) ELSE 128 + (sixes(k - i + 1) % 64)]

(* One escape with four digits, in letters of either case. *)
HexDigit(d, ten) == IF d < 10 THEN 48 + d ELSE ten + d - 10
InHex(u, ten) ==
  <<Backslash, LetterU, HexDigit(u \div 4096, ten), HexDigit((u \div 256) % 16, ten),
    HexDigit((u \div 16) % 16, ten), HexDigit(u % 16, ten)>>
HighHalf(u) == 55296 + ((u - 65536) \div 1024)
LowHalf(u) == 56320 + ((u - 65536) % 1024)

(* How a JSON text may write a code point: by one escape or two, as it is, *)
(* or by a letter or a mark of its own.                                    *)
Tens == {65, 97}
Narrow(u) == u < 65536
Ways(u) ==
  {IF Narrow(u) THEN InHex(u, ten) ELSE InHex(HighHalf(u), ten) \o InHex(LowHalf(u), ten) :
     ten \in Tens}
  \cup (IF u < 32 \/ u \in {Quote, Backslash} THEN {} ELSE {InUtf8(u)})
  \cup {<<Backslash, c>> : c \in {d \in DOMAIN Controls : Controls[d] = u}}
  \cup (IF u \in {Quote, Slash, Backslash} THEN {<<Backslash, u>>} ELSE {})

(* The strings of at most MaxChars characters, each a sequence of code     *)
(* points with the way it is written; as JSON writes it behind its first   *)
(* quote, and its bytes in UTF-8.                                          *)
Spelled == {c \in Points \X UNION {Ways(u) : u \in Points} : c[2] \in Ways(c[1])}
SpelledTexts == UNION {[1..n -> Spelled] : n \in 0..MaxChars}
InJson(cs) == FlattenSeq([i \in DOMAIN cs |-> cs[i][2]])
Meaning(cs) == FlattenSeq([i \in DOMAIN cs |-> InUtf8(cs[i][1])])

-----------------------------------------------------------------------------
(***************************************************************************)
(* Numbers                                                                 *)
(***************************************************************************)

AreDigits(s) == s # <<>> /\ \A i \in DOMAIN s : s[i] \in DigitBytes
IsInt(s) == AreDigits(s) /\ (Len(s) > 1 => s[1] # Zero)
IsFrac(s) == s = <<>> \/ (s[1] = Dot /\ AreDigits(Tail(s)))
IsExp(s) ==
  s # <<>> => /\ s[1] \in ExpBytes
              /\ \/ AreDigits(Tail(s))
                 \/ Len(s) > 1 /\ s[2] \in {Plus, Minus} /\ AreDigits(SubSeq(s, 3, Len(s)))
Unsigned(s) == IF s[1] = Minus THEN Tail(s) ELSE s
IsNumber(s) ==
  LET u == Unsigned(s) IN
  \E i \in 0..Len(u) : \E j \in i..Len(u) :
    /\ IsInt(SubSeq(u, 1, i)) /\ IsFrac(SubSeq(u, i + 1, j)) /\ IsExp(SubSeq(u, j + 1, Len(u)))
IntValue(s) ==
  LET u == Unsigned(s)
      value[i \in 0..Len(u)] == IF i = 0 THEN 0 ELSE 10 * value[i - 1] + (u[i] - Zero)
  IN  IF s[1] = Minus THEN -value[Len(u)] ELSE value[Len(u)]

(* What begins like a number, and the bytes that may follow a value.       *)
NumberTexts ==
  {s \in UNION {[1..n -> Symbols] : n \in 1..MaxSymbols} : s[1] \in DigitBytes \cup {Minus}}
Delimiters == {9, 10, 13, 32, 44, 93, 125}

=============================================================================
