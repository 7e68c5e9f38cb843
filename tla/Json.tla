--------------------------------- MODULE Json ---------------------------------
(***************************************************************************)
(* The parser of src/src/json.c, json_parse_ex and json_value_free_ex, as  *)
(* options_parser.c uses it.  It reads the text twice: the first pass      *)
(* checks it, chains one value per JSON value through next_alloc and       *)
(* counts what each will hold; the second reads the same text again,       *)
(* reserves memory by these counts and fills it without looking at them.   *)
(*                                                                         *)
(* The text is a sequence of tokens.  The first pass picks them as it goes *)
(* (any text the file can hold), the second reads them back.  Whitespace   *)
(* and the byte order mark are skipped; an escape is part of its string;   *)
(* a number ends where the next token begins.                              *)
(***************************************************************************)
EXTENDS Integers, SequencesExt

CONSTANTS
  Strings,  \* the strings a text can hold, as a key or as a value
  StrLen,   \* their lengths in bytes
  Scalars,  \* numbers, true, false and null
  MaxText   \* bound on the tokens of a text

Punctuation == {"{", "}", "[", "]", ",", ":"}
Bad == "bad"  \* what no JSON text has: an unknown word, a string without end
Eof == "eof"
Tokens == Strings \cup Scalars \cup Punctuation \cup {Bad}

ASSUME JsonAssumption ==
  /\ StrLen \in [Strings -> Nat] /\ MaxText \in Nat
  /\ Strings \cap (Scalars \cup Punctuation \cup {Bad, Eof}) = {}
  /\ Scalars \cap (Punctuation \cup {Bad, Eof}) = {}

VARIABLES
  parser,  \* where json_parse_ex or json_value_free_ex stands
  text,    \* what the file holds, as far as it has been read
  pass,    \* first_pass: 1, then 0
  pos,     \* state.ptr: the tokens read in this pass
  flags,   \* flag_seek_value, flag_need_comma, flag_need_colon, flag_done
  val,     \* the values, in the order in which they were allocated
  top, root, alloc, cur,  \* json_value pointers, 0 for NULL
  oom      \* history: a malloc of the second pass has failed

scanVars == <<text, pass, pos, flags>>
jsonVars == <<parser, scanVars, val, top, root, alloc, cur, oom>>

(* A json_value as calloc and the first pass leave it.  length, kids and   *)
(* keys are its length and what its values block holds; room is the number *)
(* of entries (for a string: bytes before the final NUL) reserved for it,  *)
(* bytes and used the bytes of names counted and written; cell and block   *)
(* are its two pieces of memory, where a block of "none" means that the    *)
(* pointer to it is NULL.                                                  *)
Value(type, b) ==
  [type |-> type, lit |-> b, parent |-> top, next |-> 0,
   length |-> 0, kids |-> <<>>, keys |-> <<>>, bytes |-> 0, used |-> 0,
   room |-> 0, cell |-> "live", block |-> "none"]

Containers == {"object", "array"}
HasBlock(v) == v.block # "none"

JsonInit ==
  /\ parser = "idle" /\ text = <<>> /\ pass = 1 /\ pos = 0 /\ flags = {"seek"}
  /\ val = <<>> /\ top = 0 /\ root = 0 /\ alloc = 0 /\ cur = 0 /\ oom = FALSE

JsonParse ==
  /\ parser = "idle"
  /\ parser' = "parse"
  /\ UNCHANGED <<scanVars, val, top, root, alloc, cur, oom>>

-----------------------------------------------------------------------------
(***************************************************************************)
(* new_value                                                               *)
(***************************************************************************)

TypeOf(b) ==
  CASE b = "{" -> "object" [] b = "[" -> "array"
    [] b \in Strings -> "string" [] OTHER -> "scalar"

(* The second pass reserves a block for strings and what is not empty. *)
WantsBlock(v) == v.type = "string" \/ (v.type \in Containers /\ v.length # 0)

Reserve(v) ==
  IF WantsBlock(v)
  THEN [v EXCEPT !.block = "live", !.room = v.length, !.length = 0]
  ELSE v

(* The value new_value makes, or takes from the chain, and all values then. *)
NewId == IF pass = 1 THEN Len(val) + 1 ELSE alloc
NewVals(b) ==
  IF pass = 1
  THEN Append([i \in 1..Len(val) |->
                 IF i = alloc THEN [val[i] EXCEPT !.next = Len(val) + 1] ELSE val[i]],
              Value(TypeOf(b), b))
  ELSE [val EXCEPT ![alloc] = Reserve(@)]

NewPointers ==
  /\ root' = IF root = 0 THEN NewId ELSE root
  /\ alloc' = IF pass = 1 THEN NewId ELSE val[alloc].next

(***************************************************************************)
(* flag_next: value t of the values v is complete.  Its parent counts it,  *)
(* and in the second pass points to it.                                    *)
(***************************************************************************)
Attach(v, t) ==
  LET p == v[t].parent IN
  IF p = 0 THEN v
  ELSE [v EXCEPT ![p].length = @ + 1,
                 ![p].kids = IF pass = 1 THEN @ ELSE Append(@, t)]

Complete(v, t) ==
  LET p == v[t].parent IN
  /\ val' = Attach(v, t)
  /\ top' = IF p = 0 THEN t ELSE p
  /\ flags' = (flags \ {"seek"}) \cup {"comma"}
              \cup (IF p = 0 THEN {"done"}
                    ELSE IF v[p].type = "array" THEN {"seek"} ELSE {})

-----------------------------------------------------------------------------
(***************************************************************************)
(* The loop over the text, one token at a time.                            *)
(***************************************************************************)

(* The next token: any, or the one that the first pass has read here. *)
Read(b) ==
  /\ parser = "parse"
  /\ IF pass = 1 THEN b = Eof \/ Len(text) < MaxText
     ELSE b = IF pos < Len(text) THEN text[pos + 1] ELSE Eof

Advance(b) ==
  /\ text' = IF pass = 1 /\ b # Eof THEN Append(text, b) ELSE text
  /\ pos' = IF b = Eof THEN 0 ELSE pos + 1

In(type) == top # 0 /\ val[top].type = type

(* What the flags let each token do. *)
StartsValue(b) ==
  /\ "seek" \in flags /\ flags \cap {"comma", "colon"} = {}
  /\ b \in {"{", "["} \cup Strings \cup Scalars
IsKey(b) == "seek" \notin flags /\ In("object") /\ "comma" \notin flags /\ b \in Strings
Closes(b) ==
  \/ b = "]" /\ "seek" \in flags /\ In("array")
  \/ b = "}" /\ "seek" \notin flags /\ In("object")
Separates_Anywhere(b) == b = ","
Separates(b) == b = "," /\ "comma" \in flags
Colon(b) == b = ":" /\ "seek" \in flags /\ flags \cap {"comma", "colon"} = {"colon"}

Accepted(b) ==
  IF "done" \in flags THEN b = Eof
  ELSE StartsValue(b) \/ IsKey(b) \/ Closes(b) \/ Separates(b) \/ Colon(b)

OpenContainer(b) ==
  /\ b \in {"{", "["}
  /\ val' = NewVals(b) /\ top' = NewId /\ NewPointers
  /\ flags' = IF b = "[" THEN flags ELSE flags \ {"seek"}
  /\ UNCHANGED <<parser, pass, cur, oom>>

ReadScalar(b) ==
  /\ b \in Scalars
  /\ NewPointers
  /\ Complete(NewVals(b), NewId)
  /\ UNCHANGED <<parser, pass, cur, oom>>

(* The string and, at its closing quote, its length. *)
ReadString(b) ==
  /\ b \in Strings
  /\ NewPointers
  /\ Complete([NewVals(b) EXCEPT ![NewId].length = StrLen[b], ![NewId].lit = b], NewId)
  /\ UNCHANGED <<parser, pass, cur, oom>>

(* Forgets the NUL behind each name. *)
ReadKey_NoNul(b) ==
  /\ IF pass = 1
     THEN val' = [val EXCEPT ![top].bytes = @ + StrLen[b]]
     ELSE val' = [val EXCEPT ![top].keys = Append(@, b), ![top].used = @ + StrLen[b] + 1]
  /\ flags' = flags \cup {"seek", "colon"}
  /\ UNCHANGED <<parser, pass, top, root, alloc, cur, oom>>

(* A name: counted in the first pass, written behind the entries in the    *)
(* second.                                                                 *)
ReadKey(b) ==
  /\ IF pass = 1
     THEN val' = [val EXCEPT ![top].bytes = @ + StrLen[b] + 1]
     ELSE val' = [val EXCEPT ![top].keys = Append(@, b), ![top].used = @ + StrLen[b] + 1]
  /\ flags' = flags \cup {"seek", "colon"}
  /\ UNCHANGED <<parser, pass, top, root, alloc, cur, oom>>

CloseContainer ==
  /\ Complete(val, top)
  /\ UNCHANGED <<parser, pass, root, alloc, cur, oom>>

Separator(b) ==
  /\ flags' = flags \ {IF b = "," THEN "comma" ELSE "colon"}
  /\ UNCHANGED <<parser, pass, val, top, root, alloc, cur, oom>>

(* The second pass starts with the flags the first one ended with. *)
EndOfPass_KeepFlags ==
  /\ alloc' = root
  /\ IF pass = 1
     THEN /\ pass' = 0 /\ top' = 0 /\ root' = 0
          /\ UNCHANGED <<parser, flags>>
     ELSE /\ parser' = "value"
          /\ UNCHANGED <<pass, flags, top, root>>
  /\ UNCHANGED <<val, cur, oom>>

(* The end of the text, once the root value is done. *)
EndOfPass ==
  /\ alloc' = root
  /\ IF pass = 1
     THEN /\ pass' = 0 /\ top' = 0 /\ root' = 0 /\ flags' = {"seek"}
          /\ UNCHANGED parser
     ELSE /\ parser' = "value"
          /\ UNCHANGED <<pass, flags, top, root>>
  /\ UNCHANGED <<val, cur, oom>>

(* e_failed.  The token it stopped at is not recorded. *)
Rejected ==
  /\ parser' = "unwind"
  /\ alloc' = IF pass = 1 THEN root ELSE alloc
  /\ UNCHANGED <<scanVars, val, top, root, cur, oom>>

(* A malloc of new_value fails: e_alloc_failure.  In the second pass the   *)
(* value has by then left the chain, and its count is not yet reset.       *)
AllocFails ==
  /\ parser' = "unwind"
  /\ IF pass = 1
     THEN alloc' = root /\ UNCHANGED <<top, root, oom>>
     ELSE /\ WantsBlock(val[alloc])
          /\ top' = alloc /\ NewPointers /\ oom' = TRUE
  /\ UNCHANGED <<scanVars, val, cur>>

ParseToken(b) ==
  /\ Read(b)
  /\ \/ ~Accepted(b) /\ Rejected
     \/ StartsValue(b) /\ AllocFails
     \/ /\ Accepted(b) /\ Advance(b)
        /\ \/ StartsValue(b) /\ (OpenContainer(b) \/ ReadScalar(b) \/ ReadString(b))
           \/ IsKey(b) /\ ReadKey(b)
           \/ Closes(b) /\ CloseContainer
           \/ (Separates(b) \/ Colon(b)) /\ Separator(b)
           \/ b = Eof /\ EndOfPass

-----------------------------------------------------------------------------
(***************************************************************************)
(* Giving the memory back.                                                 *)
(***************************************************************************)

Freed(memory) == IF memory = "live" THEN "freed" ELSE "twice"

(* The loop of e_failed over the values still in the chain. *)
Unwind ==
  /\ parser = "unwind" /\ alloc # 0
  /\ val' = [val EXCEPT ![alloc].cell = Freed(@)]
  /\ alloc' = val[alloc].next
  /\ UNCHANGED <<parser, scanVars, top, root, cur, oom>>

(* Its end: what the second pass has taken from the chain is a tree. *)
Unwound ==
  /\ parser = "unwind" /\ alloc = 0
  /\ parser' = IF pass = 1 THEN "null" ELSE "undo"
  /\ cur' = IF pass = 1 THEN 0 ELSE root
  /\ UNCHANGED <<scanVars, val, top, root, alloc, oom>>

(* json_value_free of the tree that json_parse returned. *)
JsonValueFree ==
  /\ parser = "value"
  /\ parser' = "release"
  /\ cur' = root
  /\ UNCHANGED <<scanVars, val, top, root, alloc, oom>>

Freeing == parser \in {"undo", "release"}

(* Forgets to count the entry it goes into. *)
FreeDescend_Stays ==
  /\ Freeing /\ cur # 0
  /\ val[cur].type \in Containers /\ val[cur].length # 0
  /\ IF HasBlock(val[cur])
     THEN cur' = val[cur].kids[val[cur].length] /\ UNCHANGED parser
     ELSE parser' = "crashed" /\ UNCHANGED cur
  /\ UNCHANGED <<scanVars, val, top, root, alloc, oom>>

(* One turn of json_value_free_ex: into the last entry not yet freed, ...  *)
(* (which is read through the NULL that a failed malloc has left)          *)
FreeDescend ==
  /\ Freeing /\ cur # 0
  /\ val[cur].type \in Containers /\ val[cur].length # 0
  /\ IF HasBlock(val[cur])
     THEN /\ val' = [val EXCEPT ![cur].length = @ - 1]
          /\ cur' = val[cur].kids[val[cur].length]
          /\ UNCHANGED parser
     ELSE parser' = "crashed" /\ UNCHANGED <<val, cur>>
  /\ UNCHANGED <<scanVars, top, root, alloc, oom>>

(* Stays with the value it has freed. *)
FreeValue_NoParent ==
  /\ Freeing /\ cur # 0
  /\ val[cur].type \in Containers => val[cur].length = 0
  /\ val' = [val EXCEPT ![cur].cell = Freed(@),
                        ![cur].block = IF HasBlock(val[cur]) THEN Freed(@) ELSE @]
  /\ UNCHANGED <<parser, scanVars, top, root, alloc, cur, oom>>

(* ... or the value itself, its block first, and back to its parent. *)
FreeValue ==
  /\ Freeing /\ cur # 0
  /\ val[cur].type \in Containers => val[cur].length = 0
  /\ val' = [val EXCEPT ![cur].cell = Freed(@),
                        ![cur].block = IF HasBlock(val[cur]) THEN Freed(@) ELSE @]
  /\ cur' = val[cur].parent
  /\ UNCHANGED <<parser, scanVars, top, root, alloc, oom>>

FreeEnds ==
  /\ Freeing /\ cur = 0
  /\ parser' = IF parser = "undo" THEN "null" ELSE "freed"
  /\ UNCHANGED <<scanVars, val, top, root, alloc, cur, oom>>

(* What json_parse does by itself, and json_value_free. *)
ParseStep ==
  \/ \E b \in Tokens \cup {Eof} : ParseToken(b)
  \/ Unwind \/ Unwound
FreeStep == FreeDescend \/ FreeValue \/ FreeEnds

-----------------------------------------------------------------------------

JsonTypeOK ==
  /\ parser \in {"idle", "parse", "value", "unwind", "undo", "release",
                 "null", "freed", "crashed"}
  /\ text \in Seq(Tokens) /\ Len(text) <= MaxText
  /\ pass \in {0, 1} /\ pos \in 0..MaxText
  /\ flags \subseteq {"seek", "comma", "colon", "done"}
  /\ \A v \in {top, root, alloc, cur} : v \in 0..Len(val)
  /\ oom \in BOOLEAN
  /\ \A i \in 1..Len(val) :
       /\ val[i].type \in {"object", "array", "string", "scalar"}
       /\ val[i].parent \in 0..i - 1 /\ val[i].next \in {0, i + 1}
       /\ val[i].length \in Nat /\ val[i].bytes \in Nat /\ val[i].used \in Nat

(* The second pass gets through every text that the first one accepted,    *)
(* unless a malloc fails: it does not check for errors of its own, and     *)
(* relies on meeting the values of the first pass in their order           *)
(* (json.c:109-115, 261-269).                                              *)
PassesAgree ==
  pass = 0 /\ parser \in {"unwind", "undo", "null"} => oom

(* The second pass writes into the blocks it reserved by the counts of the *)
(* first pass without checking (json.c:407-417, 869-894).  It never writes *)
(* past their ends, and when it is done it has filled them, so that no     *)
(* reader of the tree meets an entry that was never written.               *)
BlocksFit ==
  pass = 0 =>
    \A i \in 1..Len(val) :
      LET v == val[i] IN
      /\ Len(v.keys) <= v.room /\ v.used <= v.bytes
      /\ HasBlock(v) => v.length <= v.room /\ Len(v.kids) <= v.room
      /\ parser = "value" =>
           /\ v.length = v.room
           /\ v.type \in Containers => Len(v.kids) = v.room
           /\ v.type = "object" => Len(v.keys) = v.room /\ v.used = v.bytes

(* Whatever the text and wherever the parser gives up, every value and     *)
(* every block is freed, and none twice (json.c:933-1003): by the chain     *)
(* when the first pass fails, by the walk through the tree when the caller *)
(* releases it.  Where a malloc of the second pass fails, the values not   *)
(* yet attached to the tree are left over, and a root without its block    *)
(* stops the walk; nothing is freed twice even then.                       *)
MemoryReturned ==
  /\ \A i \in 1..Len(val) : val[i].cell # "twice" /\ val[i].block # "twice"
  /\ parser \in {"null", "freed"} /\ ~oom =>
       \A i \in 1..Len(val) : val[i].cell = "freed" /\ val[i].block # "live"
  /\ parser = "crashed" => oom

(***************************************************************************)
(* What a tree writes.  w has the tokens of each value below v; a comma is *)
(* put behind each entry of a container, the last one too.                 *)
(***************************************************************************)
Item(v, w, k) ==
  (IF v.type = "object" THEN <<v.keys[k], ":">> ELSE <<>>) \o w[v.kids[k]] \o <<",">>
Items(v, w) == FlattenSeq([k \in 1..Len(v.kids) |-> Item(v, w, k)])
Writes(v, w) ==
  IF v.type = "object" THEN <<"{">> \o Items(v, w) \o <<"}">>
  ELSE IF v.type = "array" THEN <<"[">> \o Items(v, w) \o <<"]">>
  ELSE <<v.lit>>
written[i \in 1..Len(val)] == Writes(val[i], written)

(* A text with that comma, where it is not there yet. *)
CommaBefore(t, i) == t[i] \in {"}", "]"} /\ i > 1 /\ t[i - 1] \notin {"{", "[", ","}
Trailed(t) ==
  FlattenSeq([i \in 1..Len(t) |-> IF CommaBefore(t, i) THEN <<",", t[i]>> ELSE <<t[i]>>])

(* The tree that json_parse returns is the one its text writes: every      *)
(* value is where the text has it, in its order, under its name, and no    *)
(* text is accepted that writes no tree (json.c:407-417, 854-899).         *)
TreeIsText == parser = "value" => written[root] = Trailed(text)

=============================================================================
