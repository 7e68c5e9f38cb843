----------------------------- MODULE JsonProofs -----------------------------
(***************************************************************************)
(* What the two passes of the parser of Json and the walks that free its   *)
(* values keep true, for any strings, scalars and bound on the text.       *)
(*                                                                         *)
(* The first pass leaves a history h: what it knew after each token of the *)
(* text (its flags, the value it was in, the values made and what it had   *)
(* counted for each).  The second pass, which checks nothing, is shown to  *)
(* go through the same history: it is at h[pos], has taken the values that *)
(* h[pos] had made, and each of their blocks is filled up to the counts of *)
(* h[pos] and has room for the counts at the end.  Beside h goes O, the    *)
(* containers not yet closed.  The walk that frees the tree goes with A,   *)
(* the values it has entered and not left.                                 *)
(*                                                                         *)
(* At last the tree is compared with the text.  Half of a tree writes half *)
(* of a text: what comes before the innermost container that is open, what *)
(* it has so far, and the name that waits for its value.  Each token makes *)
(* both longer by the same.                                                *)
(***************************************************************************)
EXTENDS Json, DataInduction, WellFoundedInduction, TLAPS

Flags == {"seek", "comma", "colon", "done"}
Leaves == Strings \cup Scalars
Openers == {"{", "["}
Memory == {"live", "freed", "twice"}

Values ==
  [type : Containers \cup {"string", "scalar"}, lit : Tokens,
   parent : Nat, next : Nat, length : Nat, kids : Seq(Nat), keys : Seq(Strings),
   bytes : Nat, used : Nat, room : Nat, cell : Memory, block : Memory \cup {"none"}]

(* The values form a chain in the order of their numbers, and a tree by    *)
(* their parents, in which parents come before their children.             *)
Shape(v) ==
  /\ v \in Seq(Values)
  /\ \A i \in 1..Len(v) :
       /\ v[i].next = IF i < Len(v) THEN i + 1 ELSE 0
       /\ v[i].parent \in 0..i - 1
       /\ v[i].parent = 0 => i = 1
       /\ v[i].parent # 0 => v[v[i].parent].type \in Containers
       /\ v[i].type = "scalar" => v[i].lit \in Scalars
       /\ v[i].type = "string" => v[i].lit \in Strings

Kid(v, i, j) == \E k \in 1..Len(v[i].kids) : v[i].kids[k] = j

(* What a block points to are children of its value, each once. *)
KidsKnown(v) ==
  \A i \in 1..Len(v) :
    /\ v[i].type \notin Containers => v[i].kids = <<>>
    /\ \A k \in 1..Len(v[i].kids) :
         /\ v[i].kids[k] \in 1..Len(v) /\ v[v[i].kids[k]].parent = i
         /\ \A l \in 1..Len(v[i].kids) : v[i].kids[k] = v[i].kids[l] => k = l

Typed ==
  /\ parser \in {"idle", "parse", "value", "unwind", "undo", "release",
                 "null", "freed", "crashed"}
  /\ text \in Seq(Tokens) /\ Len(text) <= MaxText
  /\ pass \in {0, 1} /\ pos \in 0..Len(text)
  /\ flags \in SUBSET Flags
  /\ top \in 0..Len(val) /\ root \in 0..Len(val)
  /\ alloc \in 0..Len(val) /\ cur \in 0..Len(val)
  /\ oom \in BOOLEAN

-----------------------------------------------------------------------------
(***************************************************************************)
(* What a pass knows after some tokens: the flags, the value it is in, how *)
(* many values it has made, and what it has counted for each.  (Number 0   *)
(* takes what is counted for the parent of the root.)                      *)
(***************************************************************************)

Counts == [Nat -> Nat]
Scans ==
  [flags : SUBSET Flags, top : Nat, made : Nat, length : Counts, bytes : Counts, keys : Counts]

Zeros == [j \in Nat |-> 0]
Start ==
  [flags |-> {"seek"}, top |-> 0, made |-> 0, length |-> Zeros, bytes |-> Zeros, keys |-> Zeros]

Starts(s) == "seek" \in s.flags /\ s.flags \cap {"comma", "colon", "done"} = {}
Inside(v, s, type) == s.top # 0 /\ v[s.top].type = type

(* The next value of v, and token b starts it. *)
Made(v, s, b) ==
  /\ v[s.made + 1].type = TypeOf(b) /\ v[s.made + 1].lit = b /\ v[s.made + 1].parent = s.top

(* The flags and the value the pass is in, once value i is complete. *)
EndTop(v, i) == IF v[i].parent = 0 THEN i ELSE v[i].parent
EndFlags(v, old, i) ==
  (old \ {"seek"}) \cup {"comma"}
  \cup (IF v[i].parent = 0 THEN {"done"}
        ELSE IF v[v[i].parent].type = "array" THEN {"seek"} ELSE {})

(* g counts n more for value k than f. *)
Adds(f, g, k, n) == \A j \in Nat : g[j] = f[j] + IF j = k THEN n ELSE 0

(* From s, token b leads to t. *)
Opens(v, s, b, t) ==
  /\ b \in {"{", "["} /\ Starts(s) /\ Made(v, s, b)
  /\ t.flags = IF b = "[" THEN s.flags ELSE s.flags \ {"seek"}
  /\ t.top = s.made + 1 /\ t.made = s.made + 1
  /\ t.length = s.length /\ t.bytes = s.bytes /\ t.keys = s.keys
IsLeaf(v, s, b, t) ==
  /\ b \in Leaves /\ Starts(s) /\ Made(v, s, b)
  /\ t.flags = EndFlags(v, s.flags, s.made + 1)
  /\ t.top = EndTop(v, s.made + 1) /\ t.made = s.made + 1
  /\ \A j \in Nat : t.length[j] = IF j = s.made + 1 THEN (IF b \in Strings THEN StrLen[b] ELSE 0)
                                  ELSE s.length[j] + IF j = s.top THEN 1 ELSE 0
  /\ t.bytes = s.bytes /\ t.keys = s.keys
Names(v, s, b, t) ==
  /\ b \in Strings /\ s.flags \cap {"seek", "comma", "done"} = {} /\ Inside(v, s, "object")
  /\ t.flags = s.flags \cup {"seek", "colon"}
  /\ t.top = s.top /\ t.made = s.made /\ t.length = s.length
  /\ Adds(s.bytes, t.bytes, s.top, StrLen[b] + 1) /\ Adds(s.keys, t.keys, s.top, 1)
Ends(v, s, b, t) ==
  /\ "done" \notin s.flags
  /\ \/ b = "]" /\ "seek" \in s.flags /\ Inside(v, s, "array")
     \/ b = "}" /\ "seek" \notin s.flags /\ Inside(v, s, "object")
  /\ t.flags = EndFlags(v, s.flags, s.top)
  /\ t.top = EndTop(v, s.top) /\ t.made = s.made
  /\ Adds(s.length, t.length, v[s.top].parent, 1)
  /\ t.bytes = s.bytes /\ t.keys = s.keys
Parts(v, s, b, t) ==
  /\ "done" \notin s.flags
  /\ \/ b = "," /\ "comma" \in s.flags
     \/ b = ":" /\ "seek" \in s.flags /\ s.flags \cap {"comma", "colon"} = {"colon"}
  /\ t.flags = s.flags \ {IF b = "," THEN "comma" ELSE "colon"}
  /\ t.top = s.top /\ t.made = s.made
  /\ t.length = s.length /\ t.bytes = s.bytes /\ t.keys = s.keys

Moves(v, s, b, t) ==
  Opens(v, s, b, t) \/ IsLeaf(v, s, b, t) \/ Names(v, s, b, t) \/ Ends(v, s, b, t) \/ Parts(v, s, b, t)

(* The containers not yet closed, O: from the root to the value the pass   *)
(* is in, each the parent of the next.                                     *)
OpenStack(v, O, s) ==
  /\ O \subseteq 1..s.made /\ s.top \in 0..s.made
  /\ "done" \in s.flags =>
       O = {} /\ s.made >= 1 /\ "comma" \in s.flags /\ "seek" \notin s.flags
  /\ "done" \notin s.flags =>
       IF s.made = 0 THEN s.top = 0 ELSE s.top \in O
  /\ \A k \in O : k <= s.top /\ v[k].type \in Containers /\ v[k].parent \in O \cup {0}
  /\ \A k, l \in O : k < l => k <= v[l].parent

(* The containers not yet closed after token b. *)
Opened(O, s, b) ==
  IF b \in {"{", "["} THEN O \cup {s.made + 1}
  ELSE IF b \in {"}", "]"} THEN O \ {s.top} ELSE O

(* An object has as many names as values, and one more while it waits for  *)
(* the value of the last one, or has that value open.                      *)
Fresh(s) == \A j \in Nat : j > s.made => s.length[j] = 0 /\ s.keys[j] = 0 /\ s.bytes[j] = 0
Waits(O, s, j) == j \in O /\ (j # s.top \/ "seek" \in s.flags)
Paired(v, O, s) ==
  /\ \A j \in 1..s.made :
       /\ v[j].type = "object" => s.keys[j] = s.length[j] + IF Waits(O, s, j) THEN 1 ELSE 0
       /\ v[j].type # "object" => s.keys[j] = 0
       /\ v[j].type = "scalar" => s.length[j] = 0
  /\ Fresh(s)

(* s has counted no more than f. *)
Below(s, f) ==
  /\ s.made <= f.made
  /\ \A j \in Nat : s.length[j] <= f.length[j] /\ s.keys[j] <= f.keys[j]
                    /\ s.bytes[j] <= f.bytes[j]

(* h tells what the first pass has known after each token of the text. *)
Run(h) ==
  /\ h \in [Nat -> Scans] /\ h[0] = Start
  /\ h[Len(text)].made = Len(val)
  /\ \A i \in 1..Len(text) : Moves(val, h[i - 1], text[i], h[i])
  /\ \A i \in 0..Len(text) : Below(h[i], h[Len(text)]) /\ h[i].top <= h[i].made /\ Fresh(h[i])

Unfilled(v) ==
  v.kids = <<>> /\ v.keys = <<>> /\ v.used = 0 /\ v.room = 0 /\ v.block = "none"

At(s) == flags = s.flags /\ top = s.top /\ root = IF s.made = 0 THEN 0 ELSE 1

FirstPass(h, O) ==
  LET s == h[Len(text)] IN
  /\ Run(h) /\ OpenStack(val, O, s) /\ Paired(val, O, s) /\ At(s)
  /\ pos = Len(text) /\ alloc = s.made
  /\ \A j \in 1..Len(val) :
       /\ val[j].length = s.length[j] /\ val[j].bytes = s.bytes[j]
       /\ Unfilled(val[j]) /\ val[j].cell = "live"

(* A value the second pass has taken, and for which it has counted n.      *)
Wants(j, f) ==
  val[j].type = "string" \/ (val[j].type \in Containers /\ f.length[j] # 0)
Filling(j, s, f) ==
  /\ val[j].room = (IF Wants(j, f) THEN f.length[j] ELSE 0)
  /\ val[j].block = (IF Wants(j, f) THEN "live" ELSE "none")
  /\ val[j].length = s.length[j]
  /\ val[j].type \in Containers => Len(val[j].kids) = s.length[j]
  /\ Len(val[j].keys) = s.keys[j] /\ val[j].used = s.bytes[j]
Halfway(j, s, f) ==
  /\ val[j].bytes = f.bytes[j] /\ val[j].cell = "live"
  /\ IF j <= s.made THEN Filling(j, s, f) ELSE val[j].length = f.length[j] /\ Unfilled(val[j])

Attached(O, s) ==
  /\ \A j \in 2..s.made : j \in O \/ Kid(val, val[j].parent, j)
  /\ \A i, j \in 1..Len(val) : Kid(val, i, j) => j <= s.made /\ j \notin O

SecondPass(h, O) ==
  LET s == h[pos]  f == h[Len(text)] IN
  /\ Run(h) /\ OpenStack(val, O, s) /\ At(s) /\ Attached(O, s)
  /\ Paired(val, {}, f) /\ "done" \in f.flags /\ "seek" \notin f.flags
  /\ alloc = IF s.made < f.made THEN s.made + 1 ELSE 0
  /\ \A j \in 1..Len(val) : Halfway(j, s, f)

-----------------------------------------------------------------------------
(***************************************************************************)
(* After the passes: the finished tree, the two ways to give up, and the   *)
(* walk.                                                                   *)
(***************************************************************************)

(* What is in a block fits into it, and an entry that is counted is there. *)
Fits(v) ==
  /\ Len(v.keys) <= v.room /\ v.used <= v.bytes
  /\ HasBlock(v) => v.length <= v.room /\ Len(v.kids) <= v.room
  /\ v.type \in Containers /\ HasBlock(v) => v.length <= Len(v.kids)

(* A value's two pieces of memory go together. *)
Sound(v) ==
  \/ v.cell = "live" /\ v.block \in {"none", "live"}
  \/ v.cell = "freed" /\ v.block \in {"none", "freed"}

AllFreed == \A j \in 1..Len(val) : val[j].cell = "freed" /\ val[j].block # "live"

(* The second pass is at its end. *)
Built ==
  /\ pass = 0 /\ ~oom /\ root = 1 /\ Len(val) >= 1
  /\ \A j \in 1..Len(val) :
       LET v == val[j] IN
       /\ v.cell = "live" /\ v.length = v.room
       /\ v.type \in Containers => Len(v.kids) = v.room /\ (v.length # 0 => HasBlock(v))
       /\ v.type = "object" => Len(v.keys) = v.room /\ v.used = v.bytes
       /\ j # 1 => Kid(val, v.parent, j)

(* The first pass has failed: the values before alloc are freed. *)
UnwindsFirst ==
  /\ pass = 1 /\ ~oom
  /\ \A j \in 1..Len(val) :
       /\ val[j].cell = IF alloc # 0 /\ j >= alloc THEN "live" ELSE "freed"
       /\ val[j].block = "none"

(* A malloc of the second pass has failed, for value m: those behind it    *)
(* are freed, from the first on.                                           *)
UnwindsSecond(m) ==
  /\ pass = 0 /\ oom /\ root = 1 /\ m \in 1..Len(val)
  /\ alloc # 0 => alloc > m
  /\ \A j \in 1..Len(val) :
       /\ val[j].cell = IF j > m /\ (alloc = 0 \/ j < alloc) THEN "freed" ELSE "live"
       /\ j > m => val[j].block = "none"
  /\ \A i, j \in 1..Len(val) : Kid(val, i, j) => j <= m

(* A, the values from the root to cur, are those the walk has entered and  *)
(* not left; every entry that a live container still counts is live and    *)
(* has not been entered.  Without a failure, what is live and has not been *)
(* entered is such an entry.                                               *)
Entry(v, i, j) ==
  v[i].type \in Containers /\ HasBlock(v[i]) /\ \E k \in 1..v[i].length : v[i].kids[k] = j
Walks(A) ==
  /\ A \subseteq 1..Len(val)
  /\ IF cur = 0 THEN A = {} ELSE cur \in A
  /\ \A k \in A : k <= cur /\ val[k].cell = "live" /\ val[k].parent \in A \cup {0}
  /\ \A k, l \in A : k < l => k <= val[l].parent
  /\ \A i, j \in 1..Len(val) :
       val[i].cell = "live" /\ Entry(val, i, j) => val[j].cell = "live" /\ j \notin A
  /\ ~oom =>
       \A j \in 1..Len(val) :
         /\ val[j].cell = "live" /\ j \notin A =>
              val[j].parent # 0 /\ val[val[j].parent].cell = "live" /\ Entry(val, val[j].parent, j)
         /\ val[j].type \in Containers /\ val[j].length # 0 => HasBlock(val[j])

Stages ==
  /\ parser = "idle" =>
       /\ val = <<>> /\ text = <<>> /\ pass = 1 /\ pos = 0 /\ flags = {"seek"}
       /\ top = 0 /\ root = 0 /\ alloc = 0 /\ ~oom
  /\ parser = "parse" =>
       ~oom /\ IF pass = 1 THEN \E h, O : FirstPass(h, O) ELSE \E h, O : SecondPass(h, O)
  /\ parser = "value" => Built
  /\ parser = "unwind" => IF pass = 1 THEN UnwindsFirst ELSE \E m : UnwindsSecond(m)
  /\ Freeing => pass = 0 /\ (oom <=> parser = "undo") /\ \E A : Walks(A)
  /\ parser = "freed" => pass = 0 /\ ~oom /\ AllFreed
  /\ parser = "null" => IF pass = 1 THEN ~oom /\ AllFreed ELSE oom
  /\ parser = "crashed" => pass = 0 /\ oom

Held == \A j \in 1..Len(val) : Sound(val[j]) /\ (pass = 0 => Fits(val[j]))

JsonInv == Typed /\ Shape(val) /\ KidsKnown(val) /\ Held /\ Stages

-----------------------------------------------------------------------------
(***************************************************************************)
(* One token.                                                              *)
(***************************************************************************)

(* A string is no scalar and no punctuation, and each token has its type. *)
LEMMA TokenKinds ==
  /\ \A b \in Strings : b \notin Scalars \cup {"{", "[", "}", "]", ",", ":"}
  /\ \A b \in Scalars : b \notin {"{", "[", "}", "]", ",", ":"}
  /\ \A b \in Strings : TypeOf(b) = "string"
  /\ \A b \in Scalars : TypeOf(b) = "scalar"
  /\ TypeOf("{") = "object" /\ TypeOf("[") = "array"
BY JsonAssumption DEF TypeOf, Punctuation

(* The tokens that start a value. *)
LEMMA TypesOfTokens ==
  ASSUME NEW b \in Leaves \cup Openers
  PROVE  /\ TypeOf(b) \in Containers \cup {"string", "scalar"} /\ b \in Tokens
         /\ TypeOf(b) = "scalar" => b \in Scalars
         /\ TypeOf(b) = "string" => b \in Strings
<1>1. b \in Tokens
  BY DEF Leaves, Openers, Tokens, Punctuation
<1> QED
  BY <1>1, TokenKinds DEF Leaves, Openers, Containers

(* A value that ends is no longer among the open ones, and what it ends in *)
(* is the innermost of the rest.                                           *)
LEMMA StackEnds ==
  ASSUME NEW v, Shape(v), NEW s \in Scans, NEW O, OpenStack(v, O, s), "done" \notin s.flags,
         s.made >= 1, s.made <= Len(v), NEW t \in Scans,
         t.flags = EndFlags(v, s.flags, s.top), t.top = EndTop(v, s.top), t.made = s.made
  PROVE  OpenStack(v, O \ {s.top}, t)
<1> DEFINE p == v[s.top].parent
<1>0. s.made \in Nat /\ s.top \in Nat /\ t.top \in Nat /\ Len(v) \in Nat
  BY DEF Scans, Shape
<1>1. s.top \in O /\ s.top \in 1..s.made /\ s.top \in 1..Len(v)
  BY <1>0 DEF OpenStack
<1>2. p \in 0..s.top - 1 /\ p \in O \cup {0}
  BY <1>0, <1>1 DEF OpenStack, Shape
<1>3. ASSUME NEW k \in O \ {s.top} PROVE k \in Nat /\ k >= 1 /\ k < s.top /\ k <= p
  <2>1. k \in 1..s.made /\ k <= s.top
    BY DEF OpenStack
  <2>2. k < s.top /\ s.top \in O
    BY <1>0, <1>1, <2>1
  <2>3. k <= v[s.top].parent
    BY <2>2 DEF OpenStack
  <2> QED
    BY <1>0, <2>1, <2>2, <2>3
<1>4. ASSUME NEW k \in O \ {s.top}
      PROVE  v[k].type \in Containers /\ v[k].parent \in (O \ {s.top}) \cup {0}
  <2>1. k \in 1..Len(v) /\ k < s.top
    BY <1>0, <1>1, <1>3 DEF OpenStack
  <2>2. v[k].parent \in 0..k - 1
    BY <2>1 DEF Shape
  <2> QED
    BY <1>0, <2>1, <2>2 DEF OpenStack
<1>5. \A k, l \in O \ {s.top} : k < l => k <= v[l].parent
  BY DEF OpenStack
<1>6. CASE p = 0
  <2>1. O \ {s.top} = {}
    BY <1>3, <1>6
  <2>2. p = 0 => s.top = 1
    BY <1>1 DEF Shape
  <2> QED
    BY <2>1, <2>2, <1>1, <1>6 DEF OpenStack, EndFlags, EndTop
<1>7. CASE p # 0
  <2>1. t.top = p /\ p \in O \ {s.top} /\ "done" \notin t.flags
    BY <1>1, <1>2, <1>7 DEF EndTop, EndFlags
  <2> QED
    <3>1. O \ {s.top} \subseteq 1..t.made
      BY DEF OpenStack
    <3>3. t.top \in 0..t.made
      BY <1>0, <1>1, <1>2, <2>1
    <3>2. \A k \in O \ {s.top} : k <= t.top
      BY <1>3, <2>1
    <3> QED
      BY <1>0, <1>1, <1>4, <1>5, <2>1, <3>1, <3>2, <3>3 DEF OpenStack
<1> QED
  BY <1>6, <1>7

(* Every token keeps the open containers a path from the root to the value *)
(* the pass is in.                                                         *)
LEMMA StackMoves ==
  ASSUME NEW v, Shape(v), NEW s \in Scans, NEW t \in Scans, NEW b, NEW O, OpenStack(v, O, s),
         Moves(v, s, b, t), t.made <= Len(v)
  PROVE  OpenStack(v, Opened(O, s, b), t)
<1>1. CASE Opens(v, s, b, t)
  <2> DEFINE m == s.made + 1
  <2>1. Opened(O, s, b) = O \cup {m} /\ t.top = m /\ t.made = m /\ "done" \notin t.flags
    BY <1>1 DEF Opens, Opened, Starts
  <2>2. v[m].type \in Containers /\ v[m].parent = s.top
    BY <1>1, TokenKinds DEF Opens, Made, Containers
  <2>3. "done" \notin s.flags /\ s.made \in Nat
    BY <1>1 DEF Opens, Starts, Scans
  <2>4. s.top \in O \cup {0}
    BY <2>3 DEF OpenStack
  <2>5. \A k \in O : k <= s.top /\ k < m
    BY <2>3 DEF OpenStack
  <2>6. \A k, l \in O \cup {m} : k < l => k <= v[l].parent
    BY <2>2, <2>3, <2>5 DEF OpenStack
  <2> QED
    BY <2>1, <2>2, <2>3, <2>4, <2>5, <2>6 DEF OpenStack
<1>2. CASE IsLeaf(v, s, b, t)
  <2> DEFINE m == s.made + 1
  <2>1. Opened(O, s, b) = O
    BY <1>2, TokenKinds DEF IsLeaf, Opened, Leaves
  <2>2. "done" \notin s.flags /\ s.made \in Nat
    BY <1>2 DEF IsLeaf, Starts, Scans
  <2>3. m \in 1..Len(v) /\ v[m].parent = s.top /\ t.made = m
    BY <1>2, <2>2 DEF IsLeaf, Made, Scans
  <2>4. CASE s.top = 0
    <3>1. O = {}
      BY <2>2, <2>4 DEF OpenStack
    <3>2. m = 1 /\ t.top = m
      BY <1>2, <2>3, <2>4 DEF Shape, IsLeaf, EndTop
    <3> QED
      BY <1>2, <2>1, <2>3, <2>4, <3>1, <3>2 DEF OpenStack, IsLeaf, EndFlags
  <2>5. CASE s.top # 0
    <3>1. t.top = s.top /\ "done" \notin t.flags
      BY <1>2, <2>2, <2>3, <2>5 DEF IsLeaf, EndTop, EndFlags
    <3>2. s.top \in O /\ s.made >= 1
      BY <2>2, <2>5 DEF OpenStack
    <3> QED
      BY <2>1, <2>2, <2>3, <2>5, <3>1, <3>2 DEF OpenStack
  <2> QED
    BY <2>4, <2>5
<1>3. CASE Names(v, s, b, t)
  <2>1. Opened(O, s, b) = O
    BY <1>3, TokenKinds DEF Names, Opened
  <2> QED
    BY <1>3, <2>1 DEF Names, OpenStack
<1>4. CASE Ends(v, s, b, t)
  <2>1. Opened(O, s, b) = O \ {s.top}
    BY <1>4 DEF Ends, Opened
  <2>2. s.made \in Nat /\ s.made >= 1 /\ s.made <= Len(v) /\ t.made = s.made
    <3>1. s.made \in Nat /\ s.top # 0 /\ s.top \in 0..s.made
      BY <1>4 DEF Ends, Inside, OpenStack, Scans
    <3>2. t.made = s.made
      BY <1>4 DEF Ends
    <3> QED
      BY <3>1, <3>2
  <2>3. "done" \notin s.flags /\ t.flags = EndFlags(v, s.flags, s.top) /\ t.top = EndTop(v, s.top)
    BY <1>4 DEF Ends
  <2> QED
    BY <2>1, <2>2, <2>3, StackEnds
<1>5. CASE Parts(v, s, b, t)
  <2>1. Opened(O, s, b) = O
    BY <1>5 DEF Parts, Opened
  <2> QED
    BY <1>5, <2>1 DEF Parts, OpenStack
<1> QED
  BY <1>1, <1>2, <1>3, <1>4, <1>5 DEF Moves

(* What a pass has counted. *)
LEMMA CountsAreNumbers ==
  ASSUME NEW s \in Scans
  PROVE  \A j \in Nat : s.length[j] \in Nat /\ s.keys[j] \in Nat /\ s.bytes[j] \in Nat
BY DEF Scans, Counts

(* The names of each object keep up with its values. *)
LEMMA PairMoves ==
  ASSUME NEW v, Shape(v), NEW s \in Scans, NEW t \in Scans, NEW b, NEW O, OpenStack(v, O, s),
         Paired(v, O, s), Moves(v, s, b, t), t.made <= Len(v)
  PROVE  Paired(v, Opened(O, s, b), t)
<1>0. s.made \in Nat /\ s.top \in Nat /\ Len(v) \in Nat
  BY DEF Scans, Shape
<1>f. \A j \in Nat : s.length[j] \in Nat /\ s.keys[j] \in Nat /\ s.bytes[j] \in Nat
  BY CountsAreNumbers
<1> DEFINE m == s.made + 1
<1>1. CASE Opens(v, s, b, t)
  <2>1. Opened(O, s, b) = O \cup {m} /\ t.made = m /\ t.top = m
    BY <1>1 DEF Opens, Opened
  <2>2. t.length = s.length /\ t.keys = s.keys /\ t.bytes = s.bytes
    BY <1>1 DEF Opens
  <2>3. "seek" \in s.flags
    BY <1>1 DEF Opens, Starts
  <2>4. ASSUME NEW j \in 1..s.made PROVE Waits(O \cup {m}, t, j) <=> Waits(O, s, j)
    BY <1>0, <2>1, <2>3 DEF Waits
  <2>5. v[m].type = "object" => "seek" \notin t.flags
    BY <1>1, TokenKinds DEF Opens, Made
  <2>6. v[m].type \in Containers
    BY <1>1, TokenKinds DEF Opens, Made, Containers
  <2>7. v[m].type = "object" => ~Waits(O \cup {m}, t, m)
    BY <2>1, <2>5 DEF Waits
  <2>8. s.length[m] = 0 /\ s.keys[m] = 0
    BY <1>0 DEF Paired, Fresh
  <2>9. \A j \in 1..m :
          /\ v[j].type = "object" => t.keys[j] = t.length[j] + IF Waits(O \cup {m}, t, j) THEN 1 ELSE 0
          /\ v[j].type # "object" => t.keys[j] = 0
          /\ v[j].type = "scalar" => t.length[j] = 0
    <3> TAKE j \in 1..m
    <3>1. CASE j = m
      BY <3>1, <2>2, <2>6, <2>7, <2>8 DEF Containers
    <3>2. CASE j # m
      <4>1. j \in 1..s.made
        BY <3>2, <1>0
      <4> QED
        BY <4>1, <2>2, <2>4 DEF Paired, Fresh
    <3> QED
      BY <3>1, <3>2
  <2>10. \A j \in Nat : j > m => t.length[j] = 0 /\ t.keys[j] = 0 /\ t.bytes[j] = 0
    BY <1>0, <2>2 DEF Paired, Fresh
  <2> QED
    BY <2>1, <2>9, <2>10 DEF Paired, Fresh
<1>2. CASE IsLeaf(v, s, b, t)
  <2>1. Opened(O, s, b) = O /\ t.made = m
    BY <1>2, TokenKinds DEF IsLeaf, Opened, Leaves
  <2>2. /\ t.keys = s.keys /\ t.bytes = s.bytes
        /\ \A j \in Nat : t.length[j] = IF j = m THEN (IF b \in Strings THEN StrLen[b] ELSE 0)
                                         ELSE s.length[j] + IF j = s.top THEN 1 ELSE 0
    BY <1>2 DEF IsLeaf
  <2>3. "seek" \in s.flags /\ "done" \notin s.flags
    BY <1>2 DEF IsLeaf, Starts
  <2>4. m \in 1..Len(v) /\ v[m].parent = s.top /\ v[m].type = TypeOf(b)
    BY <1>0, <1>2, <2>1 DEF IsLeaf, Made
  <2>5. s.top # m /\ (s.top # 0 => s.top \in O /\ v[s.top].type \in Containers)
    BY <1>0, <2>3 DEF OpenStack
  <2>6. v[m].type # "object" /\ (v[m].type = "scalar" => b \notin Strings)
    BY <1>2, <2>4, TokenKinds DEF IsLeaf, Leaves
  <2>7. /\ s.top # 0 => t.top = s.top
        /\ s.top # 0 /\ v[s.top].type = "object" => "seek" \notin t.flags
    BY <1>2, <2>4 DEF IsLeaf, EndTop, EndFlags
  <2>8. ASSUME NEW j \in 1..m
        PROVE  /\ v[j].type = "object" => t.keys[j] = t.length[j] + IF Waits(O, t, j) THEN 1 ELSE 0
               /\ v[j].type # "object" => t.keys[j] = 0
               /\ v[j].type = "scalar" => t.length[j] = 0
    <3>1. CASE j = m
      BY <3>1, <1>0, <1>f, <2>2, <2>5, <2>6 DEF Paired, Fresh
    <3>2. CASE j = s.top
      <4>1. j \in 1..s.made /\ j \in O /\ v[j].type \in Containers /\ t.top = j
        BY <1>0, <2>5, <2>7, <3>2
      <4>2. t.length[j] = s.length[j] + 1 /\ t.keys[j] = s.keys[j]
        BY <1>0, <1>f, <2>2, <2>5, <3>2
      <4>3. Waits(O, s, j) /\ (v[j].type = "object" => ~Waits(O, t, j))
        BY <2>3, <2>7, <3>2, <4>1 DEF Waits
      <4>4. s.length[j] \in Nat /\ s.keys[j] \in Nat
        BY <1>0, <1>f
      <4> QED
        BY <4>1, <4>2, <4>3, <4>4 DEF Paired, Fresh, Containers
    <3>3. CASE j # m /\ j # s.top
      <4>1. j \in 1..s.made
        BY <1>0, <3>3
      <4>2. t.length[j] = s.length[j] /\ t.keys[j] = s.keys[j]
        BY <1>0, <1>f, <2>2, <3>3
      <4>3. s.top = 0 => O = {}
        BY <2>3, <1>0 DEF OpenStack
      <4>4. Waits(O, s, j) <=> Waits(O, t, j)
        BY <2>7, <3>3, <4>3 DEF Waits
      <4> QED
        BY <4>1, <4>2, <4>4 DEF Paired, Fresh
    <3> QED
      BY <3>1, <3>2, <3>3
  <2>9. \A j \in Nat : j > m => t.length[j] = 0 /\ t.keys[j] = 0 /\ t.bytes[j] = 0
    <3> SUFFICES ASSUME NEW j \in Nat, j > m
                 PROVE  t.length[j] = 0 /\ t.keys[j] = 0 /\ t.bytes[j] = 0
      OBVIOUS
    <3>1. j > s.made
      BY <1>0
    <3>2. s.length[j] = 0 /\ s.keys[j] = 0 /\ s.bytes[j] = 0
      BY <3>1 DEF Paired, Fresh
    <3>3. j # m /\ j # s.top
      BY <1>0, <3>1 DEF OpenStack
    <3>4. t.length[j] = s.length[j] + 0
      BY <2>2, <3>3
    <3> QED
      BY <2>2, <3>2, <3>4
  <2> QED
    BY <2>1, <2>8, <2>9 DEF Paired, Fresh
<1>3. CASE Names(v, s, b, t)
  <2>1. Opened(O, s, b) = O /\ t.made = s.made /\ t.top = s.top
    BY <1>3, TokenKinds DEF Names, Opened
  <2>2. /\ "seek" \notin s.flags /\ "seek" \in t.flags
        /\ s.top \in O /\ s.top \in 1..s.made /\ v[s.top].type = "object"
    BY <1>0, <1>3 DEF Names, Inside, OpenStack
  <2>3. /\ t.length = s.length
        /\ \A j \in Nat : t.keys[j] = s.keys[j] + (IF j = s.top THEN 1 ELSE 0)
        /\ \A j \in Nat : j # s.top => t.bytes[j] = s.bytes[j]
    BY <1>0, <1>f, <1>3 DEF Names, Adds
  <2>4. ASSUME NEW j \in 1..s.made
        PROVE  /\ v[j].type = "object" => t.keys[j] = t.length[j] + IF Waits(O, t, j) THEN 1 ELSE 0
               /\ v[j].type # "object" => t.keys[j] = 0
               /\ v[j].type = "scalar" => t.length[j] = 0
    <3>1. CASE j = s.top
      BY <3>1, <1>0, <1>f, <2>1, <2>2, <2>3 DEF Paired, Fresh, Waits
    <3>2. CASE j # s.top
      <4>1. j \in Nat
        BY <1>0
      <4>2. t.keys[j] = s.keys[j] + 0
        BY <2>3, <3>2, <4>1
      <4>3. t.keys[j] = s.keys[j] /\ t.length[j] = s.length[j]
        BY <1>f, <2>3, <4>1, <4>2
      <4>4. Waits(O, t, j) <=> Waits(O, s, j)
        BY <2>1, <3>2 DEF Waits
      <4> QED
        BY <4>3, <4>4 DEF Paired, Fresh
    <3> QED
      BY <3>1, <3>2
  <2> QED
    <3>1. \A j \in Nat : j > s.made => j # s.top /\ t.keys[j] = s.keys[j] + 0
      BY <1>0, <2>2, <2>3
    <3>2. \A j \in Nat : j > s.made => t.length[j] = 0 /\ t.keys[j] = 0 /\ t.bytes[j] = 0
      <4> SUFFICES ASSUME NEW j \in Nat, j > s.made
                   PROVE  t.length[j] = 0 /\ t.keys[j] = 0 /\ t.bytes[j] = 0
        OBVIOUS
      <4>1. s.length[j] = 0 /\ s.keys[j] = 0 /\ s.bytes[j] = 0
        BY DEF Paired, Fresh
      <4>2. t.keys[j] = s.keys[j] + 0 /\ t.length[j] = s.length[j] /\ t.bytes[j] = s.bytes[j]
        BY <2>3, <3>1
      <4> QED
        BY <4>1, <4>2
    <3> QED
      BY <2>1, <2>4, <3>2 DEF Paired, Fresh
<1>4. CASE Ends(v, s, b, t)
  <2> DEFINE p == v[s.top].parent
  <2>1. Opened(O, s, b) = O \ {s.top} /\ t.made = s.made /\ "done" \notin s.flags
    BY <1>4 DEF Ends, Opened
  <2>2. s.top \in O /\ s.top \in 1..s.made /\ s.top \in 1..Len(v)
    <3>1. s.top # 0 /\ s.top \in 0..s.made /\ s.made <= Len(v)
      BY <1>4 DEF Ends, Inside, OpenStack
    <3>2. s.top \in O
      BY <2>1, <3>1, <1>0 DEF OpenStack
    <3> QED
      BY <1>0, <3>1, <3>2
  <2>3. p \in 0..s.top - 1 /\ p \in O \cup {0} /\ (p # 0 => v[p].type \in Containers)
    BY <2>2 DEF OpenStack, Shape
  <2>4. /\ \A j \in Nat : t.length[j] = s.length[j] + (IF j = p THEN 1 ELSE 0)
        /\ t.keys = s.keys /\ t.bytes = s.bytes
    BY <1>4 DEF Ends, Adds
  <2>5. v[s.top].type = "object" => "seek" \notin s.flags
    BY <1>4 DEF Ends, Inside
  <2>6. p # 0 => t.top = p /\ (v[p].type = "object" => "seek" \notin t.flags)
    BY <1>4 DEF Ends, EndTop, EndFlags
  <2>7. p = 0 => O = {s.top}
    <3> SUFFICES ASSUME p = 0, NEW k \in O PROVE k = s.top
      BY <2>2
    <3>1. k \in 1..s.made /\ k <= s.top /\ (k < s.top => k <= p)
      BY <2>2 DEF OpenStack
    <3> QED
      BY <1>0, <2>2, <3>1
  <2>8. ASSUME NEW j \in 1..s.made
        PROVE  /\ v[j].type = "object" =>
                    t.keys[j] = t.length[j] + IF Waits(O \ {s.top}, t, j) THEN 1 ELSE 0
               /\ v[j].type # "object" => t.keys[j] = 0
               /\ v[j].type = "scalar" => t.length[j] = 0
    <3>1. CASE j = p
      <4>1. Waits(O, s, j) /\ (v[j].type = "object" => ~Waits(O \ {s.top}, t, j))
        BY <3>1, <2>2, <2>3, <2>6, <1>0 DEF Waits
      <4>2. t.length[j] = s.length[j] + 1 /\ t.keys[j] = s.keys[j]
        <5>1. j \in Nat
          BY <1>0
        <5> QED
          BY <2>4, <3>1, <5>1
      <4>3. s.length[j] \in Nat /\ s.keys[j] \in Nat
        BY <1>0, <1>f
      <4> QED
        BY <2>3, <3>1, <4>1, <4>2, <4>3, SMTT(60) DEF Paired, Containers
    <3>2. CASE j # p
      <4>1. t.length[j] = s.length[j] /\ t.keys[j] = s.keys[j]
        BY <1>0, <1>f, <2>4, <3>2
      <4>2. v[j].type = "object" => (Waits(O, s, j) <=> Waits(O \ {s.top}, t, j))
        <5>1. CASE j = s.top
          BY <2>5, <5>1 DEF Waits
        <5>2. CASE j # s.top
          BY <2>6, <2>7, <3>2, <5>2 DEF Waits
        <5> QED
          BY <5>1, <5>2
      <4> QED
        BY <4>1, <4>2 DEF Paired, Fresh
    <3> QED
      BY <3>1, <3>2
  <2>9. \A j \in Nat : j > s.made => t.length[j] = 0 /\ t.keys[j] = 0 /\ t.bytes[j] = 0
    <3> SUFFICES ASSUME NEW j \in Nat, j > s.made
                 PROVE  t.length[j] = 0 /\ t.keys[j] = 0 /\ t.bytes[j] = 0
      OBVIOUS
    <3>1. s.length[j] = 0 /\ s.keys[j] = 0 /\ s.bytes[j] = 0
      BY DEF Paired, Fresh
    <3>2. j # p
      BY <1>0, <2>2, <2>3
    <3>3. t.length[j] = s.length[j] + 0
      BY <2>4, <3>2
    <3> QED
      BY <2>4, <3>1, <3>3
  <2> QED
    BY <2>1, <2>8, <2>9 DEF Paired, Fresh
<1>5. CASE Parts(v, s, b, t)
  <2>1. Opened(O, s, b) = O /\ t.made = s.made /\ t.top = s.top
    BY <1>5 DEF Parts, Opened
  <2>2. t.length = s.length /\ t.keys = s.keys /\ t.bytes = s.bytes
        /\ ("seek" \in t.flags <=> "seek" \in s.flags)
    BY <1>5 DEF Parts
  <2>3. \A j : Waits(O, s, j) <=> Waits(O, t, j)
    BY <2>1, <2>2 DEF Waits
  <2> QED
    BY <2>1, <2>2, <2>3 DEF Paired, Fresh
<1> QED
  BY <1>1, <1>2, <1>3, <1>4, <1>5 DEF Moves

(* Nothing is counted down. *)
LEMMA BelowMoves ==
  ASSUME NEW v, NEW s \in Scans, NEW t \in Scans, NEW b, NEW O, Paired(v, O, s), Moves(v, s, b, t)
  PROVE  Below(s, t)
<1>0. s.made \in Nat /\ s.top \in Nat
  BY DEF Scans
<1>f. \A j \in Nat : s.length[j] \in Nat /\ s.keys[j] \in Nat /\ s.bytes[j] \in Nat
  BY CountsAreNumbers
<1>1. CASE Opens(v, s, b, t)
  <2>1. t.made = s.made + 1 /\ t.length = s.length /\ t.bytes = s.bytes /\ t.keys = s.keys
    BY <1>1 DEF Opens
  <2> QED
    BY <1>0, <1>f, <2>1 DEF Below
<1>2. CASE IsLeaf(v, s, b, t)
  <2>1. s.length[s.made + 1] = 0
    BY <1>0 DEF Paired, Fresh
  <2>2. StrLen \in [Strings -> Nat]
    BY JsonAssumption
  <2> QED
    BY <1>0, <1>f, <1>2, <2>1, <2>2 DEF IsLeaf, Below
<1>3. CASE Names(v, s, b, t)
  <2>1. b \in Strings /\ StrLen[b] \in Nat
    BY <1>3, JsonAssumption DEF Names
  <2> QED
    BY <1>0, <1>f, <1>3, <2>1 DEF Names, Below, Adds
<1>4. CASE Ends(v, s, b, t)
  <2>1. t.made = s.made /\ t.bytes = s.bytes /\ t.keys = s.keys
    BY <1>4 DEF Ends
  <2>2. \A j \in Nat : t.length[j] = s.length[j] + IF j = v[s.top].parent THEN 1 ELSE 0
    BY <1>4 DEF Ends, Adds
  <2>3. \A j \in Nat : s.length[j] <= t.length[j]
    BY <1>f, <2>2
  <2> QED
    BY <1>0, <1>f, <2>1, <2>3 DEF Below
<1>5. CASE Parts(v, s, b, t)
  <2>1. t.made = s.made /\ t.length = s.length /\ t.bytes = s.bytes /\ t.keys = s.keys
    BY <1>5 DEF Parts
  <2> QED
    BY <1>0, <1>f, <2>1 DEF Below
<1> QED
  BY <1>1, <1>2, <1>3, <1>4, <1>5 DEF Moves

(* A tree that goes on, or only changes what its values hold, keeps what a *)
(* pass has seen of it.                                                    *)
Extends(w, v) ==
  /\ Len(v) <= Len(w)
  /\ \A i \in 1..Len(v) :
       w[i].type = v[i].type /\ w[i].lit = v[i].lit /\ w[i].parent = v[i].parent

(* What a longer tree keeps: the open containers, ... *)
LEMMA StackKept ==
  ASSUME NEW v, NEW w, Shape(v), Extends(w, v), NEW s \in Scans, NEW O, s.made <= Len(v),
         OpenStack(v, O, s)
  PROVE  OpenStack(w, O, s)
<1>1. \A k \in O : k \in 1..Len(v)
  <2>1. s.made \in Nat /\ Len(v) \in Nat
    BY DEF Scans, Shape
  <2> QED
    BY <2>1 DEF OpenStack
<1> QED
  BY <1>1 DEF OpenStack, Extends

(* ... the names beside the values, ... *)
LEMMA PairedKept ==
  ASSUME NEW v, NEW w, Shape(v), Extends(w, v), NEW s \in Scans, NEW O, s.made <= Len(v),
         Paired(v, O, s)
  PROVE  Paired(w, O, s)
<1>1. \A k \in 1..s.made : k \in 1..Len(v)
  BY DEF Scans, Shape
<1> QED
  BY <1>1 DEF Paired, Fresh, Extends

(* ... and each step of the pass. *)
LEMMA MovesKept ==
  ASSUME NEW v, NEW w, Shape(v), Extends(w, v), NEW s \in Scans, NEW t \in Scans, NEW b,
         s.top <= s.made, t.made <= Len(v), Moves(v, s, b, t)
  PROVE  Moves(w, s, b, t)
<1>0. s.made \in Nat /\ s.top \in Nat /\ t.made \in Nat /\ Len(v) \in Nat
  BY DEF Scans, Shape
<1>1. CASE Opens(v, s, b, t)
  <2>1. s.made + 1 \in 1..Len(v)
    <3>1. t.made = s.made + 1
      BY <1>1 DEF Opens
    <3> QED
      BY <1>0, <3>1
  <2> QED
    BY <1>1, <2>1 DEF Opens, Made, Moves, Extends
<1>2. CASE IsLeaf(v, s, b, t)
  <2>1. s.made + 1 \in 1..Len(v)
    BY <1>0, <1>2 DEF IsLeaf
  <2>2. s.top \in 0..Len(v) /\ w[s.made + 1].parent = v[s.made + 1].parent
    BY <1>0, <1>2, <2>1 DEF IsLeaf, Extends
  <2>3. s.top # 0 => w[s.top].type = v[s.top].type
    BY <2>2 DEF Extends
  <2>4. Made(w, s, b) /\ v[s.made + 1].parent = s.top
    BY <1>2, <2>1 DEF IsLeaf, Made, Extends
  <2>5. EndTop(w, s.made + 1) = EndTop(v, s.made + 1)
    BY <2>2 DEF EndTop
  <2>6. EndFlags(w, s.flags, s.made + 1) = EndFlags(v, s.flags, s.made + 1)
    BY <2>2, <2>3, <2>4 DEF EndFlags
  <2> QED
    BY <1>2, <2>4, <2>5, <2>6 DEF IsLeaf, Moves
<1>3. CASE Names(v, s, b, t)
  <2>1. s.top \in 1..Len(v)
    BY <1>0, <1>3 DEF Names, Inside
  <2> QED
    BY <1>3, <2>1 DEF Names, Inside, Moves, Extends
<1>4. CASE Ends(v, s, b, t)
  <2>0. s.top # 0 /\ t.made = s.made
    BY <1>4 DEF Ends, Inside
  <2>1. s.top \in 1..Len(v)
    BY <1>0, <2>0
  <2>2. v[s.top].parent \in 0..s.top - 1
    BY <2>1 DEF Shape
  <2>3. v[s.top].parent # 0 => v[s.top].parent \in 1..Len(v)
    BY <1>0, <2>1, <2>2
  <2>4. w[s.top].parent = v[s.top].parent /\ w[s.top].type = v[s.top].type
    BY <2>1 DEF Extends
  <2>5. EndTop(w, s.top) = EndTop(v, s.top)
    BY <2>4 DEF EndTop
  <2>6. EndFlags(w, s.flags, s.top) = EndFlags(v, s.flags, s.top)
    BY <2>3, <2>4 DEF EndFlags, Extends
  <2>7. /\ "done" \notin s.flags
        /\ \/ b = "]" /\ "seek" \in s.flags /\ Inside(w, s, "array")
           \/ b = "}" /\ "seek" \notin s.flags /\ Inside(w, s, "object")
    BY <1>4, <2>4 DEF Ends, Inside
  <2> QED
    BY <1>4, <2>4, <2>5, <2>6, <2>7 DEF Ends, Moves
<1>5. CASE Parts(v, s, b, t)
  BY <1>5 DEF Parts, Moves
<1> QED
  BY <1>1, <1>2, <1>3, <1>4, <1>5 DEF Moves

(* What counts no more than less counts no more. *)
LEMMA BelowTrans ==
  ASSUME NEW r \in Scans, NEW s \in Scans, NEW t \in Scans, Below(r, s), Below(s, t)
  PROVE  Below(r, t)
<1>1. r.made \in Nat /\ s.made \in Nat /\ t.made \in Nat
  BY DEF Scans
<1> QED
  BY <1>1, CountsAreNumbers DEF Below

-----------------------------------------------------------------------------
(***************************************************************************)
(* What new_value and flag_next do to the values.                          *)
(***************************************************************************)

(* What is in a sequence. *)
LEMMA Elements ==
  ASSUME NEW S, NEW q \in Seq(S)
  PROVE  Len(q) \in Nat /\ \A j \in 1..Len(q) : q[j] \in S
OBVIOUS

(* A sequence with one element replaced. *)
LEMMA Replaced ==
  ASSUME NEW S, NEW q \in Seq(S), NEW i \in 1..Len(q), NEW x \in S
  PROVE  /\ [q EXCEPT ![i] = x] \in Seq(S) /\ Len([q EXCEPT ![i] = x]) = Len(q)
         /\ \A j \in 1..Len(q) : [q EXCEPT ![i] = x][j] = IF j = i THEN x ELSE q[j]
OBVIOUS

(* What a value is, and what its block holds beside pointers. *)
Fixed(u, v) ==
  u.type = v.type /\ u.parent = v.parent /\ u.lit = v.lit /\ u.cell = v.cell
Stored(u, v) ==
  /\ u.keys = v.keys /\ u.bytes = v.bytes /\ u.used = v.used
  /\ u.room = v.room /\ u.block = v.block

(* The fields of a value, and what one looks like when some are replaced.  *)
LEMMA Fields ==
  ASSUME NEW r \in Values
  PROVE  /\ r.length \in Nat /\ r.bytes \in Nat /\ r.used \in Nat /\ r.room \in Nat
         /\ r.next \in Nat /\ r.parent \in Nat
         /\ r.kids \in Seq(Nat) /\ r.keys \in Seq(Strings)
         /\ r.cell \in Memory /\ r.block \in Memory \cup {"none"}
         /\ r.type \in Containers \cup {"string", "scalar"} /\ r.lit \in Tokens
BY DEF Values

(* A new value. *)
LEMMA ValueIs ==
  ASSUME NEW type \in Containers \cup {"string", "scalar"}, NEW b \in Tokens, top \in Nat
  PROVE  LET x == Value(type, b) IN
         /\ x \in Values /\ x.type = type /\ x.lit = b /\ x.parent = top /\ x.next = 0
         /\ x.length = 0 /\ x.bytes = 0 /\ x.cell = "live"
         /\ x.kids = <<>> /\ x.keys = <<>> /\ x.used = 0 /\ x.room = 0 /\ x.block = "none"
BY DEF Value, Values, Memory

(* A value to which the chain goes on. *)
LEMMA Chained ==
  ASSUME NEW r \in Values, NEW n \in Nat
  PROVE  LET u == [r EXCEPT !.next = n] IN
         /\ u \in Values /\ u.length = r.length /\ u.kids = r.kids /\ u.next = n
         /\ Fixed(u, r) /\ Stored(u, r)
BY DEF Values, Fixed, Stored

(* A value of the same kind, in the same place of the chain and the tree. *)
Like(u, v) ==
  u.type = v.type /\ u.parent = v.parent /\ u.lit = v.lit /\ u.next = v.next

(* Values that keep their places keep their shape. *)
LEMMA ShapeLike ==
  ASSUME NEW v, NEW w, Shape(v), w \in Seq(Values), Len(w) = Len(v),
         \A j \in 1..Len(v) : Like(w[j], v[j])
  PROVE  Shape(w) /\ Extends(w, v)
<1>1. Extends(w, v)
  <2>1. Len(v) \in Nat
    BY DEF Shape
  <2> QED
    BY <2>1 DEF Like, Extends
<1>2. ASSUME NEW i \in 1..Len(w)
      PROVE  /\ w[i].next = IF i < Len(w) THEN i + 1 ELSE 0
             /\ w[i].parent \in 0..i - 1
             /\ w[i].parent = 0 => i = 1
             /\ w[i].parent # 0 => w[w[i].parent].type \in Containers
             /\ w[i].type = "scalar" => w[i].lit \in Scalars
             /\ w[i].type = "string" => w[i].lit \in Strings
  <2>1. i \in 1..Len(v) /\ Len(v) \in Nat /\ v[i].parent \in 0..i - 1
    BY DEF Shape
  <2>2. Like(w[i], v[i])
    BY <2>1
  <2>3. v[i].parent # 0 => w[v[i].parent].type = v[v[i].parent].type
    BY <2>1 DEF Like
  <2> QED
    BY <2>1, <2>2, <2>3 DEF Shape, Like
<1> QED
  BY <1>1, <1>2 DEF Shape

(* The same, where the memory stays too. *)
LEMMA ShapeKept ==
  ASSUME NEW v, NEW w, Shape(v), w \in Seq(Values), Len(w) = Len(v),
         \A j \in 1..Len(v) : Fixed(w[j], v[j]) /\ w[j].next = v[j].next
  PROVE  Shape(w) /\ Extends(w, v)
<1>1. \A j \in 1..Len(v) : Like(w[j], v[j])
  BY DEF Like, Fixed
<1> QED
  BY <1>1, ShapeLike

(* A block with one more entry. *)
Longer(r, q, i) == r = Append(q, i)

(* A value that is complete is counted by its parent, and in the second    *)
(* pass entered there.                                                     *)
LEMMA AttachIs ==
  ASSUME NEW w, Shape(w), NEW i \in 1..Len(w)
  PROVE  /\ Shape(Attach(w, i)) /\ Len(Attach(w, i)) = Len(w)
         /\ Extends(Attach(w, i), w)
         /\ \A j \in 1..Len(w) :
              /\ Fixed(Attach(w, i)[j], w[j]) /\ Stored(Attach(w, i)[j], w[j])
              /\ Attach(w, i)[j].length = w[j].length + IF j = w[i].parent THEN 1 ELSE 0
              /\ IF j = w[i].parent /\ pass # 1 THEN Longer(Attach(w, i)[j].kids, w[j].kids, i)
                 ELSE Attach(w, i)[j].kids = w[j].kids
<1> DEFINE p == w[i].parent
           a == Attach(w, i)
           k == IF pass = 1 THEN w[p].kids ELSE Append(w[p].kids, i)
           r == [w[p] EXCEPT !.length = w[p].length + 1, !.kids = k]
<1>1. p \in 0..i - 1 /\ Len(w) \in Nat /\ w \in Seq(Values)
  BY DEF Shape
<1>2. \A j \in 1..Len(w) : w[j] \in Values
  BY <1>1
<1>3. \A j \in 1..Len(w) : w[j].length \in Nat
  BY <1>2, Fields
<1>4. CASE p = 0
  <2>1. a = w
    BY <1>4 DEF Attach
  <2>2. \A j \in 1..Len(w) : j # p
    BY <1>4
  <2> HIDE DEF a
  <2>3. Shape(a) /\ Extends(a, w)
    BY <1>1, <2>1 DEF Extends
  <2> QED
    BY <1>3, <2>1, <2>2, <2>3 DEF Fixed, Stored, a
<1>5. CASE p # 0
  <2>1. p \in 1..Len(w)
    BY <1>1, <1>5
  <2>2. a = [w EXCEPT ![p] = r]
    BY <1>5 DEF Attach
  <2>3. w[p] \in Values /\ i \in Nat
    BY <1>2, <2>1
  <2>4. /\ r \in Values /\ r.length = w[p].length + 1
        /\ r.kids = (IF pass # 1 THEN Append(w[p].kids, i) ELSE w[p].kids)
        /\ Fixed(r, w[p]) /\ Stored(r, w[p]) /\ r.next = w[p].next
    <3>1. w[p].kids \in Seq(Nat) /\ w[p].length \in Nat
      BY <2>3, Fields
    <3>2. k \in Seq(Nat) /\ w[p].length + 1 \in Nat
      BY <2>3, <3>1
    <3>3. k = IF pass # 1 THEN Append(w[p].kids, i) ELSE w[p].kids
      OBVIOUS
    <3>4. PICK x \in Values : x = w[p]
      BY <2>3
    <3>5. PICK m \in Nat : m = w[p].length + 1
      BY <3>2
    <3>6. r = [x EXCEPT !.length = m, !.kids = k]
      BY <3>4, <3>5
    <3> HIDE DEF k, r
    <3>7. /\ r \in Values /\ r.length = m /\ r.kids = k /\ r.next = x.next
          /\ Fixed(r, x) /\ Stored(r, x)
      BY <3>2, <3>6 DEF Values, Fixed, Stored
    <3> QED
      BY <3>3, <3>4, <3>5, <3>7
  <2> HIDE DEF r, a
  <2>5. a \in Seq(Values) /\ Len(a) = Len(w) /\ \A j \in 1..Len(w) : a[j] = IF j = p THEN r ELSE w[j]
    BY <1>1, <2>1, <2>2, <2>4, Replaced
  <2>6. \A j \in 1..Len(w) : Fixed(a[j], w[j]) /\ a[j].next = w[j].next
    BY <2>4, <2>5 DEF Fixed
  <2>7. Shape(a) /\ Extends(a, w)
    BY <2>5, <2>6, ShapeKept
  <2>8. \A j \in 1..Len(w) :
          Stored(a[j], w[j]) /\ a[j].length = w[j].length + IF j = p THEN 1 ELSE 0
    BY <1>3, <2>4, <2>5 DEF Stored
  <2>9. \A j \in 1..Len(w) :
          IF j = p /\ pass # 1 THEN Longer(a[j].kids, w[j].kids, i) ELSE a[j].kids = w[j].kids
    BY <2>4, <2>5, Zenon DEF Longer
  <2> QED
    BY <2>5, <2>6, <2>7, <2>8, <2>9 DEF a
<1> QED
  BY <1>4, <1>5

(* In the first pass a new value follows the others. *)
LEMMA FirstNewVals ==
  ASSUME Shape(val), pass = 1, alloc = Len(val), NEW b \in Leaves \cup Openers,
         top \in 0..Len(val), top = 0 => Len(val) = 0,
         top # 0 => val[top].type \in Containers
  PROVE  /\ Shape(NewVals(b)) /\ Len(NewVals(b)) = Len(val) + 1 /\ Extends(NewVals(b), val)
         /\ NewVals(b)[Len(val) + 1] = Value(TypeOf(b), b)
         /\ \A j \in 1..Len(val) :
              /\ Fixed(NewVals(b)[j], val[j]) /\ Stored(NewVals(b)[j], val[j])
              /\ NewVals(b)[j].length = val[j].length /\ NewVals(b)[j].kids = val[j].kids
<1>0. val \in Seq(Values)
  BY DEF Shape
<1>1. PICK n \in Nat : n = Len(val) /\ \A j \in 1..n : val[j] \in Values
  BY <1>0, Elements
<1> DEFINE x == Value(TypeOf(b), b)
           old == [i \in 1..n |-> IF i = alloc THEN [val[i] EXCEPT !.next = n + 1] ELSE val[i]]
           w == NewVals(b)
<1>2. w = Append(old, x)
  BY <1>1 DEF NewVals
<1>3. \A j \in 1..n :
        /\ old[j] \in Values /\ Fixed(old[j], val[j]) /\ Stored(old[j], val[j])
        /\ old[j].length = val[j].length /\ old[j].kids = val[j].kids
        /\ old[j].next = IF j = n THEN n + 1 ELSE val[j].next
  <2> SUFFICES ASSUME NEW j \in 1..n
               PROVE  /\ old[j] \in Values /\ Fixed(old[j], val[j]) /\ Stored(old[j], val[j])
                      /\ old[j].length = val[j].length /\ old[j].kids = val[j].kids
                      /\ old[j].next = IF j = n THEN n + 1 ELSE val[j].next
    OBVIOUS
  <2>1. old[j] = IF j = n THEN [val[j] EXCEPT !.next = n + 1] ELSE val[j]
    BY <1>1
  <2>2. val[j] \in Values /\ n + 1 \in Nat
    BY <1>1
  <2>3. Fixed(val[j], val[j]) /\ Stored(val[j], val[j])
    BY DEF Fixed, Stored
  <2> HIDE DEF old
  <2> QED
    BY <2>1, <2>2, <2>3, Chained
<1>4. /\ x \in Values /\ x.type = TypeOf(b) /\ x.lit = b /\ x.parent = top /\ x.next = 0
  <2>1. TypeOf(b) \in Containers \cup {"string", "scalar"} /\ b \in Tokens
    BY TypesOfTokens
  <2> QED
    BY <2>1, <1>1, ValueIs, SMTT(30)
<1>5. /\ w \in Seq(Values) /\ Len(w) = n + 1 /\ w[n + 1] = x
      /\ \A j \in 1..n : w[j] = old[j]
  <2>1. old \in Seq(Values) /\ Len(old) = n
    BY <1>1, <1>3
  <2> HIDE DEF old, x, w
  <2> QED
    BY <1>1, <1>2, <1>4, <2>1
<1> HIDE DEF old, x, w
<1>6. Extends(w, val)
  BY <1>1, <1>3, <1>5 DEF Extends, Fixed
<1>7. Shape(w)
  <2> SUFFICES ASSUME NEW i \in 1..n + 1
               PROVE  /\ w[i].next = IF i < n + 1 THEN i + 1 ELSE 0
                      /\ w[i].parent \in 0..i - 1
                      /\ w[i].parent = 0 => i = 1
                      /\ w[i].parent # 0 => w[w[i].parent].type \in Containers
                      /\ w[i].type = "scalar" => w[i].lit \in Scalars
                      /\ w[i].type = "string" => w[i].lit \in Strings
    BY <1>5 DEF Shape
  <2>1. CASE i = n + 1
    <3>1. top # 0 => w[top].type \in Containers
      BY <1>1, <1>6 DEF Extends
    <3>2. TypeOf(b) = "scalar" => b \in Scalars
      BY TypesOfTokens
    <3>3. TypeOf(b) = "string" => b \in Strings
      BY TypesOfTokens
    <3> QED
      BY <1>1, <1>4, <1>5, <2>1, <3>1, <3>2, <3>3
  <2>2. CASE i # n + 1
    <3>1. i \in 1..n
      BY <1>1, <2>2
    <3>2. /\ val[i].next = IF i < n THEN i + 1 ELSE 0
          /\ val[i].parent \in 0..i - 1
          /\ val[i].parent = 0 => i = 1
          /\ val[i].parent # 0 => val[val[i].parent].type \in Containers
          /\ val[i].type = "scalar" => val[i].lit \in Scalars
          /\ val[i].type = "string" => val[i].lit \in Strings
      BY <1>1, <3>1 DEF Shape
    <3>3. Fixed(w[i], val[i]) /\ w[i].next = IF i = n THEN n + 1 ELSE val[i].next
      BY <1>3, <1>5, <3>1
    <3>4. val[i].parent # 0 => w[val[i].parent].type = val[val[i].parent].type
      BY <1>1, <1>6, <3>1, <3>2 DEF Extends
    <3> QED
      BY <1>1, <3>1, <3>2, <3>3, <3>4 DEF Fixed
  <2> QED
    BY <2>1, <2>2
<1>8. \A j \in 1..n :
        /\ Fixed(w[j], val[j]) /\ Stored(w[j], val[j])
        /\ w[j].length = val[j].length /\ w[j].kids = val[j].kids
  BY <1>3, <1>5
<1> QED
  BY <1>1, <1>5, <1>6, <1>7, <1>8 DEF w, x

-----------------------------------------------------------------------------
(***************************************************************************)
(* The first pass, one token on.                                           *)
(***************************************************************************)

(* What a pass has known before is still so when the tree has grown. *)
LEMMA RunKept ==
  ASSUME Shape(val), Shape(val'), Extends(val', val), NEW h, Run(h), text \in Seq(Tokens),
         NEW b, text' = Append(text, b), NEW t \in Scans, t.made = Len(val'),
         Moves(val', h[Len(text)], b, t), Below(h[Len(text)], t), t.top <= t.made, Fresh(t),
         NEW g, g = [h EXCEPT ![Len(text) + 1] = t]
  PROVE  Run(g)' /\ g[Len(text')] = t
<1> DEFINE N == Len(text)
<1>1. N \in Nat /\ Len(text') = N + 1 /\ text'[N + 1] = b
      /\ \A i \in 1..N : text'[i] = text[i]
  OBVIOUS
<1>2. h \in [Nat -> Scans] /\ h[0] = Start /\ h[N].made = Len(val)
  BY DEF Run
<1>3. /\ g \in [Nat -> Scans] /\ g[0] = Start /\ g[N + 1] = t
      /\ \A i \in 0..N : g[i] = h[i]
  BY <1>1, <1>2
<1>4. \A i \in 0..N : h[i] \in Scans /\ Below(h[i], h[N]) /\ h[i].top <= h[i].made /\ Fresh(h[i])
  BY <1>1, <1>2 DEF Run
<1>5. ASSUME NEW i \in 1..N + 1 PROVE Moves(val', g[i - 1], text'[i], g[i])
  <2>1. CASE i = N + 1
    <3>1. i - 1 = N /\ g[N] = h[N]
      BY <1>1, <1>3, <2>1
    <3> QED
      BY <1>1, <1>3, <2>1, <3>1
  <2>2. CASE i # N + 1
    <3>1. i \in 1..N /\ i \in 0..N /\ i - 1 \in 0..N
      BY <1>1, <2>2
    <3>2. Moves(val, h[i - 1], text[i], h[i])
      BY <3>1 DEF Run
    <3>3. h[i].made <= Len(val)
      BY <1>2, <1>4, <3>1 DEF Below
    <3>4. Moves(val', h[i - 1], text[i], h[i])
      BY <1>4, <3>1, <3>2, <3>3, MovesKept
    <3> QED
      BY <1>1, <1>3, <3>1, <3>4
  <2> QED
    BY <2>1, <2>2
<1>6. ASSUME NEW i \in 0..N + 1 PROVE Below(g[i], t) /\ g[i].top <= g[i].made /\ Fresh(g[i])
  <2>1. CASE i = N + 1
    <3>1. Below(t, t)
      BY CountsAreNumbers DEF Below, Scans
    <3> QED
      BY <1>3, <2>1, <3>1
  <2>2. CASE i # N + 1
    <3>1. i \in 0..N /\ N \in 0..N
      BY <1>1, <2>2
    <3>2. Below(h[i], t)
      BY <1>4, <3>1, BelowTrans
    <3> QED
      BY <1>3, <1>4, <3>1, <3>2
  <2> QED
    BY <2>1, <2>2
<1> QED
  BY <1>1, <1>3, <1>5, <1>6 DEF Run

(* A value as the first pass leaves it, with what the pass has counted. *)
Counted(v, s, j) ==
  v[j].length = s.length[j] /\ v[j].bytes = s.bytes[j] /\ Unfilled(v[j]) /\ v[j].cell = "live"

(* One more token of the first pass extends what is known of it. *)
LEMMA FirstAdvances ==
  ASSUME Shape(val), Shape(val'), Extends(val', val), text \in Seq(Tokens), NEW b,
         NEW h, NEW O, FirstPass(h, O), NEW t \in Scans,
         text' = Append(text, b), pos' = pos + 1,
         Moves(val', h[Len(text)], b, t), t.made = Len(val'), t.top <= t.made,
         At(t)', alloc' = t.made, \A j \in 1..Len(val') : Counted(val', t, j)
  PROVE  \E g, P : FirstPass(g, P)'
<1>a. PICK s : s = h[Len(text)]
  OBVIOUS
<1>b. PICK g : g = [h EXCEPT ![Len(text) + 1] = t]
  OBVIOUS
<1>c. PICK P : P = Opened(O, s, b)
  OBVIOUS
<1>1. Run(h) /\ OpenStack(val, O, s) /\ Paired(val, O, s) /\ pos = Len(text)
  BY <1>a DEF FirstPass
<1>2. Len(text) \in Nat /\ Len(text') = Len(text) + 1
  OBVIOUS
<1>3. s \in Scans /\ s.made = Len(val)
  BY <1>a, <1>1, <1>2 DEF Run
<1>4. Len(val) \in Nat /\ s.made <= Len(val)
  BY <1>3 DEF Shape
<1>5. OpenStack(val', O, s) /\ Paired(val', O, s)
  BY <1>1, <1>3, <1>4, StackKept, PairedKept
<1>6. t.made <= Len(val')
  <2>1. Len(val') \in Nat
    BY DEF Shape
  <2> QED
    BY <2>1
<1>7. OpenStack(val', P, t)
  BY <1>a, <1>c, <1>3, <1>5, <1>6, StackMoves
<1>8. Paired(val', P, t)
  BY <1>a, <1>c, <1>3, <1>5, <1>6, PairMoves
<1>9. Below(s, t)
  BY <1>a, <1>3, <1>5, BelowMoves
<1>10. Run(g)' /\ g[Len(text')] = t
  <2>1. Fresh(t)
    BY <1>8 DEF Paired
  <2> QED
    BY <1>a, <1>b, <1>1, <1>9, <2>1, RunKept
<1>11. pos' = Len(text')
  BY <1>1, <1>2
<1> QED
  BY <1>7, <1>8, <1>10, <1>11 DEF FirstPass, Counted

(* What the first pass knows, in terms of the parser. *)
LEMMA InFirst ==
  ASSUME Shape(val), text \in Seq(Tokens), NEW h, NEW O, FirstPass(h, O),
         NEW s, s = h[Len(text)]
  PROVE  /\ s \in Scans /\ s.made = Len(val) /\ s.flags = flags /\ s.top = top
         /\ OpenStack(val, O, s) /\ Paired(val, O, s)
         /\ alloc = Len(val) /\ root = (IF Len(val) = 0 THEN 0 ELSE 1)
         /\ Len(val) \in Nat /\ top \in 0..Len(val)
         /\ "done" \notin flags => (top = 0 => Len(val) = 0)
         /\ "done" \notin flags /\ top # 0 => val[top].type \in Containers /\ top \in 1..Len(val)
         /\ \A j \in 1..Len(val) : Counted(val, s, j)
<1>1. Run(h) /\ OpenStack(val, O, s) /\ Paired(val, O, s) /\ At(s) /\ alloc = s.made
  BY DEF FirstPass
<1>2. s \in Scans /\ s.made = Len(val)
  BY <1>1 DEF Run
<1>3. Len(val) \in Nat
  BY DEF Shape
<1>4. s.flags = flags /\ s.top = top /\ root = (IF Len(val) = 0 THEN 0 ELSE 1)
  BY <1>1, <1>2 DEF At
<1>5. \A j \in 1..Len(val) : Counted(val, s, j)
  BY DEF FirstPass, Counted
<1>6. top \in 0..Len(val)
  BY <1>1, <1>2, <1>4 DEF OpenStack
<1>7. /\ "done" \notin flags => (top = 0 => Len(val) = 0)
      /\ "done" \notin flags /\ top # 0 => val[top].type \in Containers /\ top \in 1..Len(val)
  BY <1>1, <1>2, <1>3, <1>4, <1>6 DEF OpenStack
<1> QED
  BY <1>1, <1>2, <1>3, <1>4, <1>5, <1>6, <1>7

(* The state that the first pass is in after a token. *)
LEMMA FirstKeeps ==
  ASSUME Typed, UNCHANGED <<parser, pass, cur, oom>>, parser = "parse", pass = 1, ~oom,
         text' \in Seq(Tokens), Len(text') <= MaxText, Shape(val'), cur <= Len(val'),
         NEW h, NEW O, FirstPass(h, O)'
  PROVE  JsonInv'
<1>1. PICK s : s = h[Len(text')]
  OBVIOUS
<1>2. /\ s \in Scans /\ s.made = Len(val') /\ s.flags = flags' /\ s.top = top'
      /\ alloc' = Len(val') /\ root' = (IF Len(val') = 0 THEN 0 ELSE 1)
      /\ Len(val') \in Nat /\ top' \in 0..Len(val')
      /\ \A j \in 1..Len(val') : Counted(val', s, j)
  <2>1. Run(h)' /\ OpenStack(val', O, s) /\ At(s)' /\ alloc' = s.made
    BY <1>1 DEF FirstPass
  <2>2. s \in Scans /\ s.made = Len(val')
    BY <1>1, <2>1 DEF Run
  <2>3. Len(val') \in Nat
    BY DEF Shape
  <2>4. s.flags = flags' /\ s.top = top' /\ root' = (IF Len(val') = 0 THEN 0 ELSE 1)
    BY <2>1, <2>2 DEF At
  <2>5. top' \in 0..Len(val')
    BY <2>1, <2>2, <2>4 DEF OpenStack
  <2>6. \A j \in 1..Len(val') : Counted(val', s, j)
    BY <1>1 DEF FirstPass, Counted
  <2> QED
    BY <2>1, <2>2, <2>3, <2>4, <2>5, <2>6
<1>3. Typed'
  <2>1. pos' = Len(text') /\ Len(text') \in Nat
    BY DEF FirstPass
  <2>2. pos' \in 0..Len(text')
    BY <2>1
  <2>3. flags' \in SUBSET Flags
    BY <1>2 DEF Scans
  <2>4. root' \in 0..Len(val') /\ alloc' \in 0..Len(val') /\ cur' \in 0..Len(val')
    <3>1. cur \in Nat
      BY DEF Typed
    <3> QED
      BY <1>2, <3>1
  <2> QED
    BY <1>2, <2>2, <2>3, <2>4 DEF Typed
<1>4. KidsKnown(val')
  <2>1. \A j \in 1..Len(val') : val'[j].kids = <<>>
    BY <1>2 DEF Counted, Unfilled
  <2>2. \A j \in 1..Len(val') : 1..Len(val'[j].kids) = {}
    BY <2>1
  <2> QED
    BY <2>1, <2>2 DEF KidsKnown
<1>5. Held'
  <2>1. \A j \in 1..Len(val') : val'[j].cell = "live" /\ val'[j].block = "none"
    BY <1>2 DEF Counted, Unfilled
  <2> QED
    BY <2>1 DEF Held, Sound
<1>6. Stages'
  BY DEF Stages, Freeing
<1> QED
  BY <1>3, <1>4, <1>5, <1>6 DEF JsonInv

(* What a pass knows, put together ... *)
LEMMA ScanIs ==
  ASSUME NEW F \in SUBSET Flags, NEW p \in Nat, NEW m \in Nat,
         NEW L \in Counts, NEW B \in Counts, NEW K \in Counts
  PROVE  LET t == [flags |-> F, top |-> p, made |-> m, length |-> L, bytes |-> B, keys |-> K] IN
         /\ t \in Scans /\ t.flags = F /\ t.top = p /\ t.made = m
         /\ t.length = L /\ t.bytes = B /\ t.keys = K
BY DEF Scans

(* ... and taken apart. *)
LEMMA ScanFields ==
  ASSUME NEW s \in Scans
  PROVE  /\ s.flags \in SUBSET Flags /\ s.top \in Nat /\ s.made \in Nat
         /\ s.length \in Counts /\ s.bytes \in Counts /\ s.keys \in Counts
BY DEF Scans

(* What new_value has done in the first pass. *)
LEMMA FirstNew ==
  ASSUME Shape(val), text \in Seq(Tokens), pass = 1, NEW h, NEW O, FirstPass(h, O),
         NEW s, s = h[Len(text)], NEW b, StartsValue(b), NewPointers
  PROVE  /\ Starts(s) /\ "done" \notin flags /\ b \in Leaves \cup Openers
         /\ Shape(NewVals(b)) /\ Len(NewVals(b)) = Len(val) + 1 /\ Extends(NewVals(b), val)
         /\ \A j \in 1..Len(val) + 1 : Counted(NewVals(b), s, j)
         /\ Made(NewVals(b), s, b) /\ NewVals(b)[Len(val) + 1].lit = b
         /\ NewId = Len(val) + 1 /\ root' = 1 /\ alloc' = Len(val) + 1
<1>1. /\ s \in Scans /\ s.made = Len(val) /\ s.flags = flags /\ s.top = top
      /\ OpenStack(val, O, s) /\ Paired(val, O, s)
      /\ alloc = Len(val) /\ root = (IF Len(val) = 0 THEN 0 ELSE 1)
      /\ Len(val) \in Nat /\ top \in 0..Len(val)
      /\ "done" \notin flags => (top = 0 => Len(val) = 0)
      /\ "done" \notin flags /\ top # 0 => val[top].type \in Containers /\ top \in 1..Len(val)
      /\ \A j \in 1..Len(val) : Counted(val, s, j)
  BY InFirst
<1>2. "seek" \in flags /\ flags \cap {"comma", "colon"} = {} /\ b \in Leaves \cup Openers
  BY DEF StartsValue, Leaves, Openers
<1>3. "done" \notin flags
  BY <1>1, <1>2 DEF OpenStack
<1>4. Starts(s)
  BY <1>1, <1>2, <1>3 DEF Starts
<1>5. /\ Shape(NewVals(b)) /\ Len(NewVals(b)) = Len(val) + 1 /\ Extends(NewVals(b), val)
      /\ NewVals(b)[Len(val) + 1] = Value(TypeOf(b), b)
      /\ \A j \in 1..Len(val) :
           /\ Fixed(NewVals(b)[j], val[j]) /\ Stored(NewVals(b)[j], val[j])
           /\ NewVals(b)[j].length = val[j].length /\ NewVals(b)[j].kids = val[j].kids
  BY <1>1, <1>2, <1>3, FirstNewVals
<1>6. PICK n \in Nat : n = Len(val)
  BY <1>1
<1>7. PICK x : x = Value(TypeOf(b), b)
  OBVIOUS
<1>8. /\ x.type = TypeOf(b) /\ x.lit = b /\ x.parent = top
      /\ x.length = 0 /\ x.bytes = 0 /\ x.cell = "live" /\ Unfilled(x)
  <2>1. TypeOf(b) \in Containers \cup {"string", "scalar"} /\ b \in Tokens
    BY <1>2, TypesOfTokens
  <2>2. top \in Nat
    BY <1>1
  <2> QED
    BY <1>7, <2>1, <2>2, ValueIs DEF Unfilled
<1>9. s.length[n + 1] = 0 /\ s.bytes[n + 1] = 0
  BY <1>1, <1>6 DEF Paired, Fresh
<1>10. ASSUME NEW j \in 1..Len(val) + 1 PROVE Counted(NewVals(b), s, j)
  <2>1. CASE j = n + 1
    BY <1>5, <1>6, <1>7, <1>8, <1>9, <2>1 DEF Counted
  <2>2. CASE j # n + 1
    <3>1. j \in 1..Len(val)
      BY <1>6, <2>2
    <3> QED
      BY <1>1, <1>5, <3>1 DEF Counted, Fixed, Stored, Unfilled
  <2> QED
    BY <2>1, <2>2
<1>11. Made(NewVals(b), s, b) /\ NewVals(b)[Len(val) + 1].lit = b
  BY <1>1, <1>5, <1>7, <1>8 DEF Made
<1>12. NewId = Len(val) + 1 /\ root' = 1 /\ alloc' = Len(val) + 1
  BY <1>1 DEF NewId, NewPointers
<1> QED
  BY <1>2, <1>3, <1>4, <1>5, <1>10, <1>11, <1>12

(* The first pass opens a container. *)
LEMMA FirstOpens ==
  ASSUME Shape(val), text \in Seq(Tokens), flags \in SUBSET Flags, pass = 1,
         NEW h, NEW O, FirstPass(h, O), NEW b, StartsValue(b), OpenContainer(b),
         text' = Append(text, b), pos' = pos + 1
  PROVE  Shape(val') /\ Len(val') >= Len(val) /\ \E g, P : FirstPass(g, P)'
<1>1. PICK s : s = h[Len(text)]
  OBVIOUS
<1>2. /\ s \in Scans /\ s.made = Len(val) /\ s.flags = flags /\ s.top = top
      /\ Paired(val, O, s) /\ Len(val) \in Nat
  BY <1>1, InFirst
<1>3. /\ b \in Openers /\ val' = NewVals(b) /\ top' = NewId /\ NewPointers
      /\ flags' = IF b = "[" THEN flags ELSE flags \ {"seek"}
  BY DEF OpenContainer, Openers
<1>4. /\ Starts(s) /\ Shape(val') /\ Len(val') = Len(val) + 1 /\ Extends(val', val)
      /\ \A j \in 1..Len(val) + 1 : Counted(val', s, j)
      /\ Made(val', s, b) /\ NewId = Len(val) + 1 /\ root' = 1 /\ alloc' = Len(val) + 1
  BY <1>1, <1>3, FirstNew
<1>5. PICK t : t = [flags |-> flags', top |-> Len(val) + 1, made |-> Len(val) + 1,
                    length |-> s.length, bytes |-> s.bytes, keys |-> s.keys]
  OBVIOUS
<1>6. /\ t \in Scans /\ t.flags = flags' /\ t.top = Len(val) + 1 /\ t.made = Len(val) + 1
      /\ t.length = s.length /\ t.bytes = s.bytes /\ t.keys = s.keys
  <2>1. flags' \in SUBSET Flags
    BY <1>3, Zenon
  <2>2. Len(val) + 1 \in Nat
    BY <1>2
  <2> QED
    BY <1>2, <1>5, <2>1, <2>2, ScanIs, ScanFields, ZenonT(30)
<1>7. Moves(val', s, b, t)
  <2>1. Opens(val', s, b, t)
    BY <1>2, <1>3, <1>4, <1>6, Zenon DEF Opens, Openers
  <2> QED
    BY <2>1 DEF Moves
<1>8. At(t)'
  BY <1>2, <1>3, <1>4, <1>6 DEF At
<1>9. \A j \in 1..Len(val') : Counted(val', t, j)
  BY <1>4, <1>6 DEF Counted
<1>10. t.made = Len(val') /\ t.top <= t.made /\ alloc' = t.made
  BY <1>2, <1>4, <1>6
<1>11. \E g, P : FirstPass(g, P)'
  BY <1>1, <1>4, <1>6, <1>7, <1>8, <1>9, <1>10, FirstAdvances
<1> QED
  BY <1>2, <1>4, <1>11

(* Value i of w is complete, and so Attach(w, i) are the values. *)
LEMMA CompleteIs ==
  ASSUME NEW w, Shape(w), NEW i \in 1..Len(w), Complete(w, i)
  PROVE  /\ val' = Attach(w, i) /\ top' = EndTop(val', i) /\ flags' = EndFlags(val', flags, i)
         /\ val'[i].parent = w[i].parent
<1>1. /\ Len(Attach(w, i)) = Len(w) /\ Extends(Attach(w, i), w)
  BY AttachIs
<1>2. val' = Attach(w, i)
  BY DEF Complete
<1>3. w[i].parent \in 0..i - 1 /\ Len(w) \in Nat
  BY DEF Shape
<1>4. val'[i].parent = w[i].parent
  BY <1>1, <1>2 DEF Extends
<1>5. w[i].parent # 0 => val'[w[i].parent].type = w[w[i].parent].type
  <2>1. w[i].parent # 0 => w[i].parent \in 1..Len(w)
    BY <1>3
  <2> QED
    BY <1>1, <1>2, <2>1 DEF Extends
<1>6. top' = EndTop(val', i)
  BY <1>4 DEF Complete, EndTop
<1>7. flags' = EndFlags(val', flags, i)
  BY <1>4, <1>5, Zenon DEF Complete, EndFlags
<1> QED
  BY <1>2, <1>4, <1>6, <1>7

(* The flags after a value. *)
LEMMA EndFlagsAreFlags ==
  ASSUME NEW v, NEW F \in SUBSET Flags, NEW i
  PROVE  EndFlags(v, F, i) \in SUBSET Flags
BY DEF EndFlags, Flags

LeafLength(b) == IF b \in Strings THEN StrLen[b] ELSE 0

(* The first pass reads a leaf, w being the values with the new one. *)
LEMMA FirstLeaf ==
  ASSUME Shape(val), text \in Seq(Tokens), flags \in SUBSET Flags, pass = 1,
         NEW h, NEW O, FirstPass(h, O), NEW s, s = h[Len(text)],
         NEW b \in Leaves, StartsValue(b), root' = 1, alloc' = Len(val) + 1,
         text' = Append(text, b), pos' = pos + 1,
         NEW w, Shape(w), Len(w) = Len(val) + 1, Extends(w, val), Made(w, s, b),
         \A j \in 1..Len(val) : Counted(w, s, j),
         w[Len(val) + 1].length = LeafLength(b), w[Len(val) + 1].bytes = 0,
         Unfilled(w[Len(val) + 1]), w[Len(val) + 1].cell = "live",
         Complete(w, Len(val) + 1)
  PROVE  Shape(val') /\ Len(val') >= Len(val) /\ \E g, P : FirstPass(g, P)'
<1>2. /\ s \in Scans /\ s.made = Len(val) /\ s.flags = flags /\ s.top = top
      /\ Paired(val, O, s) /\ Len(val) \in Nat /\ top \in 0..Len(val)
  BY InFirst
<1>3. Starts(s)
  <2>1. OpenStack(val, O, s)
    BY InFirst
  <2> QED
    BY <1>2, <2>1 DEF OpenStack, Starts, StartsValue
<1>4. PICK m \in Nat : m = Len(val) + 1
  BY <1>2
<1>5. m \in 1..Len(w) /\ w[m].parent = s.top
  BY <1>2, <1>4 DEF Made
<1>6. /\ val' = Attach(w, m) /\ top' = EndTop(val', m) /\ flags' = EndFlags(val', flags, m)
      /\ val'[m].parent = top
  <2>1. Complete(w, m)
    BY <1>4
  <2> QED
    BY <1>2, <1>5, <2>1, CompleteIs
<1>7. /\ Shape(val') /\ Len(val') = m /\ Extends(val', w)
      /\ \A j \in 1..m :
           /\ Fixed(val'[j], w[j]) /\ Stored(val'[j], w[j])
           /\ val'[j].length = w[j].length + IF j = top THEN 1 ELSE 0
           /\ val'[j].kids = w[j].kids
  <2>1. Len(w) = m
    BY <1>4
  <2> QED
    BY <1>2, <1>5, <1>6, <2>1, AttachIs, SMTT(30)
<1>8. Extends(val', val)
  BY <1>2, <1>4, <1>7 DEF Extends
<1>9. Made(val', s, b)
  BY <1>2, <1>4, <1>5, <1>7 DEF Made, Fixed
<1>10. LeafLength(b) \in Nat
  BY JsonAssumption DEF LeafLength
<1>11. PICK L : L = [j \in Nat |-> IF j = m THEN LeafLength(b)
                                   ELSE s.length[j] + IF j = s.top THEN 1 ELSE 0]
  OBVIOUS
<1>12. L \in Counts
  <2>1. \A j \in Nat : s.length[j] \in Nat
    BY <1>2, CountsAreNumbers
  <2> QED
    BY <1>10, <1>11, <2>1 DEF Counts
<1>13. \A j \in Nat : L[j] = IF j = m THEN LeafLength(b)
                             ELSE s.length[j] + IF j = s.top THEN 1 ELSE 0
  BY <1>11
<1>14. PICK t : t = [flags |-> flags', top |-> top', made |-> m,
                     length |-> L, bytes |-> s.bytes, keys |-> s.keys]
  OBVIOUS
<1>15. top' \in Nat /\ top' <= m
  BY <1>2, <1>4, <1>6 DEF EndTop
<1>16. /\ t \in Scans /\ t.flags = flags' /\ t.top = top' /\ t.made = m
       /\ t.length = L /\ t.bytes = s.bytes /\ t.keys = s.keys
  <2>1. flags' \in SUBSET Flags
    BY <1>6, EndFlagsAreFlags
  <2> QED
    BY <1>2, <1>12, <1>14, <1>15, <2>1, ScanIs, ScanFields, ZenonT(30)
<1>17. Moves(val', s, b, t)
  <2>1. s.made + 1 = m
    BY <1>2, <1>4
  <2>2. \A j \in Nat : t.length[j] = IF j = s.made + 1 THEN (IF b \in Strings THEN StrLen[b] ELSE 0)
                                     ELSE s.length[j] + IF j = s.top THEN 1 ELSE 0
    BY <1>13, <1>16, <2>1 DEF LeafLength
  <2>3. IsLeaf(val', s, b, t)
    BY <1>2, <1>3, <1>6, <1>9, <1>16, <2>1, <2>2, Zenon DEF IsLeaf
  <2> QED
    BY <2>3 DEF Moves
<1>18. At(t)'
  BY <1>4, <1>16 DEF At
<1>19. ASSUME NEW j \in 1..Len(val') PROVE Counted(val', t, j)
  <2>1. j \in Nat /\ j \in 1..m
    BY <1>7
  <2>2. CASE j = m
    <3>1. j # top /\ s.bytes[m] = 0 /\ s.bytes[j] = 0
      BY <1>2, <1>4, <2>2 DEF Paired, Fresh
    <3>2. w[j].length = LeafLength(b) /\ w[j].bytes = 0 /\ Unfilled(w[j]) /\ w[j].cell = "live"
      BY <1>4, <2>2
    <3>3. val'[j].length = LeafLength(b)
      BY <1>7, <1>10, <2>1, <3>1, <3>2
    <3>4. t.length[j] = LeafLength(b)
      BY <1>13, <1>16, <2>2
    <3> QED
      BY <1>7, <1>16, <2>1, <3>1, <3>2, <3>3, <3>4 DEF Counted, Unfilled, Fixed, Stored
  <2>3. CASE j # m
    <3>1. j \in 1..Len(val)
      BY <1>2, <1>4, <2>1, <2>3
    <3>2. Counted(w, s, j)
      BY <3>1
    <3>3. val'[j].length = s.length[j] + IF j = s.top THEN 1 ELSE 0
      BY <1>2, <1>7, <2>1, <3>2 DEF Counted
    <3>4. val'[j].length = t.length[j]
      BY <1>13, <1>16, <2>1, <2>3, <3>3
    <3> QED
      BY <1>7, <1>16, <2>1, <3>2, <3>4 DEF Counted, Unfilled, Fixed, Stored
  <2> QED
    BY <2>2, <2>3
<1>20. t.made = Len(val') /\ t.top <= t.made /\ alloc' = t.made
  BY <1>4, <1>7, <1>15, <1>16
<1>21. \E g, P : FirstPass(g, P)'
  BY <1>7, <1>8, <1>16, <1>17, <1>18, <1>19, <1>20, FirstAdvances
<1>22. Len(val') >= Len(val)
  BY <1>2, <1>4, <1>7
<1> QED
  BY <1>7, <1>21, <1>22

(* The first pass reads a scalar. *)
LEMMA FirstScalar ==
  ASSUME Shape(val), text \in Seq(Tokens), flags \in SUBSET Flags, pass = 1,
         NEW h, NEW O, FirstPass(h, O), NEW b, StartsValue(b), ReadScalar(b),
         text' = Append(text, b), pos' = pos + 1
  PROVE  Shape(val') /\ Len(val') >= Len(val) /\ \E g, P : FirstPass(g, P)'
<1>1. PICK s : s = h[Len(text)]
  OBVIOUS
<1>2. b \in Scalars /\ b \in Leaves /\ b \notin Strings /\ NewPointers /\ Complete(NewVals(b), NewId)
  BY TokenKinds DEF ReadScalar, Leaves
<1>3. PICK w : w = NewVals(b)
  OBVIOUS
<1>4. /\ Shape(w) /\ Len(w) = Len(val) + 1 /\ Extends(w, val)
      /\ \A j \in 1..Len(val) + 1 : Counted(w, s, j)
      /\ Made(w, s, b) /\ NewId = Len(val) + 1 /\ root' = 1 /\ alloc' = Len(val) + 1
  BY <1>1, <1>2, <1>3, FirstNew
<1>5. /\ s \in Scans /\ s.made = Len(val) /\ Paired(val, O, s) /\ Len(val) \in Nat
  BY <1>1, InFirst
<1>6. /\ \A j \in 1..Len(val) : Counted(w, s, j)
      /\ Counted(w, s, Len(val) + 1)
      /\ s.length[Len(val) + 1] = 0 /\ s.bytes[Len(val) + 1] = 0
  BY <1>4, <1>5 DEF Paired, Fresh
<1>7. /\ w[Len(val) + 1].length = LeafLength(b) /\ w[Len(val) + 1].bytes = 0
      /\ Unfilled(w[Len(val) + 1]) /\ w[Len(val) + 1].cell = "live"
  BY <1>2, <1>6 DEF Counted, LeafLength
<1>8. Complete(w, Len(val) + 1)
  BY <1>2, <1>3, <1>4
<1> QED
  BY <1>1, <1>2, <1>4, <1>6, <1>7, <1>8, FirstLeaf

(* A string's length is set when its end is read. *)
Letters(u, w, i, b) == u = [w EXCEPT ![i].length = StrLen[b], ![i].lit = b]

(* The values once a string is written into one of them. *)
LEMMA Lettered ==
  ASSUME NEW w, Shape(w), NEW i \in 1..Len(w), NEW b \in Strings, w[i].lit = b,
         NEW u, Letters(u, w, i, b)
  PROVE  /\ Shape(u) /\ Len(u) = Len(w) /\ Extends(u, w)
         /\ \A j \in 1..Len(w) :
              /\ Fixed(u[j], w[j]) /\ Stored(u[j], w[j]) /\ u[j].kids = w[j].kids
              /\ u[j].length = IF j = i THEN StrLen[b] ELSE w[j].length
              /\ j # i => u[j] = w[j]
<1>1. w \in Seq(Values) /\ Len(w) \in Nat
  BY DEF Shape
<1>2. PICK x \in Values : x = w[i]
  BY <1>1
<1>3. PICK n \in Nat : n = StrLen[b]
  BY JsonAssumption
<1>4. x.lit = b
  BY <1>2
<1>5. PICK r : r = [x EXCEPT !.length = n, !.lit = b]
  OBVIOUS
<1>6. /\ r \in Values /\ r.length = n /\ r.kids = x.kids /\ r.next = x.next
      /\ Fixed(r, x) /\ Stored(r, x)
  BY <1>4, <1>5 DEF Values, Fixed, Stored
<1>7. u = [w EXCEPT ![i] = r]
  BY <1>1, <1>2, <1>3, <1>5 DEF Letters
<1>8. u \in Seq(Values) /\ Len(u) = Len(w) /\ \A j \in 1..Len(w) : u[j] = IF j = i THEN r ELSE w[j]
  BY <1>1, <1>6, <1>7, Replaced
<1>9. \A j \in 1..Len(w) :
        /\ Fixed(u[j], w[j]) /\ Stored(u[j], w[j]) /\ u[j].kids = w[j].kids
        /\ u[j].next = w[j].next /\ u[j].length = IF j = i THEN n ELSE w[j].length
  BY <1>2, <1>6, <1>8 DEF Fixed, Stored
<1>10. Shape(u) /\ Extends(u, w)
  BY <1>8, <1>9, ShapeKept
<1> QED
  BY <1>3, <1>8, <1>9, <1>10

(* The first pass reads a string. *)
LEMMA FirstString ==
  ASSUME Shape(val), text \in Seq(Tokens), flags \in SUBSET Flags, pass = 1,
         NEW h, NEW O, FirstPass(h, O), NEW b, StartsValue(b), ReadString(b),
         text' = Append(text, b), pos' = pos + 1
  PROVE  Shape(val') /\ Len(val') >= Len(val) /\ \E g, P : FirstPass(g, P)'
<1>1. PICK s : s = h[Len(text)]
  OBVIOUS
<1>2. PICK w : w = NewVals(b)
  OBVIOUS
<1>3. PICK u : Letters(u, w, NewId, b)
  BY DEF Letters
<1>4. b \in Strings /\ b \in Leaves /\ NewPointers /\ Complete(u, NewId)
  BY <1>2, <1>3 DEF ReadString, Leaves, Letters
<1>5. /\ Shape(w) /\ Len(w) = Len(val) + 1 /\ Extends(w, val)
      /\ \A j \in 1..Len(val) + 1 : Counted(w, s, j)
      /\ Made(w, s, b) /\ w[Len(val) + 1].lit = b
      /\ NewId = Len(val) + 1 /\ root' = 1 /\ alloc' = Len(val) + 1
  BY <1>1, <1>2, <1>4, FirstNew
<1>6. /\ s \in Scans /\ s.made = Len(val) /\ Paired(val, O, s) /\ Len(val) \in Nat
  BY <1>1, InFirst
<1>7. PICK m \in Nat : m = Len(val) + 1
  BY <1>6
<1>8. m \in 1..Len(w) /\ w[m].lit = b /\ Len(w) = m
      /\ Letters(u, w, m, b)
  BY <1>3, <1>5, <1>6, <1>7
<1>9. /\ Shape(u) /\ Len(u) = Len(w) /\ Extends(u, w)
      /\ \A j \in 1..Len(w) :
           /\ Fixed(u[j], w[j]) /\ Stored(u[j], w[j]) /\ u[j].kids = w[j].kids
           /\ u[j].length = IF j = m THEN StrLen[b] ELSE w[j].length
  BY <1>4, <1>5, <1>8, Lettered
<1>10. Extends(u, val)
  BY <1>5, <1>6, <1>9, SMTT(60) DEF Extends
<1>11. Made(u, s, b)
  BY <1>5, <1>6, <1>7, <1>8, <1>9 DEF Made, Fixed
<1>12. \A j \in 1..Len(val) : Counted(u, s, j)
  <2> SUFFICES ASSUME NEW j \in 1..Len(val) PROVE Counted(u, s, j)
    OBVIOUS
  <2>1. j \in 1..Len(w) /\ j \in 1..Len(val) + 1 /\ j # m
    BY <1>6, <1>7, <1>8
  <2> QED
    BY <1>5, <1>9, <2>1 DEF Counted, Fixed, Stored, Unfilled
<1>13. /\ u[m].length = LeafLength(b) /\ u[m].bytes = 0 /\ Unfilled(u[m]) /\ u[m].cell = "live"
  <2>1. Counted(w, s, m) /\ s.bytes[m] = 0
    BY <1>5, <1>6, <1>7 DEF Paired, Fresh
  <2> QED
    BY <1>4, <1>8, <1>9, <2>1 DEF Counted, Fixed, Stored, Unfilled, LeafLength
<1>14. Len(u) = Len(val) + 1 /\ Complete(u, Len(val) + 1)
  BY <1>4, <1>5, <1>9
<1> QED
  BY <1>1, <1>4, <1>5, <1>7, <1>9, <1>10, <1>11, <1>12, <1>13, <1>14, FirstLeaf

(* The first pass counts a name in the object it is in. *)
CountsName(b) == val' = [val EXCEPT ![top].bytes = @ + StrLen[b] + 1]

(* The values once a name is counted in one of them. *)
LEMMA FirstNamed ==
  ASSUME Shape(val), top \in 1..Len(val), NEW b \in Strings, CountsName(b)
  PROVE  /\ Shape(val') /\ Len(val') = Len(val) /\ Extends(val', val)
         /\ \A j \in 1..Len(val) :
              /\ val'[j].length = val[j].length /\ val'[j].cell = val[j].cell
              /\ val'[j].bytes = val[j].bytes + IF j = top THEN StrLen[b] + 1 ELSE 0
              /\ Unfilled(val[j]) => Unfilled(val'[j])
<1>1. val \in Seq(Values) /\ Len(val) \in Nat
  BY DEF Shape
<1>2. PICK x \in Values : x = val[top]
  BY <1>1
<1>3. PICK n \in Nat : n = x.bytes + StrLen[b] + 1
  <2>1. x.bytes \in Nat /\ StrLen[b] \in Nat
    BY <1>2, Fields, JsonAssumption
  <2> QED
    BY <2>1
<1>4. PICK r : r = [x EXCEPT !.bytes = n]
  OBVIOUS
<1>5. /\ r \in Values /\ r.bytes = n /\ r.length = x.length /\ r.next = x.next /\ Fixed(r, x)
      /\ r.kids = x.kids /\ r.keys = x.keys /\ r.used = x.used /\ r.room = x.room
      /\ r.block = x.block
  BY <1>4 DEF Values, Fixed
<1>6. val' = [val EXCEPT ![top] = r]
  BY <1>2, <1>3, <1>4 DEF CountsName
<1>7. PICK u : u = val'
  OBVIOUS
<1>8. u \in Seq(Values) /\ Len(u) = Len(val)
      /\ \A j \in 1..Len(val) : u[j] = IF j = top THEN r ELSE val[j]
  BY <1>1, <1>5, <1>6, <1>7, Replaced
<1>9. \A j \in 1..Len(val) : Fixed(u[j], val[j]) /\ u[j].next = val[j].next
  BY <1>2, <1>5, <1>8 DEF Fixed
<1>10. Shape(u) /\ Extends(u, val)
  BY <1>8, <1>9, ShapeKept
<1>11. \A j \in 1..Len(val) : val[j].bytes \in Nat /\ StrLen[b] \in Nat
  <2>1. \A j \in 1..Len(val) : val[j] \in Values
    BY <1>1, Elements
  <2> QED
    BY <2>1, Fields, JsonAssumption
<1>12. ASSUME NEW j \in 1..Len(val)
       PROVE /\ u[j].length = val[j].length /\ u[j].cell = val[j].cell
             /\ u[j].bytes = val[j].bytes + IF j = top THEN StrLen[b] + 1 ELSE 0
             /\ Unfilled(val[j]) => Unfilled(u[j])
  <2>1. CASE j = top
    <3>1. u[j] = r /\ x = val[j]
      BY <1>2, <1>8, <2>1
    <3>2. n = val[j].bytes + (StrLen[b] + 1)
      BY <1>3, <1>11, <3>1
    <3> QED
      BY <1>5, <2>1, <3>1, <3>2 DEF Unfilled, Fixed
  <2>2. CASE j # top
    BY <1>8, <1>11, <2>2
  <2> QED
    BY <2>1, <2>2
<1> QED
  BY <1>7, <1>8, <1>10, <1>12

(* The first pass reads a name. *)
LEMMA FirstKey ==
  ASSUME Shape(val), text \in Seq(Tokens), flags \in SUBSET Flags, pass = 1,
         NEW h, NEW O, FirstPass(h, O), NEW b, "done" \notin flags, IsKey(b), ReadKey(b),
         text' = Append(text, b), pos' = pos + 1
  PROVE  Shape(val') /\ Len(val') >= Len(val) /\ \E g, P : FirstPass(g, P)'
<1>1. PICK s : s = h[Len(text)]
  OBVIOUS
<1>2. /\ s \in Scans /\ s.made = Len(val) /\ s.flags = flags /\ s.top = top
      /\ alloc = Len(val) /\ root = (IF Len(val) = 0 THEN 0 ELSE 1)
      /\ Len(val) \in Nat /\ top \in 0..Len(val)
      /\ top # 0 => top \in 1..Len(val)
      /\ \A j \in 1..Len(val) : Counted(val, s, j)
  BY <1>1, InFirst
<1>3. /\ b \in Strings /\ flags \cap {"seek", "comma", "done"} = {}
      /\ top # 0 /\ val[top].type = "object"
  BY DEF IsKey, In
<1>4. /\ CountsName(b) /\ flags' = flags \cup {"seek", "colon"}
      /\ UNCHANGED <<top, root, alloc>>
  BY DEF ReadKey, CountsName
<1>5. /\ Shape(val') /\ Len(val') = Len(val) /\ Extends(val', val)
      /\ \A j \in 1..Len(val) :
           /\ val'[j].length = val[j].length /\ val'[j].cell = val[j].cell
           /\ val'[j].bytes = val[j].bytes + IF j = top THEN StrLen[b] + 1 ELSE 0
           /\ Unfilled(val[j]) => Unfilled(val'[j])
  BY <1>2, <1>3, <1>4, FirstNamed
<1>6. \A j \in Nat : s.bytes[j] \in Nat /\ s.keys[j] \in Nat
  BY <1>2, CountsAreNumbers
<1>7. StrLen[b] \in Nat
  BY <1>3, JsonAssumption
<1>8. PICK B : B = [j \in Nat |-> s.bytes[j] + IF j = top THEN StrLen[b] + 1 ELSE 0]
  OBVIOUS
<1>9. PICK K : K = [j \in Nat |-> s.keys[j] + IF j = top THEN 1 ELSE 0]
  OBVIOUS
<1>10. B \in Counts /\ \A j \in Nat : B[j] = s.bytes[j] + IF j = top THEN StrLen[b] + 1 ELSE 0
  BY <1>6, <1>7, <1>8 DEF Counts
<1>11. K \in Counts /\ \A j \in Nat : K[j] = s.keys[j] + IF j = top THEN 1 ELSE 0
  BY <1>6, <1>9 DEF Counts
<1>12. PICK t : t = [flags |-> flags', top |-> top, made |-> Len(val),
                     length |-> s.length, bytes |-> B, keys |-> K]
  OBVIOUS
<1>13. /\ t \in Scans /\ t.flags = flags' /\ t.top = top /\ t.made = Len(val)
       /\ t.length = s.length /\ t.bytes = B /\ t.keys = K
  <2>1. flags' \in SUBSET Flags
    BY <1>4 DEF Flags
  <2>2. top \in Nat
    BY <1>2
  <2> QED
    BY <1>2, <1>10, <1>11, <1>12, <2>1, <2>2, ScanIs, ScanFields
<1>14. Moves(val', s, b, t)
  <2>1. Inside(val', s, "object")
    BY <1>2, <1>3, <1>5 DEF Inside, Extends
  <2>2. Names(val', s, b, t)
    BY <1>2, <1>3, <1>4, <1>10, <1>11, <1>13, <2>1 DEF Names, Adds
  <2> QED
    BY <2>2 DEF Moves
<1>15. At(t)'
  BY <1>2, <1>4, <1>13 DEF At
<1>16. \A j \in 1..Len(val') : Counted(val', t, j)
  <2> SUFFICES ASSUME NEW j \in 1..Len(val') PROVE Counted(val', t, j)
    OBVIOUS
  <2>1. j \in 1..Len(val) /\ j \in Nat
    BY <1>2, <1>5
  <2>2. t.bytes[j] = s.bytes[j] + IF j = top THEN StrLen[b] + 1 ELSE 0
    BY <1>10, <1>13, <2>1
  <2> QED
    BY <1>2, <1>5, <1>13, <2>1, <2>2 DEF Counted
<1>17. t.made = Len(val') /\ t.top <= t.made /\ alloc' = t.made
  BY <1>2, <1>4, <1>5, <1>13
<1>18. \E g, P : FirstPass(g, P)'
  BY <1>1, <1>5, <1>13, <1>14, <1>15, <1>16, <1>17, FirstAdvances
<1> QED
  BY <1>2, <1>5, <1>18

(* The first pass closes a container. *)
LEMMA FirstCloses ==
  ASSUME Shape(val), text \in Seq(Tokens), flags \in SUBSET Flags, pass = 1,
         NEW h, NEW O, FirstPass(h, O), NEW b, "done" \notin flags, Closes(b), CloseContainer,
         text' = Append(text, b), pos' = pos + 1
  PROVE  Shape(val') /\ Len(val') >= Len(val) /\ \E g, P : FirstPass(g, P)'
<1>1. PICK s : s = h[Len(text)]
  OBVIOUS
<1>2. /\ s \in Scans /\ s.made = Len(val) /\ s.flags = flags /\ s.top = top
      /\ alloc = Len(val) /\ root = (IF Len(val) = 0 THEN 0 ELSE 1)
      /\ Len(val) \in Nat /\ top \in 0..Len(val)
      /\ top # 0 => top \in 1..Len(val)
      /\ \A j \in 1..Len(val) : Counted(val, s, j)
  BY <1>1, InFirst
<1>3. top # 0 /\ Complete(val, top) /\ UNCHANGED <<root, alloc>>
  BY DEF Closes, In, CloseContainer
<1>4. PICK p : p = val[top].parent
  OBVIOUS
<1>5. p \in 0..top - 1 /\ p \in Nat
  BY <1>2, <1>3, <1>4 DEF Shape
<1>6. /\ val' = Attach(val, top) /\ top' = EndTop(val', top) /\ flags' = EndFlags(val', flags, top)
      /\ val'[top].parent = p
  BY <1>2, <1>3, <1>4, CompleteIs
<1>7. /\ Shape(val') /\ Len(val') = Len(val) /\ Extends(val', val)
      /\ \A j \in 1..Len(val) :
           /\ Fixed(val'[j], val[j]) /\ Stored(val'[j], val[j])
           /\ val'[j].length = val[j].length + IF j = p THEN 1 ELSE 0
           /\ val'[j].kids = val[j].kids
  <2>1. top \in 1..Len(val)
    BY <1>2, <1>3
  <2>2. PICK u : u = Attach(val, top)
    OBVIOUS
  <2>3. /\ Shape(u) /\ Len(u) = Len(val) /\ Extends(u, val)
        /\ \A j \in 1..Len(val) :
             /\ Fixed(u[j], val[j]) /\ Stored(u[j], val[j])
             /\ u[j].length = val[j].length + IF j = val[top].parent THEN 1 ELSE 0
             /\ u[j].kids = val[j].kids
    BY <2>1, <2>2, AttachIs
  <2>4. u = val'
    BY <1>6, <2>2
  <2> QED
    BY <1>4, <2>3, <2>4
<1>8. PICK L : L = [j \in Nat |-> s.length[j] + IF j = p THEN 1 ELSE 0]
  OBVIOUS
<1>9. \A j \in Nat : s.length[j] \in Nat
  BY <1>2, CountsAreNumbers
<1>10. L \in Counts /\ \A j \in Nat : L[j] = s.length[j] + IF j = p THEN 1 ELSE 0
  BY <1>8, <1>9 DEF Counts
<1>11. PICK t : t = [flags |-> flags', top |-> top', made |-> Len(val),
                     length |-> L, bytes |-> s.bytes, keys |-> s.keys]
  OBVIOUS
<1>12. top' \in Nat /\ top' <= Len(val)
  BY <1>2, <1>3, <1>5, <1>6 DEF EndTop
<1>13. /\ t \in Scans /\ t.flags = flags' /\ t.top = top' /\ t.made = Len(val)
       /\ t.length = L /\ t.bytes = s.bytes /\ t.keys = s.keys
  <2>1. flags' \in SUBSET Flags
    BY <1>6, EndFlagsAreFlags
  <2> QED
    BY <1>2, <1>10, <1>11, <1>12, <2>1, ScanIs, ScanFields
<1>14. Moves(val', s, b, t)
  <2>1. \A type : Inside(val', s, type) <=> In(type)
    BY <1>2, <1>3, <1>7 DEF Inside, In, Extends
  <2>2. \/ b = "]" /\ "seek" \in s.flags /\ Inside(val', s, "array")
        \/ b = "}" /\ "seek" \notin s.flags /\ Inside(val', s, "object")
    BY <1>2, <2>1, Zenon DEF Closes
  <2>3. Adds(s.length, t.length, val'[s.top].parent, 1)
    BY <1>2, <1>6, <1>10, <1>13 DEF Adds
  <2>4. Ends(val', s, b, t)
    BY <1>2, <1>6, <1>13, <2>2, <2>3, Zenon DEF Ends
  <2> QED
    BY <2>4 DEF Moves
<1>15. At(t)'
  BY <1>2, <1>3, <1>7, <1>13 DEF At
<1>16. \A j \in 1..Len(val') : Counted(val', t, j)
  <2> SUFFICES ASSUME NEW j \in 1..Len(val') PROVE Counted(val', t, j)
    OBVIOUS
  <2>1. j \in 1..Len(val) /\ j \in Nat
    BY <1>2, <1>7
  <2>2. t.length[j] = s.length[j] + IF j = p THEN 1 ELSE 0
    BY <1>10, <1>13, <2>1
  <2> QED
    BY <1>2, <1>7, <1>13, <2>1, <2>2, SMTT(30) DEF Counted, Unfilled, Fixed, Stored
<1>17. t.made = Len(val') /\ t.top <= t.made /\ alloc' = t.made
  BY <1>2, <1>3, <1>7, <1>12, <1>13
<1>18. \E g, P : FirstPass(g, P)'
  BY <1>1, <1>7, <1>13, <1>14, <1>15, <1>16, <1>17, FirstAdvances
<1> QED
  BY <1>2, <1>7, <1>18

(* The first pass reads a comma or a colon. *)
LEMMA FirstSeparates ==
  ASSUME Shape(val), text \in Seq(Tokens), flags \in SUBSET Flags, pass = 1,
         NEW h, NEW O, FirstPass(h, O), NEW b, "done" \notin flags,
         Separates(b) \/ Colon(b), Separator(b), text' = Append(text, b), pos' = pos + 1
  PROVE  Shape(val') /\ Len(val') >= Len(val) /\ \E g, P : FirstPass(g, P)'
<1>1. PICK s : s = h[Len(text)]
  OBVIOUS
<1>2. /\ s \in Scans /\ s.made = Len(val) /\ s.flags = flags /\ s.top = top
      /\ alloc = Len(val) /\ root = (IF Len(val) = 0 THEN 0 ELSE 1)
      /\ Len(val) \in Nat /\ top \in 0..Len(val)
      /\ \A j \in 1..Len(val) : Counted(val, s, j)
  BY <1>1, InFirst
<1>a. flags' = flags \ {IF b = "," THEN "comma" ELSE "colon"}
  BY DEF Separator
<1>3. UNCHANGED <<val, top, root, alloc>>
  BY DEF Separator
<1>4. PICK t : t = [flags |-> flags', top |-> top, made |-> Len(val),
                    length |-> s.length, bytes |-> s.bytes, keys |-> s.keys]
  OBVIOUS
<1>5. /\ t \in Scans /\ t.flags = flags' /\ t.top = top /\ t.made = Len(val)
      /\ t.length = s.length /\ t.bytes = s.bytes /\ t.keys = s.keys
  <2>1. flags' \in SUBSET Flags
    BY <1>a, Zenon
  <2>2. top \in Nat
    BY <1>2
  <2> QED
    BY <1>2, <1>4, <2>1, <2>2, ScanIs, ScanFields
<1>6. Moves(val', s, b, t)
  <2>1. Parts(val', s, b, t)
    BY <1>a, <1>2, <1>3, <1>5, Zenon DEF Parts, Separates, Colon
  <2> QED
    BY <2>1 DEF Moves
<1>7. At(t)'
  BY <1>2, <1>3, <1>5 DEF At
<1>8. \A j \in 1..Len(val') : Counted(val', t, j)
  BY <1>2, <1>3, <1>5 DEF Counted
<1>9. t.made = Len(val') /\ t.top <= t.made /\ alloc' = t.made
  BY <1>2, <1>3, <1>5
<1>10. Shape(val') /\ Extends(val', val)
  BY <1>2, <1>3 DEF Extends
<1>11. \E g, P : FirstPass(g, P)'
  BY <1>1, <1>5, <1>6, <1>7, <1>8, <1>9, <1>10, FirstAdvances
<1> QED
  BY <1>2, <1>3, <1>10, <1>11

(* The end of the text is no token. *)
LEMMA EofIsNoToken ==
  ~StartsValue(Eof) /\ ~IsKey(Eof) /\ ~Closes(Eof) /\ ~Separates(Eof) /\ ~Colon(Eof)
BY JsonAssumption, Zenon DEF StartsValue, IsKey, Closes, Separates, Colon, Eof

(* The end of the text, seen by the first pass. *)
LEMMA FirstEnds ==
  ASSUME Shape(val), text \in Seq(Tokens), pass = 1, Typed, KidsKnown(val), parser = "parse", ~oom,
         NEW h, NEW O, FirstPass(h, O), "done" \in flags,
         EndOfPass, text' = text, pos' = 0
  PROVE  JsonInv'
<1>1. PICK f : f = h[Len(text)]
  OBVIOUS
<1>2. /\ f \in Scans /\ f.made = Len(val) /\ f.flags = flags
      /\ OpenStack(val, O, f) /\ Paired(val, O, f)
      /\ root = (IF Len(val) = 0 THEN 0 ELSE 1) /\ Len(val) \in Nat
      /\ \A j \in 1..Len(val) : Counted(val, f, j)
  BY <1>1, InFirst
<1>3. /\ pass' = 0 /\ top' = 0 /\ root' = 0 /\ flags' = {"seek"} /\ alloc' = root
      /\ UNCHANGED <<parser, val, cur, oom>>
  BY DEF EndOfPass
<1>4. O = {} /\ "seek" \notin flags
  BY <1>2 DEF OpenStack
<1>5. Run(h) /\ Run(h)'
  BY <1>3 DEF FirstPass, Run
<1>6. PICK s : s = h[0]
  OBVIOUS
<1>7. s = Start
  BY <1>5, <1>6 DEF Run
<1>8. /\ s.flags = {"seek"} /\ s.top = 0 /\ s.made = 0
      /\ \A j \in Nat : s.length[j] = 0 /\ s.bytes[j] = 0 /\ s.keys[j] = 0
  BY <1>7 DEF Start, Zeros
<1>9. OpenStack(val', {}, s)
  BY <1>8 DEF OpenStack
<1>10. At(s)'
  BY <1>3, <1>8 DEF At
<1>11. \A i, j \in 1..Len(val) : ~Kid(val, i, j)
  <2> SUFFICES ASSUME NEW i \in 1..Len(val), NEW j \in 1..Len(val) PROVE ~Kid(val, i, j)
    OBVIOUS
  <2>1. val[i].kids = <<>>
    BY <1>2 DEF Counted, Unfilled
  <2>2. 1..Len(val[i].kids) = {}
    BY <2>1
  <2> QED
    BY <2>2 DEF Kid
<1>12. Attached({}, s)'
  BY <1>3, <1>8, <1>11 DEF Attached
<1>13. Paired(val', {}, f) /\ "done" \in f.flags /\ "seek" \notin f.flags
  BY <1>2, <1>3, <1>4
<1>14. alloc' = IF s.made < f.made THEN s.made + 1 ELSE 0
  BY <1>2, <1>3, <1>8
<1>15. ASSUME NEW j \in 1..Len(val')
       PROVE  /\ val'[j].bytes = f.bytes[j] /\ val'[j].cell = "live"
              /\ ~(j <= s.made) /\ val'[j].length = f.length[j] /\ Unfilled(val'[j])
  BY <1>2, <1>3, <1>8 DEF Counted
<1>16. SecondPass(h, {})'
  <2>1. h[pos'] = s /\ h[Len(text')] = f
    BY <1>1, <1>6
  <2> QED
    BY <1>5, <1>9, <1>10, <1>12, <1>13, <1>14, <1>15, <2>1 DEF SecondPass, Halfway
<1>17. Stages'
  BY <1>3, <1>16 DEF Stages, Freeing
<1>18. Typed'
  <2>1. 0 \in 0..Len(text') /\ 0 \in 0..Len(val)
    BY <1>2
  <2> QED
    BY <1>3, <2>1 DEF Typed, Flags
<1>19. Held'
  <2>1. ASSUME NEW j \in 1..Len(val) PROVE Sound(val[j]) /\ Fits(val[j])
    <3>1. Unfilled(val[j]) /\ val[j].cell = "live" /\ val[j] \in Values
      BY <1>2 DEF Counted, Shape
    <3>2. val[j].bytes \in Nat
      BY <3>1, Fields
    <3> QED
      BY <3>1, <3>2 DEF Unfilled, Sound, Fits, HasBlock
  <2> QED
    BY <1>3, <2>1 DEF Held
<1> QED
  BY <1>3, <1>17, <1>18, <1>19 DEF JsonInv

(* The first pass gives up. *)
LEMMA FirstFails ==
  ASSUME Shape(val), pass = 1, Typed, KidsKnown(val), parser = "parse", ~oom,
         NEW h, NEW O, FirstPass(h, O), UNCHANGED <<scanVars, val, top, root, cur, oom>>,
         parser' = "unwind", alloc' = root
  PROVE  JsonInv'
<1>1. text \in Seq(Tokens)
  BY DEF Typed
<1>2. PICK s : s = h[Len(text)]
  OBVIOUS
<1>3. /\ root = (IF Len(val) = 0 THEN 0 ELSE 1) /\ Len(val) \in Nat
      /\ \A j \in 1..Len(val) : Counted(val, s, j)
  BY <1>1, <1>2, InFirst
<1>4. UnwindsFirst'
  BY <1>3 DEF UnwindsFirst, Counted, Unfilled, scanVars
<1>5. Stages'
  BY <1>4 DEF Stages, Freeing, scanVars
<1>6. Typed'
  BY DEF Typed, scanVars
<1>7. Held'
  BY <1>3 DEF Held, Counted, Unfilled, Sound, scanVars
<1> QED
  BY <1>5, <1>6, <1>7 DEF JsonInv

(* Any step of the first pass. *)
LEMMA FirstStep ==
  ASSUME JsonInv, parser = "parse", pass = 1, NEW b \in Tokens \cup {Eof}, ParseToken(b)
  PROVE  JsonInv'
<1>1. Typed /\ Shape(val) /\ KidsKnown(val) /\ text \in Seq(Tokens) /\ flags \in SUBSET Flags
  BY DEF JsonInv, Typed
<1>2. ~oom /\ \E h, O : FirstPass(h, O)
  BY DEF JsonInv, Stages
<1>3. PICK h, O : FirstPass(h, O)
  BY <1>2
<1>4. CASE ~Accepted(b) /\ Rejected
  <2>1. /\ UNCHANGED <<scanVars, val, top, root, cur, oom>> /\ parser' = "unwind" /\ alloc' = root
    BY <1>4 DEF Rejected
  <2> QED
    BY <1>1, <1>2, <1>3, <2>1, FirstFails
<1>5. CASE AllocFails
  <2>1. /\ UNCHANGED <<scanVars, val, top, root, cur, oom>> /\ parser' = "unwind" /\ alloc' = root
    BY <1>5 DEF AllocFails
  <2> QED
    BY <1>1, <1>2, <1>3, <2>1, FirstFails
<1>6. CASE /\ Accepted(b) /\ Advance(b)
           /\ \/ StartsValue(b) /\ (OpenContainer(b) \/ ReadScalar(b) \/ ReadString(b))
              \/ IsKey(b) /\ ReadKey(b)
              \/ Closes(b) /\ CloseContainer
              \/ (Separates(b) \/ Colon(b)) /\ Separator(b)
              \/ b = Eof /\ EndOfPass
  <2>1. CASE b = Eof
    <3>1. "done" \in flags /\ EndOfPass /\ text' = text /\ pos' = 0
      BY <1>6, <2>1, EofIsNoToken, Zenon DEF Accepted, Advance
    <3> QED
      BY <1>1, <1>2, <1>3, <3>1, FirstEnds
  <2>2. CASE b # Eof
    <3>1. "done" \notin flags /\ text' = Append(text, b) /\ pos' = pos + 1 /\ b \in Tokens
      BY <1>6, <2>2 DEF Accepted, Advance
    <3>2. Len(text) < MaxText
      BY <2>2 DEF ParseToken, Read
    <3>3. UNCHANGED <<parser, pass, cur, oom>>
      BY <1>6, <2>2, Zenon
         DEF OpenContainer, ReadScalar, ReadString, ReadKey, CloseContainer, Separator
    <3>4. /\ Shape(val') /\ Len(val') >= Len(val) /\ \E g, P : FirstPass(g, P)'
      <4>1. CASE StartsValue(b) /\ OpenContainer(b)
        BY <1>1, <1>3, <3>1, <4>1, FirstOpens
      <4>2. CASE StartsValue(b) /\ ReadScalar(b)
        BY <1>1, <1>3, <3>1, <4>2, FirstScalar
      <4>3. CASE StartsValue(b) /\ ReadString(b)
        BY <1>1, <1>3, <3>1, <4>3, FirstString
      <4>4. CASE IsKey(b) /\ ReadKey(b)
        BY <1>1, <1>3, <3>1, <4>4, FirstKey
      <4>5. CASE Closes(b) /\ CloseContainer
        BY <1>1, <1>3, <3>1, <4>5, FirstCloses
      <4>6. CASE (Separates(b) \/ Colon(b)) /\ Separator(b)
        BY <1>1, <1>3, <3>1, <4>6, FirstSeparates
      <4> QED
        BY <1>6, <2>2, <4>1, <4>2, <4>3, <4>4, <4>5, <4>6
    <3>5. text' \in Seq(Tokens) /\ Len(text') <= MaxText
      <4>1. MaxText \in Nat
        BY JsonAssumption
      <4> QED
        BY <1>1, <3>1, <3>2, <4>1
    <3>6. cur <= Len(val')
      <4>1. cur \in 0..Len(val) /\ Len(val) \in Nat /\ Len(val') \in Nat
        BY <1>1, <3>4 DEF Typed, Shape
      <4> QED
        BY <3>4, <4>1
    <3> QED
      BY <1>1, <1>2, <3>3, <3>4, <3>5, <3>6, FirstKeeps
  <2> QED
    BY <2>1, <2>2
<1> QED
  BY <1>4, <1>5, <1>6 DEF ParseToken

-----------------------------------------------------------------------------
(***************************************************************************)
(* The second pass, one token on.  It goes where the first one has gone.   *)
(***************************************************************************)

(* Which step a token is, by the flags. *)
LEMMA MoveKinds ==
  ASSUME NEW v, NEW s, NEW b, NEW t, Moves(v, s, b, t)
  PROVE  /\ "done" \notin s.flags /\ b \in Tokens
         /\ b \in Openers => Opens(v, s, b, t)
         /\ b \in Leaves /\ "seek" \in s.flags => IsLeaf(v, s, b, t)
         /\ b \in Strings /\ "seek" \notin s.flags => Names(v, s, b, t)
         /\ b \in {"]", "}"} => Ends(v, s, b, t)
         /\ b \in {",", ":"} => Parts(v, s, b, t)
<1>1. CASE Opens(v, s, b, t)
  <2>1. b \in Openers /\ "done" \notin s.flags /\ "seek" \in s.flags
    BY <1>1, Zenon DEF Opens, Starts, Openers
  <2>2. b \in Tokens /\ b \notin Leaves /\ b \notin Strings /\ b \notin {"]", "}"} /\ b \notin {",", ":"}
    BY <2>1, TokenKinds DEF Openers, Leaves, Tokens, Punctuation
  <2> QED
    BY <1>1, <2>1, <2>2, Zenon
<1>2. CASE IsLeaf(v, s, b, t)
  <2>1. b \in Leaves /\ "done" \notin s.flags /\ "seek" \in s.flags
    BY <1>2, Zenon DEF IsLeaf, Starts
  <2>2. b \in Tokens /\ b \notin Openers /\ b \notin {"]", "}"} /\ b \notin {",", ":"}
    BY <2>1, TokenKinds DEF Openers, Leaves, Tokens, Punctuation
  <2> QED
    BY <1>2, <2>1, <2>2, Zenon
<1>3. CASE Names(v, s, b, t)
  <2>1. b \in Strings /\ "done" \notin s.flags /\ "seek" \notin s.flags
    BY <1>3, Zenon DEF Names
  <2>2. b \in Tokens /\ b \notin Openers /\ b \notin {"]", "}"} /\ b \notin {",", ":"}
    BY <2>1, TokenKinds DEF Openers, Leaves, Tokens, Punctuation
  <2> QED
    BY <1>3, <2>1, <2>2, Zenon
<1>4. CASE Ends(v, s, b, t)
  <2>1. b \in {"]", "}"} /\ "done" \notin s.flags
    BY <1>4, Zenon DEF Ends
  <2>2. b \in Tokens /\ b \notin Openers /\ b \notin Leaves /\ b \notin Strings /\ b \notin {",", ":"}
    BY <2>1, TokenKinds DEF Openers, Leaves, Tokens, Punctuation
  <2> QED
    BY <1>4, <2>1, <2>2, Zenon
<1>5. CASE Parts(v, s, b, t)
  <2>1. b \in {",", ":"} /\ "done" \notin s.flags
    BY <1>5, Zenon DEF Parts
  <2>2. b \in Tokens /\ b \notin Openers /\ b \notin Leaves /\ b \notin Strings /\ b \notin {"]", "}"}
    BY <2>1, TokenKinds DEF Openers, Leaves, Tokens, Punctuation
  <2> QED
    BY <1>5, <2>1, <2>2, Zenon
<1> QED
  BY <1>1, <1>2, <1>3, <1>4, <1>5 DEF Moves

(* Numbers up to the next one. *)
LEMMA UpTo ==
  ASSUME NEW m \in Nat, NEW k \in 1..m + 1
  PROVE  k \in Nat /\ (k = m + 1 \/ k \in 1..m)
OBVIOUS

(* The block of the parent gets one more entry. *)
LEMMA KidsAppended ==
  ASSUME NEW v, Shape(v), KidsKnown(v), NEW w, Shape(w), Extends(w, v), Len(w) = Len(v),
         NEW i \in 1..Len(v), v[i].parent # 0 => ~Kid(v, v[i].parent, i),
         \A j \in 1..Len(v) : IF j = v[i].parent THEN Longer(w[j].kids, v[j].kids, i)
                              ELSE w[j].kids = v[j].kids
  PROVE  /\ KidsKnown(w)
         /\ \A a, j \in 1..Len(v) : Kid(w, a, j) <=> Kid(v, a, j) \/ (a = v[i].parent /\ j = i)
<1>1. PICK n \in Nat : n = Len(v)
  BY DEF Shape
<1>2. PICK p : p = v[i].parent
  OBVIOUS
<1>3. p \in 0..n /\ i \in 1..n /\ (p # 0 => v[p].type \in Containers)
  BY <1>1, <1>2 DEF Shape
<1>4. \A j \in 1..n : w[j].type = v[j].type /\ w[j].parent = v[j].parent
  BY <1>1 DEF Extends
<1>a. \A j \in 1..n : IF j = p THEN Longer(w[j].kids, v[j].kids, i) ELSE w[j].kids = v[j].kids
  BY <1>1, <1>2
<1>5. \A j \in 1..n : v[j].kids \in Seq(Nat)
  <2>1. \A j \in 1..n : v[j] \in Values
    BY <1>1, Elements DEF Shape
  <2> QED
    BY <2>1, Fields
<1>6. ASSUME NEW a \in 1..n
      PROVE  /\ w[a].type \notin Containers => w[a].kids = <<>>
             /\ \A k \in 1..Len(w[a].kids) :
                  /\ w[a].kids[k] \in 1..n /\ w[w[a].kids[k]].parent = a
                  /\ \A l \in 1..Len(w[a].kids) : w[a].kids[k] = w[a].kids[l] => k = l
             /\ \A j \in 1..n : Kid(w, a, j) <=> Kid(v, a, j) \/ (a = p /\ j = i)
  <2>1. PICK q \in Seq(Nat) : q = v[a].kids
    BY <1>5
  <2>2. /\ v[a].type \notin Containers => q = <<>>
        /\ \A k \in 1..Len(q) :
             /\ q[k] \in 1..n /\ v[q[k]].parent = a
             /\ \A l \in 1..Len(q) : q[k] = q[l] => k = l
    BY <1>1, <2>1 DEF KidsKnown
  <2>3. CASE a = p
    <3>1. w[a].kids = Append(q, i) /\ v[a].type \in Containers
      <4>1. p # 0
        BY <2>3
      <4>2. w[a].kids = Append(v[a].kids, i)
        BY <1>a, <2>3, Zenon DEF Longer
      <4> QED
        BY <1>3, <2>1, <2>3, <4>1, <4>2, Zenon
    <3>2. PICK m \in Nat : m = Len(q)
      BY <2>1
    <3>3. PICK r : r = Append(q, i)
      OBVIOUS
    <3>4. Len(r) = m + 1 /\ r[m + 1] = i /\ \A k \in 1..m : r[k] = q[k]
      BY <3>2, <3>3
    <3>5. \A k \in 1..m : q[k] # i
      <4>1. p # 0
        BY <2>3
      <4> QED
        BY <1>2, <2>1, <2>3, <3>2, <4>1 DEF Kid
    <3>6. \A k \in 1..m + 1 :
            /\ r[k] \in 1..n /\ w[r[k]].parent = a
            /\ \A l \in 1..m + 1 : r[k] = r[l] => k = l
      <4> SUFFICES ASSUME NEW k \in 1..m + 1
                   PROVE  /\ r[k] \in 1..n /\ w[r[k]].parent = a
                          /\ \A l \in 1..m + 1 : r[k] = r[l] => k = l
        OBVIOUS
      <4>1. CASE k = m + 1
        <5>1. ASSUME NEW l \in 1..m + 1, r[k] = r[l] PROVE k = l
          <6>1. l = m + 1 \/ l \in 1..m
            BY <3>2, UpTo
          <6> QED
            BY <3>4, <3>5, <4>1, <5>1, <6>1
        <5> QED
          BY <1>2, <1>3, <1>4, <2>3, <3>4, <4>1, <5>1
      <4>2. CASE k # m + 1
        <5>1. k \in 1..m
          BY <3>2, <4>2, UpTo
        <5>2. ASSUME NEW l \in 1..m + 1, r[k] = r[l] PROVE k = l
          <6>1. l = m + 1 \/ l \in 1..m
            BY <3>2, UpTo
          <6> QED
            BY <2>2, <3>2, <3>4, <3>5, <5>1, <5>2, <6>1
        <5>3. q[k] \in 1..n /\ v[q[k]].parent = a
          BY <2>2, <3>2, <5>1
        <5>4. r[k] = q[k]
          BY <3>4, <5>1
        <5> QED
          BY <1>4, <5>2, <5>3, <5>4
      <4> QED
        BY <4>1, <4>2
    <3>7. ASSUME NEW j \in 1..n PROVE Kid(w, a, j) <=> Kid(v, a, j) \/ j = i
      <4>1. Kid(w, a, j) <=> \E k \in 1..m + 1 : r[k] = j
        BY <3>1, <3>3, <3>4 DEF Kid
      <4>2. Kid(v, a, j) <=> \E k \in 1..m : q[k] = j
        BY <2>1, <3>2 DEF Kid
      <4>3. ASSUME NEW k \in 1..m + 1 PROVE k = m + 1 \/ k \in 1..m
        BY <3>2
      <4>4. m + 1 \in 1..m + 1 /\ \A k \in 1..m : k \in 1..m + 1
        BY <3>2
      <4> QED
        BY <3>4, <4>1, <4>2, <4>3, <4>4
    <3>8. w[a].kids = r /\ Len(r) = m + 1 /\ w[a].type \in Containers
      BY <1>4, <3>1, <3>3, <3>4
    <3> QED
      BY <2>3, <3>6, <3>7, <3>8
  <2>4. CASE a # p
    <3>1. w[a].kids = q
      BY <1>a, <2>1, <2>4
    <3> QED
      BY <1>4, <2>1, <2>2, <2>4, <3>1, ZenonT(30) DEF Kid
  <2> QED
    BY <2>3, <2>4
<1> QED
  BY <1>1, <1>2, <1>6 DEF KidsKnown

(* Blocks that stay keep their children. *)
LEMMA KidsSame ==
  ASSUME NEW v, KidsKnown(v), NEW w, Extends(w, v), Len(w) = Len(v),
         \A j \in 1..Len(v) : w[j].kids = v[j].kids
  PROVE  KidsKnown(w) /\ \A a, j \in 1..Len(v) : Kid(w, a, j) <=> Kid(v, a, j)
<1>1. ASSUME NEW i \in 1..Len(v)
      PROVE  /\ w[i].type \notin Containers => w[i].kids = <<>>
             /\ \A k \in 1..Len(w[i].kids) :
                  /\ w[i].kids[k] \in 1..Len(v) /\ w[w[i].kids[k]].parent = i
                  /\ \A l \in 1..Len(w[i].kids) : w[i].kids[k] = w[i].kids[l] => k = l
  <2>1. w[i].kids = v[i].kids /\ w[i].type = v[i].type
    BY DEF Extends
  <2>2. /\ v[i].type \notin Containers => v[i].kids = <<>>
        /\ \A k \in 1..Len(v[i].kids) :
             /\ v[i].kids[k] \in 1..Len(v) /\ v[v[i].kids[k]].parent = i
             /\ \A l \in 1..Len(v[i].kids) : v[i].kids[k] = v[i].kids[l] => k = l
    BY DEF KidsKnown
  <2>3. \A j \in 1..Len(v) : w[j].parent = v[j].parent
    BY DEF Extends
  <2> QED
    BY <2>1, <2>2, <2>3
<1>2. \A a, j \in 1..Len(v) : Kid(w, a, j) <=> Kid(v, a, j)
  BY DEF Kid
<1> QED
  BY <1>1, <1>2 DEF KidsKnown

(* new_value in the second pass: what it has reserved for value m. *)
LEMMA Reserved ==
  ASSUME Shape(val), pass = 0, alloc \in 1..Len(val), NEW b, NEW w, w = NewVals(b)
  PROVE  /\ Shape(w) /\ Len(w) = Len(val) /\ Extends(w, val)
         /\ \A j \in 1..Len(val) :
              /\ Fixed(w[j], val[j]) /\ w[j].kids = val[j].kids /\ w[j].keys = val[j].keys
              /\ w[j].bytes = val[j].bytes /\ w[j].used = val[j].used
              /\ j # alloc => w[j] = val[j]
         /\ IF WantsBlock(val[alloc])
            THEN /\ w[alloc].length = 0 /\ w[alloc].room = val[alloc].length
                 /\ w[alloc].block = "live"
            ELSE w[alloc] = val[alloc]
<1>1. val \in Seq(Values) /\ Len(val) \in Nat
  BY DEF Shape
<1>2. PICK x \in Values : x = val[alloc]
  BY <1>1, Elements
<1>3. PICK r : r = Reserve(x)
  OBVIOUS
<1>4. /\ r \in Values /\ Fixed(r, x) /\ r.next = x.next /\ r.kids = x.kids /\ r.keys = x.keys
      /\ r.bytes = x.bytes /\ r.used = x.used
      /\ IF WantsBlock(x) THEN r.length = 0 /\ r.room = x.length /\ r.block = "live" ELSE r = x
  <2>1. CASE WantsBlock(x)
    <3>1. r = [x EXCEPT !.block = "live", !.room = x.length, !.length = 0]
      BY <1>3, <2>1 DEF Reserve
    <3>2. PICK n \in Nat : n = x.length
      BY Fields
    <3>3. r = [x EXCEPT !.block = "live", !.room = n, !.length = 0]
      BY <3>1, <3>2
    <3>4. /\ r \in Values /\ Fixed(r, x) /\ r.next = x.next /\ r.kids = x.kids /\ r.keys = x.keys
          /\ r.bytes = x.bytes /\ r.used = x.used /\ r.length = 0 /\ r.room = n /\ r.block = "live"
      BY <3>3 DEF Values, Fixed, Memory
    <3> QED
      BY <2>1, <3>2, <3>4
  <2>2. CASE ~WantsBlock(x)
    <3>1. r = x
      BY <1>3, <2>2 DEF Reserve
    <3> QED
      BY <2>2, <3>1 DEF Fixed
  <2> QED
    BY <2>1, <2>2
<1>5. w = [val EXCEPT ![alloc] = r]
  BY <1>2, <1>3 DEF NewVals
<1>6. w \in Seq(Values) /\ Len(w) = Len(val)
      /\ \A j \in 1..Len(val) : w[j] = IF j = alloc THEN r ELSE val[j]
  BY <1>1, <1>4, <1>5, Replaced
<1>7. \A j \in 1..Len(val) :
        /\ Fixed(w[j], val[j]) /\ w[j].next = val[j].next
        /\ w[j].kids = val[j].kids /\ w[j].keys = val[j].keys
        /\ w[j].bytes = val[j].bytes /\ w[j].used = val[j].used
        /\ j # alloc => w[j] = val[j]
  BY <1>2, <1>4, <1>6 DEF Fixed
<1>8. Shape(w) /\ Extends(w, val)
  BY <1>6, <1>7, ShapeKept
<1> QED
  BY <1>2, <1>4, <1>6, <1>7, <1>8

(* What the second pass knows, in terms of the parser and of what the      *)
(* first has known.                                                        *)
LEMMA InSecond ==
  ASSUME Shape(val), Typed, NEW h, NEW O, SecondPass(h, O), NEW s, s = h[pos],
         NEW f, f = h[Len(text)]
  PROVE  /\ s \in Scans /\ f \in Scans /\ f.made = Len(val) /\ Below(s, f) /\ Fresh(s) /\ Fresh(f)
         /\ s.flags = flags /\ s.top = top /\ s.made \in 0..Len(val) /\ OpenStack(val, O, s)
         /\ Attached(O, s) /\ Paired(val, {}, f) /\ "done" \in f.flags
         /\ root = (IF s.made = 0 THEN 0 ELSE 1)
         /\ alloc = IF s.made < Len(val) THEN s.made + 1 ELSE 0
         /\ \A j \in 1..Len(val) : Halfway(j, s, f)
         /\ Len(text) \in Nat /\ pos \in 0..Len(text) /\ Len(val) \in Nat
<1>1. /\ Run(h) /\ OpenStack(val, O, s) /\ At(s) /\ Attached(O, s)
      /\ Paired(val, {}, f) /\ "done" \in f.flags
      /\ alloc = IF s.made < f.made THEN s.made + 1 ELSE 0
      /\ \A j \in 1..Len(val) : Halfway(j, s, f)
  BY DEF SecondPass
<1>2. Len(text) \in Nat /\ pos \in 0..Len(text) /\ Len(text) \in 0..Len(text) /\ Len(val) \in Nat
  BY DEF Typed, Shape
<1>3. s \in Scans /\ f \in Scans /\ f.made = Len(val) /\ Below(s, f) /\ Fresh(s) /\ Fresh(f)
  BY <1>1, <1>2 DEF Run
<1>4. s.made \in 0..Len(val)
  BY <1>2, <1>3, ScanFields DEF Below
<1> QED
  BY <1>1, <1>2, <1>3, <1>4 DEF At

(* What the second pass reads next is what the first one read there. *)
LEMMA Repeats ==
  ASSUME Shape(val), Typed, NEW h, NEW O, SecondPass(h, O), pos < Len(text),
         NEW s, s = h[pos], NEW t, t = h[pos + 1], NEW f, f = h[Len(text)]
  PROVE  /\ t \in Scans /\ Below(t, f) /\ Fresh(t) /\ t.made \in 0..Len(val) /\ t.top <= t.made
         /\ text[pos + 1] \in Tokens /\ Moves(val, s, text[pos + 1], t)
<1>1. Len(text) \in Nat /\ pos \in 0..Len(text) /\ Len(val) \in Nat
  BY DEF Typed, Shape
<1>2. pos + 1 \in 1..Len(text) /\ pos + 1 \in 0..Len(text) /\ Len(text) \in 0..Len(text)
      /\ pos + 1 - 1 = pos
  BY <1>1
<1>3. Run(h)
  BY DEF SecondPass
<1>4. /\ t \in Scans /\ f \in Scans /\ Below(t, f) /\ Fresh(t) /\ t.top <= t.made
      /\ f.made = Len(val) /\ Moves(val, s, text[pos + 1], t)
  <2>0. \E i \in 1..Len(text) : i = pos + 1
    BY <1>2, Zenon
  <2>a. PICK i \in 1..Len(text) : i = pos + 1
    BY <2>0, Zenon
  <2>1. i - 1 = pos /\ i \in 0..Len(text)
    BY <1>1, <2>a
  <2>2. h[i - 1] = s /\ h[i] = t
    BY <2>1, <2>a
  <2>3. Moves(val, h[i - 1], text[i], h[i])
    BY <1>3 DEF Run
  <2>4. t \in Scans /\ f \in Scans /\ f.made = Len(val)
    BY <1>2, <1>3 DEF Run
  <2>5. Below(h[i], h[Len(text)]) /\ h[i].top <= h[i].made /\ Fresh(h[i])
    BY <1>3, <2>1 DEF Run
  <2> QED
    BY <2>a, <2>2, <2>3, <2>4, <2>5
<1>5. t.made \in 0..Len(val)
  BY <1>1, <1>4, ScanFields DEF Below
<1> QED
  BY <1>4, <1>5, MoveKinds

(* One more token of the second pass. *)
LEMMA SecondAdvances ==
  ASSUME Shape(val), Typed, NEW h, NEW O, SecondPass(h, O), pos < Len(text),
         NEW s, s = h[pos], NEW t, t = h[pos + 1], NEW f, f = h[Len(text)],
         NEW P, P = Opened(O, s, text[pos + 1]),
         UNCHANGED text, pos' = pos + 1, Shape(val'), Extends(val', val), Len(val') = Len(val),
         At(t)', alloc' = (IF t.made < Len(val) THEN t.made + 1 ELSE 0),
         Attached(P, t)', \A j \in 1..Len(val) : Halfway(j, t, f)'
  PROVE  SecondPass(h, P)'
<1>1. /\ t \in Scans /\ t.made \in 0..Len(val) /\ Moves(val, s, text[pos + 1], t)
  BY Repeats
<1>2. /\ s \in Scans /\ f \in Scans /\ f.made = Len(val) /\ OpenStack(val, O, s)
      /\ Paired(val, {}, f) /\ s.made \in 0..Len(val)
      /\ Len(text) \in Nat /\ pos \in 0..Len(text) /\ Len(val) \in Nat
  BY InSecond
<1>3. Run(h) /\ "done" \in f.flags /\ "seek" \notin f.flags
  BY DEF SecondPass
<1>4. OpenStack(val', P, t)
  <2>1. OpenStack(val, P, t)
    BY <1>1, <1>2, StackMoves
  <2> QED
    BY <1>1, <1>2, <2>1, StackKept
<1>5. Paired(val', {}, f)
  BY <1>2, PairedKept
<1>6. Run(h)'
  <2>1. ASSUME NEW i \in 1..Len(text) PROVE Moves(val', h[i - 1], text[i], h[i])
    <3>1. i \in 0..Len(text) /\ i - 1 \in 0..Len(text) /\ Len(text) \in 0..Len(text)
      BY <1>2
    <3>2. Moves(val, h[i - 1], text[i], h[i]) /\ h[i - 1].top <= h[i - 1].made
          /\ Below(h[i], f) /\ h[i] \in Scans /\ h[i - 1] \in Scans
      BY <1>3, <3>1 DEF Run
    <3>3. h[i].made <= Len(val)
      BY <1>2, <3>2 DEF Below
    <3> QED
      BY <3>2, <3>3, MovesKept
  <2> QED
    BY <1>3, <2>1 DEF Run
<1> QED
  BY <1>2, <1>3, <1>4, <1>5, <1>6 DEF SecondPass

(* The state that the second pass is in after a token. *)
LEMMA SecondKeeps ==
  ASSUME Typed, UNCHANGED <<parser, pass, cur, oom, text>>, parser = "parse", pass = 0, ~oom,
         pos' \in 0..Len(text), Shape(val'), KidsKnown(val'), cur <= Len(val'),
         NEW h, NEW O, SecondPass(h, O)'
  PROVE  JsonInv'
<1>1. PICK s : s = h[pos']
  OBVIOUS
<1>2. PICK f : f = h[Len(text)]
  OBVIOUS
<1>3. /\ Run(h)' /\ OpenStack(val', O, s) /\ At(s)'
      /\ Paired(val', {}, f) /\ alloc' = (IF s.made < f.made THEN s.made + 1 ELSE 0)
      /\ \A j \in 1..Len(val') : Halfway(j, s, f)'
  BY <1>1, <1>2 DEF SecondPass
<1>4. Len(text) \in 0..Len(text) /\ Len(val') \in Nat
  BY DEF Typed, Shape
<1>5. s \in Scans /\ f \in Scans /\ f.made = Len(val') /\ Below(s, f)
  BY <1>1, <1>2, <1>3, <1>4 DEF Run
<1>6. s.made \in 0..Len(val')
  BY <1>4, <1>5, ScanFields DEF Below
<1>7. Typed'
  <2>1. flags' \in SUBSET Flags
    BY <1>3, <1>5, ScanFields DEF At
  <2>2. top' \in 0..Len(val')
    BY <1>3, <1>4, <1>6 DEF At, OpenStack
  <2>3. root' \in 0..Len(val') /\ alloc' \in 0..Len(val') /\ cur' \in 0..Len(val')
    <3>1. cur \in Nat
      BY DEF Typed
    <3>2. root' \in 0..Len(val')
      BY <1>3, <1>4, <1>6 DEF At
    <3>3. alloc' \in 0..Len(val')
      BY <1>3, <1>4, <1>5, <1>6
    <3> QED
      BY <1>4, <3>1, <3>2, <3>3
  <2> QED
    BY <2>1, <2>2, <2>3 DEF Typed
<1>8. ASSUME NEW j \in 1..Len(val') PROVE Sound(val'[j]) /\ Fits(val'[j])
  <2>1. PICK v \in Values : v = val'[j]
    BY Elements DEF Shape
  <2>2. j \in Nat /\ Halfway(j, s, f)'
    BY <1>3
  <2>3. v.length \in Nat /\ v.bytes \in Nat /\ v.used \in Nat /\ v.room \in Nat
    BY Fields
  <2>4. CASE j <= s.made
    <3>1. /\ v.room = (IF Wants(j, f)' THEN f.length[j] ELSE 0)
          /\ v.block = (IF Wants(j, f)' THEN "live" ELSE "none")
          /\ v.length = s.length[j]
          /\ v.type \in Containers => Len(v.kids) = s.length[j]
          /\ Len(v.keys) = s.keys[j] /\ v.used = s.bytes[j]
          /\ v.bytes = f.bytes[j] /\ v.cell = "live"
      BY <2>1, <2>2, <2>4 DEF Halfway, Filling
    <3>2. Wants(j, f)' <=> v.type = "string" \/ (v.type \in Containers /\ f.length[j] # 0)
      BY <2>1 DEF Wants
    <3>3. s.length[j] <= f.length[j] /\ s.keys[j] <= f.keys[j] /\ s.bytes[j] <= f.bytes[j]
      BY <1>5, <2>2 DEF Below
    <3>4. /\ s.length[j] \in Nat /\ s.keys[j] \in Nat /\ s.bytes[j] \in Nat
          /\ f.length[j] \in Nat /\ f.keys[j] \in Nat /\ f.bytes[j] \in Nat
      BY <1>5, <2>2, CountsAreNumbers
    <3>5. /\ v.type = "object" => f.keys[j] = f.length[j]
          /\ v.type # "object" => f.keys[j] = 0
      <4>1. j \in 1..f.made
        BY <1>5
      <4>2. ~Waits({}, f, j)
        BY DEF Waits
      <4>3. /\ v.type = "object" => f.keys[j] = f.length[j] + IF Waits({}, f, j) THEN 1 ELSE 0
            /\ v.type # "object" => f.keys[j] = 0
        BY <1>3, <2>1, <4>1 DEF Paired
      <4> QED
        BY <3>4, <4>2, <4>3
    <3>6. Len(v.keys) <= v.room /\ v.used <= v.bytes
      BY <3>1, <3>2, <3>3, <3>4, <3>5 DEF Containers
    <3>7. HasBlock(v) => v.length <= v.room
      BY <3>1, <3>3 DEF HasBlock
    <3>8. v.type \notin Containers => Len(v.kids) = 0
      BY <2>1 DEF KidsKnown
    <3>9. HasBlock(v) => Len(v.kids) <= v.room
      BY <2>3, <3>1, <3>3, <3>8 DEF HasBlock
    <3>10. v.type \in Containers => v.length <= Len(v.kids)
      BY <3>1, <3>4
    <3> QED
      BY <2>1, <3>1, <3>6, <3>7, <3>9, <3>10 DEF Sound, Fits
  <2>5. CASE ~(j <= s.made)
    <3>1. Unfilled(v) /\ v.cell = "live"
      BY <2>1, <2>2, <2>5 DEF Halfway
    <3> QED
      BY <2>1, <2>3, <3>1 DEF Unfilled, Sound, Fits, HasBlock
  <2> QED
    BY <2>4, <2>5
<1>9. Held'
  BY <1>8 DEF Held
<1>10. Stages'
  BY DEF Stages, Freeing
<1> QED
  BY <1>7, <1>9, <1>10 DEF JsonInv

(* Value s.made + 1 is the next in the chain, and what it is reserved for  *)
(* is what the first pass has counted.  w are the values once it is made.  *)
LEMMA SecondNew ==
  ASSUME Shape(val), Typed, pass = 0, KidsKnown(val), NEW h, NEW O, SecondPass(h, O), pos < Len(text),
         NEW s, s = h[pos], NEW t, t = h[pos + 1], NEW f, f = h[Len(text)],
         NEW b, b = text[pos + 1], t.made = s.made + 1, Made(val, s, b),
         NEW w, w = NewVals(b)
  PROVE  /\ alloc = s.made + 1 /\ NewId = alloc /\ alloc \in 1..Len(val)
         /\ NewPointers => root' = 1 /\ alloc' = (IF t.made < Len(val) THEN t.made + 1 ELSE 0)
         /\ Shape(w) /\ Len(w) = Len(val) /\ Extends(w, val) /\ KidsKnown(w)
         /\ \A i, j \in 1..Len(val) : Kid(w, i, j) <=> Kid(val, i, j)
         /\ \A j \in 1..Len(val) : Fixed(w[j], val[j]) /\ (j # alloc => w[j] = val[j])
         /\ LET v == w[alloc] IN
            /\ v.length = 0 /\ v.kids = <<>> /\ v.keys = <<>> /\ v.used = 0
            /\ v.bytes = f.bytes[alloc] /\ v.cell = "live"
            /\ v.room = (IF Wants(alloc, f) THEN f.length[alloc] ELSE 0)
            /\ v.block = (IF Wants(alloc, f) THEN "live" ELSE "none")
<1>1. /\ s \in Scans /\ f \in Scans /\ f.made = Len(val)
      /\ s.made \in 0..Len(val) /\ Paired(val, {}, f)
      /\ root = (IF s.made = 0 THEN 0 ELSE 1)
      /\ alloc = (IF s.made < Len(val) THEN s.made + 1 ELSE 0)
      /\ \A j \in 1..Len(val) : Halfway(j, s, f)
      /\ Len(val) \in Nat
  BY InSecond
<1>2. t.made \in 0..Len(val)
  BY Repeats
<1>3. alloc = s.made + 1 /\ NewId = alloc /\ alloc \in 1..Len(val)
  BY <1>1, <1>2 DEF NewId
<1>4. NewPointers => root' = 1 /\ alloc' = (IF t.made < Len(val) THEN t.made + 1 ELSE 0)
  <2>1. val[alloc].next = IF alloc < Len(val) THEN alloc + 1 ELSE 0
    BY <1>3 DEF Shape
  <2> QED
    BY <1>1, <1>3, <2>1 DEF NewPointers
<1>5. /\ Shape(w) /\ Len(w) = Len(val) /\ Extends(w, val)
      /\ \A j \in 1..Len(val) :
           /\ Fixed(w[j], val[j]) /\ w[j].kids = val[j].kids /\ w[j].keys = val[j].keys
           /\ w[j].bytes = val[j].bytes /\ w[j].used = val[j].used
           /\ j # alloc => w[j] = val[j]
      /\ IF WantsBlock(val[alloc])
         THEN /\ w[alloc].length = 0 /\ w[alloc].room = val[alloc].length
              /\ w[alloc].block = "live"
         ELSE w[alloc] = val[alloc]
  BY <1>3, Reserved
<1>6. KidsKnown(w) /\ \A i, j \in 1..Len(val) : Kid(w, i, j) <=> Kid(val, i, j)
  BY <1>5, KidsSame
<1>7. PICK m \in Nat : m = alloc
  BY <1>3
<1>8. PICK v : v = val[m]
  OBVIOUS
<1>9. /\ v.bytes = f.bytes[m] /\ v.cell = "live" /\ v.length = f.length[m] /\ Unfilled(v)
  <2>1. ~(m <= s.made)
    BY <1>1, <1>3, <1>7
  <2>2. Halfway(m, s, f)
    BY <1>1, <1>3, <1>7
  <2> QED
    BY <1>8, <2>1, <2>2 DEF Halfway
<1>10. Wants(m, f) <=> WantsBlock(v)
  BY <1>8, <1>9 DEF Wants, WantsBlock
<1>11. ~WantsBlock(v) => f.length[m] = 0
  <2>1. v.type = "scalar" => f.length[m] = 0
    BY <1>1, <1>3, <1>7, <1>8 DEF Paired
  <2>2. v.type \in Containers \cup {"string", "scalar"}
    <3>1. v \in Values
      BY <1>3, <1>7, <1>8, Elements DEF Shape
    <3> QED
      BY <3>1, Fields
  <2> QED
    BY <1>9, <2>1, <2>2 DEF WantsBlock
<1>12. LET u == w[m] IN
       /\ u.length = 0 /\ u.kids = <<>> /\ u.keys = <<>> /\ u.used = 0
       /\ u.bytes = f.bytes[m] /\ u.cell = "live"
       /\ u.room = (IF Wants(m, f) THEN f.length[m] ELSE 0)
       /\ u.block = (IF Wants(m, f) THEN "live" ELSE "none")
  <2>1. /\ Fixed(w[m], v) /\ w[m].kids = v.kids /\ w[m].keys = v.keys
        /\ w[m].bytes = v.bytes /\ w[m].used = v.used
        /\ IF WantsBlock(v)
           THEN /\ w[m].length = 0 /\ w[m].room = v.length
                /\ w[m].block = "live"
           ELSE w[m] = v
    BY <1>3, <1>5, <1>7, <1>8
  <2> QED
    BY <1>9, <1>10, <1>11, <2>1 DEF Unfilled, Fixed
<1>13. \A j \in 1..Len(val) : Fixed(w[j], val[j]) /\ (j # alloc => w[j] = val[j])
  BY <1>5
<1> QED
  BY <1>3, <1>4, <1>5, <1>6, <1>7, <1>12, <1>13

(* What a token does to the values v: nothing that shows, an entry more in *)
(* the block of the parent of i, or a name more in the block of i.         *)
Alike(u, v) == u.type = v.type /\ u.lit = v.lit /\ u.parent = v.parent
Same(u, v) ==
  Len(u) = Len(v) /\ \A j \in 1..Len(v) : Alike(u[j], v[j]) /\ u[j].kids = v[j].kids /\ u[j].keys = v[j].keys
Gains(u, v, i) ==
  /\ Len(u) = Len(v)
  /\ \A j \in 1..Len(v) :
       /\ Alike(u[j], v[j]) /\ u[j].keys = v[j].keys
       /\ IF j = v[i].parent THEN Longer(u[j].kids, v[j].kids, i) ELSE u[j].kids = v[j].kids
GainsName(u, v, i, b) ==
  /\ Len(u) = Len(v)
  /\ \A j \in 1..Len(v) :
       /\ Alike(u[j], v[j]) /\ u[j].kids = v[j].kids
       /\ IF j = i THEN Longer(u[j].keys, v[j].keys, b) ELSE u[j].keys = v[j].keys

(* What token b, from s to t, does to the values v. *)
Effect(u, v, s, b, t) ==
  \/ Opens(v, s, b, t) /\ Same(u, v) /\ v[t.top].kids = <<>> /\ v[t.top].keys = <<>>
  \/ IsLeaf(v, s, b, t) /\ Gains(u, v, t.made) /\ \A j \in 1..Len(v) : ~Kid(v, j, t.made)
  \/ Names(v, s, b, t) /\ GainsName(u, v, s.top, b)
  \/ Ends(v, s, b, t) /\ Gains(u, v, s.top) /\ \A j \in 1..Len(v) : ~Kid(v, j, s.top)
  \/ Parts(v, s, b, t) /\ Same(u, v)

(* The second pass opens a container. *)
LEMMA SecondOpens ==
  ASSUME Shape(val), Typed, KidsKnown(val), pass = 0, NEW h, NEW O, SecondPass(h, O),
         pos < Len(text), NEW b, b = text[pos + 1], StartsValue(b), OpenContainer(b),
         UNCHANGED text, pos' = pos + 1
  PROVE  /\ Shape(val') /\ KidsKnown(val') /\ Len(val') = Len(val) /\ \E P : SecondPass(h, P)'
         /\ Effect(val', val, h[pos], b, h[pos + 1])
<1>1. PICK s : s = h[pos]
  OBVIOUS
<1>2. PICK t : t = h[pos + 1]
  OBVIOUS
<1>3. PICK f : f = h[Len(text)]
  OBVIOUS
<1>4. /\ s \in Scans /\ f \in Scans /\ f.made = Len(val) /\ Fresh(s)
      /\ s.flags = flags /\ s.top = top /\ s.made \in 0..Len(val) /\ OpenStack(val, O, s)
      /\ Attached(O, s) /\ \A j \in 1..Len(val) : Halfway(j, s, f)
      /\ Len(val) \in Nat
  BY <1>1, <1>3, InSecond
<1>5. t \in Scans /\ t.made \in 0..Len(val) /\ Moves(val, s, b, t)
  BY <1>1, <1>2, <1>3, Repeats
<1>6. /\ b \in Openers /\ val' = NewVals(b) /\ top' = NewId /\ NewPointers
      /\ flags' = IF b = "[" THEN flags ELSE flags \ {"seek"}
  BY DEF OpenContainer, Openers
<1>7. /\ Made(val, s, b) /\ t.top = s.made + 1 /\ t.made = s.made + 1
      /\ t.flags = flags'
      /\ t.length = s.length /\ t.bytes = s.bytes /\ t.keys = s.keys
  <2>1. Opens(val, s, b, t)
    BY <1>5, <1>6, MoveKinds
  <2> QED
    BY <1>4, <1>6, <2>1, Zenon DEF Opens
<1>8. PICK m \in Nat : m = s.made + 1
  BY <1>4
<1>9. /\ alloc = m /\ top' = m /\ m \in 1..Len(val)
      /\ root' = 1 /\ alloc' = (IF t.made < Len(val) THEN t.made + 1 ELSE 0)
      /\ Shape(val') /\ Len(val') = Len(val) /\ Extends(val', val) /\ KidsKnown(val')
      /\ \A i, j \in 1..Len(val) : Kid(val', i, j) <=> Kid(val, i, j)
      /\ \A j \in 1..Len(val) : Fixed(val'[j], val[j]) /\ (j # m => val'[j] = val[j])
      /\ LET v == val'[m] IN
         /\ v.length = 0 /\ v.kids = <<>> /\ v.keys = <<>> /\ v.used = 0
         /\ v.bytes = f.bytes[m] /\ v.cell = "live"
         /\ v.room = (IF Wants(m, f) THEN f.length[m] ELSE 0)
         /\ v.block = (IF Wants(m, f) THEN "live" ELSE "none")
  <2>1. PICK w : w = NewVals(b)
    OBVIOUS
  <2>2. w = val' /\ m = s.made + 1
    BY <1>6, <1>8, <2>1
  <2> QED
    BY <1>1, <1>2, <1>3, <1>6, <1>7, <2>1, <2>2, SecondNew
<1>10. PICK P : P = Opened(O, s, b)
  OBVIOUS
<1>11. P = O \cup {m}
  BY <1>6, <1>8, <1>10, Zenon DEF Opened, Openers
<1>12. At(t)'
  BY <1>7, <1>8, <1>9 DEF At
<1>13. Attached(P, t)'
  <2>1. ASSUME NEW j \in 2..t.made PROVE j \in P \/ Kid(val', val'[j].parent, j)
    <3>1. CASE j = m
      BY <1>11, <3>1
    <3>2. CASE j # m
      <4>1. j \in 2..s.made /\ j \in 1..Len(val)
        BY <1>4, <1>7, <1>8, <3>2
      <4>2. j \in O \/ Kid(val, val[j].parent, j)
        BY <1>4, <4>1 DEF Attached
      <4>3. val'[j].parent = val[j].parent /\ val[j].parent \in 1..Len(val)
        <5>1. val[j].parent \in 0..j - 1 /\ val[j].parent # 0
          BY <4>1 DEF Shape
        <5> QED
          BY <1>4, <1>9, <4>1, <5>1 DEF Fixed
      <4> QED
        BY <1>9, <1>11, <4>1, <4>2, <4>3
    <3> QED
      BY <3>1, <3>2
  <2>2. ASSUME NEW i \in 1..Len(val'), NEW j \in 1..Len(val'), Kid(val', i, j)
        PROVE  j <= t.made /\ j \notin P
    <3>1. j <= s.made /\ j \notin O
      BY <1>4, <1>9, <2>2 DEF Attached
    <3> QED
      BY <1>4, <1>7, <1>8, <1>11, <3>1
  <2> QED
    BY <2>1, <2>2 DEF Attached
<1>14. ASSUME NEW j \in 1..Len(val) PROVE Halfway(j, t, f)'
  <2>0. j \in Nat /\ Halfway(j, s, f) /\ (Wants(j, f)' <=> Wants(j, f))
    BY <1>4, <1>9 DEF Wants, Fixed
  <2>1. CASE j = m
    <3>1. s.length[m] = 0 /\ s.keys[m] = 0 /\ s.bytes[m] = 0
      BY <1>4, <1>8 DEF Fresh
    <3>2. j <= t.made
      BY <1>7, <1>8, <2>1
    <3> QED
      BY <1>7, <1>9, <2>0, <2>1, <3>1, <3>2 DEF Halfway, Filling
  <2>2. CASE j # m
    <3>1. j <= t.made <=> j <= s.made
      BY <1>4, <1>7, <1>8, <2>0, <2>2
    <3>2. val'[j] = val[j]
      BY <1>9, <2>2
    <3> QED
      BY <1>7, <2>0, <3>1, <3>2 DEF Halfway, Filling
  <2> QED
    BY <2>1, <2>2
<1>15. SecondPass(h, P)'
  BY <1>1, <1>2, <1>3, <1>9, <1>10, <1>12, <1>13, <1>14, SecondAdvances
<1>16. Effect(val', val, s, b, t)
  <2>1. Opens(val, s, b, t)
    BY <1>5, <1>6, MoveKinds
  <2>2. val[m].kids = <<>> /\ val[m].keys = <<>>
    <3>1. ~(m <= s.made) /\ Halfway(m, s, f)
      BY <1>4, <1>8, <1>9
    <3> QED
      BY <3>1 DEF Halfway, Unfilled
  <2>3. \A j \in 1..Len(val) : val'[j].kids = val[j].kids /\ val'[j].keys = val[j].keys
    BY <1>9, <2>2
  <2>4. Same(val', val)
    BY <1>9, <2>3 DEF Same, Alike, Fixed
  <2>5. t.top = m
    BY <1>7, <1>8
  <2> QED
    BY <2>1, <2>2, <2>4, <2>5, Zenon DEF Effect
<1> QED
  BY <1>1, <1>2, <1>9, <1>15, <1>16

(* A value ends in the same place, whatever the values hold. *)
LEMMA EndsAlike ==
  ASSUME NEW v, Shape(v), NEW w, Extends(w, v), NEW i \in 1..Len(v)
  PROVE  EndTop(w, i) = EndTop(v, i) /\ \A F : EndFlags(w, F, i) = EndFlags(v, F, i)
<1>1. w[i].parent = v[i].parent
  BY DEF Extends
<1>2. v[i].parent # 0 => v[i].parent \in 1..Len(v)
  <2>1. v[i].parent \in 0..i - 1 /\ Len(v) \in Nat
    BY DEF Shape
  <2> QED
    BY <2>1
<1>3. v[i].parent # 0 => w[v[i].parent].type = v[v[i].parent].type
  BY <1>2 DEF Extends
<1> QED
  BY <1>1, <1>3, Zenon DEF EndTop, EndFlags

Following(m, s) == m = s.made + 1

(* Value i is counted by its parent p, and is an entry of it. *)
Grows(u, w, p, i, j) ==
  /\ Fixed(u[j], w[j]) /\ Stored(u[j], w[j])
  /\ u[j].length = w[j].length + IF j = p THEN 1 ELSE 0
  /\ IF j = p THEN Longer(u[j].kids, w[j].kids, i) ELSE u[j].kids = w[j].kids

(* In the second pass a complete value becomes an entry of its parent. *)
LEMMA CompleteKids ==
  ASSUME pass = 0, NEW w, Shape(w), KidsKnown(w), NEW i \in 1..Len(w), NEW p, p = w[i].parent,
         p # 0 => ~Kid(w, p, i), Complete(w, i)
  PROVE  /\ Shape(val') /\ Len(val') = Len(w) /\ Extends(val', w) /\ KidsKnown(val')
         /\ top' = EndTop(val', i) /\ flags' = EndFlags(val', flags, i)
         /\ \A j \in 1..Len(w) : Grows(val', w, p, i, j)
         /\ \A a, j \in 1..Len(w) : Kid(val', a, j) <=> Kid(w, a, j) \/ (a = p /\ j = i)
<1>1. PICK u : u = Attach(w, i)
  OBVIOUS
<1>2. u = val' /\ top' = EndTop(val', i) /\ flags' = EndFlags(val', flags, i)
  BY <1>1, CompleteIs
<1>3. /\ Shape(u) /\ Len(u) = Len(w) /\ Extends(u, w)
      /\ \A j \in 1..Len(w) :
           /\ Fixed(u[j], w[j]) /\ Stored(u[j], w[j])
           /\ u[j].length = w[j].length + IF j = p THEN 1 ELSE 0
           /\ IF j = p THEN Longer(u[j].kids, w[j].kids, i) ELSE u[j].kids = w[j].kids
  BY <1>1, AttachIs, SMTT(30)
<1>4. /\ KidsKnown(u)
      /\ \A a, j \in 1..Len(w) : Kid(u, a, j) <=> Kid(w, a, j) \/ (a = p /\ j = i)
  <2>1. w[i].parent # 0 => ~Kid(w, w[i].parent, i)
    OBVIOUS
  <2>2. \A j \in 1..Len(w) : IF j = w[i].parent THEN Longer(u[j].kids, w[j].kids, i)
                             ELSE u[j].kids = w[j].kids
    BY <1>3
  <2>3. Shape(u) /\ Len(u) = Len(w) /\ Extends(u, w)
    BY <1>3
  <2>4. /\ KidsKnown(u)
        /\ \A a, j \in 1..Len(w) : Kid(u, a, j) <=> Kid(w, a, j) \/ (a = w[i].parent /\ j = i)
    BY <2>1, <2>2, <2>3, KidsAppended
  <2> QED
    BY <2>4
<1>5. \A j \in 1..Len(w) : Grows(u, w, p, i, j)
  BY <1>3 DEF Grows
<1> QED
  BY <1>2, <1>3, <1>4, <1>5

(* What the second pass makes of the leaf m, of length n. *)
LeafIs(v, n, m, f) ==
  /\ v.length = n /\ v.kids = <<>> /\ v.keys = <<>> /\ v.used = 0
  /\ v.bytes = f.bytes[m] /\ v.cell = "live"
  /\ v.room = (IF Wants(m, f) THEN f.length[m] ELSE 0)
  /\ v.block = (IF Wants(m, f) THEN "live" ELSE "none")

(* The second pass reads a leaf, w being the values with the leaf in its   *)
(* block.                                                                  *)
LEMMA SecondLeaf ==
  ASSUME Shape(val), Typed, KidsKnown(val), pass = 0, NEW h, NEW O, SecondPass(h, O),
         pos < Len(text), NEW b \in Leaves, b = text[pos + 1], UNCHANGED text, pos' = pos + 1,
         NEW s, s = h[pos], NEW t, t = h[pos + 1], NEW f, f = h[Len(text)],
         IsLeaf(val, s, b, t), NEW m \in 1..Len(val), Following(m, s),
         root' = 1, alloc' = (IF t.made < Len(val) THEN t.made + 1 ELSE 0),
         NEW w, Shape(w), Len(w) = Len(val), Extends(w, val), KidsKnown(w),
         \A i, j \in 1..Len(val) : Kid(w, i, j) <=> Kid(val, i, j),
         \A j \in 1..Len(val) : j # m => w[j] = val[j],
         LeafIs(w[m], LeafLength(b), m, f),
         Complete(w, m)
  PROVE  /\ Shape(val') /\ KidsKnown(val') /\ Len(val') = Len(val) /\ \E P : SecondPass(h, P)'
         /\ Effect(val', val, h[pos], b, h[pos + 1])
<1>1. /\ s \in Scans /\ f \in Scans /\ f.made = Len(val) /\ Fresh(s)
      /\ s.flags = flags /\ s.top = top /\ s.made \in 0..Len(val) /\ OpenStack(val, O, s)
      /\ Attached(O, s) /\ \A j \in 1..Len(val) : Halfway(j, s, f)
      /\ Len(val) \in Nat
  BY InSecond
<1>a. m = s.made + 1
  BY DEF Following
<1>2. t \in Scans /\ t.made \in 0..Len(val)
  BY Repeats
<1>3. /\ Starts(s) /\ Made(val, s, b) /\ t.flags = EndFlags(val, flags, m)
      /\ t.top = EndTop(val, m) /\ t.made = m
      /\ \A j \in Nat : t.length[j] = IF j = m THEN LeafLength(b)
                                      ELSE s.length[j] + IF j = top THEN 1 ELSE 0
      /\ t.bytes = s.bytes /\ t.keys = s.keys
  BY <1>1, <1>a DEF IsLeaf, LeafLength
<1>b. s.made \in Nat /\ Len(val) \in Nat /\ m = s.made + 1 /\ t.made = m
  BY <1>1, <1>a, <1>3
<1>4. val[m].parent = top /\ w[m].parent = top /\ w[m].type = TypeOf(b) /\ TypeOf(b) \notin Containers
      /\ top \in 0..m - 1
  <2>1. val[m].parent = top /\ val[m].type = TypeOf(b)
    BY <1>1, <1>a, <1>3 DEF Made
  <2>2. TypeOf(b) \notin Containers
    BY TokenKinds DEF Leaves, Containers
  <2>3. val[m].parent \in 0..m - 1
    BY DEF Shape
  <2> QED
    BY <2>1, <2>2, <2>3 DEF Extends
<1>5. w[m].parent # 0 => ~Kid(w, w[m].parent, m)
  <2>1. top # 0 => top \in 1..Len(val)
    BY <1>1, <1>a, <1>4
  <2>2. ~(m <= s.made)
    BY <1>1, <1>a
  <2>3. top # 0 => ~Kid(val, top, m)
    BY <1>1, <1>a, <2>1, <2>2 DEF Attached
  <2> QED
    BY <1>4, <2>1, <2>3
<1>6. /\ Shape(val') /\ Len(val') = Len(val) /\ Extends(val', w) /\ KidsKnown(val')
      /\ top' = EndTop(val', m) /\ flags' = EndFlags(val', flags, m)
      /\ \A j \in 1..Len(val) : Grows(val', w, top, m, j)
      /\ \A i, j \in 1..Len(val) : Kid(val', i, j) <=> Kid(w, i, j) \/ (i = top /\ j = m)
  <2>1. PICK p : p = w[m].parent
    OBVIOUS
  <2>2. m \in 1..Len(w)
    OBVIOUS
  <2> QED
    <3>1. p = top /\ (p # 0 => ~Kid(w, p, m)) /\ Shape(w) /\ KidsKnown(w) /\ Complete(w, m) /\ pass = 0
      BY <1>4, <1>5, <2>1
    <3>2. /\ Shape(val') /\ Len(val') = Len(w) /\ Extends(val', w) /\ KidsKnown(val')
          /\ top' = EndTop(val', m) /\ flags' = EndFlags(val', flags, m)
      BY <2>1, <2>2, <3>1, CompleteKids
    <3>3. \A j \in 1..Len(w) : Grows(val', w, p, m, j)
      BY <2>1, <2>2, <3>1, CompleteKids
    <3>4. \A i, j \in 1..Len(w) : Kid(val', i, j) <=> Kid(w, i, j) \/ (i = p /\ j = m)
      BY <2>1, <2>2, <3>1, CompleteKids
    <3> QED
      BY <3>1, <3>2, <3>3, <3>4
<1>7. Extends(val', val)
  BY <1>1, <1>a, <1>6 DEF Extends
<1>8. At(t)'
  <2>1. top' = t.top /\ flags' = t.flags
    BY <1>3, <1>6, <1>7, EndsAlike
  <2>2. t.made # 0
    BY <1>3
  <2> QED
    BY <2>1, <2>2 DEF At
<1>10. \A i, j \in 1..Len(val) : Kid(val', i, j) <=> Kid(val, i, j) \/ (i = top /\ j = m)
  BY <1>6
<1>11. Attached(O, t)'
  <2>1. ASSUME NEW j \in 2..t.made PROVE j \in O \/ Kid(val', val'[j].parent, j)
    <3>0. j \in 1..Len(val) /\ j # 1
      BY <1>1, <1>a, <1>2
    <3>1. val'[j].parent = val[j].parent /\ val[j].parent \in 1..Len(val)
      <4>1. val[j].parent \in 0..j - 1 /\ val[j].parent # 0
        BY <3>0 DEF Shape
      <4>2. val[j].parent \in 1..Len(val)
        BY <1>b, <3>0, <4>1
      <4> QED
        BY <1>7, <3>0, <4>2 DEF Extends
    <3>2. CASE j = m
      BY <1>4, <1>10, <3>0, <3>1, <3>2
    <3>3. CASE j # m
      <4>1. j \in 2..s.made
        BY <1>1, <1>a, <1>3, <3>3
      <4>2. j \in O \/ Kid(val, val[j].parent, j)
        BY <1>1, <1>a, <4>1 DEF Attached
      <4> QED
        BY <1>10, <3>0, <3>1, <4>2
    <3> QED
      BY <3>2, <3>3
  <2>2. ASSUME NEW i \in 1..Len(val'), NEW j \in 1..Len(val'), Kid(val', i, j)
        PROVE  j <= t.made /\ j \notin O
    <3>1. CASE j = m
      BY <1>1, <1>a, <1>3, <3>1 DEF OpenStack
    <3>2. CASE j # m
      <4>1. j <= s.made /\ j \notin O
        BY <1>1, <1>a, <1>6, <1>10, <2>2, <3>2 DEF Attached
      <4> QED
        BY <1>1, <1>a, <1>3, <4>1
    <3> QED
      BY <3>1, <3>2
  <2> QED
    BY <2>1, <2>2 DEF Attached
<1>12. ASSUME NEW j \in 1..Len(val) PROVE Halfway(j, t, f)'
  <2>0. j \in Nat /\ Halfway(j, s, f) /\ (Wants(j, f)' <=> Wants(j, f))
    BY <1>1, <1>7 DEF Wants, Extends
  <2>1. CASE j = m
    <3>1. s.keys[m] = 0 /\ s.bytes[m] = 0
      BY <1>1, <1>a DEF Fresh
    <3>2. j <= t.made /\ j # top
      BY <1>3, <1>4, <2>1
    <3>3. LeafLength(b) \in Nat
      BY JsonAssumption DEF LeafLength
    <3>4. /\ val'[j].length = LeafLength(b) /\ val'[j].keys = <<>> /\ val'[j].used = 0
          /\ val'[j].bytes = f.bytes[j] /\ val'[j].cell = "live"
          /\ val'[j].room = (IF Wants(j, f) THEN f.length[j] ELSE 0)
          /\ val'[j].block = (IF Wants(j, f) THEN "live" ELSE "none")
          /\ val'[j].type \notin Containers
      <4>1. /\ w[j].length = LeafLength(b) /\ w[j].kids = <<>> /\ w[j].keys = <<>>
            /\ w[j].used = 0 /\ w[j].bytes = f.bytes[j] /\ w[j].cell = "live"
            /\ w[j].room = (IF Wants(j, f) THEN f.length[j] ELSE 0)
            /\ w[j].block = (IF Wants(j, f) THEN "live" ELSE "none")
        BY <2>1 DEF LeafIs
      <4>2. Fixed(val'[j], w[j]) /\ Stored(val'[j], w[j]) /\ val'[j].length = w[j].length + 0
        BY <1>6, <3>2 DEF Grows
      <4>3. val'[j].length = LeafLength(b)
        BY <3>3, <4>1, <4>2
      <4>4. val'[j].type \notin Containers
        BY <1>4, <2>1, <4>2 DEF Fixed
      <4> QED
        BY <4>1, <4>2, <4>3, <4>4 DEF Fixed, Stored
    <3>5. t.length[j] = LeafLength(b) /\ t.keys[j] = 0 /\ t.bytes[j] = 0
      BY <1>3, <2>0, <2>1, <3>1
    <3> QED
      BY <2>0, <3>2, <3>4, <3>5 DEF Halfway, Filling
  <2>2. CASE j # m
    <3>1. j <= t.made <=> j <= s.made
      BY <1>b, <2>0, <2>2, SMTT(30)
    <3>2. w[j] = val[j]
      BY <2>2
    <3>3. CASE j = top
      <4>1. j <= s.made
        BY <1>1, <1>a, <1>4, <3>3
      <4>2. Longer(val'[j].kids, val[j].kids, m) /\ val[j].kids \in Seq(Nat)
        <5>1. val[j] \in Values
          BY Elements DEF Shape
        <5> QED
          BY <1>6, <3>2, <3>3, <5>1, Fields DEF Grows
      <4>3. Len(val'[j].kids) = Len(val[j].kids) + 1
        BY <4>2 DEF Longer
      <4>4. t.length[j] = s.length[j] + 1 /\ s.length[j] \in Nat
        BY <1>1, <1>a, <1>3, <2>0, <2>2, <3>3, CountsAreNumbers
      <4>5. Fixed(val'[j], val[j]) /\ Stored(val'[j], val[j]) /\ val'[j].length = val[j].length + 1
        BY <1>6, <3>2, <3>3 DEF Grows
      <4> QED
        BY <1>3, <2>0, <3>1, <4>1, <4>3, <4>4, <4>5 DEF Halfway, Filling, Fixed, Stored
    <3>4. CASE j # top
      <4>1. val[j].length \in Nat /\ s.length[j] \in Nat
        <5>1. val[j] \in Values
          BY Elements DEF Shape
        <5> QED
          BY <1>1, <1>a, <2>0, <5>1, Fields, CountsAreNumbers
      <4>2. t.length[j] = s.length[j]
        BY <1>3, <2>0, <2>2, <3>4, <4>1
      <4>3. /\ Fixed(val'[j], val[j]) /\ Stored(val'[j], val[j]) /\ val'[j].length = val[j].length
            /\ val'[j].kids = val[j].kids
        BY <1>6, <3>2, <3>4, <4>1 DEF Grows
      <4> QED
        BY <1>3, <2>0, <3>1, <4>2, <4>3 DEF Halfway, Filling, Fixed, Stored, Unfilled
    <3> QED
      BY <3>3, <3>4
  <2> QED
    BY <2>1, <2>2
<1>13. O = Opened(O, s, b)
  BY TokenKinds DEF Opened, Leaves
<1>14. SecondPass(h, O)'
  BY <1>6, <1>7, <1>8, <1>11, <1>12, <1>13, SecondAdvances
<1>15. Effect(val', val, s, b, t)
  <2>1. \A j \in 1..Len(val) : w[j].kids = val[j].kids /\ w[j].keys = val[j].keys
    <3>1. val[m].kids = <<>> /\ val[m].keys = <<>>
      <4>1. ~(m <= s.made) /\ Halfway(m, s, f)
        BY <1>1, <1>a
      <4> QED
        BY <4>1 DEF Halfway, Unfilled
    <3> QED
      BY <3>1 DEF LeafIs
  <2>2. ASSUME NEW j \in 1..Len(val)
        PROVE  /\ Alike(val'[j], val[j]) /\ val'[j].keys = val[j].keys
               /\ IF j = val[m].parent THEN Longer(val'[j].kids, val[j].kids, m)
                  ELSE val'[j].kids = val[j].kids
    <3>1. Alike(val'[j], val[j])
      BY <1>7 DEF Extends, Alike
    <3>2. Grows(val', w, top, m, j)
      BY <1>6
    <3> QED
      BY <1>4, <2>1, <3>1, <3>2 DEF Grows, Stored
  <2>3. Gains(val', val, m)
    BY <1>6, <2>2 DEF Gains
  <2>4. \A j \in 1..Len(val) : ~Kid(val, j, m)
    <3>1. ~(m <= s.made)
      BY <1>1, <1>a
    <3> QED
      BY <1>1, <3>1 DEF Attached
  <2> QED
    BY <1>3, <2>3, <2>4, Zenon DEF Effect
<1> QED
  BY <1>6, <1>14, <1>15

(* The second pass reads a scalar. *)
LEMMA SecondScalar ==
  ASSUME Shape(val), Typed, KidsKnown(val), pass = 0, NEW h, NEW O, SecondPass(h, O),
         pos < Len(text), NEW b, b = text[pos + 1], StartsValue(b), ReadScalar(b),
         UNCHANGED text, pos' = pos + 1
  PROVE  /\ Shape(val') /\ KidsKnown(val') /\ Len(val') = Len(val) /\ \E P : SecondPass(h, P)'
         /\ Effect(val', val, h[pos], b, h[pos + 1])
<1>1. PICK s : s = h[pos]
  OBVIOUS
<1>2. PICK t : t = h[pos + 1]
  OBVIOUS
<1>3. PICK f : f = h[Len(text)]
  OBVIOUS
<1>4. s.flags = flags /\ s.made \in 0..Len(val)
  BY <1>1, <1>3, InSecond
<1>5. b \in Leaves /\ LeafLength(b) = 0 /\ NewPointers /\ Complete(NewVals(b), NewId)
  BY TokenKinds DEF ReadScalar, Leaves, LeafLength
<1>6. IsLeaf(val, s, b, t)
  <2>1. Moves(val, s, b, t)
    BY <1>1, <1>2, <1>3, Repeats
  <2> QED
    BY <1>4, <1>5, <2>1, MoveKinds DEF StartsValue
<1>7. Made(val, s, b) /\ t.made = s.made + 1
  BY <1>6 DEF IsLeaf
<1>8. PICK w : w = NewVals(b)
  OBVIOUS
<1>9. PICK m : m = alloc
  OBVIOUS
<1>10. /\ Following(m, s) /\ NewId = m /\ m \in 1..Len(val)
       /\ root' = 1 /\ alloc' = (IF t.made < Len(val) THEN t.made + 1 ELSE 0)
       /\ Shape(w) /\ Len(w) = Len(val) /\ Extends(w, val) /\ KidsKnown(w)
       /\ \A i, j \in 1..Len(val) : Kid(w, i, j) <=> Kid(val, i, j)
       /\ \A j \in 1..Len(val) : j # m => w[j] = val[j]
       /\ LET v == w[m] IN
          /\ v.length = 0 /\ v.kids = <<>> /\ v.keys = <<>> /\ v.used = 0
          /\ v.bytes = f.bytes[m] /\ v.cell = "live"
          /\ v.room = (IF Wants(m, f) THEN f.length[m] ELSE 0)
          /\ v.block = (IF Wants(m, f) THEN "live" ELSE "none")
  BY <1>1, <1>2, <1>3, <1>5, <1>7, <1>8, <1>9, SecondNew DEF Following
<1>11. Complete(w, m) /\ LeafIs(w[m], LeafLength(b), m, f)
  BY <1>5, <1>8, <1>10 DEF LeafIs
<1>12. /\ Following(m, s) /\ m \in 1..Len(val) /\ root' = 1
       /\ alloc' = (IF t.made < Len(val) THEN t.made + 1 ELSE 0)
       /\ Shape(w) /\ Len(w) = Len(val) /\ Extends(w, val) /\ KidsKnown(w)
       /\ \A i, j \in 1..Len(val) : Kid(w, i, j) <=> Kid(val, i, j)
       /\ \A j \in 1..Len(val) : j # m => w[j] = val[j]
  BY <1>10
<1> QED
  BY <1>1, <1>2, <1>3, <1>5, <1>6, <1>11, <1>12, SecondLeaf

(* The second pass reads a string. *)
LEMMA SecondString ==
  ASSUME Shape(val), Typed, KidsKnown(val), pass = 0, NEW h, NEW O, SecondPass(h, O),
         pos < Len(text), NEW b, b = text[pos + 1], StartsValue(b), ReadString(b),
         UNCHANGED text, pos' = pos + 1
  PROVE  /\ Shape(val') /\ KidsKnown(val') /\ Len(val') = Len(val) /\ \E P : SecondPass(h, P)'
         /\ Effect(val', val, h[pos], b, h[pos + 1])
<1>1. PICK s : s = h[pos]
  OBVIOUS
<1>2. PICK t : t = h[pos + 1]
  OBVIOUS
<1>3. PICK f : f = h[Len(text)]
  OBVIOUS
<1>4. s.flags = flags /\ s.made \in 0..Len(val)
  BY <1>1, <1>3, InSecond
<1>8. PICK w : w = NewVals(b)
  OBVIOUS
<1>u. PICK u : Letters(u, w, NewId, b)
  BY DEF Letters
<1>5. b \in Leaves /\ b \in Strings /\ LeafLength(b) = StrLen[b] /\ NewPointers /\ Complete(u, NewId)
  BY <1>8, <1>u DEF ReadString, Leaves, LeafLength, Letters
<1>6. IsLeaf(val, s, b, t)
  <2>1. Moves(val, s, b, t)
    BY <1>1, <1>2, <1>3, Repeats
  <2> QED
    BY <1>4, <1>5, <2>1, MoveKinds DEF StartsValue
<1>7. Made(val, s, b) /\ t.made = s.made + 1
  BY <1>6 DEF IsLeaf
<1>9. PICK m : m = alloc
  OBVIOUS
<1>10. /\ Following(m, s) /\ NewId = m /\ m \in 1..Len(val)
       /\ root' = 1 /\ alloc' = (IF t.made < Len(val) THEN t.made + 1 ELSE 0)
       /\ Shape(w) /\ Len(w) = Len(val) /\ Extends(w, val) /\ KidsKnown(w)
       /\ \A i, j \in 1..Len(val) : Kid(w, i, j) <=> Kid(val, i, j)
       /\ \A j \in 1..Len(val) : Fixed(w[j], val[j]) /\ (j # m => w[j] = val[j])
       /\ LET v == w[m] IN
          /\ v.length = 0 /\ v.kids = <<>> /\ v.keys = <<>> /\ v.used = 0
          /\ v.bytes = f.bytes[m] /\ v.cell = "live"
          /\ v.room = (IF Wants(m, f) THEN f.length[m] ELSE 0)
          /\ v.block = (IF Wants(m, f) THEN "live" ELSE "none")
  BY <1>1, <1>2, <1>3, <1>5, <1>7, <1>8, <1>9, SecondNew DEF Following
<1>11. m \in 1..Len(w) /\ w[m].lit = b
  BY <1>7, <1>10 DEF Made, Fixed, Following
<1>12. Letters(u, w, m, b) /\ Complete(u, m)
  BY <1>5, <1>u, <1>10
<1>13. /\ Shape(u) /\ Len(u) = Len(w) /\ Extends(u, w)
       /\ \A j \in 1..Len(w) :
            /\ Fixed(u[j], w[j]) /\ Stored(u[j], w[j]) /\ u[j].kids = w[j].kids
            /\ u[j].length = IF j = m THEN StrLen[b] ELSE w[j].length
            /\ j # m => u[j] = w[j]
  BY <1>5, <1>10, <1>11, <1>12, Lettered
<1>14. Extends(u, val) /\ Len(u) = Len(val) /\ \A j \in 1..Len(val) : j # m => u[j] = val[j]
  BY <1>10, <1>13 DEF Extends
<1>15. KidsKnown(u) /\ \A i, j \in 1..Len(val) : Kid(u, i, j) <=> Kid(val, i, j)
  BY <1>10, <1>13, KidsSame
<1>16. LeafIs(u[m], LeafLength(b), m, f)
  <2>1. /\ Fixed(u[m], w[m]) /\ Stored(u[m], w[m]) /\ u[m].kids = w[m].kids
        /\ u[m].length = StrLen[b]
    BY <1>11, <1>13
  <2> QED
    BY <1>5, <1>10, <2>1 DEF Fixed, Stored, LeafIs
<1> QED
  <2>1. /\ Following(m, s) /\ m \in 1..Len(val) /\ root' = 1
        /\ alloc' = (IF t.made < Len(val) THEN t.made + 1 ELSE 0) /\ Shape(u)
    BY <1>10, <1>13
  <2> QED
    BY <1>1, <1>2, <1>3, <1>5, <1>6, <1>12, <1>14, <1>15, <1>16, <2>1, SecondLeaf

(* The second pass writes a name into the block of the object it is in. *)
WritesName(b) == val' = [val EXCEPT ![top].keys = Append(@, b), ![top].used = @ + StrLen[b] + 1]

(* The values once a name is written into one of them. *)
LEMMA SecondNamed ==
  ASSUME Shape(val), top \in 1..Len(val), NEW b \in Strings, WritesName(b)
  PROVE  /\ Shape(val') /\ Len(val') = Len(val) /\ Extends(val', val)
         /\ \A j \in 1..Len(val) : j # top => val'[j] = val[j]
         /\ LET u == val'[top]  v == val[top] IN
            /\ Fixed(u, v) /\ u.length = v.length /\ u.kids = v.kids /\ u.bytes = v.bytes
            /\ u.room = v.room /\ u.block = v.block
            /\ Len(u.keys) = Len(v.keys) + 1 /\ u.used = v.used + (StrLen[b] + 1)
            /\ Longer(u.keys, v.keys, b)
<1>1. val \in Seq(Values) /\ Len(val) \in Nat
  BY DEF Shape
<1>2. PICK x \in Values : x = val[top]
  BY <1>1
<1>3. x.used \in Nat /\ StrLen[b] \in Nat /\ x.keys \in Seq(Strings)
  BY Fields, JsonAssumption
<1>4. PICK n \in Nat : n = x.used + StrLen[b] + 1
  BY <1>3
<1>5. PICK k \in Seq(Strings) : k = Append(x.keys, b) /\ Len(k) = Len(x.keys) + 1
  <2>1. PICK q \in Seq(Strings) : q = x.keys
    BY <1>3
  <2>2. Append(q, b) \in Seq(Strings) /\ Len(Append(q, b)) = Len(q) + 1
    OBVIOUS
  <2> QED
    BY <2>1, <2>2, Zenon
<1>6. PICK r : r = [x EXCEPT !.keys = k, !.used = n]
  OBVIOUS
<1>7. /\ r \in Values /\ r.keys = k /\ r.used = n /\ r.length = x.length /\ r.next = x.next
      /\ r.bytes = x.bytes /\ Fixed(r, x) /\ r.kids = x.kids /\ r.room = x.room
      /\ r.block = x.block
  BY <1>6 DEF Values, Fixed
<1>8. val' = [val EXCEPT ![top] = r]
  BY <1>2, <1>4, <1>5, <1>6 DEF WritesName
<1>9. PICK u : u = val'
  OBVIOUS
<1>10. u \in Seq(Values) /\ Len(u) = Len(val)
       /\ \A j \in 1..Len(val) : u[j] = IF j = top THEN r ELSE val[j]
  BY <1>1, <1>7, <1>8, <1>9, Replaced
<1>11. \A j \in 1..Len(val) : Fixed(u[j], val[j]) /\ u[j].next = val[j].next
  BY <1>2, <1>7, <1>10 DEF Fixed
<1>12. Shape(u) /\ Extends(u, val)
  BY <1>10, <1>11, ShapeKept
<1>13. u[top] = r /\ val[top] = x
  BY <1>2, <1>10
<1>14. /\ Len(r.keys) = Len(x.keys) + 1 /\ r.used = x.used + (StrLen[b] + 1)
       /\ Longer(r.keys, x.keys, b)
  <2>1. Longer(r.keys, x.keys, b)
    BY <1>5, <1>7 DEF Longer
  <2> QED
    BY <1>3, <1>4, <1>5, <1>7, <2>1
<1>15. \A j \in 1..Len(val) : j # top => u[j] = val[j]
  BY <1>10
<1> QED
  BY <1>7, <1>9, <1>10, <1>12, <1>13, <1>14, <1>15

(* The second pass reads a name. *)
LEMMA SecondKey ==
  ASSUME Shape(val), Typed, KidsKnown(val), pass = 0, NEW h, NEW O, SecondPass(h, O),
         pos < Len(text), NEW b, b = text[pos + 1], IsKey(b), ReadKey(b),
         UNCHANGED text, pos' = pos + 1
  PROVE  /\ Shape(val') /\ KidsKnown(val') /\ Len(val') = Len(val) /\ \E P : SecondPass(h, P)'
         /\ Effect(val', val, h[pos], b, h[pos + 1])
<1>1. PICK s : s = h[pos]
  OBVIOUS
<1>2. PICK t : t = h[pos + 1]
  OBVIOUS
<1>3. PICK f : f = h[Len(text)]
  OBVIOUS
<1>4. /\ s \in Scans /\ f \in Scans /\ f.made = Len(val)
      /\ s.flags = flags /\ s.top = top /\ s.made \in 0..Len(val) /\ OpenStack(val, O, s)
      /\ Attached(O, s) /\ \A j \in 1..Len(val) : Halfway(j, s, f)
      /\ root = (IF s.made = 0 THEN 0 ELSE 1)
      /\ alloc = (IF s.made < Len(val) THEN s.made + 1 ELSE 0) /\ Len(val) \in Nat
  BY <1>1, <1>3, InSecond
<1>5. t \in Scans /\ Moves(val, s, b, t)
  BY <1>1, <1>2, <1>3, Repeats
<1>6. /\ b \in Strings /\ "seek" \notin flags /\ top # 0 /\ WritesName(b)
      /\ flags' = flags \cup {"seek", "colon"} /\ UNCHANGED <<top, root, alloc>>
  <2>1. b \in Strings /\ "seek" \notin flags /\ top # 0
    BY DEF IsKey, In
  <2>2. pass # 1
    OBVIOUS
  <2>3. flags' = flags \cup {"seek", "colon"} /\ UNCHANGED <<top, root, alloc>>
    BY Zenon DEF ReadKey
  <2>4. WritesName(b)
    BY <2>2, Zenon DEF ReadKey, WritesName
  <2> QED
    BY <2>1, <2>3, <2>4
<1>7. /\ t.flags = flags' /\ t.top = top /\ t.made = s.made /\ t.length = s.length
      /\ \A j \in Nat : /\ t.bytes[j] = s.bytes[j] + IF j = top THEN StrLen[b] + 1 ELSE 0
                        /\ t.keys[j] = s.keys[j] + IF j = top THEN 1 ELSE 0
  <2>1. Names(val, s, b, t)
    BY <1>4, <1>5, <1>6, MoveKinds
  <2> QED
    BY <1>4, <1>6, <2>1 DEF Names, Adds
<1>8. top \in 1..s.made /\ top \in 1..Len(val)
  BY <1>4, <1>6 DEF OpenStack
<1>9. /\ Shape(val') /\ Len(val') = Len(val) /\ Extends(val', val)
      /\ \A j \in 1..Len(val) : j # top => val'[j] = val[j]
      /\ LET u == val'[top]  v == val[top] IN
         /\ Fixed(u, v) /\ u.length = v.length /\ u.kids = v.kids /\ u.bytes = v.bytes
         /\ u.room = v.room /\ u.block = v.block
         /\ Len(u.keys) = Len(v.keys) + 1 /\ u.used = v.used + (StrLen[b] + 1)
         /\ Longer(u.keys, v.keys, b)
  BY <1>6, <1>8, SecondNamed
<1>10. KidsKnown(val') /\ \A i, j \in 1..Len(val) : Kid(val', i, j) <=> Kid(val, i, j)
  <2>1. \A j \in 1..Len(val) : val'[j].kids = val[j].kids
    BY <1>9
  <2> QED
    BY <1>9, <2>1, KidsSame
<1>11. At(t)'
  BY <1>4, <1>6, <1>7 DEF At
<1>12. Attached(O, t)'
  <2>1. ASSUME NEW j \in 2..t.made PROVE j \in O \/ Kid(val', val'[j].parent, j)
    <3>1. j \in 2..s.made /\ j \in 1..Len(val)
      BY <1>4, <1>7
    <3>2. j \in O \/ Kid(val, val[j].parent, j)
      BY <1>4, <3>1 DEF Attached
    <3>3. val[j].parent \in 0..j - 1 /\ val[j].parent # 0
      BY <3>1 DEF Shape
    <3>4. val[j].parent \in 1..Len(val)
      BY <1>4, <3>1, <3>3
    <3>5. val'[j].parent = val[j].parent
      BY <1>9, <3>1 DEF Extends
    <3> QED
      BY <1>10, <3>1, <3>2, <3>4, <3>5
  <2>2. ASSUME NEW i \in 1..Len(val'), NEW j \in 1..Len(val'), Kid(val', i, j)
        PROVE  j <= t.made /\ j \notin O
    BY <1>4, <1>7, <1>9, <1>10, <2>2 DEF Attached
  <2> QED
    BY <2>1, <2>2 DEF Attached
<1>13. ASSUME NEW j \in 1..Len(val) PROVE Halfway(j, t, f)'
  <2>0. j \in Nat /\ Halfway(j, s, f) /\ (Wants(j, f)' <=> Wants(j, f))
    BY <1>4, <1>9 DEF Wants, Extends
  <2>1. CASE j = top
    <3>1. j <= s.made /\ j <= t.made
      BY <1>4, <1>7, <1>8, <2>1
    <3>2. t.keys[j] = s.keys[j] + 1 /\ t.bytes[j] = s.bytes[j] + (StrLen[b] + 1)
      BY <1>7, <2>0, <2>1
    <3>3. PICK u : u = val'[j]
      OBVIOUS
    <3>4. PICK v : v = val[j]
      OBVIOUS
    <3>5. /\ Fixed(u, v) /\ u.length = v.length /\ u.kids = v.kids /\ u.bytes = v.bytes
          /\ u.room = v.room /\ u.block = v.block
          /\ Len(u.keys) = Len(v.keys) + 1 /\ u.used = v.used + (StrLen[b] + 1)
      BY <1>9, <2>1, <3>3, <3>4
    <3>6. /\ v.bytes = f.bytes[j] /\ v.cell = "live"
          /\ v.room = (IF Wants(j, f) THEN f.length[j] ELSE 0)
          /\ v.block = (IF Wants(j, f) THEN "live" ELSE "none")
          /\ v.length = s.length[j]
          /\ v.type \in Containers => Len(v.kids) = s.length[j]
          /\ Len(v.keys) = s.keys[j] /\ v.used = s.bytes[j]
      BY <2>0, <3>1, <3>4 DEF Halfway, Filling
    <3>7. /\ u.bytes = f.bytes[j] /\ u.cell = "live"
          /\ u.room = (IF Wants(j, f) THEN f.length[j] ELSE 0)
          /\ u.block = (IF Wants(j, f) THEN "live" ELSE "none")
          /\ u.length = t.length[j]
          /\ u.type \in Containers => Len(u.kids) = t.length[j]
          /\ Len(u.keys) = t.keys[j] /\ u.used = t.bytes[j]
      BY <1>7, <3>2, <3>5, <3>6 DEF Fixed
    <3> QED
      BY <2>0, <3>1, <3>3, <3>7 DEF Halfway, Filling
  <2>2. CASE j # top
    <3>1. val'[j] = val[j]
      BY <1>9, <2>2
    <3>2. s.keys[j] \in Nat /\ s.bytes[j] \in Nat
      BY <1>4, <2>0, CountsAreNumbers
    <3>3. t.keys[j] = s.keys[j] /\ t.bytes[j] = s.bytes[j]
      BY <1>7, <2>0, <2>2, <3>2
    <3> QED
      BY <1>7, <2>0, <3>1, <3>3 DEF Halfway, Filling
  <2> QED
    BY <2>1, <2>2
<1>14. O = Opened(O, s, b)
  BY <1>6, TokenKinds DEF Opened
<1>15. alloc' = (IF t.made < Len(val) THEN t.made + 1 ELSE 0)
  BY <1>4, <1>6, <1>7
<1>16. SecondPass(h, O)'
  BY <1>1, <1>2, <1>3, <1>9, <1>11, <1>12, <1>13, <1>14, <1>15, SecondAdvances
<1>17. Effect(val', val, s, b, t)
  <2>1. Names(val, s, b, t)
    BY <1>4, <1>5, <1>6, MoveKinds
  <2>2. ASSUME NEW j \in 1..Len(val)
        PROVE  /\ Alike(val'[j], val[j]) /\ val'[j].kids = val[j].kids
               /\ IF j = top THEN Longer(val'[j].keys, val[j].keys, b) ELSE val'[j].keys = val[j].keys
    <3>1. Alike(val'[j], val[j])
      BY <1>9 DEF Extends, Alike
    <3> QED
      BY <1>9, <3>1
  <2>3. GainsName(val', val, s.top, b)
    BY <1>4, <1>9, <2>2 DEF GainsName
  <2> QED
    BY <2>1, <2>3, Zenon DEF Effect
<1> QED
  BY <1>1, <1>2, <1>9, <1>10, <1>16, <1>17

(* The second pass closes a container. *)
LEMMA SecondCloses ==
  ASSUME Shape(val), Typed, KidsKnown(val), pass = 0, NEW h, NEW O, SecondPass(h, O),
         pos < Len(text), NEW b, b = text[pos + 1], Closes(b), CloseContainer,
         UNCHANGED text, pos' = pos + 1
  PROVE  /\ Shape(val') /\ KidsKnown(val') /\ Len(val') = Len(val) /\ \E P : SecondPass(h, P)'
         /\ Effect(val', val, h[pos], b, h[pos + 1])
<1>1. PICK s : s = h[pos]
  OBVIOUS
<1>2. PICK t : t = h[pos + 1]
  OBVIOUS
<1>3. PICK f : f = h[Len(text)]
  OBVIOUS
<1>4. /\ s \in Scans /\ f \in Scans /\ f.made = Len(val)
      /\ s.flags = flags /\ s.top = top /\ s.made \in 0..Len(val) /\ OpenStack(val, O, s)
      /\ Attached(O, s) /\ \A j \in 1..Len(val) : Halfway(j, s, f)
      /\ root = (IF s.made = 0 THEN 0 ELSE 1)
      /\ alloc = (IF s.made < Len(val) THEN s.made + 1 ELSE 0) /\ Len(val) \in Nat
  BY <1>1, <1>3, InSecond
<1>5. t \in Scans /\ Moves(val, s, b, t)
  BY <1>1, <1>2, <1>3, Repeats
<1>a. b \in {"]", "}"}
  BY Zenon DEF Closes
<1>6. top # 0 /\ Complete(val, top) /\ UNCHANGED <<root, alloc>>
  BY Zenon DEF Closes, In, CloseContainer
<1>7. PICK p : p = val[top].parent
  OBVIOUS
<1>8. /\ t.flags = EndFlags(val, flags, top) /\ t.top = EndTop(val, top) /\ t.made = s.made
      /\ "done" \notin flags
      /\ \A j \in Nat : t.length[j] = s.length[j] + IF j = p THEN 1 ELSE 0
      /\ t.bytes = s.bytes /\ t.keys = s.keys
  <2>1. Ends(val, s, b, t)
    BY <1>5, <1>a, MoveKinds
  <2> QED
    BY <1>4, <1>7, <2>1, Zenon DEF Ends, Adds
<1>9. top \in O /\ top \in 1..s.made /\ top \in 1..Len(val) /\ p \in 0..top - 1
  <2>1. top \in O /\ top \in 1..s.made /\ top \in 1..Len(val)
    <3>1. top \in 0..s.made /\ s.made \in Nat /\ s.made <= Len(val)
      BY <1>4 DEF OpenStack
    <3>2. top \in 1..s.made /\ top \in 1..Len(val) /\ s.made # 0
      BY <1>4, <1>6, <3>1
    <3>3. top \in O
      BY <1>4, <1>8, <3>2 DEF OpenStack
    <3> QED
      BY <3>2, <3>3
  <2> QED
    BY <1>7, <2>1 DEF Shape
<1>10. p # 0 => p \in 1..Len(val) /\ ~Kid(val, p, top)
  <2>1. p # 0 => p \in 1..Len(val)
    BY <1>4, <1>9
  <2> QED
    BY <1>4, <1>9, <2>1 DEF Attached
<1>11. /\ Shape(val') /\ Len(val') = Len(val) /\ Extends(val', val) /\ KidsKnown(val')
       /\ top' = EndTop(val', top) /\ flags' = EndFlags(val', flags, top)
       /\ \A j \in 1..Len(val) : Grows(val', val, p, top, j)
       /\ \A i, j \in 1..Len(val) : Kid(val', i, j) <=> Kid(val, i, j) \/ (i = p /\ j = top)
  <2>1. top \in 1..Len(val) /\ (p # 0 => ~Kid(val, p, top)) /\ Complete(val, top)
    BY <1>6, <1>9, <1>10
  <2>2. PICK i \in 1..Len(val) : i = top
    BY <2>1
  <2>3. (p # 0 => ~Kid(val, p, i)) /\ Complete(val, i) /\ p = val[i].parent
    BY <1>7, <2>1, <2>2
  <2>4. /\ Shape(val') /\ Len(val') = Len(val) /\ Extends(val', val) /\ KidsKnown(val')
        /\ top' = EndTop(val', i) /\ flags' = EndFlags(val', flags, i)
    BY <2>3, CompleteKids
  <2>5. \A j \in 1..Len(val) : Grows(val', val, p, i, j)
    BY <2>3, CompleteKids
  <2>6. \A a, j \in 1..Len(val) : Kid(val', a, j) <=> Kid(val, a, j) \/ (a = p /\ j = i)
    BY <2>3, CompleteKids
  <2> QED
    BY <2>2, <2>4, <2>5, <2>6
<1>12. PICK P : P = Opened(O, s, b)
  OBVIOUS
<1>13. P = O \ {top}
  <2>1. b \notin {"{", "["}
    BY <1>a
  <2> QED
    BY <1>4, <1>a, <1>12, <2>1, Zenon DEF Opened
<1>14. At(t)'
  <2>1. top' = t.top /\ flags' = t.flags
    BY <1>8, <1>9, <1>11, EndsAlike
  <2> QED
    BY <1>4, <1>6, <1>8, <2>1 DEF At
<1>15. Attached(P, t)'
  <2>1. ASSUME NEW j \in 2..t.made PROVE j \in P \/ Kid(val', val'[j].parent, j)
    <3>1. j \in 2..s.made /\ j \in 1..Len(val) /\ j # 1
      BY <1>4, <1>8
    <3>2. val[j].parent \in 0..j - 1 /\ val[j].parent # 0
      BY <3>1 DEF Shape
    <3>3. val[j].parent \in 1..Len(val)
      BY <1>4, <3>1, <3>2
    <3>4. val'[j].parent = val[j].parent
      BY <1>11, <3>1 DEF Extends
    <3>5. j \in O \/ Kid(val, val[j].parent, j)
      BY <1>4, <3>1 DEF Attached
    <3>6. CASE j = top
      BY <1>7, <1>11, <3>1, <3>3, <3>4, <3>6
    <3>7. CASE j # top
      BY <1>11, <1>13, <3>1, <3>3, <3>4, <3>5, <3>7
    <3> QED
      BY <3>6, <3>7
  <2>2. ASSUME NEW i \in 1..Len(val'), NEW j \in 1..Len(val'), Kid(val', i, j)
        PROVE  j <= t.made /\ j \notin P
    <3>1. CASE j = top
      BY <1>4, <1>8, <1>9, <1>13, <3>1
    <3>2. CASE j # top
      <4>1. j <= s.made /\ j \notin O
        BY <1>4, <1>11, <2>2, <3>2 DEF Attached
      <4> QED
        BY <1>8, <1>13, <4>1
    <3> QED
      BY <3>1, <3>2
  <2> QED
    BY <2>1, <2>2 DEF Attached
<1>16. ASSUME NEW j \in 1..Len(val) PROVE Halfway(j, t, f)'
  <2>0. j \in Nat /\ Halfway(j, s, f) /\ (Wants(j, f)' <=> Wants(j, f))
    BY <1>4, <1>11 DEF Wants, Extends
  <2>1. /\ Fixed(val'[j], val[j]) /\ Stored(val'[j], val[j])
        /\ val'[j].length = val[j].length + IF j = p THEN 1 ELSE 0
        /\ IF j = p THEN Longer(val'[j].kids, val[j].kids, top) ELSE val'[j].kids = val[j].kids
    BY <1>11 DEF Grows
  <2>2. val[j].kids \in Seq(Nat) /\ val[j].length \in Nat /\ s.length[j] \in Nat
    <3>1. val[j] \in Values
      BY Elements DEF Shape
    <3> QED
      BY <1>4, <2>0, <3>1, Fields, CountsAreNumbers
  <2>3. CASE j = p
    <3>1. j <= s.made
      BY <1>4, <1>9, <2>3
    <3>2. Len(val'[j].kids) = Len(val[j].kids) + 1
      <4>1. Longer(val'[j].kids, val[j].kids, top)
        BY <2>1, <2>3
      <4> QED
        BY <2>2, <4>1 DEF Longer
    <3>3. t.length[j] = s.length[j] + 1 /\ val'[j].length = val[j].length + 1
      BY <1>8, <2>0, <2>1, <2>3
    <3> QED
      BY <1>8, <2>0, <2>1, <3>1, <3>2, <3>3 DEF Halfway, Filling, Fixed, Stored
  <2>4. CASE j # p
    <3>1. t.length[j] = s.length[j] /\ val'[j].length = val[j].length /\ val'[j].kids = val[j].kids
      BY <1>8, <2>0, <2>1, <2>2, <2>4
    <3> QED
      BY <1>8, <2>0, <2>1, <3>1 DEF Halfway, Filling, Fixed, Stored, Unfilled
  <2> QED
    BY <2>3, <2>4
<1>17. alloc' = (IF t.made < Len(val) THEN t.made + 1 ELSE 0)
  BY <1>4, <1>6, <1>8
<1>18. SecondPass(h, P)'
  BY <1>1, <1>2, <1>3, <1>11, <1>12, <1>14, <1>15, <1>16, <1>17, SecondAdvances
<1>19. Effect(val', val, s, b, t)
  <2>1. Ends(val, s, b, t)
    BY <1>5, <1>a, MoveKinds
  <2>2. ASSUME NEW j \in 1..Len(val)
        PROVE  /\ Alike(val'[j], val[j]) /\ val'[j].keys = val[j].keys
               /\ IF j = val[top].parent THEN Longer(val'[j].kids, val[j].kids, top)
                  ELSE val'[j].kids = val[j].kids
    <3>1. Grows(val', val, p, top, j)
      BY <1>11
    <3> QED
      BY <1>7, <3>1 DEF Grows, Fixed, Stored, Alike
  <2>3. Gains(val', val, s.top)
    BY <1>4, <1>11, <2>2 DEF Gains
  <2>4. \A j \in 1..Len(val) : ~Kid(val, j, s.top)
    BY <1>4, <1>9 DEF Attached
  <2> QED
    BY <2>1, <2>3, <2>4, Zenon DEF Effect
<1> QED
  BY <1>1, <1>2, <1>11, <1>18, <1>19

(* The second pass reads a comma or a colon. *)
LEMMA SecondSeparates ==
  ASSUME Shape(val), Typed, KidsKnown(val), pass = 0, NEW h, NEW O, SecondPass(h, O),
         pos < Len(text), NEW b, b = text[pos + 1], Separates(b) \/ Colon(b), Separator(b),
         UNCHANGED text, pos' = pos + 1
  PROVE  /\ Shape(val') /\ KidsKnown(val') /\ Len(val') = Len(val) /\ \E P : SecondPass(h, P)'
         /\ Effect(val', val, h[pos], b, h[pos + 1])
<1>1. PICK s : s = h[pos]
  OBVIOUS
<1>2. PICK t : t = h[pos + 1]
  OBVIOUS
<1>3. PICK f : f = h[Len(text)]
  OBVIOUS
<1>4. /\ s.flags = flags /\ s.top = top /\ s.made \in 0..Len(val) /\ Attached(O, s)
      /\ root = (IF s.made = 0 THEN 0 ELSE 1)
      /\ alloc = (IF s.made < Len(val) THEN s.made + 1 ELSE 0)
      /\ \A j \in 1..Len(val) : Halfway(j, s, f)
  BY <1>1, <1>3, InSecond
<1>5. Moves(val, s, b, t)
  BY <1>1, <1>2, <1>3, Repeats
<1>a. /\ b \in {",", ":"} /\ flags' = flags \ {IF b = "," THEN "comma" ELSE "colon"}
  BY Zenon DEF Separates, Colon, Separator
<1>6. UNCHANGED <<val, top, root, alloc>>
  BY DEF Separator
<1>7. /\ t.flags = flags' /\ t.top = s.top /\ t.made = s.made
      /\ t.length = s.length /\ t.bytes = s.bytes /\ t.keys = s.keys
  <2>1. Parts(val, s, b, t)
    BY <1>5, <1>a, MoveKinds
  <2> QED
    BY <1>4, <1>a, <2>1, Zenon DEF Parts
<1>8. At(t)'
  BY <1>4, <1>6, <1>7 DEF At
<1>9. Attached(O, t)'
  BY <1>4, <1>6, <1>7 DEF Attached
<1>10. \A j \in 1..Len(val) : Halfway(j, t, f)'
  BY <1>4, <1>6, <1>7 DEF Halfway, Filling, Wants
<1>11. O = Opened(O, s, b)
  <2>1. b \notin {"{", "["} /\ b \notin {"}", "]"}
    BY <1>a
  <2> QED
    BY <2>1, Zenon DEF Opened
<1>12. Extends(val', val) /\ alloc' = (IF t.made < Len(val) THEN t.made + 1 ELSE 0)
  <2>1. Len(val) \in Nat
    BY DEF Shape
  <2>2. Extends(val', val)
    BY <1>6, <2>1 DEF Extends
  <2> QED
    BY <1>4, <1>6, <1>7, <2>2
<1>13. SecondPass(h, O)'
  BY <1>1, <1>2, <1>3, <1>6, <1>8, <1>9, <1>10, <1>11, <1>12, SecondAdvances
<1>14. Effect(val', val, s, b, t)
  <2>1. Parts(val, s, b, t)
    BY <1>5, <1>a, MoveKinds
  <2>2. Same(val', val)
    BY <1>6 DEF Same, Alike
  <2> QED
    BY <2>1, <2>2, Zenon DEF Effect
<1> QED
  BY <1>1, <1>2, <1>6, <1>13, <1>14

(* What leads from s to t is no error. *)
LEMMA MovesAccepted ==
  ASSUME NEW s, NEW b, NEW t, Moves(val, s, b, t), s.flags = flags, s.top = top
  PROVE  Accepted(b)
<1>1. "done" \notin flags
  BY MoveKinds
<1>2. CASE Opens(val, s, b, t)
  <2>1. StartsValue(b)
    BY <1>2, Zenon DEF Opens, Starts, StartsValue
  <2> QED
    BY <1>1, <2>1, Zenon DEF Accepted
<1>3. CASE IsLeaf(val, s, b, t)
  <2>1. "seek" \in flags /\ flags \cap {"comma", "colon"} = {} /\ b \in Strings \cup Scalars
    BY <1>3 DEF IsLeaf, Starts, Leaves
  <2>2. StartsValue(b)
    BY <2>1, Zenon DEF StartsValue
  <2> QED
    BY <1>1, <2>2, Zenon DEF Accepted
<1>4. CASE Names(val, s, b, t)
  <2>1. IsKey(b)
    BY <1>4 DEF Names, Inside, IsKey, In
  <2> QED
    BY <1>1, <2>1, Zenon DEF Accepted
<1>5. CASE Ends(val, s, b, t)
  <2>1. \A type : Inside(val, s, type) <=> In(type)
    BY DEF Inside, In
  <2>2. Closes(b)
    BY <1>5, <2>1, Zenon DEF Ends, Closes
  <2> QED
    BY <1>1, <2>2, Zenon DEF Accepted
<1>6. CASE Parts(val, s, b, t)
  <2>1. Separates(b) \/ Colon(b)
    BY <1>6, Zenon DEF Parts, Separates, Colon
  <2> QED
    BY <1>1, <2>1, Zenon DEF Accepted
<1> QED
  BY <1>2, <1>3, <1>4, <1>5, <1>6 DEF Moves

(* The second pass stops at no token, and ends with a complete root. *)
LEMMA SecondAccepts ==
  ASSUME Shape(val), Typed, pass = 0, NEW h, NEW O, SecondPass(h, O), NEW b, Read(b)
  PROVE  /\ Accepted(b)
         /\ b # Eof => pos < Len(text) /\ b = text[pos + 1]
         /\ b = Eof => pos = Len(text)
<1>1. PICK s : s = h[pos]
  OBVIOUS
<1>2. PICK t : t = h[pos + 1]
  OBVIOUS
<1>3. PICK f : f = h[Len(text)]
  OBVIOUS
<1>4. /\ s.flags = flags /\ s.top = top /\ "done" \in f.flags
      /\ Len(text) \in Nat /\ pos \in 0..Len(text)
  BY <1>1, <1>3, InSecond
<1>5. b = IF pos < Len(text) THEN text[pos + 1] ELSE Eof
  BY DEF Read
<1>6. CASE pos < Len(text)
  <2>1. b = text[pos + 1] /\ b \in Tokens /\ Moves(val, s, b, t)
    BY <1>1, <1>2, <1>3, <1>5, <1>6, Repeats
  <2>2. b # Eof
    <3>1. Eof \notin Tokens
      BY JsonAssumption DEF Tokens, Punctuation, Bad, Eof
    <3> QED
      BY <2>1, <3>1
  <2> QED
    BY <1>4, <1>6, <2>1, <2>2, MovesAccepted
<1>7. CASE ~(pos < Len(text))
  <2>1. b = Eof /\ pos = Len(text)
    BY <1>4, <1>5, <1>7
  <2>2. "done" \in flags
    BY <1>1, <1>3, <1>4, <2>1
  <2> QED
    BY <2>1, <2>2, Zenon DEF Accepted
<1> QED
  BY <1>6, <1>7

(* The end of the text, seen by the second pass. *)
LEMMA SecondEnds ==
  ASSUME JsonInv, parser = "parse", pass = 0, NEW h, NEW O, SecondPass(h, O), pos = Len(text),
         EndOfPass, text' = text, pos' = 0
  PROVE  JsonInv'
<1>1. Typed /\ Shape(val) /\ KidsKnown(val) /\ Held /\ ~oom
  BY DEF JsonInv, Stages
<1>2. PICK f : f = h[Len(text)]
  OBVIOUS
<1>3. /\ f \in Scans /\ f.made = Len(val) /\ OpenStack(val, O, f) /\ Attached(O, f)
      /\ Paired(val, {}, f) /\ "done" \in f.flags /\ root = (IF f.made = 0 THEN 0 ELSE 1)
      /\ \A j \in 1..Len(val) : Halfway(j, f, f)
      /\ Len(val) \in Nat
  BY <1>1, <1>2, InSecond
<1>4. /\ parser' = "value" /\ alloc' = root
      /\ UNCHANGED <<val, pass, flags, top, root, cur, oom>>
  BY DEF EndOfPass
<1>5. O = {} /\ Len(val) >= 1 /\ root = 1
  BY <1>3 DEF OpenStack
<1>6. ASSUME NEW j \in 1..Len(val)
      PROVE  LET v == val[j] IN
             /\ v.cell = "live" /\ v.length = v.room
             /\ v.type \in Containers => Len(v.kids) = v.room /\ (v.length # 0 => HasBlock(v))
             /\ v.type = "object" => Len(v.keys) = v.room /\ v.used = v.bytes
             /\ j # 1 => Kid(val, v.parent, j)
  <2>1. PICK v \in Values : v = val[j]
    BY <1>1, Elements DEF Shape
  <2>2. /\ v.room = (IF Wants(j, f) THEN f.length[j] ELSE 0)
        /\ v.block = (IF Wants(j, f) THEN "live" ELSE "none")
        /\ v.length = f.length[j]
        /\ v.type \in Containers => Len(v.kids) = f.length[j]
        /\ Len(v.keys) = f.keys[j] /\ v.used = f.bytes[j]
        /\ v.bytes = f.bytes[j] /\ v.cell = "live"
    <3>1. j <= f.made /\ Halfway(j, f, f)
      BY <1>3
    <3> QED
      BY <2>1, <3>1 DEF Halfway, Filling
  <2>3. Wants(j, f) <=> v.type = "string" \/ (v.type \in Containers /\ f.length[j] # 0)
    BY <2>1 DEF Wants
  <2>4. /\ v.type = "object" => f.keys[j] = f.length[j]
        /\ v.type = "scalar" => f.length[j] = 0
    <3>1. j \in 1..f.made /\ j \in Nat
      BY <1>3
    <3>2. ~Waits({}, f, j)
      BY DEF Waits
    <3>3. f.length[j] \in Nat
      BY <1>3, <3>1, CountsAreNumbers
    <3>4. /\ v.type = "object" => f.keys[j] = f.length[j] + IF Waits({}, f, j) THEN 1 ELSE 0
          /\ v.type = "scalar" => f.length[j] = 0
      BY <1>3, <2>1, <3>1 DEF Paired
    <3> QED
      BY <3>2, <3>3, <3>4
  <2>5. v.type \in Containers \cup {"string", "scalar"}
    BY Fields
  <2>6. v.length = v.room
    BY <2>2, <2>3, <2>4, <2>5
  <2>7. v.type \in Containers /\ v.length # 0 => HasBlock(v)
    BY <2>2, <2>3 DEF HasBlock
  <2>8. j # 1 => Kid(val, v.parent, j)
    <3>1. j # 1 => j \in 2..f.made
      BY <1>3
    <3> QED
      BY <1>3, <1>5, <2>1, <3>1 DEF Attached
  <2> QED
    BY <2>1, <2>2, <2>4, <2>6, <2>7, <2>8
<1>7. Built'
  BY <1>1, <1>4, <1>5, <1>6 DEF Built
<1>8. Stages'
  BY <1>1, <1>4, <1>7 DEF Stages, Freeing
<1>9. Typed'
  <2>1. 0 \in 0..Len(text)
    BY <1>1 DEF Typed
  <2> QED
    BY <1>1, <1>4, <2>1 DEF Typed
<1> QED
  BY <1>1, <1>4, <1>8, <1>9 DEF JsonInv, Held

(* A malloc of the second pass fails. *)
LEMMA SecondFails ==
  ASSUME JsonInv, parser = "parse", pass = 0, NEW h, NEW O, SecondPass(h, O), pos < Len(text),
         NEW b, b = text[pos + 1], StartsValue(b), AllocFails
  PROVE  JsonInv'
<1>1. Typed /\ Shape(val) /\ KidsKnown(val) /\ Held /\ ~oom
  BY DEF JsonInv, Stages
<1>2. PICK s : s = h[pos]
  OBVIOUS
<1>3. PICK t : t = h[pos + 1]
  OBVIOUS
<1>4. PICK f : f = h[Len(text)]
  OBVIOUS
<1>5. /\ s.flags = flags /\ s.made \in 0..Len(val) /\ Attached(O, s) /\ Len(val) \in Nat
      /\ \A j \in 1..Len(val) : Halfway(j, s, f)
  BY <1>1, <1>2, <1>4, InSecond
<1>6. Made(val, s, b) /\ t.made = s.made + 1
  <2>1. Moves(val, s, b, t)
    BY <1>1, <1>2, <1>3, <1>4, Repeats
  <2>2. "seek" \in flags /\ (b \in Openers \/ b \in Leaves)
    BY Zenon DEF StartsValue, Openers, Leaves
  <2>3. Opens(val, s, b, t) \/ IsLeaf(val, s, b, t)
    BY <1>5, <2>1, <2>2, MoveKinds
  <2> QED
    BY <2>3, Zenon DEF Opens, IsLeaf
<1>7. /\ parser' = "unwind" /\ top' = alloc /\ NewPointers /\ oom'
      /\ UNCHANGED <<text, pass, pos, flags, val, cur>>
  BY DEF AllocFails, scanVars
<1>8. PICK m : m = alloc
  OBVIOUS
<1>9. /\ m = s.made + 1 /\ m \in 1..Len(val)
      /\ root' = 1 /\ alloc' = (IF t.made < Len(val) THEN t.made + 1 ELSE 0)
  <2>1. PICK w : w = NewVals(b)
    OBVIOUS
  <2> QED
    BY <1>1, <1>2, <1>3, <1>4, <1>6, <1>7, <1>8, <2>1, SecondNew
<1>10. alloc' = (IF m < Len(val) THEN m + 1 ELSE 0)
  BY <1>6, <1>9
<1>11. ASSUME NEW j \in 1..Len(val)
       PROVE  /\ val[j].cell = IF j > m /\ (alloc' = 0 \/ j < alloc') THEN "freed" ELSE "live"
              /\ j > m => val[j].block = "none"
  <2>1. val[j].cell = "live" /\ (j > s.made => val[j].block = "none")
    <3>1. j > s.made => ~(j <= s.made)
      BY <1>5
    <3> QED
      BY <1>5, <3>1 DEF Halfway, Unfilled
  <2>2. ~(j > m /\ (alloc' = 0 \/ j < alloc'))
    BY <1>5, <1>9, <1>10
  <2>3. j > m => j > s.made
    BY <1>5, <1>9
  <2> QED
    BY <2>1, <2>2, <2>3
<1>12. \A i, j \in 1..Len(val) : Kid(val, i, j) => j <= m
  <2> SUFFICES ASSUME NEW i \in 1..Len(val), NEW j \in 1..Len(val), Kid(val, i, j)
               PROVE  j <= m
    OBVIOUS
  <2>1. j <= s.made
    BY <1>5 DEF Attached
  <2> QED
    BY <1>5, <1>9, <2>1
<1>13. alloc' # 0 => alloc' > m
  BY <1>5, <1>9, <1>10
<1>14. UnwindsSecond(m)'
  BY <1>7, <1>9, <1>11, <1>12, <1>13 DEF UnwindsSecond
<1>15. Stages'
  BY <1>7, <1>14 DEF Stages, Freeing
<1>16. Typed'
  <2>1. top' \in 0..Len(val) /\ root' \in 0..Len(val) /\ alloc' \in 0..Len(val)
    BY <1>5, <1>7, <1>8, <1>9, <1>10
  <2> QED
    BY <1>1, <1>7, <2>1 DEF Typed
<1> QED
  BY <1>1, <1>7, <1>15, <1>16 DEF JsonInv, Held

(* What a pass does with a token that it accepts. *)
Takes(b) ==
  \/ StartsValue(b) /\ (OpenContainer(b) \/ ReadScalar(b) \/ ReadString(b))
  \/ IsKey(b) /\ ReadKey(b)
  \/ Closes(b) /\ CloseContainer
  \/ (Separates(b) \/ Colon(b)) /\ Separator(b)

(* One more token of the second pass, whichever it is. *)
LEMMA SecondMoves ==
  ASSUME Shape(val), Typed, KidsKnown(val), pass = 0, NEW h, NEW O, SecondPass(h, O),
         pos < Len(text), NEW b, b = text[pos + 1], Takes(b), UNCHANGED text, pos' = pos + 1
  PROVE  /\ Shape(val') /\ KidsKnown(val') /\ Len(val') = Len(val) /\ \E P : SecondPass(h, P)'
         /\ Effect(val', val, h[pos], b, h[pos + 1])
<1>1. CASE StartsValue(b) /\ OpenContainer(b)
  BY <1>1, SecondOpens
<1>2. CASE StartsValue(b) /\ ReadScalar(b)
  BY <1>2, SecondScalar
<1>3. CASE StartsValue(b) /\ ReadString(b)
  BY <1>3, SecondString
<1>4. CASE IsKey(b) /\ ReadKey(b)
  BY <1>4, SecondKey
<1>5. CASE Closes(b) /\ CloseContainer
  BY <1>5, SecondCloses
<1>6. CASE (Separates(b) \/ Colon(b)) /\ Separator(b)
  BY <1>6, SecondSeparates
<1> QED
  BY <1>1, <1>2, <1>3, <1>4, <1>5, <1>6, Zenon DEF Takes

(* What else the second pass does: a malloc fails, or the text ends. *)
LEMMA SecondChoices ==
  ASSUME Shape(val), Typed, pass = 0, NEW h, NEW O, SecondPass(h, O),
         NEW b \in Tokens \cup {Eof}, ParseToken(b)
  PROVE  \/ pos < Len(text) /\ b = text[pos + 1] /\ StartsValue(b) /\ AllocFails
         \/ pos = Len(text) /\ EndOfPass /\ UNCHANGED text /\ pos' = 0
         \/ /\ pos < Len(text) /\ b = text[pos + 1] /\ Takes(b) /\ UNCHANGED text
            /\ pos' = pos + 1 /\ UNCHANGED <<parser, pass, cur, oom>>
<1>1. /\ Accepted(b)
      /\ b # Eof => pos < Len(text) /\ b = text[pos + 1]
      /\ b = Eof => pos = Len(text)
  <2>1. Read(b)
    BY DEF ParseToken
  <2> QED
    BY <2>1, SecondAccepts
<1>2. CASE StartsValue(b) /\ AllocFails
  <2>1. b # Eof
    BY <1>2, EofIsNoToken
  <2> QED
    BY <1>1, <1>2, <2>1
<1>3. CASE Advance(b) /\ (Takes(b) \/ (b = Eof /\ EndOfPass))
  <2>1. CASE b = Eof
    <3>1. EndOfPass /\ text' = text /\ pos' = 0
      BY <1>3, <2>1, EofIsNoToken, Zenon DEF Advance, Takes
    <3> QED
      BY <1>1, <2>1, <3>1
  <2>2. CASE b # Eof
    <3>1. UNCHANGED text /\ pos' = pos + 1
      BY <1>3, <2>2 DEF Advance
    <3>2. UNCHANGED <<parser, pass, cur, oom>>
      BY <1>3, <2>2, Zenon
         DEF Takes, OpenContainer, ReadScalar, ReadString, ReadKey, CloseContainer, Separator
    <3> QED
      BY <1>1, <1>3, <2>2, <3>1, <3>2
  <2> QED
    BY <2>1, <2>2
<1> QED
  BY <1>1, <1>2, <1>3 DEF ParseToken, Takes

(* Any step of the second pass. *)
LEMMA SecondStep ==
  ASSUME JsonInv, parser = "parse", pass = 0, NEW b \in Tokens \cup {Eof}, ParseToken(b)
  PROVE  JsonInv'
<1>1. Typed /\ Shape(val) /\ KidsKnown(val)
  BY DEF JsonInv
<1>2. ~oom /\ \E h, O : SecondPass(h, O)
  BY DEF JsonInv, Stages
<1>3. PICK h, O : SecondPass(h, O)
  BY <1>2
<1>4. CASE pos < Len(text) /\ b = text[pos + 1] /\ StartsValue(b) /\ AllocFails
  BY <1>3, <1>4, SecondFails
<1>5. CASE pos = Len(text) /\ EndOfPass /\ UNCHANGED text /\ pos' = 0
  BY <1>3, <1>5, SecondEnds
<1>6. CASE /\ pos < Len(text) /\ b = text[pos + 1] /\ Takes(b) /\ UNCHANGED text
           /\ pos' = pos + 1 /\ UNCHANGED <<parser, pass, cur, oom>>
  <2>1. Shape(val') /\ KidsKnown(val') /\ Len(val') = Len(val) /\ \E P : SecondPass(h, P)'
    BY <1>1, <1>3, <1>6, SecondMoves
  <2>2. pos' \in 0..Len(text) /\ cur <= Len(val')
    <3>1. pos \in Nat /\ Len(text) \in Nat /\ cur \in 0..Len(val)
      BY <1>1 DEF Typed
    <3> QED
      BY <1>6, <2>1, <3>1
  <2> QED
    BY <1>1, <1>2, <1>6, <2>1, <2>2, SecondKeeps
<1> QED
  BY <1>1, <1>3, <1>4, <1>5, <1>6, SecondChoices

-----------------------------------------------------------------------------
(***************************************************************************)
(* Giving the memory back.                                                 *)
(***************************************************************************)

(* One value is replaced by one in its place, with the same pointers. *)
LEMMA Touched ==
  ASSUME Shape(val), KidsKnown(val), NEW i \in 1..Len(val), NEW r \in Values,
         Like(r, val[i]), r.kids = val[i].kids, val' = [val EXCEPT ![i] = r]
  PROVE  /\ Shape(val') /\ KidsKnown(val') /\ Len(val') = Len(val)
         /\ \A j \in 1..Len(val) : val'[j] = IF j = i THEN r ELSE val[j]
         /\ \A a, j \in 1..Len(val) : Kid(val', a, j) <=> Kid(val, a, j)
         /\ \A j \in 1..Len(val) : Like(val'[j], val[j]) /\ val'[j].kids = val[j].kids
<1>1. val \in Seq(Values)
  BY DEF Shape
<1>2. /\ val' \in Seq(Values) /\ Len(val') = Len(val)
      /\ \A j \in 1..Len(val) : val'[j] = IF j = i THEN r ELSE val[j]
  BY <1>1, Replaced
<1>3. \A j \in 1..Len(val) : Like(val'[j], val[j]) /\ val'[j].kids = val[j].kids
  BY <1>2 DEF Like
<1>4. Shape(val') /\ Extends(val', val)
  BY <1>2, <1>3, ShapeLike
<1>5. KidsKnown(val') /\ \A a, j \in 1..Len(val) : Kid(val', a, j) <=> Kid(val, a, j)
  BY <1>2, <1>3, <1>4, KidsSame
<1> QED
  BY <1>2, <1>3, <1>4, <1>5

(* A value whose cell is freed. *)
LEMMA FreedIs ==
  ASSUME NEW v \in Values
  PROVE  LET r == [v EXCEPT !.cell = Freed(v.cell)] IN
         /\ r \in Values /\ Like(r, v) /\ r.kids = v.kids /\ r.cell = Freed(v.cell)
         /\ Stored(r, v) /\ r.length = v.length
BY DEF Values, Like, Freed, Memory, Stored

(* A value that counts one entry less. *)
LEMMA LessIs ==
  ASSUME NEW v \in Values, v.length # 0
  PROVE  LET r == [v EXCEPT !.length = v.length - 1] IN
         /\ r \in Values /\ Like(r, v) /\ Fixed(r, v) /\ r.kids = v.kids
         /\ Stored(r, v) /\ r.length = v.length - 1
BY SMTT(30) DEF Values, Like, Fixed, Stored

(* A value whose cell and block are freed. *)
LEMMA BothFreedIs ==
  ASSUME NEW v \in Values, NEW x \in Memory \cup {"none"}
  PROVE  LET r == [v EXCEPT !.cell = Freed(v.cell), !.block = x] IN
         /\ r \in Values /\ Like(r, v) /\ r.kids = v.kids
         /\ r.cell = Freed(v.cell) /\ r.block = x
         /\ r.length = v.length /\ r.keys = v.keys /\ r.used = v.used
         /\ r.bytes = v.bytes /\ r.room = v.room
BY DEF Values, Like, Freed, Memory

(* One turn of the loop of e_failed. *)
LEMMA UnwindStep ==
  ASSUME JsonInv, Unwind
  PROVE  JsonInv'
<1>1. Typed /\ Shape(val) /\ KidsKnown(val) /\ Held
  BY DEF JsonInv
<1>2. /\ parser = "unwind" /\ parser' = "unwind" /\ alloc # 0 /\ alloc' = val[alloc].next
      /\ val' = [val EXCEPT ![alloc] = [val[alloc] EXCEPT !.cell = Freed(val[alloc].cell)]]
      /\ UNCHANGED <<text, pass, pos, flags, top, root, cur, oom>>
  BY DEF Unwind, scanVars
<1>3. alloc \in 1..Len(val) /\ Len(val) \in Nat /\ val \in Seq(Values) /\ pass \in {0, 1}
  BY <1>1, <1>2 DEF Typed, Shape
<1>4. PICK r : r = [val[alloc] EXCEPT !.cell = Freed(val[alloc].cell)]
  OBVIOUS
<1>5. \A j \in 1..Len(val) : val[j] \in Values
  BY <1>3
<1>6. /\ r \in Values /\ Like(r, val[alloc]) /\ r.kids = val[alloc].kids
      /\ r.cell = Freed(val[alloc].cell) /\ Stored(r, val[alloc]) /\ r.length = val[alloc].length
  BY <1>3, <1>4, <1>5, FreedIs
<1>7. /\ Shape(val') /\ KidsKnown(val') /\ Len(val') = Len(val)
      /\ \A j \in 1..Len(val) : val'[j] = IF j = alloc THEN r ELSE val[j]
      /\ \A a, j \in 1..Len(val) : Kid(val', a, j) <=> Kid(val, a, j)
  BY <1>1, <1>2, <1>3, <1>4, <1>6, Touched
<1>8. alloc' = (IF alloc < Len(val) THEN alloc + 1 ELSE 0)
  BY <1>1, <1>2, <1>3 DEF Shape
<1>9. val[alloc].cell = "live" /\ val[alloc].block = "none"
  <2>1. CASE pass = 1
    <3>1. UnwindsFirst
      BY <1>1, <1>2, <2>1 DEF JsonInv, Stages
    <3> QED
      BY <1>2, <1>3, <3>1 DEF UnwindsFirst
  <2>2. CASE pass = 0
    <3>1. PICK m : UnwindsSecond(m)
      BY <1>2, <2>2 DEF JsonInv, Stages
    <3> QED
      BY <1>2, <1>3, <3>1 DEF UnwindsSecond
  <2> QED
    BY <1>3, <2>1, <2>2
<1>10. r.cell = "freed" /\ r.block = "none"
  BY <1>6, <1>9 DEF Freed, Stored
<1>11. ASSUME NEW j \in 1..Len(val)
       PROVE  Sound(val'[j]) /\ (pass = 0 => Fits(val'[j]))
  <2>1. Sound(val[j]) /\ (pass = 0 => Fits(val[j]))
    BY <1>1 DEF Held
  <2>2. CASE j # alloc
    BY <1>7, <2>1, <2>2
  <2>3. CASE j = alloc
    <3>1. Sound(r)
      BY <1>10 DEF Sound
    <3>2. Fits(val[j]) => Fits(r)
      BY <1>6, <2>3 DEF Fits, Stored, HasBlock, Like
    <3> QED
      BY <1>7, <2>1, <2>3, <3>1, <3>2
  <2> QED
    BY <2>2, <2>3
<1>12. Held'
  BY <1>2, <1>7, <1>11 DEF Held
<1>13. Stages'
  <2>1. CASE pass = 1
    <3>1. UnwindsFirst
      BY <1>1, <1>2, <2>1 DEF JsonInv, Stages
    <3>2. ASSUME NEW j \in 1..Len(val)
          PROVE  /\ val'[j].cell = IF alloc' # 0 /\ j >= alloc' THEN "live" ELSE "freed"
                 /\ val'[j].block = "none"
      <4>1. /\ val[j].cell = (IF alloc # 0 /\ j >= alloc THEN "live" ELSE "freed")
            /\ val[j].block = "none"
        BY <3>1 DEF UnwindsFirst
      <4>2. CASE j = alloc
        BY <1>3, <1>7, <1>8, <1>10, <4>2
      <4>3. CASE j # alloc
        BY <1>3, <1>7, <1>8, <4>1, <4>3
      <4> QED
        BY <4>2, <4>3
    <3>3. UnwindsFirst'
      BY <1>2, <1>7, <3>1, <3>2 DEF UnwindsFirst
    <3> QED
      BY <1>2, <2>1, <3>3 DEF Stages, Freeing
  <2>2. CASE pass = 0
    <3>1. PICK m : UnwindsSecond(m)
      BY <1>2, <2>2 DEF JsonInv, Stages
    <3>2. m \in 1..Len(val) /\ alloc > m /\ root = 1 /\ oom
      BY <1>2, <3>1 DEF UnwindsSecond
    <3>3. ASSUME NEW j \in 1..Len(val)
          PROVE  /\ val'[j].cell = IF j > m /\ (alloc' = 0 \/ j < alloc') THEN "freed" ELSE "live"
                 /\ j > m => val'[j].block = "none"
      <4>1. /\ val[j].cell = (IF j > m /\ (alloc = 0 \/ j < alloc) THEN "freed" ELSE "live")
            /\ j > m => val[j].block = "none"
        BY <3>1 DEF UnwindsSecond
      <4>2. CASE j = alloc
        BY <1>3, <1>7, <1>8, <1>10, <3>2, <4>2
      <4>3. CASE j # alloc
        BY <1>3, <1>7, <1>8, <3>2, <4>1, <4>3
      <4> QED
        BY <4>2, <4>3
    <3>4. \A i, j \in 1..Len(val) : Kid(val', i, j) => j <= m
      BY <1>7, <3>1 DEF UnwindsSecond
    <3>5. alloc' # 0 => alloc' > m
      BY <1>3, <1>8, <3>2
    <3>6. UnwindsSecond(m)'
      BY <1>2, <1>7, <2>2, <3>2, <3>3, <3>4, <3>5 DEF UnwindsSecond
    <3> QED
      BY <1>2, <2>2, <3>6 DEF Stages, Freeing
  <2> QED
    BY <1>3, <2>1, <2>2
<1>14. Typed'
  <2>1. alloc' \in 0..Len(val)
    BY <1>3, <1>8
  <2> QED
    BY <1>1, <1>2, <1>7, <2>1 DEF Typed
<1> QED
  BY <1>7, <1>12, <1>13, <1>14 DEF JsonInv

(* The parser is called. *)
LEMMA JsonParseStep ==
  ASSUME JsonInv, JsonParse
  PROVE  JsonInv'
<1>1. Typed /\ Shape(val) /\ KidsKnown(val) /\ Held
  BY DEF JsonInv
<1>2. /\ parser = "idle" /\ parser' = "parse"
      /\ UNCHANGED <<text, pass, pos, flags, val, top, root, alloc, cur, oom>>
  BY DEF JsonParse, scanVars
<1>3. /\ val = <<>> /\ text = <<>> /\ pass = 1 /\ pos = 0 /\ flags = {"seek"}
      /\ top = 0 /\ root = 0 /\ alloc = 0 /\ ~oom
  BY <1>2 DEF JsonInv, Stages
<1>4. PICK h : h = [n \in Nat |-> Start]
  OBVIOUS
<1>5. Start \in Scans
  BY DEF Start, Scans, Zeros, Counts, Flags
<1>6. h \in [Nat -> Scans] /\ h[0] = Start /\ Len(text) = 0 /\ Len(val) = 0
  BY <1>3, <1>4, <1>5
<1>7. /\ Start.flags = {"seek"} /\ Start.top = 0 /\ Start.made = 0
      /\ \A j \in Nat : Start.length[j] = 0 /\ Start.bytes[j] = 0 /\ Start.keys[j] = 0
  BY DEF Start, Zeros
<1>8. Fresh(Start) /\ Below(Start, Start)
  BY <1>7 DEF Fresh, Below
<1>9. Run(h)
  <2>1. \A i \in 0..Len(text) : i = 0
    BY <1>6
  <2>2. \A i \in 1..Len(text) : FALSE
    BY <1>6
  <2> QED
    BY <1>6, <1>7, <1>8, <2>1, <2>2 DEF Run
<1>10. OpenStack(val, {}, Start) /\ Paired(val, {}, Start)
  BY <1>7, <1>8 DEF OpenStack, Paired
<1>11. FirstPass(h, {})
  <2>1. \A j \in 1..Len(val) : FALSE
    BY <1>6
  <2> QED
    BY <1>3, <1>6, <1>7, <1>9, <1>10, <2>1 DEF FirstPass, At
<1>12. FirstPass(h, {})'
  BY <1>2, <1>11 DEF FirstPass, Run, At, Unfilled
<1>13. Stages'
  BY <1>2, <1>3, <1>12 DEF Stages, Freeing
<1> QED
  BY <1>1, <1>2, <1>13 DEF JsonInv, Typed, Held

(* An entry is a child of its value, and the root is no entry. *)
LEMMA EntryIsKid ==
  ASSUME Shape(val), KidsKnown(val), Held, pass = 0,
         NEW i \in 1..Len(val), NEW j, Entry(val, i, j)
  PROVE  Kid(val, i, j) /\ j \in 1..Len(val) /\ val[j].parent = i /\ j > i
<1>1. val[i] \in Values /\ Fits(val[i])
  <2>1. val \in Seq(Values)
    BY DEF Shape
  <2> QED
    BY <2>1 DEF Held
<1>2. PICK k \in 1..val[i].length : val[i].kids[k] = j
  BY DEF Entry
<1>3. val[i].length <= Len(val[i].kids)
  BY <1>1 DEF Entry, Fits
<1>4. val[i].length \in Nat /\ Len(val[i].kids) \in Nat
  BY <1>1, Fields
<1>5. k \in 1..Len(val[i].kids)
  BY <1>2, <1>3, <1>4
<1>6. j \in 1..Len(val) /\ val[j].parent = i
  BY <1>2, <1>5 DEF KidsKnown
<1>7. val[j].parent \in 0..j - 1 /\ Len(val) \in Nat
  BY <1>6 DEF Shape
<1> QED
  BY <1>2, <1>5, <1>6, <1>7 DEF Kid

(* A walk begins at the root. *)
LEMMA WalkBegins ==
  ASSUME Shape(val), KidsKnown(val), Held, pass = 0, Len(val) >= 1, val[1].cell = "live",
         cur' = 1, UNCHANGED <<val, oom>>,
         \A i, j \in 1..Len(val) : Entry(val, i, j) => val[j].cell = "live",
         ~oom =>
           \A j \in 1..Len(val) :
             /\ val[j].cell = "live" /\ j # 1 =>
                  val[val[j].parent].cell = "live" /\ Entry(val, val[j].parent, j)
             /\ val[j].type \in Containers /\ val[j].length # 0 => HasBlock(val[j])
  PROVE  Walks({1})'
<1>1. Len(val) \in Nat /\ 1 \in 1..Len(val)
  BY DEF Shape
<1>2. val[1].parent = 0
  <2>1. val[1].parent \in 0..1 - 1
    BY <1>1 DEF Shape
  <2> QED
    BY <2>1
<1>3. ASSUME NEW i \in 1..Len(val), NEW j \in 1..Len(val), Entry(val, i, j)
      PROVE  val[j].cell = "live" /\ j \notin {1}
  BY <1>2, <1>3, EntryIsKid
<1>4. ASSUME NEW j \in 1..Len(val), j \notin {1}
      PROVE  val[j].parent # 0
  BY <1>4 DEF Shape
<1>5. \A k, l \in {1} : ~(k < l)
  OBVIOUS
<1>6. {1} \subseteq 1..Len(val)
  BY <1>1
<1>7. \A k \in {1} : k <= 1 /\ val[k].cell = "live" /\ val[k].parent \in {1} \cup {0}
  BY <1>2
<1>8. ~oom =>
        \A j \in 1..Len(val) :
          /\ val[j].cell = "live" /\ j \notin {1} =>
               val[j].parent # 0 /\ val[val[j].parent].cell = "live" /\ Entry(val, val[j].parent, j)
          /\ val[j].type \in Containers /\ val[j].length # 0 => HasBlock(val[j])
  BY <1>4
<1> QED
  BY <1>3, <1>5, <1>6, <1>7, <1>8 DEF Walks

(* The loop of e_failed ends, and the walk begins if the second pass had. *)
LEMMA UnwoundStep ==
  ASSUME JsonInv, Unwound
  PROVE  JsonInv'
<1>1. Typed /\ Shape(val) /\ KidsKnown(val) /\ Held
  BY DEF JsonInv
<1>2. /\ parser = "unwind" /\ alloc = 0
      /\ parser' = (IF pass = 1 THEN "null" ELSE "undo")
      /\ cur' = (IF pass = 1 THEN 0 ELSE root)
      /\ UNCHANGED <<text, pass, pos, flags, val, top, root, alloc, oom>>
  BY DEF Unwound, scanVars
<1>3. pass \in {0, 1} /\ Len(val) \in Nat
  BY <1>1 DEF Typed, Shape
<1>4. Stages' /\ cur' \in 0..Len(val)
  <2>1. CASE pass = 1
    <3>1. UnwindsFirst
      BY <1>2, <2>1 DEF JsonInv, Stages
    <3>2. ~oom /\ AllFreed
      <4>1. \A j \in 1..Len(val) : val[j].cell = "freed" /\ val[j].block # "live"
        BY <1>2, <3>1 DEF UnwindsFirst
      <4> QED
        BY <3>1, <4>1 DEF UnwindsFirst, AllFreed
    <3>3. AllFreed'
      BY <1>2, <3>2 DEF AllFreed
    <3> QED
      BY <1>2, <1>3, <2>1, <3>2, <3>3 DEF Stages, Freeing
  <2>2. CASE pass = 0
    <3>1. PICK m : UnwindsSecond(m)
      BY <1>2, <2>2 DEF JsonInv, Stages
    <3>2. oom /\ root = 1 /\ m \in 1..Len(val)
      BY <3>1 DEF UnwindsSecond
    <3>3. Len(val) >= 1 /\ cur' = 1
      BY <1>2, <1>3, <2>2, <3>2
    <3>4. \A j \in 1..Len(val) : j <= m => val[j].cell = "live"
      <4> SUFFICES ASSUME NEW j \in 1..Len(val), j <= m PROVE val[j].cell = "live"
        OBVIOUS
      <4>1. ~(j > m)
        BY <3>2
      <4> QED
        BY <3>1, <4>1 DEF UnwindsSecond
    <3>5. val[1].cell = "live"
      BY <3>2, <3>3, <3>4
    <3>6. ASSUME NEW i \in 1..Len(val), NEW j \in 1..Len(val), Entry(val, i, j)
          PROVE  val[j].cell = "live"
      <4>1. Kid(val, i, j)
        BY <1>1, <2>2, <3>6, EntryIsKid
      <4>2. j <= m
        BY <3>1, <4>1 DEF UnwindsSecond
      <4> QED
        BY <3>4, <4>2
    <3>7. Walks({1})'
      BY <1>1, <1>2, <2>2, <3>2, <3>3, <3>5, <3>6, WalkBegins
    <3>8. parser' = "undo"
      BY <1>2, <2>2
    <3> QED
      BY <1>2, <1>3, <2>2, <3>2, <3>3, <3>7, <3>8 DEF Stages, Freeing
  <2> QED
    BY <1>3, <2>1, <2>2
<1>5. Typed'
  BY <1>1, <1>2, <1>4 DEF Typed
<1> QED
  BY <1>1, <1>2, <1>4, <1>5 DEF JsonInv, Held

(* The caller gives the tree back, and the walk begins. *)
LEMMA ValueFreeStep ==
  ASSUME JsonInv, JsonValueFree
  PROVE  JsonInv'
<1>1. Typed /\ Shape(val) /\ KidsKnown(val) /\ Held
  BY DEF JsonInv
<1>2. /\ parser = "value" /\ parser' = "release" /\ cur' = root
      /\ UNCHANGED <<text, pass, pos, flags, val, top, root, alloc, oom>>
  BY DEF JsonValueFree, scanVars
<1>3. Built
  BY <1>2 DEF JsonInv, Stages
<1>4. pass = 0 /\ ~oom /\ root = 1 /\ Len(val) >= 1 /\ Len(val) \in Nat
  BY <1>1, <1>3 DEF Built, Shape
<1>5. \A j \in 1..Len(val) : val[j].cell = "live"
  BY <1>3 DEF Built
<1>6. ASSUME NEW j \in 1..Len(val), val[j].type \in Containers, val[j].length # 0
      PROVE  HasBlock(val[j])
  BY <1>3, <1>6 DEF Built
<1>7. ASSUME NEW j \in 1..Len(val), j # 1
      PROVE  val[val[j].parent].cell = "live" /\ Entry(val, val[j].parent, j)
  <2>1. PICK p : p = val[j].parent
    OBVIOUS
  <2>2. p \in 0..j - 1 /\ p # 0 /\ val[p].type \in Containers
    BY <1>1, <1>7, <2>1 DEF Shape
  <2>3. p \in 1..Len(val)
    BY <1>4, <2>2
  <2>4. Kid(val, p, j)
    BY <1>3, <1>7, <2>1 DEF Built
  <2>5. PICK k \in 1..Len(val[p].kids) : val[p].kids[k] = j
    BY <2>4 DEF Kid
  <2>6. val[p].length = val[p].room /\ Len(val[p].kids) = val[p].room
    BY <1>3, <2>2, <2>3 DEF Built
  <2>7. val[p] \in Values
    BY <1>1, <2>3 DEF Shape
  <2>8. Len(val[p].kids) \in Nat
    BY <2>7, Fields
  <2>9. k \in 1..val[p].length /\ val[p].length # 0
    BY <2>5, <2>6, <2>8
  <2> QED
    BY <1>5, <1>6, <2>1, <2>2, <2>3, <2>5, <2>9 DEF Entry
<1>8. Walks({1})'
  BY <1>1, <1>2, <1>4, <1>5, <1>6, <1>7, WalkBegins
<1>9. Stages'
  BY <1>2, <1>4, <1>8 DEF Stages, Freeing
<1>10. Typed'
  BY <1>1, <1>2, <1>4 DEF Typed
<1> QED
  BY <1>1, <1>2, <1>9, <1>10 DEF JsonInv, Held

(* Into the last entry not yet freed. *)
LEMMA DescendStep ==
  ASSUME JsonInv, FreeDescend
  PROVE  JsonInv'
<1>1. Typed /\ Shape(val) /\ KidsKnown(val) /\ Held
  BY DEF JsonInv
<1>2. /\ Freeing /\ cur # 0 /\ val[cur].type \in Containers /\ val[cur].length # 0
      /\ UNCHANGED <<text, pass, pos, flags, top, root, alloc, oom>>
  BY DEF FreeDescend, scanVars
<1>3. pass = 0 /\ (oom <=> parser = "undo")
  BY <1>2 DEF JsonInv, Stages
<1>4. PICK A : Walks(A)
  BY <1>2 DEF JsonInv, Stages
<1>5. PICK c : c = cur
  OBVIOUS
<1>6. /\ c \in 1..Len(val) /\ c \in A /\ Len(val) \in Nat /\ val \in Seq(Values)
      /\ val[c].cell = "live"
  BY <1>1, <1>2, <1>4, <1>5 DEF Walks, Typed, Shape
<1>7. \A j \in 1..Len(val) : val[j] \in Values
  BY <1>6
<1>8. CASE ~HasBlock(val[c])
  <2>1. parser' = "crashed" /\ UNCHANGED <<val, cur>>
    BY <1>5, <1>8 DEF FreeDescend
  <2>2. oom
    BY <1>2, <1>4, <1>5, <1>6, <1>8 DEF Walks
  <2>3. Stages'
    BY <1>2, <1>3, <2>1, <2>2 DEF Stages, Freeing
  <2>4. Typed'
    BY <1>1, <1>2, <2>1 DEF Typed
  <2> QED
    BY <1>1, <1>2, <2>1, <2>3, <2>4 DEF JsonInv, Held
<1>9. CASE HasBlock(val[c])
  <2>1. PICK n : n = val[c].length
    OBVIOUS
  <2>2. PICK j : j = val[c].kids[n]
    OBVIOUS
  <2>3. PICK r : r = [val[c] EXCEPT !.length = val[c].length - 1]
    OBVIOUS
  <2>4. val' = [val EXCEPT ![c] = r] /\ cur' = j /\ parser' = parser
    BY <1>5, <1>9, <2>1, <2>2, <2>3 DEF FreeDescend
  <2>5. n \in Nat /\ n # 0
    BY <1>2, <1>5, <1>6, <1>7, <2>1, Fields
  <2>6. /\ r \in Values /\ Like(r, val[c]) /\ Fixed(r, val[c]) /\ r.kids = val[c].kids
        /\ Stored(r, val[c]) /\ r.length = n - 1
    BY <1>6, <1>7, <2>1, <2>3, <2>5, LessIs
  <2>7. /\ Shape(val') /\ KidsKnown(val') /\ Len(val') = Len(val)
        /\ \A x \in 1..Len(val) : val'[x] = IF x = c THEN r ELSE val[x]
        /\ \A x \in 1..Len(val) : Like(val'[x], val[x]) /\ val'[x].kids = val[x].kids
    BY <1>1, <1>6, <2>4, <2>6, Touched
  <2>8. \A x \in 1..Len(val) :
          /\ val'[x].cell = val[x].cell /\ val'[x].block = val[x].block
          /\ val'[x].parent = val[x].parent /\ val'[x].type = val[x].type
          /\ val'[x].kids = val[x].kids
          /\ HasBlock(val'[x]) <=> HasBlock(val[x])
          /\ val'[x].length = IF x = c THEN n - 1 ELSE val[x].length
    BY <2>6, <2>7 DEF Like, Fixed, Stored, HasBlock
  <2>9. Entry(val, c, j)
    <3>1. n \in 1..val[c].length
      BY <2>1, <2>5
    <3> QED
      BY <1>2, <1>5, <1>9, <2>2, <3>1 DEF Entry
  <2>10. j \in 1..Len(val) /\ val[j].parent = c /\ j > c
    BY <1>1, <1>3, <1>6, <2>9, EntryIsKid
  <2>11. val[j].cell = "live" /\ j \notin A
    BY <1>4, <1>6, <2>9, <2>10 DEF Walks
  <2>12. n <= Len(val[c].kids) /\ Len(val[c].kids) \in Nat
    <3>1. Fits(val[c])
      BY <1>1, <1>3, <1>6 DEF Held
    <3>2. val[c].kids \in Seq(Nat)
      BY <1>6, <1>7, Fields
    <3> QED
      BY <1>2, <1>5, <1>9, <2>1, <3>1, <3>2 DEF Fits
  <2>13. ASSUME NEW i \in 1..Len(val), NEW x \in 1..Len(val)
         PROVE  Entry(val', i, x) <=> Entry(val, i, x) /\ x # j
    <3>1. CASE i # c
      <4>1. Entry(val', i, x) <=> Entry(val, i, x)
        BY <2>7, <3>1 DEF Entry
      <4>2. Entry(val, i, x) => val[x].parent = i
        BY <1>1, <1>3, EntryIsKid
      <4> QED
        BY <2>10, <3>1, <4>1, <4>2
    <3>2. CASE i = c
      <4>1. Entry(val, c, x) <=> \E k \in 1..n : val[c].kids[k] = x
        BY <1>2, <1>5, <1>9, <2>1 DEF Entry
      <4>2. Entry(val', c, x) <=> \E k \in 1..n - 1 : val[c].kids[k] = x
        BY <1>2, <1>5, <1>6, <1>9, <2>8 DEF Entry
      <4>3. ASSUME NEW k \in 1..n - 1 PROVE val[c].kids[k] # j
        <5>1. k \in 1..Len(val[c].kids) /\ n \in 1..Len(val[c].kids) /\ k # n
          BY <2>5, <2>12
        <5>2. val[c].kids[k] = val[c].kids[n] => k = n
          BY <1>1, <1>6, <5>1 DEF KidsKnown
        <5> QED
          BY <2>2, <5>1, <5>2
      <4>4. ASSUME NEW k \in 1..n, val[c].kids[k] # j PROVE k \in 1..n - 1
        <5>1. k # n
          BY <2>2, <4>4
        <5> QED
          BY <2>5, <5>1
      <4>5. ASSUME Entry(val', c, x) PROVE Entry(val, c, x) /\ x # j
        <5>1. PICK k \in 1..n - 1 : val[c].kids[k] = x
          BY <4>2, <4>5
        <5>2. k \in 1..n
          BY <2>5, <5>1
        <5> QED
          BY <4>1, <4>3, <5>1, <5>2
      <4>6. ASSUME Entry(val, c, x), x # j PROVE Entry(val', c, x)
        <5>1. PICK k \in 1..n : val[c].kids[k] = x
          BY <4>1, <4>6
        <5> QED
          BY <4>2, <4>4, <4>6, <5>1
      <4> QED
        BY <3>2, <4>5, <4>6
    <3> QED
      BY <3>1, <3>2
  <2>14. ASSUME NEW x \in 1..Len(val)
         PROVE  Sound(val'[x]) /\ Fits(val'[x])
    <3>1. Sound(val[x]) /\ Fits(val[x])
      BY <1>1, <1>3 DEF Held
    <3>2. CASE x # c
      BY <2>7, <3>1, <3>2
    <3>3. CASE x = c
      <4>1. Sound(r)
        BY <2>6, <3>1, <3>3 DEF Sound, Fixed, Stored
      <4>2. val[c].room \in Nat
        BY <1>6, <1>7, Fields
      <4>3. Fits(r)
        BY <2>1, <2>5, <2>6, <2>12, <3>1, <3>3, <4>2 DEF Fits, Stored, Fixed, HasBlock
      <4> QED
        BY <2>7, <3>3, <4>1, <4>3
    <3> QED
      BY <3>2, <3>3
  <2>15. Held'
    BY <1>2, <2>7, <2>14 DEF Held
  <2> DEFINE B == A \cup {j}
  <2>16. Walks(B)'
    <3>1. A \subseteq 1..Len(val) /\ B \subseteq 1..Len(val)
      BY <1>4, <2>10 DEF Walks
    <3>2. cur' # 0 /\ cur' \in B
      BY <2>4, <2>10
    <3>3. \A k \in A : k <= c /\ val[k].cell = "live" /\ val[k].parent \in A \cup {0}
      BY <1>4, <1>5 DEF Walks
    <3>4. ASSUME NEW k \in B
          PROVE  k <= cur' /\ val'[k].cell = "live" /\ val'[k].parent \in B \cup {0}
      <4>1. CASE k \in A
        <5>1. k \in 1..Len(val) /\ k <= c /\ k <= j
          BY <1>6, <2>10, <3>1, <3>3, <4>1
        <5> QED
          BY <2>4, <2>8, <3>3, <4>1, <5>1
      <4>2. CASE k = j
        BY <1>6, <2>4, <2>8, <2>10, <2>11, <4>2
      <4> QED
        BY <4>1, <4>2
    <3>5. ASSUME NEW k \in B, NEW l \in B, k < l
          PROVE  k <= val'[l].parent
      <4>1. CASE k \in A /\ l \in A
        BY <1>4, <2>8, <3>1, <3>5, <4>1 DEF Walks
      <4>2. CASE k \in A /\ l = j
        BY <2>8, <2>10, <3>3, <4>2
      <4>3. CASE k = j
        <5>1. l <= j
          <6>1. CASE l \in A
            BY <1>6, <2>10, <3>1, <3>3, <6>1
          <6> QED
            BY <2>10, <6>1
        <5>2. l \in 1..Len(val) /\ j \in 1..Len(val)
          BY <2>10, <3>1
        <5> QED
          BY <3>5, <4>3, <5>1, <5>2
      <4> QED
        BY <4>1, <4>2, <4>3
    <3>6. ASSUME NEW i \in 1..Len(val), NEW x \in 1..Len(val),
                 val'[i].cell = "live", Entry(val', i, x)
          PROVE  val'[x].cell = "live" /\ x \notin B
      <4>1. val[i].cell = "live" /\ Entry(val, i, x) /\ x # j
        BY <2>8, <2>13, <3>6
      <4> QED
        BY <1>4, <2>8, <4>1 DEF Walks
    <3>7. ASSUME ~oom, NEW x \in 1..Len(val), val'[x].cell = "live", x \notin B
          PROVE  /\ val'[x].parent # 0 /\ val'[val'[x].parent].cell = "live"
                 /\ Entry(val', val'[x].parent, x)
      <4>1. PICK p : p = val[x].parent
        OBVIOUS
      <4>2. val'[x].parent = p /\ val[x].cell = "live" /\ x \notin A /\ x # j
        BY <2>8, <3>7, <4>1
      <4>3. p # 0 /\ val[p].cell = "live" /\ Entry(val, p, x)
        BY <1>4, <3>7, <4>1, <4>2 DEF Walks
      <4>4. p \in 1..Len(val)
        BY <1>1, <1>6, <4>1, <4>3 DEF Shape
      <4> QED
        BY <2>8, <2>13, <4>2, <4>3, <4>4
    <3>8. ASSUME ~oom, NEW x \in 1..Len(val), val'[x].type \in Containers, val'[x].length # 0
          PROVE  HasBlock(val'[x])
      <4>1. val[x].type \in Containers /\ val[x].length # 0
        BY <1>2, <1>5, <2>8, <3>8
      <4> QED
        BY <1>4, <2>8, <3>8, <4>1 DEF Walks
    <3> HIDE DEF B
    <3> QED
      BY <1>2, <2>7, <3>1, <3>2, <3>4, <3>5, <3>6, <3>7, <3>8 DEF Walks
  <2>17. Stages'
    BY <1>2, <1>3, <2>4, <2>16 DEF Stages, Freeing
  <2>18. Typed'
    BY <1>1, <1>2, <2>4, <2>7, <2>10 DEF Typed
  <2> QED
    BY <2>7, <2>15, <2>17, <2>18 DEF JsonInv
<1> QED
  BY <1>8, <1>9

(* The value itself, once it has no entries left, and back to its parent. *)
LEMMA FreeValueStep ==
  ASSUME JsonInv, FreeValue
  PROVE  JsonInv'
<1>1. Typed /\ Shape(val) /\ KidsKnown(val) /\ Held
  BY DEF JsonInv
<1>2. PICK c : c = cur
  OBVIOUS
<1>3. PICK y : y = IF HasBlock(val[c]) THEN Freed(val[c].block) ELSE val[c].block
  OBVIOUS
<1>4. PICK r : r = [val[c] EXCEPT !.cell = Freed(val[c].cell), !.block = y]
  OBVIOUS
<1>5. /\ Freeing /\ c # 0 /\ (val[c].type \in Containers => val[c].length = 0)
      /\ val' = [val EXCEPT ![c] = r] /\ cur' = val[c].parent /\ parser' = parser
      /\ UNCHANGED <<text, pass, pos, flags, top, root, alloc, oom>>
  BY <1>2, <1>3, <1>4 DEF FreeValue, scanVars
<1>6. pass = 0 /\ (oom <=> parser = "undo")
  BY <1>5 DEF JsonInv, Stages
<1>7. PICK A : Walks(A)
  BY <1>5 DEF JsonInv, Stages
<1>8. /\ c \in 1..Len(val) /\ c \in A /\ Len(val) \in Nat /\ val \in Seq(Values)
      /\ val[c].cell = "live"
  BY <1>1, <1>2, <1>5, <1>7 DEF Walks, Typed, Shape
<1>9. \A j \in 1..Len(val) : val[j] \in Values
  BY <1>8
<1>10. val[c].block \in {"none", "live"} /\ Fits(val[c])
  <2>1. Sound(val[c]) /\ Fits(val[c])
    BY <1>1, <1>6, <1>8 DEF Held
  <2> QED
    BY <1>8, <2>1 DEF Sound
<1>11. y \in {"none", "freed"} /\ (y # "none" <=> HasBlock(val[c]))
  BY <1>3, <1>10 DEF HasBlock, Freed
<1>12. /\ r \in Values /\ Like(r, val[c]) /\ r.kids = val[c].kids
       /\ r.cell = "freed" /\ r.block = y /\ r.length = val[c].length /\ r.keys = val[c].keys
       /\ r.used = val[c].used /\ r.bytes = val[c].bytes /\ r.room = val[c].room
  <2>1. y \in Memory \cup {"none"}
    BY <1>11 DEF Memory
  <2>2. Freed(val[c].cell) = "freed"
    BY <1>8 DEF Freed
  <2> QED
    BY <1>4, <1>8, <1>9, <2>1, <2>2, BothFreedIs, ZenonT(30)
<1>13. /\ Shape(val') /\ KidsKnown(val') /\ Len(val') = Len(val)
       /\ \A x \in 1..Len(val) : val'[x] = IF x = c THEN r ELSE val[x]
       /\ \A x \in 1..Len(val) : Like(val'[x], val[x]) /\ val'[x].kids = val[x].kids
  BY <1>1, <1>5, <1>8, <1>12, Touched
<1>14. \A x \in 1..Len(val) :
         /\ val'[x].cell = IF x = c THEN "freed" ELSE val[x].cell
         /\ val'[x].parent = val[x].parent /\ val'[x].type = val[x].type
         /\ val'[x].length = val[x].length /\ (HasBlock(val'[x]) <=> HasBlock(val[x]))
  BY <1>11, <1>12, <1>13 DEF Like, HasBlock
<1>15. PICK p : p = val[c].parent
  OBVIOUS
<1>16. p \in 0..c - 1 /\ p \in A \cup {0}
  BY <1>1, <1>7, <1>8, <1>15 DEF Shape, Walks
<1>17. ASSUME NEW x \in 1..Len(val)
       PROVE  Sound(val'[x]) /\ Fits(val'[x])
  <2>1. Sound(val[x]) /\ Fits(val[x])
    BY <1>1, <1>6 DEF Held
  <2>2. CASE x # c
    BY <1>13, <2>1, <2>2
  <2>3. CASE x = c
    <3>1. Sound(r)
      BY <1>11, <1>12 DEF Sound
    <3>2. Fits(r)
      BY <1>10, <1>11, <1>12 DEF Fits, Like, HasBlock
    <3> QED
      BY <1>13, <2>3, <3>1, <3>2
  <2> QED
    BY <2>2, <2>3
<1>18. Held'
  BY <1>5, <1>13, <1>17 DEF Held
<1> DEFINE B == A \ {c}
<1>19. Walks(B)'
  <2>1. A \subseteq 1..Len(val) /\ B \subseteq 1..Len(val)
    BY <1>7 DEF Walks
  <2>2. ASSUME NEW k \in B
        PROVE  k < c /\ k <= p /\ val[k].cell = "live" /\ val[k].parent \in A \cup {0}
    <3>1. k \in 1..Len(val) /\ k <= c /\ val[k].cell = "live" /\ val[k].parent \in A \cup {0}
      BY <1>2, <1>7, <2>1 DEF Walks
    <3>2. k < c
      BY <1>8, <3>1
    <3>3. k <= val[c].parent
      BY <1>7, <1>8, <3>2 DEF Walks
    <3> QED
      BY <1>15, <3>1, <3>2, <3>3
  <2>3. IF cur' = 0 THEN B = {} ELSE cur' \in B
    <3>1. CASE p = 0
      <4>1. \A k \in B : FALSE
        BY <1>8, <2>1, <2>2, <3>1
      <4> QED
        BY <1>5, <1>15, <3>1, <4>1
    <3>2. CASE p # 0
      BY <1>5, <1>8, <1>15, <1>16, <3>2
    <3> QED
      BY <3>1, <3>2
  <2>4. ASSUME NEW k \in B
        PROVE  k <= cur' /\ val'[k].cell = "live" /\ val'[k].parent \in B \cup {0}
    <3>1. k \in 1..Len(val) /\ k # c
      BY <2>1
    <3>2. val[k].parent \in 0..k - 1
      BY <1>1, <3>1 DEF Shape
    <3>3. val[k].parent # c
      BY <1>8, <2>2, <3>1, <3>2
    <3> QED
      BY <1>5, <1>14, <1>15, <2>2, <3>1, <3>3
  <2>5. ASSUME NEW k \in B, NEW l \in B, k < l
        PROVE  k <= val'[l].parent
    BY <1>7, <1>14, <2>1, <2>5 DEF Walks
  <2>6. ASSUME NEW i \in 1..Len(val), i # c, NEW x
        PROVE  Entry(val', i, x) <=> Entry(val, i, x)
    <3>1. val'[i] = val[i]
      BY <1>13, <2>6
    <3> QED
      BY <3>1 DEF Entry
  <2>7. ASSUME NEW i \in 1..Len(val), NEW x \in 1..Len(val),
               val'[i].cell = "live", Entry(val', i, x)
        PROVE  val'[x].cell = "live" /\ x \notin B
    <3>1. i # c /\ val[i].cell = "live"
      BY <1>14, <2>7
    <3>2. val[x].cell = "live" /\ x \notin A
      BY <1>7, <2>6, <2>7, <3>1 DEF Walks
    <3> QED
      BY <1>8, <1>14, <3>2
  <2>8. ASSUME ~oom, NEW x \in 1..Len(val), val'[x].cell = "live", x \notin B
        PROVE  /\ val'[x].parent # 0 /\ val'[val'[x].parent].cell = "live"
               /\ Entry(val', val'[x].parent, x)
    <3>1. x # c /\ val[x].cell = "live" /\ x \notin A
      BY <1>14, <2>8
    <3>2. PICK q : q = val[x].parent
      OBVIOUS
    <3>3. q # 0 /\ val[q].cell = "live" /\ Entry(val, q, x)
      BY <1>7, <2>8, <3>1, <3>2 DEF Walks
    <3>4. q \in 1..Len(val)
      BY <1>1, <1>8, <3>2, <3>3 DEF Shape
    <3>5. q # c
      <4>1. Entry(val, c, x) => val[c].type \in Containers /\ \E k \in 1..val[c].length : TRUE
        BY DEF Entry
      <4> QED
        BY <1>5, <3>3, <4>1
    <3> QED
      BY <1>14, <2>6, <3>2, <3>3, <3>4, <3>5
  <2>9. ASSUME ~oom, NEW x \in 1..Len(val), val'[x].type \in Containers, val'[x].length # 0
        PROVE  HasBlock(val'[x])
    BY <1>7, <1>14, <2>9 DEF Walks
  <2> HIDE DEF B
  <2> QED
    BY <1>5, <1>13, <2>1, <2>3, <2>4, <2>5, <2>7, <2>8, <2>9 DEF Walks
<1>20. Stages'
  BY <1>5, <1>6, <1>19 DEF Stages, Freeing
<1>21. Typed'
  <2>1. cur' \in 0..Len(val)
    BY <1>5, <1>8, <1>15, <1>16
  <2> QED
    BY <1>1, <1>5, <1>13, <2>1 DEF Typed
<1> QED
  BY <1>13, <1>18, <1>20, <1>21 DEF JsonInv

(* The walk is back at no value: without a failure, all are freed.  The    *)
(* first one that was not would have a parent before it that was not.      *)
LEMMA FreeEndsStep ==
  ASSUME JsonInv, FreeEnds
  PROVE  JsonInv'
<1>1. Typed /\ Shape(val) /\ KidsKnown(val) /\ Held
  BY DEF JsonInv
<1>2. /\ Freeing /\ cur = 0 /\ parser' = (IF parser = "undo" THEN "null" ELSE "freed")
      /\ UNCHANGED <<text, pass, pos, flags, val, top, root, alloc, cur, oom>>
  BY DEF FreeEnds, scanVars
<1>3. pass = 0 /\ (oom <=> parser = "undo")
  BY <1>2 DEF JsonInv, Stages
<1>4. PICK A : Walks(A)
  BY <1>2 DEF JsonInv, Stages
<1>5. ASSUME ~oom PROVE AllFreed
  <2> DEFINE I == {j \in 1..Len(val) : val[j].cell = "live"}
  <2>1. A = {} /\ Len(val) \in Nat
    BY <1>1, <1>2, <1>4 DEF Walks, Shape
  <2>2. I = {}
    <3> SUFFICES ASSUME I # {} PROVE FALSE
      OBVIOUS
    <3>1. I \in SUBSET Nat
      BY <2>1
    <3>2. PICK x \in I : \A y \in I : x <= y
      BY <3>1, LeastOne
    <3>3. x \in 1..Len(val) /\ val[x].cell = "live"
      OBVIOUS
    <3>4. PICK p : p = val[x].parent
      OBVIOUS
    <3>5. p # 0 /\ val[p].cell = "live"
      BY <1>4, <1>5, <2>1, <3>3, <3>4 DEF Walks
    <3>6. p \in 0..x - 1
      BY <1>1, <3>3, <3>4 DEF Shape
    <3>7. p \in I /\ p < x
      BY <2>1, <3>3, <3>5, <3>6
    <3> QED
      BY <2>1, <3>2, <3>3, <3>6, <3>7
  <2>3. ASSUME NEW j \in 1..Len(val) PROVE val[j].cell = "freed" /\ val[j].block # "live"
    <3>1. Sound(val[j]) /\ val[j].cell # "live"
      BY <1>1, <2>2 DEF Held
    <3> QED
      BY <3>1 DEF Sound
  <2> QED
    BY <2>3 DEF AllFreed
<1>6. AllFreed' <=> AllFreed
  BY <1>2 DEF AllFreed
<1>7. Stages'
  BY <1>2, <1>3, <1>5, <1>6 DEF Stages, Freeing
<1> QED
  BY <1>1, <1>2, <1>7 DEF JsonInv, Typed, Held

-----------------------------------------------------------------------------
(***************************************************************************)
(* Every step of the parser and of the release.                            *)
(***************************************************************************)

(* The invariant holds at the start ... *)
LEMMA JsonInvInit ==
  ASSUME JsonInit
  PROVE  JsonInv
<1>1. Typed
  <2>1. Len(text) = 0 /\ Len(val) = 0 /\ text \in Seq(Tokens)
    BY DEF JsonInit
  <2>2. 0 <= MaxText
    BY JsonAssumption
  <2>3. flags \in SUBSET Flags
    BY DEF JsonInit, Flags
  <2>4. pass \in {0, 1} /\ pos \in 0..Len(text) /\ Len(text) <= MaxText
    BY <2>1, <2>2 DEF JsonInit
  <2>5. top \in 0..Len(val) /\ root \in 0..Len(val) /\ alloc \in 0..Len(val) /\ cur \in 0..Len(val)
    BY <2>1 DEF JsonInit
  <2>6. oom \in BOOLEAN /\ parser = "idle"
    BY DEF JsonInit
  <2> QED
    BY <2>1, <2>3, <2>4, <2>5, <2>6 DEF Typed
<1>2. \A j \in 1..Len(val) : FALSE
  BY DEF JsonInit
<1>3. Shape(val) /\ KidsKnown(val) /\ Held
  BY <1>2 DEF JsonInit, Shape, KidsKnown, Held
<1>4. Stages
  BY DEF JsonInit, Stages, Freeing
<1> QED
  BY <1>1, <1>3, <1>4 DEF JsonInv

(* A step that changes nothing leaves the passes where they are. *)
LEMMA PassesStutter ==
  ASSUME UNCHANGED <<text, pass, pos, flags, val, top, root, alloc>>, NEW h, NEW O
  PROVE  (FirstPass(h, O)' <=> FirstPass(h, O)) /\ (SecondPass(h, O)' <=> SecondPass(h, O))
<1>1. \A s : At(s)' <=> At(s)
  BY DEF At
<1>2. Run(h)' <=> Run(h)
  BY DEF Run
<1>3. Attached(O, h[pos])' <=> Attached(O, h[pos])
  BY DEF Attached
<1>4. \A j, s, f : Halfway(j, s, f)' <=> Halfway(j, s, f)
  BY DEF Halfway, Filling, Wants
<1> QED
  BY <1>1, <1>2, <1>3, <1>4 DEF FirstPass, SecondPass

(* ... and no step of the parser or of the release breaks it. *)
LEMMA JsonInvKept ==
  ASSUME JsonInv, JsonParse \/ ParseStep \/ JsonValueFree \/ FreeStep \/ UNCHANGED jsonVars
  PROVE  JsonInv'
<1>1. CASE JsonParse
  BY <1>1, JsonParseStep
<1>2. CASE ParseStep
  <2>1. ASSUME NEW b \in Tokens \cup {Eof}, ParseToken(b) PROVE JsonInv'
    <3>1. parser = "parse"
      BY <2>1 DEF ParseToken, Read
    <3>2. pass = 1 \/ pass = 0
      BY DEF JsonInv, Typed
    <3>3. CASE pass = 1
      BY <2>1, <3>1, <3>3, FirstStep
    <3>4. CASE pass = 0
      BY <2>1, <3>1, <3>4, SecondStep
    <3> QED
      BY <3>2, <3>3, <3>4
  <2> QED
    BY <1>2, <2>1, UnwindStep, UnwoundStep DEF ParseStep
<1>3. CASE JsonValueFree
  BY <1>3, ValueFreeStep
<1>4. CASE FreeStep
  BY <1>4, DescendStep, FreeValueStep, FreeEndsStep DEF FreeStep
<1>5. CASE UNCHANGED jsonVars
  <2>1. UNCHANGED <<parser, text, pass, pos, flags, val, top, root, alloc, cur, oom>>
    BY <1>5 DEF jsonVars, scanVars
  <2>2. Typed' <=> Typed
    BY <2>1 DEF Typed
  <2>3. ASSUME NEW h, NEW O
        PROVE  (FirstPass(h, O)' <=> FirstPass(h, O)) /\ (SecondPass(h, O)' <=> SecondPass(h, O))
    BY <2>1, PassesStutter
  <2>4. ASSUME NEW m PROVE UnwindsSecond(m)' <=> UnwindsSecond(m)
    BY <2>1 DEF UnwindsSecond
  <2>5. ASSUME NEW A PROVE Walks(A)' <=> Walks(A)
    BY <2>1 DEF Walks
  <2>6. (Built' <=> Built) /\ (UnwindsFirst' <=> UnwindsFirst) /\ (AllFreed' <=> AllFreed)
    BY <2>1 DEF Built, UnwindsFirst, AllFreed
  <2>7. Stages' <=> Stages
    BY <2>1, <2>3, <2>4, <2>5, <2>6 DEF Stages, Freeing
  <2> QED
    BY <2>1, <2>2, <2>7 DEF JsonInv, Held
<1> QED
  BY <1>1, <1>2, <1>3, <1>4, <1>5

(* What the invariant is for. *)
LEMMA JsonInvProperties ==
  ASSUME JsonInv
  PROVE  PassesAgree /\ BlocksFit /\ MemoryReturned
<1>1. Typed /\ Shape(val) /\ Held /\ Stages
  BY DEF JsonInv
<1>2. PassesAgree
  <2>1. pass = 0 /\ parser = "unwind" => oom
    BY <1>1 DEF Stages, UnwindsSecond
  <2>2. pass = 0 /\ parser \in {"undo", "null"} => oom
    BY <1>1 DEF Stages, Freeing
  <2> QED
    BY <2>1, <2>2 DEF PassesAgree
<1>3. BlocksFit
  <2> SUFFICES ASSUME pass = 0, NEW i \in 1..Len(val)
               PROVE  LET v == val[i] IN
                      /\ Len(v.keys) <= v.room /\ v.used <= v.bytes
                      /\ HasBlock(v) => v.length <= v.room /\ Len(v.kids) <= v.room
                      /\ parser = "value" =>
                           /\ v.length = v.room
                           /\ v.type \in Containers => Len(v.kids) = v.room
                           /\ v.type = "object" => Len(v.keys) = v.room /\ v.used = v.bytes
    BY DEF BlocksFit
  <2>1. Fits(val[i])
    BY <1>1 DEF Held
  <2>2. parser = "value" => Built
    BY <1>1 DEF Stages
  <2> QED
    BY <2>1, <2>2 DEF Fits, Built
<1>4. MemoryReturned
  <2>1. \A i \in 1..Len(val) : val[i].cell # "twice" /\ val[i].block # "twice"
    BY <1>1 DEF Held, Sound
  <2>2. pass \in {0, 1}
    BY <1>1 DEF Typed
  <2>3. parser \in {"null", "freed"} /\ ~oom => AllFreed
    BY <1>1, <2>2 DEF Stages
  <2>4. parser = "crashed" => oom
    BY <1>1 DEF Stages
  <2> QED
    BY <2>1, <2>3, <2>4 DEF MemoryReturned, AllFreed
<1> QED
  BY <1>2, <1>3, <1>4

(* The types of the parser follow from the invariant. *)
LEMMA JsonInvTypes ==
  ASSUME JsonInv
  PROVE  JsonTypeOK
<1>1. Typed /\ Shape(val)
  BY DEF JsonInv
<1>2. val \in Seq(Values) /\ Len(val) \in Nat
  BY <1>1 DEF Shape
<1>3. ASSUME NEW i \in 1..Len(val)
      PROVE  /\ val[i].type \in {"object", "array", "string", "scalar"}
             /\ val[i].parent \in 0..i - 1 /\ val[i].next \in {0, i + 1}
             /\ val[i].length \in Nat /\ val[i].bytes \in Nat /\ val[i].used \in Nat
  <2>1. val[i] \in Values
    BY <1>2
  <2>2. val[i].parent \in 0..i - 1 /\ val[i].next \in {0, i + 1}
    BY <1>1 DEF Shape
  <2> QED
    BY <2>1, <2>2, Fields DEF Containers
<1>4. pos \in 0..MaxText
  BY <1>1, JsonAssumption DEF Typed
<1>5. flags \subseteq {"seek", "comma", "colon", "done"}
  BY <1>1 DEF Typed, Flags
<1> QED
  BY <1>1, <1>3, <1>4, <1>5 DEF JsonTypeOK, Typed

(* The walk takes no value out of the tree, and changes none of what a     *)
(* reader of the finished tree has seen, beside the lengths.               *)
LEMMA FreeingKeeps ==
  ASSUME JsonInv, FreeStep
  PROVE  /\ root' = root /\ Len(val') = Len(val)
         /\ \A i \in 1..Len(val) :
              /\ Like(val'[i], val[i]) /\ val'[i].kids = val[i].kids
              /\ val'[i].keys = val[i].keys /\ val'[i].room = val[i].room
<1>1. Typed /\ Shape(val) /\ KidsKnown(val) /\ Held
  BY DEF JsonInv
<1>2. val \in Seq(Values) /\ Len(val) \in Nat /\ \A j \in 1..Len(val) : val[j] \in Values
  BY <1>1 DEF Shape
<1>3. CASE UNCHANGED <<val, root>>
  BY <1>3 DEF Like
<1>4. CASE FreeDescend /\ val' # val
  <2>1. /\ cur # 0 /\ root' = root /\ val[cur].length # 0
        /\ val' = [val EXCEPT ![cur] = [val[cur] EXCEPT !.length = val[cur].length - 1]]
    BY <1>4 DEF FreeDescend
  <2>2. cur \in 1..Len(val)
    BY <1>1, <2>1 DEF Typed
  <2>3. PICK r : r = [val[cur] EXCEPT !.length = val[cur].length - 1]
    OBVIOUS
  <2>4. /\ r \in Values /\ Like(r, val[cur]) /\ r.kids = val[cur].kids
        /\ r.keys = val[cur].keys /\ r.room = val[cur].room
    BY <1>2, <2>1, <2>2, <2>3, LessIs DEF Stored
  <2>5. /\ Len(val') = Len(val) /\ \A j \in 1..Len(val) : val'[j] = IF j = cur THEN r ELSE val[j]
    BY <1>1, <2>1, <2>2, <2>3, <2>4, Touched
  <2> QED
    BY <2>1, <2>4, <2>5 DEF Like
<1>5. CASE FreeValue
  <2>1. PICK y : y = IF HasBlock(val[cur]) THEN Freed(val[cur].block) ELSE val[cur].block
    OBVIOUS
  <2>2. PICK r : r = [val[cur] EXCEPT !.cell = Freed(val[cur].cell), !.block = y]
    OBVIOUS
  <2>3. cur # 0 /\ root' = root /\ val' = [val EXCEPT ![cur] = r]
    BY <1>5, <2>1, <2>2 DEF FreeValue
  <2>4. cur \in 1..Len(val)
    BY <1>1, <2>3 DEF Typed
  <2>5. y \in Memory \cup {"none"}
    BY <1>2, <2>1, <2>4, Fields DEF Freed, Memory
  <2>6. /\ r \in Values /\ Like(r, val[cur]) /\ r.kids = val[cur].kids
        /\ r.keys = val[cur].keys /\ r.room = val[cur].room
    BY <1>2, <2>2, <2>4, <2>5, BothFreedIs
  <2>7. /\ Len(val') = Len(val) /\ \A j \in 1..Len(val) : val'[j] = IF j = cur THEN r ELSE val[j]
    BY <1>1, <2>3, <2>4, <2>6, Touched
  <2> QED
    BY <2>3, <2>6, <2>7 DEF Like
<1>6. CASE FreeDescend /\ val' = val
  BY <1>3, <1>6 DEF FreeDescend
<1>7. CASE FreeEnds
  BY <1>3, <1>7 DEF FreeEnds
<1> QED
  BY <1>4, <1>5, <1>6, <1>7 DEF FreeStep

-----------------------------------------------------------------------------
(***************************************************************************)
(* The tree and its text.                                                  *)
(***************************************************************************)

(* What is written of a container that is still open: its entries, and the *)
(* name that waits for its value.                                          *)
Mark(v) == IF v.type = "object" THEN <<"{">> ELSE <<"[">>
Closer(v) == IF v.type = "object" THEN "}" ELSE "]"
Sep == <<",">>
Pending(v) == IF Len(v.keys) > Len(v.kids) THEN <<v.keys[Len(v.kids) + 1], ":">> ELSE <<>>
Begun(v, w) == (Mark(v) \o Items(v, w)) \o Pending(v)

(* r is q with one more entry, y. *)
GoesOn(r, q, y) == r = q \o (y \o Sep)

(* The texts of n values; a value whose children are among them and whose  *)
(* entries have their names.                                               *)
Texts(n) == [1..n -> Seq(Tokens)]
Named(v, n) ==
  /\ v \in Values /\ \A k \in 1..Len(v.kids) : v.kids[k] \in 1..n
  /\ v.type = "object" => Len(v.kids) <= Len(v.keys)

(* Sequences in a row, in any grouping. *)
LEMMA Rows ==
  ASSUME NEW S
  PROVE  /\ <<>> \in Seq(S) /\ \A a \in Seq(S) : a \o <<>> = a /\ <<>> \o a = a
         /\ \A a, b \in Seq(S) : a \o b \in Seq(S)
         /\ \A a, b, c \in Seq(S) : (a \o b) \o c = a \o (b \o c)
OBVIOUS

Grouped(a, b, c) == (a \o b) \o c = a \o (b \o c)

(* Three of them, by name. *)
LEMMA RowsOfThree ==
  ASSUME NEW S, NEW a \in Seq(S), NEW b \in Seq(S), NEW c \in Seq(S)
  PROVE  Grouped(a, b, c)
<1>1. \A p, q, r \in Seq(S) : (p \o q) \o r = p \o (q \o r)
  BY Rows
<1> QED
  BY <1>1, Zenon DEF Grouped

(* A row of two. *)
LEMMA RowOfTwo ==
  ASSUME NEW S, NEW a \in S, NEW b \in S
  PROVE  <<a>> \o <<b>> = <<a, b>>
<1>1. PICK x \in Seq(S), y \in Seq(S) : Len(x) = 1 /\ x[1] = a /\ Len(y) = 1 /\ y[1] = b
                                        /\ x = <<a>> /\ y = <<b>>
  <2>1. <<a>> \in Seq(S) /\ <<b>> \in Seq(S)
    OBVIOUS
  <2> QED
    BY <2>1
<1>2. PICK z \in Seq(S) : z = x \o y
  BY Rows
<1>3. Len(z) = 2 /\ z[1] = a /\ z[2] = b
  BY <1>1, <1>2
<1>4. z = <<a, b>>
  BY <1>3
<1> QED
  BY <1>1, <1>2, <1>4

Regrouped(a, b, c, d) == a \o (b \o (c \o d)) = ((a \o b) \o c) \o d

(* Four of them. *)
LEMMA RowsOfFour ==
  ASSUME NEW S, NEW a \in Seq(S), NEW b \in Seq(S), NEW c \in Seq(S), NEW d \in Seq(S)
  PROVE  Regrouped(a, b, c, d)
<1>1. PICK z \in Seq(S) : z = b \o c
  BY Rows
<1>2. z \o d = b \o (c \o d)
  <2>1. Grouped(b, c, d)
    BY RowsOfThree
  <2> QED
    BY <1>1, <2>1, Zenon DEF Grouped
<1>3. Grouped(a, z, d) /\ Grouped(a, b, c)
  BY RowsOfThree
<1>4. (a \o b) \o c = a \o z
  BY <1>1, <1>3, Zenon DEF Grouped
<1> QED
  BY <1>2, <1>3, <1>4, Zenon DEF Grouped, Regrouped

(* The rows that a value writes beside its entries. *)
LEMMA SomeTokens ==
  /\ \A b \in Punctuation : b \in Tokens /\ <<b>> \in Seq(Tokens)
  /\ \A b \in Strings : b \in Tokens /\ <<b, ":">> \in Seq(Tokens)
  /\ \A b \in Tokens : <<b>> \in Seq(Tokens) /\ <<",", b>> \in Seq(Tokens)
<1>1. (\A b \in Punctuation \cup Strings : b \in Tokens) /\ ":" \in Tokens /\ "," \in Tokens
  BY DEF Tokens, Punctuation
<1>2. \A b, c \in Tokens : <<b>> \in Seq(Tokens) /\ <<b, c>> \in Seq(Tokens)
  OBVIOUS
<1> QED
  BY <1>1, <1>2

(* What is written of a value is a text. *)
LEMMA ItemsFit ==
  ASSUME NEW n \in Nat, NEW v, Named(v, n), NEW w \in Texts(n)
  PROVE  /\ \A k \in 1..Len(v.kids) : Item(v, w, k) \in Seq(Tokens)
         /\ [k \in 1..Len(v.kids) |-> Item(v, w, k)] \in Seq(Seq(Tokens))
         /\ Items(v, w) \in Seq(Tokens) /\ Begun(v, w) \in Seq(Tokens)
         /\ Mark(v) \in Seq(Tokens) /\ Pending(v) \in Seq(Tokens)
<1>1. v.kids \in Seq(Nat) /\ v.keys \in Seq(Strings) /\ Len(v.kids) \in Nat /\ Len(v.keys) \in Nat
  <2>1. v.kids \in Seq(Nat) /\ v.keys \in Seq(Strings)
    BY Fields DEF Named
  <2> QED
    BY <2>1
<1>2. ASSUME NEW k \in 1..Len(v.kids) PROVE Item(v, w, k) \in Seq(Tokens)
  <2>1. w[v.kids[k]] \in Seq(Tokens)
    BY DEF Named, Texts
  <2>2. v.type = "object" => v.keys[k] \in Strings
    BY <1>1 DEF Named
  <2>3. (IF v.type = "object" THEN <<v.keys[k], ":">> ELSE <<>>) \in Seq(Tokens)
    BY <2>2, SomeTokens, Rows, Zenon
  <2>4. <<",">> \in Seq(Tokens)
    BY SomeTokens DEF Punctuation
  <2> QED
    BY <2>1, <2>3, <2>4, Rows DEF Item
<1>3. [k \in 1..Len(v.kids) |-> Item(v, w, k)] \in Seq(Seq(Tokens))
  BY <1>1, <1>2
<1>4. Items(v, w) \in Seq(Tokens)
  BY <1>3, FlattenedMore, SMTT(60) DEF Items
<1>5. Begun(v, w) \in Seq(Tokens) /\ Mark(v) \in Seq(Tokens) /\ Pending(v) \in Seq(Tokens)
  <2>1. Mark(v) \in Seq(Tokens)
    BY SomeTokens DEF Mark, Punctuation
  <2>2. Pending(v) \in Seq(Tokens)
    <3>1. Len(v.keys) > Len(v.kids) => v.keys[Len(v.kids) + 1] \in Strings
      BY <1>1
    <3> QED
      BY <3>1, SomeTokens, Rows, Zenon DEF Pending
  <2> QED
    BY <1>4, <2>1, <2>2 DEF Begun
<1> QED
  BY <1>2, <1>3, <1>4, <1>5

(* Entries that stay the same are written the same. *)
LEMMA ItemsSame ==
  ASSUME NEW u, NEW v, NEW x, NEW w, u.type = v.type, u.kids = v.kids,
         \A k \in 1..Len(v.kids) : u.keys[k] = v.keys[k] /\ x[v.kids[k]] = w[v.kids[k]]
  PROVE  Items(u, x) = Items(v, w)
<1>1. \A k \in 1..Len(v.kids) : Item(u, x, k) = Item(v, w, k)
  BY DEF Item
<1> QED
  BY <1>1, Zenon DEF Items

(* One more entry is written behind the others. *)
LEMMA ItemsMore ==
  ASSUME NEW n \in Nat, NEW v, Named(v, n), NEW w \in Texts(n), NEW x \in Texts(n),
         NEW i \in 1..n, NEW u, u.type = v.type, u.keys = v.keys, u.kids = Append(v.kids, i),
         Named(u, n), \A k \in 1..Len(v.kids) : x[v.kids[k]] = w[v.kids[k]]
  PROVE  Items(u, x) = Items(v, w) \o Item(u, x, Len(v.kids) + 1)
<1> DEFINE m == Len(v.kids)
           ss == [k \in 1..m |-> Item(v, w, k)]
           tt == [k \in 1..Len(u.kids) |-> Item(u, x, k)]
           e == Item(u, x, m + 1)
<1>1. /\ m \in Nat /\ Len(u.kids) = m + 1 /\ \A k \in 1..m : u.kids[k] = v.kids[k]
  <2>1. v.kids \in Seq(Nat)
    BY Fields DEF Named
  <2> QED
    BY <2>1
<1>2. \A k \in 1..m : Item(u, x, k) = Item(v, w, k)
  BY <1>1 DEF Item
<1>3. ss \in Seq(Seq(Tokens)) /\ tt \in Seq(Seq(Tokens)) /\ e \in Seq(Tokens)
  <2>1. m + 1 \in 1..Len(u.kids)
    BY <1>1
  <2> QED
    BY <2>1, ItemsFit
<1>4. Len(ss) = m /\ Len(tt) = m + 1 /\ tt[m + 1] = e /\ \A k \in 1..m : tt[k] = ss[k]
  <2>1. \A k \in 1..m : k \in 1..m + 1
    BY <1>1
  <2> HIDE DEF e
  <2> QED
    BY <1>1, <1>2, <2>1 DEF e
<1> HIDE DEF ss, tt, e
<1>5. tt = Append(ss, e)
  BY <1>1, <1>3, <1>4
<1>6. FlattenSeq(tt) = FlattenSeq(ss) \o e
  BY <1>3, <1>5, FlattenedMore
<1> QED
  BY <1>6 DEF Items, ss, tt, e

(* A container that changes only where w does not matter. *)
LEMMA BegunSame ==
  ASSUME NEW u, NEW v, NEW x, NEW w, u.type = v.type, u.kids = v.kids, u.keys = v.keys,
         u.lit = v.lit, \A k \in 1..Len(v.kids) : x[v.kids[k]] = w[v.kids[k]]
  PROVE  Begun(u, x) = Begun(v, w) /\ Writes(u, x) = Writes(v, w)
<1>1. Items(u, x) = Items(v, w)
  BY ItemsSame
<1> QED
  BY <1>1, Zenon DEF Begun, Mark, Pending, Writes

(* A name is written. *)
LEMMA BegunNamed ==
  ASSUME NEW n \in Nat, NEW v, Named(v, n), NEW w \in Texts(n), NEW b \in Strings,
         NEW u, u.type = v.type, u.kids = v.kids, u.keys = Append(v.keys, b),
         Len(v.keys) = Len(v.kids)
  PROVE  Begun(u, w) = Begun(v, w) \o <<b, ":">>
<1> DEFINE d == Mark(v) \o Items(v, w)
<1>1. v.keys \in Seq(Strings) /\ v.kids \in Seq(Nat)
  BY Fields DEF Named
<1>2. /\ Len(u.keys) = Len(v.keys) + 1 /\ u.keys[Len(v.keys) + 1] = b
      /\ \A k \in 1..Len(v.keys) : u.keys[k] = v.keys[k]
      /\ Len(v.keys) \in Nat
  BY <1>1
<1>3. Items(u, w) = Items(v, w) /\ Mark(u) = Mark(v)
  <2>1. \A k \in 1..Len(v.kids) : u.keys[k] = v.keys[k]
    BY <1>2
  <2> QED
    BY <2>1, ItemsSame DEF Mark
<1>4. d \in Seq(Tokens)
  <2>1. Mark(v) \in Seq(Tokens) /\ Items(v, w) \in Seq(Tokens)
    BY ItemsFit
  <2> QED
    BY <2>1
<1>5. Pending(v) = <<>>
  <2>1. ~(Len(v.keys) > Len(v.kids))
    BY <1>2
  <2> QED
    BY <2>1 DEF Pending
<1>6. Pending(u) = <<b, ":">>
  <2>1. Len(u.keys) > Len(u.kids) /\ u.keys[Len(u.kids) + 1] = b
    BY <1>2
  <2> QED
    BY <2>1 DEF Pending
<1>7. Begun(v, w) = d \o <<>> /\ Begun(u, w) = d \o <<b, ":">>
  BY <1>3, <1>5, <1>6 DEF Begun
<1> HIDE DEF d
<1> QED
  BY <1>4, <1>7, Rows

(* An entry is complete. *)
LEMMA BegunMore ==
  ASSUME NEW n \in Nat, NEW v, Named(v, n), NEW w \in Texts(n), NEW x \in Texts(n),
         NEW i \in 1..n, NEW u, u.type = v.type, u.keys = v.keys, u.kids = Append(v.kids, i),
         Named(u, n), \A k \in 1..Len(v.kids) : x[v.kids[k]] = w[v.kids[k]],
         v.type \in Containers,
         Len(v.keys) = IF v.type = "object" THEN Len(v.kids) + 1 ELSE 0
  PROVE  GoesOn(Begun(u, x), Begun(v, w), x[i])
<1> DEFINE m == Len(v.kids)
           a == Mark(v)
           c == IF v.type = "object" THEN <<v.keys[m + 1], ":">> ELSE <<>>
           d == Items(v, w)
           e == x[i]
           f == Sep
<1>1. v.keys \in Seq(Strings) /\ v.kids \in Seq(Nat)
  BY Fields DEF Named
<1>2. m \in Nat /\ Len(u.kids) = m + 1 /\ u.kids[m + 1] = i /\ Len(v.keys) \in Nat
  BY <1>1
<1>3. Begun(v, w) = (a \o d) \o c
  <2>1. Len(v.keys) > m <=> v.type = "object"
    BY <1>2
  <2> QED
    BY <2>1 DEF Begun, Pending
<1>4. Begun(u, x) = (a \o Items(u, x)) \o <<>>
  <2>1. ~(Len(u.keys) > Len(u.kids))
    BY <1>2
  <2> QED
    BY <2>1 DEF Begun, Pending, Mark
<1>5. Items(u, x) = d \o ((c \o e) \o f)
  <2>1. Items(u, x) = Items(v, w) \o Item(u, x, m + 1)
    BY ItemsMore
  <2>2. Item(u, x, m + 1) = (c \o e) \o f
    BY <1>2 DEF Item, Sep
  <2> QED
    BY <2>1, <2>2
<1>6. /\ a \in Seq(Tokens) /\ c \in Seq(Tokens) /\ d \in Seq(Tokens)
      /\ e \in Seq(Tokens) /\ f \in Seq(Tokens)
  <2>1. a \in Seq(Tokens) /\ f \in Seq(Tokens)
    BY ItemsFit, SomeTokens DEF Punctuation, Sep
  <2>2. c \in Seq(Tokens)
    <3>1. v.type = "object" => v.keys[m + 1] \in Strings
      BY <1>1, <1>2
    <3> QED
      BY <3>1, SomeTokens, Rows, Zenon
  <2>3. d \in Seq(Tokens) /\ e \in Seq(Tokens)
    BY ItemsFit DEF Texts
  <2> QED
    BY <2>1, <2>2, <2>3
<1> HIDE DEF a, c, d, e, f
<1>7. (a \o (d \o ((c \o e) \o f))) \o <<>> = ((a \o d) \o c) \o (e \o f)
  <2>0. /\ \A p, q \in Seq(Tokens) : p \o q \in Seq(Tokens)
        /\ \A p, q, r \in Seq(Tokens) : (p \o q) \o r = p \o (q \o r)
    BY Rows
  <2>1. (c \o e) \o f = c \o (e \o f) /\ e \o f \in Seq(Tokens) /\ c \o (e \o f) \in Seq(Tokens)
    BY <1>6, <2>0, Zenon
  <2>2. PICK g \in Seq(Tokens) : g = e \o f
    BY <2>1
  <2>3. a \o (d \o (c \o g)) = (a \o d) \o (c \o g) /\ a \o d \in Seq(Tokens)
        /\ d \o (c \o g) \in Seq(Tokens)
    BY <1>6, <2>0, <2>1, <2>2, ZenonT(60)
  <2>4. ((a \o d) \o c) \o g = (a \o d) \o (c \o g)
    <3>1. PICK s \in Seq(Tokens) : s = a \o d
      BY <2>3
    <3>2. c \in Seq(Tokens) /\ g \in Seq(Tokens)
      BY <1>6
    <3>3. (s \o c) \o g = s \o (c \o g)
      BY <2>0, <3>2, Zenon
    <3> QED
      BY <3>1, <3>3
  <2>5. (a \o (d \o (c \o g))) \o <<>> = a \o (d \o (c \o g))
    BY <1>6, <2>3, Rows
  <2> QED
    BY <2>1, <2>2, <2>3, <2>4, <2>5
<1> QED
  BY <1>3, <1>4, <1>5, <1>7 DEF e, f, GoesOn

(* A container is closed. *)
LEMMA BegunEnds ==
  ASSUME NEW n \in Nat, NEW v, Named(v, n), NEW w \in Texts(n), v.type \in Containers,
         Len(v.keys) = IF v.type = "object" THEN Len(v.kids) ELSE 0
  PROVE  Writes(v, w) = Begun(v, w) \o <<Closer(v)>>
<1> DEFINE d == Mark(v) \o Items(v, w)
<1>1. d \in Seq(Tokens)
  <2>1. Mark(v) \in Seq(Tokens) /\ Items(v, w) \in Seq(Tokens)
    BY ItemsFit
  <2> QED
    BY <2>1
<1>2. Pending(v) = <<>>
  <2>1. v.keys \in Seq(Strings) /\ v.kids \in Seq(Nat)
    BY Fields DEF Named
  <2>2. Len(v.keys) \in Nat /\ Len(v.kids) \in Nat
    BY <2>1
  <2>3. ~(Len(v.keys) > Len(v.kids))
    BY <2>2
  <2> QED
    BY <2>3 DEF Pending
<1>c. Closer(v) \in Tokens
  BY SomeTokens DEF Closer, Punctuation
<1>3. Begun(v, w) = d \o <<>>
  BY <1>2 DEF Begun
<1>4. Writes(v, w) = d \o <<Closer(v)>>
  BY DEF Writes, Mark, Closer, Containers
<1> HIDE DEF d
<1>5. <<Closer(v)>> \in Seq(Tokens)
  BY <1>c
<1> QED
  BY <1>1, <1>3, <1>4, <1>5, Rows

-----------------------------------------------------------------------------

(* The comma is missing before b. *)
Comma(t, b) == b \in {"}", "]"} /\ t # <<>> /\ t[Len(t)] \notin {"{", "[", ","}

(* What a text without that comma turns into, token by token. *)
LEMMA TrailedMore ==
  ASSUME NEW t \in Seq(Tokens), NEW b \in Tokens
  PROVE  /\ Trailed(t) \in Seq(Tokens) /\ Trailed(<<>>) = <<>>
         /\ Trailed(Append(t, b)) = Trailed(t) \o (IF Comma(t, b) THEN <<",", b>> ELSE <<b>>)
<1> DEFINE Part(q, i) == IF CommaBefore(q, i) THEN <<",", q[i]>> ELSE <<q[i]>>
           r == Append(t, b)
           n == Len(t)
           ss == [i \in 1..n |-> Part(t, i)]
           tt == [i \in 1..Len(r) |-> Part(r, i)]
           e == IF Comma(t, b) THEN <<",", b>> ELSE <<b>>
<1>1. /\ n \in Nat /\ r \in Seq(Tokens) /\ Len(r) = n + 1 /\ r[n + 1] = b
      /\ \A i \in 1..n : r[i] = t[i]
  OBVIOUS
<1>2. \A q \in Seq(Tokens) : \A i \in 1..Len(q) : Part(q, i) \in Seq(Tokens)
  <2>1. \A q \in Seq(Tokens) : \A i \in 1..Len(q) : q[i] \in Tokens
    OBVIOUS
  <2> QED
    BY <2>1, SomeTokens, Zenon
<1>3. \A i \in 1..n : Part(r, i) = Part(t, i)
  <2>1. \A i \in 1..n : i > 1 => r[i - 1] = t[i - 1]
    BY <1>1
  <2> HIDE DEF r
  <2> QED
    BY <1>1, <2>1 DEF CommaBefore
<1>4. Part(r, n + 1) = e
  <2>1. n + 1 > 1 <=> t # <<>>
    OBVIOUS
  <2>2. n + 1 > 1 => r[(n + 1) - 1] = t[Len(t)]
    <3> HIDE DEF r
    <3> QED
      BY <1>1
  <2> HIDE DEF r, n
  <2>3. CommaBefore(r, n + 1) <=> Comma(t, b)
    BY <1>1, <2>1, <2>2 DEF CommaBefore, Comma
  <2> QED
    BY <1>1, <2>3
<1>5. ss \in Seq(Seq(Tokens)) /\ tt \in Seq(Seq(Tokens)) /\ e \in Seq(Tokens)
  <2> HIDE DEF Part, r, e
  <2>1. e \in Seq(Tokens)
    <3>1. n + 1 \in 1..Len(r)
      BY <1>1
    <3> QED
      BY <1>1, <1>2, <1>4, <3>1
  <2> QED
    BY <1>1, <1>2, <2>1
<1>6. tt = Append(ss, e)
  <2> HIDE DEF Part, r, e
  <2>1. Len(ss) = n /\ Len(tt) = n + 1 /\ tt[n + 1] = e /\ \A k \in 1..n : tt[k] = ss[k]
    BY <1>1, <1>3, <1>4
  <2> HIDE DEF ss, tt
  <2> QED
    BY <1>1, <1>5, <2>1
<1> HIDE DEF ss, tt, e
<1>7. FlattenSeq(ss) \in Seq(Tokens) /\ FlattenSeq(tt) = FlattenSeq(ss) \o e
  BY <1>5, <1>6, FlattenedMore
<1>8. Trailed(<<>>) = <<>>
  <2>1. [i \in 1..Len(<<>>) |-> Part(<<>>, i)] = <<>>
    OBVIOUS
  <2> QED
    BY <2>1, FlattenedNone DEF Trailed
<1>9. Trailed(t) = FlattenSeq(ss) /\ Trailed(r) = FlattenSeq(tt)
  BY DEF Trailed, ss, tt
<1> QED
  BY <1>7, <1>8, <1>9 DEF e

-----------------------------------------------------------------------------

(* What the flags tell of the tokens q that have been read. *)
Marks(v, s, q) ==
  /\ s.top = 0 <=> q = <<>>
  /\ "comma" \in s.flags => s.top # 0
  /\ "colon" \in s.flags =>
       "seek" \in s.flags /\ "comma" \notin s.flags /\ Inside(v, s, "object")
  /\ q # <<>> =>
       IF q[Len(q)] \in {"{", "[", ","} THEN "comma" \notin s.flags
       ELSE "comma" \in s.flags \/ ("seek" \in s.flags /\ Inside(v, s, "object"))

(* What is written of the tree before it is read. *)
Owed(F) == IF "comma" \in F THEN Sep ELSE IF "colon" \in F THEN <<":">> ELSE <<>>

(* w has the texts of the complete values, before those of what comes      *)
(* before each open one: together they are what has been read.             *)
Behind(v, w, before, j) ==
  before[j] = IF v[j].parent = 0 THEN <<>>
              ELSE before[v[j].parent] \o Begun(v[v[j].parent], w)
Spells(v, O, s, w, before, q) ==
  /\ w \in Texts(Len(v)) /\ before \in Texts(Len(v))
  /\ \A j \in (1..s.made) \ O : w[j] = Writes(v[j], w)
  /\ \A j \in O : Behind(v, w, before, j)
  /\ IF "done" \in s.flags THEN w[1] = Trailed(q)
     ELSE s.top # 0 => before[s.top] \o Begun(v[s.top], w) = Trailed(q) \o Owed(s.flags)
Grown(v, O, s, q) ==
  /\ OpenStack(v, O, s) /\ Paired(v, O, s) /\ Marks(v, s, q)
  /\ \E w, before : Spells(v, O, s, w, before, q)

AllNamed(v) == \A j \in 1..Len(v) : Named(v[j], Len(v))

(* Values with the names they wait for. *)
Matched(v, O, s) ==
  \A j \in 1..s.made :
    Len(v[j].keys) = IF v[j].type = "object" THEN Len(v[j].kids) + (IF Waits(O, s, j) THEN 1 ELSE 0)
                     ELSE 0

(* The flags go on telling it. *)
LEMMA MarksMove ==
  ASSUME NEW v, Shape(v), NEW s \in Scans, NEW t \in Scans, NEW b, NEW q \in Seq(Tokens),
         Moves(v, s, b, t), t.made <= Len(v), Marks(v, s, q), b \in Tokens
  PROVE  Marks(v, t, Append(q, b))
<1>0. s.made \in Nat /\ s.top \in Nat /\ t.top \in Nat
  BY DEF Scans
<1>q. PICK r : r = Append(q, b) /\ r # <<>> /\ r[Len(r)] = b
  <2>1. Append(q, b) # <<>> /\ Append(q, b)[Len(Append(q, b))] = b
    OBVIOUS
  <2> QED
    BY <2>1
<1> SUFFICES Marks(v, t, r)
  BY <1>q
<1>1. CASE Opens(v, s, b, t)
  <2>1. s.flags \cap {"comma", "colon", "done"} = {} /\ b \in {"{", "["}
    BY <1>1 DEF Opens, Starts
  <2>3. t.top # 0
    <3>1. t.top = s.made + 1
      BY <1>1 DEF Opens
    <3> QED
      BY <1>0, <3>1
  <2>2. "comma" \notin t.flags /\ "colon" \notin t.flags
    BY <1>1, <2>1 DEF Opens
  <2> QED
    BY <1>q, <2>1, <2>2, <2>3 DEF Marks
<1>2. CASE IsLeaf(v, s, b, t)
  <2>1. /\ "colon" \notin s.flags /\ b \notin {"{", "[", ","}
        /\ t.flags = EndFlags(v, s.flags, s.made + 1) /\ t.top = EndTop(v, s.made + 1)
    BY <1>2, TokenKinds DEF IsLeaf, Starts, Leaves
  <2>2. "comma" \in t.flags /\ "colon" \notin t.flags
    BY <2>1 DEF EndFlags
  <2>3. t.top # 0
    <3>1. s.made + 1 # 0
      BY <1>0
    <3> QED
      BY <2>1, <3>1 DEF EndTop
  <2> QED
    BY <1>q, <2>1, <2>2, <2>3 DEF Marks
<1>3. CASE Names(v, s, b, t)
  <2>1. /\ b \notin {"{", "[", ","} /\ Inside(v, t, "object") /\ t.top # 0
        /\ t.flags = s.flags \cup {"seek", "colon"} /\ "comma" \notin s.flags
    BY <1>3, TokenKinds DEF Names, Inside
  <2> QED
    BY <1>q, <2>1 DEF Marks
<1>4. CASE Ends(v, s, b, t)
  <2>1. /\ t.flags = EndFlags(v, s.flags, s.top) /\ t.top = EndTop(v, s.top) /\ s.top # 0
        /\ b \in {"]", "}"}
    BY <1>4 DEF Ends, Inside
  <2>2. "colon" \notin s.flags
    BY <1>4 DEF Ends, Inside, Marks
  <2>3. "comma" \in t.flags /\ "colon" \notin t.flags
    BY <2>1, <2>2 DEF EndFlags
  <2>4. t.top # 0
    BY <2>1 DEF EndTop
  <2> QED
    BY <1>q, <2>1, <2>3, <2>4 DEF Marks
<1>5. CASE Parts(v, s, b, t)
  <2>1. t.top = s.top /\ t.flags = s.flags \ {IF b = "," THEN "comma" ELSE "colon"}
    BY <1>5 DEF Parts
  <2>2. Inside(v, t, "object") <=> Inside(v, s, "object")
    BY <2>1 DEF Inside
  <2>3. CASE b = "," /\ "comma" \in s.flags
    BY <1>q, <2>1, <2>3 DEF Marks
  <2>4. CASE b = ":" /\ "seek" \in s.flags /\ "colon" \in s.flags
    <3>1. Inside(v, s, "object") /\ "comma" \notin s.flags /\ s.top # 0
      BY <2>4 DEF Marks, Inside
    <3>2. b \notin {"{", "[", ","} /\ t.flags = s.flags \ {"colon"}
      BY <2>1, <2>4
    <3> QED
      BY <1>q, <2>1, <2>2, <2>4, <3>1, <3>2 DEF Marks
  <2> QED
    BY <1>5, <2>3, <2>4 DEF Parts
<1> QED
  BY <1>1, <1>2, <1>3, <1>4, <1>5 DEF Moves

(* What a step of the pass leaves to show of Grown: the texts. *)
LEMMA GrownFrame ==
  ASSUME NEW v, Shape(v), NEW u, Len(u) = Len(v), \A j \in 1..Len(v) : Alike(u[j], v[j]),
         NEW s \in Scans, NEW t \in Scans, NEW b \in Tokens, NEW q \in Seq(Tokens), NEW O,
         Moves(v, s, b, t), t.made <= Len(v), OpenStack(v, O, s), Paired(v, O, s), Marks(v, s, q),
         \E w, before : Spells(u, Opened(O, s, b), t, w, before, Append(q, b)),
         t.top <= t.made
  PROVE  Grown(u, Opened(O, s, b), t, Append(q, b))
<1>1. Extends(u, v)
  <2>1. Len(v) \in Nat
    BY DEF Shape
  <2> QED
    BY <2>1 DEF Extends, Alike
<1>2. OpenStack(u, Opened(O, s, b), t)
  BY <1>1, StackMoves, StackKept
<1>3. Paired(u, Opened(O, s, b), t)
  BY <1>1, PairMoves, PairedKept
<1>4. Marks(u, t, Append(q, b))
  <2>1. Marks(v, t, Append(q, b))
    BY MarksMove
  <2>2. t.top # 0 => t.top \in 1..Len(v)
    BY DEF Scans, Shape
  <2>3. Inside(u, t, "object") <=> Inside(v, t, "object")
    BY <2>2 DEF Inside, Alike
  <2> QED
    BY <2>1, <2>3 DEF Marks
<1> QED
  BY <1>2, <1>3, <1>4 DEF Grown

(* A value that reads the same, and one that waits for a value. *)
Equals(u, x, v, w) == Begun(u, x) = Begun(v, w) /\ Writes(u, x) = Writes(v, w)
Waiting(v) == Len(v.keys) = IF v.type = "object" THEN Len(v.kids) + 1 ELSE 0

(* A value of the tree in which i has become an entry of its parent p, and *)
(* its text x is known: nothing else is written of it, but p goes on by x. *)
LEMMA EntryAdded ==
  ASSUME NEW v, Shape(v), AllNamed(v), NEW u, AllNamed(u), NEW i \in 1..Len(v), Gains(u, v, i),
         NEW p, p = v[i].parent, NEW w \in Texts(Len(v)), NEW x \in Texts(Len(v)),
         \A j \in 1..Len(v) : ~Kid(v, j, i) /\ (j # i => x[j] = w[j]),
         p # 0 => Waiting(v[p])
  PROVE  /\ \A j \in 1..Len(v) : j # p => Equals(u[j], x, v[j], w)
         /\ p # 0 => GoesOn(Begun(u[p], x), Begun(v[p], w), x[i])
<1>1. Len(v) \in Nat /\ Len(u) = Len(v) /\ p \in 0..i - 1 /\ (p # 0 => p \in 1..Len(v))
  BY DEF Shape, Gains
<1>2. ASSUME NEW j \in 1..Len(v), NEW k \in 1..Len(v[j].kids) PROVE x[v[j].kids[k]] = w[v[j].kids[k]]
  <2>1. v[j].kids[k] \in 1..Len(v)
    BY DEF AllNamed, Named
  <2>2. v[j].kids[k] # i
    BY DEF Kid
  <2> QED
    BY <2>1, <2>2
<1>3. ASSUME NEW j \in 1..Len(v), j # p
      PROVE  Equals(u[j], x, v[j], w)
  <2>1. u[j].type = v[j].type /\ u[j].kids = v[j].kids /\ u[j].keys = v[j].keys /\ u[j].lit = v[j].lit
    BY <1>3 DEF Gains, Alike
  <2>2. \A k \in 1..Len(v[j].kids) : x[v[j].kids[k]] = w[v[j].kids[k]]
    BY <1>2
  <2>3. PICK a, c : a = u[j] /\ c = v[j]
    OBVIOUS
  <2>4. a.type = c.type /\ a.kids = c.kids /\ a.keys = c.keys /\ a.lit = c.lit
    BY <2>1, <2>3
  <2>5. \A k \in 1..Len(c.kids) : x[c.kids[k]] = w[c.kids[k]]
    BY <2>2, <2>3
  <2>6. Begun(a, x) = Begun(c, w) /\ Writes(a, x) = Writes(c, w)
    BY <2>4, <2>5, BegunSame
  <2> QED
    BY <2>3, <2>6 DEF Equals
<1>4. ASSUME p # 0 PROVE GoesOn(Begun(u[p], x), Begun(v[p], w), x[i])
  <2>1. p \in 1..Len(v)
    BY <1>1, <1>4
  <2>2. u[p].type = v[p].type /\ u[p].keys = v[p].keys /\ u[p].kids = Append(v[p].kids, i)
    BY <2>1 DEF Gains, Alike, Longer
  <2>3. Named(v[p], Len(v)) /\ Named(u[p], Len(v))
    BY <1>1, <2>1 DEF AllNamed
  <2>4. v[p].type \in Containers
    BY <1>4 DEF Shape
  <2>5. \A k \in 1..Len(v[p].kids) : x[v[p].kids[k]] = w[v[p].kids[k]]
    BY <1>2, <2>1
  <2>5a. PICK n \in Nat : n = Len(v)
    BY <1>1
  <2>5b. PICK a, c : a = u[p] /\ c = v[p]
    OBVIOUS
  <2>6. a = u[p] /\ c = v[p] /\ n = Len(v)
    BY <2>5a, <2>5b
  <2>7. a.type = c.type /\ a.keys = c.keys /\ a.kids = Append(c.kids, i)
    BY <2>2, <2>6
  <2>8. /\ Named(c, n) /\ Named(a, n) /\ w \in Texts(n) /\ x \in Texts(n) /\ i \in 1..n
        /\ c.type \in Containers
    BY <2>3, <2>4, <2>6
  <2>9. Len(c.keys) = IF c.type = "object" THEN Len(c.kids) + 1 ELSE 0
    BY <1>4, <2>6 DEF Waiting
  <2>10. \A k \in 1..Len(c.kids) : x[c.kids[k]] = w[c.kids[k]]
    BY <2>5, <2>6
  <2>11. GoesOn(Begun(a, x), Begun(c, w), x[i])
    BY <2>7, <2>8, <2>9, <2>10, BegunMore
  <2> QED
    BY <2>6, <2>11
<1> QED
  BY <1>3, <1>4

(* With the text x of value i, all of q is written. *)
Joins(v, w, before, i, x, q) ==
  IF v[i].parent = 0 THEN i = 1 /\ x = Trailed(q)
  ELSE (before[v[i].parent] \o Begun(v[v[i].parent], w)) \o x = Trailed(q)

(* Value i is complete, its text is x, and q is what has been read. *)
LEMMA SpellsMore ==
  ASSUME NEW v, Shape(v), AllNamed(v), NEW u, AllNamed(u), NEW i \in 1..Len(v), Gains(u, v, i),
         NEW p, p = v[i].parent, NEW w \in Texts(Len(v)), NEW before \in Texts(Len(v)),
         \A j \in 1..Len(v) : ~Kid(v, j, i), NEW x, x = Writes(v[i], w), x \in Seq(Tokens),
         NEW s, NEW P, OpenStack(v, P, s), P \subseteq 1..Len(v), i \notin P,
         p # 0 => p \in P, s.made \in Nat, s.made <= Len(v),
         p # 0 => Waiting(v[p]),
         s.top = (IF p = 0 THEN i ELSE p), p = 0 <=> "done" \in s.flags, "comma" \in s.flags,
         \A j \in (1..s.made) \ P : j # i => w[j] = Writes(v[j], w),
         \A j \in P : Behind(v, w, before, j),
         NEW q, Trailed(q) \in Seq(Tokens),
         Joins(v, w, before, i, x, q)
  PROVE  \E w2, before2 : Spells(u, P, s, w2, before2, q)
<1> DEFINE w2 == [w EXCEPT ![i] = x]
<1>1. Len(v) \in Nat /\ Len(u) = Len(v) /\ p \in 0..i - 1 /\ (p # 0 => p \in 1..Len(v)) /\ i \in Nat
  BY DEF Shape, Gains
<1>2. w2 \in Texts(Len(v)) /\ w2[i] = x /\ \A j \in 1..Len(v) : j # i => w2[j] = w[j]
  BY DEF Texts
<1> HIDE DEF w2
<1>3. /\ \A j \in 1..Len(v) : j # p => Equals(u[j], w2, v[j], w)
      /\ p # 0 => GoesOn(Begun(u[p], w2), Begun(v[p], w), w2[i])
  <2>1. \A j \in 1..Len(v) : ~Kid(v, j, i) /\ (j # i => w2[j] = w[j])
    BY <1>2
  <2>2. w2 \in Texts(Len(v))
    BY <1>2
  <2> QED
    BY <2>1, <2>2, EntryAdded
<1>4. ASSUME NEW j \in (1..s.made) \ P PROVE w2[j] = Writes(u[j], w2)
  <2>1. j \in 1..Len(v)
    BY <1>1
  <2>2. j # p
    BY <1>1
  <2>3. Writes(u[j], w2) = Writes(v[j], w)
    BY <1>3, <2>1, <2>2 DEF Equals
  <2> QED
    BY <1>2, <2>1, <2>3
<1>5. ASSUME NEW j \in P PROVE Behind(u, w2, before, j)
  <2>1. j \in 1..Len(v)
    OBVIOUS
  <2>2. PICK r : r = v[j].parent
    OBVIOUS
  <2>3. r \in 0..j - 1 /\ u[j].parent = r /\ (r # 0 => r \in 1..Len(v))
    <3>1. v[j].parent \in 0..j - 1
      BY <2>1 DEF Shape
    <3>2. u[j].parent = v[j].parent
      BY <2>1 DEF Gains, Alike
    <3> QED
      BY <1>1, <2>1, <2>2, <3>1, <3>2
  <2>4. r # 0 => r # p
    <3> SUFFICES ASSUME r # 0, r = p PROVE FALSE
      OBVIOUS
    <3>1. s.top = p /\ j <= p
      BY DEF OpenStack
    <3> QED
      BY <1>1, <2>3, <3>1
  <2>5. r # 0 => Begun(u[r], w2) = Begun(v[r], w)
    BY <1>3, <2>3, <2>4 DEF Equals
  <2>6. Behind(v, w, before, j)
    OBVIOUS
  <2> QED
    BY <2>2, <2>3, <2>5, <2>6 DEF Behind
<1>6. CASE p = 0
  <2>1. "done" \in s.flags /\ w2[1] = Trailed(q)
    BY <1>2, <1>6 DEF Joins
  <2>2. Spells(u, P, s, w2, before, q)
    BY <1>1, <1>2, <1>4, <1>5, <2>1 DEF Spells
  <2> QED
    BY <2>2
<1>7. CASE p # 0
  <2>1. Owed(s.flags) = Sep /\ s.top = p /\ "done" \notin s.flags
    BY <1>7 DEF Owed
  <2>2. before[p] \o Begun(u[p], w2) = Trailed(q) \o Sep
    <3>1. Begun(u[p], w2) = Begun(v[p], w) \o (x \o Sep)
      BY <1>2, <1>3, <1>7 DEF GoesOn
    <3>2. (before[p] \o Begun(v[p], w)) \o x = Trailed(q)
      BY <1>7, Zenon DEF Joins
    <3>3. before[p] \in Seq(Tokens) /\ Begun(v[p], w) \in Seq(Tokens)
      <4>1. p \in 1..Len(v)
        BY <1>1, <1>7
      <4>2. Named(v[p], Len(v))
        BY <4>1 DEF AllNamed
      <4> QED
        BY <1>1, <4>1, <4>2, ItemsFit DEF Texts
    <3>4. PICK c \in Seq(Tokens) : c = Sep
      BY SomeTokens DEF Punctuation, Sep
    <3>5. PICK a \in Seq(Tokens), d \in Seq(Tokens) : a = before[p] /\ d = Begun(v[p], w)
      BY <3>3
    <3>6. a \o (d \o (x \o c)) = ((a \o d) \o x) \o c
      <4>1. a \in Seq(Tokens) /\ c \in Seq(Tokens) /\ d \in Seq(Tokens) /\ x \in Seq(Tokens)
        BY <3>4, <3>5
      <4>2. Regrouped(a, d, x, c)
        BY <4>1, RowsOfFour
      <4> QED
        BY <4>2 DEF Regrouped
    <3> QED
      BY <3>1, <3>2, <3>4, <3>5, <3>6
  <2>3. Spells(u, P, s, w2, before, q)
    BY <1>1, <1>2, <1>4, <1>5, <2>1, <2>2 DEF Spells
  <2> QED
    BY <2>3
<1> QED
  BY <1>6, <1>7

(* Nothing shows. *)
LEMMA SameEquals ==
  ASSUME NEW v, NEW u, Same(u, v), NEW w, NEW j \in 1..Len(v)
  PROVE  Equals(u[j], w, v[j], w)
<1>1. PICK a, c : a = u[j] /\ c = v[j]
  OBVIOUS
<1>2. a.type = c.type /\ a.kids = c.kids /\ a.keys = c.keys /\ a.lit = c.lit
  BY <1>1 DEF Same, Alike
<1>3. Begun(a, w) = Begun(c, w) /\ Writes(a, w) = Writes(c, w)
  BY <1>2, BegunSame
<1> QED
  BY <1>1, <1>3 DEF Equals

(* The text goes on by b. *)
LEMMA TrailedNext ==
  ASSUME NEW q \in Seq(Tokens), NEW b \in Tokens
  PROVE  /\ Trailed(q) \in Seq(Tokens) /\ <<b>> \in Seq(Tokens)
         /\ Trailed(Append(q, b)) \in Seq(Tokens)
         /\ q = <<>> => Trailed(q) = <<>>
         /\ b \notin {"}", "]"} => Trailed(Append(q, b)) = Trailed(q) \o <<b>>
<1>1. Append(q, b) \in Seq(Tokens)
  OBVIOUS
<1>2. Trailed(Append(q, b)) \in Seq(Tokens) /\ Trailed(q) \in Seq(Tokens)
  BY <1>1, TrailedMore
<1>3. q = <<>> => Trailed(q) = <<>>
  BY TrailedMore
<1>4. b \notin {"}", "]"} => Trailed(Append(q, b)) = Trailed(q) \o <<b>>
  <2>1. b \notin {"}", "]"} => ~Comma(q, b)
    BY DEF Comma
  <2>2. Trailed(Append(q, b)) = Trailed(q) \o (IF Comma(q, b) THEN <<",", b>> ELSE <<b>>)
    BY TrailedMore
  <2> QED
    BY <2>1, <2>2, Zenon
<1> QED
  BY <1>2, <1>3, <1>4, SomeTokens

(* What is written so far is what has been read. *)
Ahead(v, s, w, before, q) ==
  s.top # 0 =>
    /\ before[s.top] \in Seq(Tokens) /\ Begun(v[s.top], w) \in Seq(Tokens)
    /\ before[s.top] \o Begun(v[s.top], w) = Trailed(q) \o Owed(s.flags)

(* What a pass that has read q is told by Spells, at a token that is no end. *)
LEMMA SpeltBefore ==
  ASSUME NEW v, Shape(v), AllNamed(v), NEW s \in Scans, NEW O, OpenStack(v, O, s), s.made <= Len(v),
         NEW w, NEW before, NEW q \in Seq(Tokens), Spells(v, O, s, w, before, q), "done" \notin s.flags
  PROVE  /\ w \in Texts(Len(v)) /\ before \in Texts(Len(v))
         /\ s.top \in 0..Len(v) /\ s.made \in Nat /\ Len(v) \in Nat /\ O \subseteq 1..Len(v)
         /\ s.top # 0 => s.top \in O
         /\ Ahead(v, s, w, before, q)
<1>1. s.top \in 0..Len(v) /\ s.made \in Nat /\ Len(v) \in Nat /\ O \subseteq 1..Len(v)
  BY DEF OpenStack, Scans, Shape
<1>2. w \in Texts(Len(v)) /\ before \in Texts(Len(v))
  BY DEF Spells
<1>3. s.top # 0 => s.top \in O
  BY <1>1 DEF OpenStack
<1>4. s.top # 0 => before[s.top] \in Seq(Tokens)
  BY <1>1, <1>2 DEF Texts
<1>5. s.top # 0 => Begun(v[s.top], w) \in Seq(Tokens)
  <2> SUFFICES ASSUME s.top # 0 PROVE Begun(v[s.top], w) \in Seq(Tokens)
    OBVIOUS
  <2>1. Named(v[s.top], Len(v))
    BY <1>1 DEF AllNamed
  <2> QED
    BY <1>1, <1>2, <2>1, ItemsFit
<1>6. s.top # 0 => before[s.top] \o Begun(v[s.top], w) = Trailed(q) \o Owed(s.flags)
  BY Zenon DEF Spells
<1> QED
  BY <1>1, <1>2, <1>3, <1>4, <1>5, <1>6 DEF Ahead

(* A container is opened: what is read next is written behind its bracket. *)
LEMMA SpellsOpens ==
  ASSUME NEW v, Shape(v), AllNamed(v), NEW s \in Scans, NEW t \in Scans, NEW O,
         OpenStack(v, O, s), s.made <= Len(v), NEW q \in Seq(Tokens), Marks(v, s, q),
         NEW w, NEW before, Spells(v, O, s, w, before, q),
         NEW b \in Tokens, Opens(v, s, b, t), t.made <= Len(v),
         NEW u, Same(u, v), v[t.top].kids = <<>>, v[t.top].keys = <<>>
  PROVE  \E w2, before2 : Spells(u, Opened(O, s, b), t, w2, before2, Append(q, b))
<1>1. /\ w \in Texts(Len(v)) /\ before \in Texts(Len(v))
      /\ s.top \in 0..Len(v) /\ s.made \in Nat /\ Len(v) \in Nat /\ O \subseteq 1..Len(v)
      /\ s.top # 0 => s.top \in O
      /\ Ahead(v, s, w, before, q)
  <2>1. "done" \notin s.flags
    BY DEF Opens, Starts
  <2> QED
    BY <2>1, SpeltBefore
<1>2. PICK m \in 1..Len(v) : m = s.made + 1
  <2>1. t.made = s.made + 1
    BY DEF Opens
  <2> QED
    BY <1>1, <2>1
<1>3. /\ t.top = m /\ t.made = m /\ b \in {"{", "["} /\ v[m].parent = s.top /\ v[m].type = TypeOf(b)
      /\ "comma" \notin s.flags /\ "colon" \notin s.flags /\ "done" \notin s.flags
      /\ "comma" \notin t.flags /\ "colon" \notin t.flags /\ "done" \notin t.flags
  BY <1>2 DEF Opens, Made, Starts
<1>4. Opened(O, s, b) = O \cup {m} /\ m \notin O
  <2>1. Opened(O, s, b) = O \cup {m}
    BY <1>2, <1>3 DEF Opened
  <2>2. O \subseteq 1..s.made
    BY DEF OpenStack
  <2> QED
    BY <1>1, <1>2, <2>1, <2>2
<1>5. PICK y : y = IF s.top = 0 THEN <<>> ELSE before[s.top] \o Begun(v[s.top], w)
  OBVIOUS
<1>6. y = Trailed(q) /\ y \in Seq(Tokens)
  <2>1. Trailed(q) \in Seq(Tokens) /\ (q = <<>> => Trailed(q) = <<>>)
    BY TrailedNext
  <2>2. s.top = 0 => y = Trailed(q)
    BY <1>5, <2>1 DEF Marks
  <2>3. s.top # 0 => y = Trailed(q)
    <3>1. Owed(s.flags) = <<>>
      BY <1>3 DEF Owed
    <3> QED
      BY <1>1, <1>5, <2>1, <3>1, Rows DEF Ahead
  <2> QED
    BY <2>1, <2>2, <2>3
<1> DEFINE before2 == [before EXCEPT ![m] = y]
<1>7. before2 \in Texts(Len(v)) /\ before2[m] = y /\ \A j \in 1..Len(v) : j # m => before2[j] = before[j]
  BY <1>1, <1>6 DEF Texts
<1> HIDE DEF before2
<1>8. \A j \in 1..Len(v) : Equals(u[j], w, v[j], w) /\ u[j].parent = v[j].parent
  BY SameEquals DEF Same, Alike
<1>9. ASSUME NEW j \in (1..t.made) \ (O \cup {m}) PROVE w[j] = Writes(u[j], w)
  <2>1. j \in (1..s.made) \ O /\ j \in 1..Len(v)
    <3>1. j \in 1..s.made + 1 /\ j # s.made + 1
      BY <1>2, <1>3
    <3> QED
      BY <1>1, <1>2, <3>1, UpTo
  <2>2. w[j] = Writes(v[j], w)
    BY <2>1 DEF Spells
  <2> QED
    BY <1>8, <2>1, <2>2 DEF Equals
<1>10. ASSUME NEW j \in O \cup {m} PROVE Behind(u, w, before2, j)
  <2>1. j \in 1..Len(v)
    BY <1>1
  <2>2. PICK r : r = v[j].parent
    OBVIOUS
  <2>3. u[j].parent = r /\ r \in 0..Len(v) /\ (r # 0 => r < j)
    <3>1. v[j].parent \in 0..j - 1
      BY <2>1 DEF Shape
    <3> QED
      BY <1>1, <1>8, <2>1, <2>2, <3>1
  <2>4. r # 0 => Begun(u[r], w) = Begun(v[r], w)
    BY <1>8, <2>3 DEF Equals
  <2>5. r # m
    BY <1>1, <1>2, <1>4, <2>1, <2>3 DEF OpenStack
  <2>6. r # 0 => before2[r] = before[r]
    BY <1>7, <2>3, <2>5
  <2>7. before2[j] = IF r = 0 THEN <<>> ELSE before[r] \o Begun(v[r], w)
    <3>1. CASE j = m
      BY <1>3, <1>5, <1>7, <2>2, <3>1
    <3>2. CASE j # m
      <4>1. Behind(v, w, before, j)
        BY <3>2 DEF Spells
      <4> QED
        BY <1>7, <2>1, <2>2, <3>2, <4>1 DEF Behind
    <3> QED
      BY <3>1, <3>2
  <2> QED
    BY <2>3, <2>4, <2>6, <2>7, Zenon DEF Behind
<1>11. Begun(u[m], w) = <<b>>
  <2>1. Begun(u[m], w) = Begun(v[m], w)
    BY <1>8 DEF Equals
  <2>2. PICK c : c = v[m]
    OBVIOUS
  <2>3. c.kids = <<>> /\ c.keys = <<>> /\ Mark(c) = <<b>>
    <3>1. c.type = TypeOf(b)
      BY <1>3, <2>2
    <3>2. CASE b = "{"
      BY <1>3, <2>2, <3>1, <3>2, TokenKinds DEF Mark
    <3>3. CASE b = "["
      BY <1>3, <2>2, <3>1, <3>3, TokenKinds DEF Mark
    <3> QED
      BY <1>3, <3>2, <3>3
  <2>4. Items(c, w) = <<>>
    <3>1. [k \in 1..Len(c.kids) |-> Item(c, w, k)] = <<>>
      BY <2>3
    <3> QED
      BY <3>1, FlattenedNone DEF Items
  <2>5. Pending(c) = <<>>
    BY <2>3 DEF Pending
  <2>6. <<b>> \in Seq(Tokens)
    BY TrailedNext
  <2>7. (<<b>> \o <<>>) \o <<>> = <<b>>
    BY <2>6, Rows
  <2> QED
    BY <2>1, <2>2, <2>3, <2>4, <2>5, <2>7 DEF Begun
<1>12. before2[t.top] \o Begun(u[t.top], w) = Trailed(Append(q, b)) \o Owed(t.flags)
  <2>1. Trailed(Append(q, b)) = Trailed(q) \o <<b>> /\ Trailed(Append(q, b)) \in Seq(Tokens)
    BY <1>3, TrailedNext
  <2>2. Owed(t.flags) = <<>>
    BY <1>3 DEF Owed
  <2>3. Trailed(Append(q, b)) \o <<>> = Trailed(Append(q, b))
    BY <2>1, Rows
  <2> QED
    BY <1>3, <1>6, <1>7, <1>11, <2>1, <2>2, <2>3
<1>13. Spells(u, O \cup {m}, t, w, before2, Append(q, b))
  <2>1. Len(u) = Len(v) /\ "done" \notin t.flags
    BY <1>3 DEF Same
  <2> QED
    BY <1>1, <1>7, <1>9, <1>10, <1>12, <2>1, Zenon DEF Spells
<1> QED
  BY <1>4, <1>13

(* A name is read: it is written into the object the pass is in. *)
LEMMA SpellsNames ==
  ASSUME NEW v, Shape(v), AllNamed(v), NEW s \in Scans, NEW t \in Scans, NEW O,
         OpenStack(v, O, s), s.made <= Len(v), NEW q \in Seq(Tokens), Marks(v, s, q),
         NEW w, NEW before, Spells(v, O, s, w, before, q), Matched(v, O, s),
         NEW b \in Tokens, Names(v, s, b, t),
         NEW u, GainsName(u, v, s.top, b)
  PROVE  \E w2, before2 : Spells(u, Opened(O, s, b), t, w2, before2, Append(q, b))
<1>1. /\ w \in Texts(Len(v)) /\ before \in Texts(Len(v))
      /\ s.top \in 0..Len(v) /\ s.made \in Nat /\ Len(v) \in Nat /\ O \subseteq 1..Len(v)
      /\ s.top # 0 => s.top \in O
      /\ Ahead(v, s, w, before, q)
  <2>1. "done" \notin s.flags
    BY DEF Names
  <2> QED
    BY <2>1, SpeltBefore
<1>2. PICK m \in 1..Len(v) : m = s.top
  BY <1>1 DEF Names, Inside
<1>3. /\ t.top = m /\ t.made = s.made /\ b \in Strings /\ v[m].type = "object"
      /\ "comma" \notin s.flags /\ "done" \notin s.flags /\ "seek" \notin s.flags
      /\ t.flags = s.flags \cup {"seek", "colon"}
  BY <1>2 DEF Names, Inside
<1>4. "colon" \notin s.flags
  BY <1>3 DEF Marks
<1>5. Opened(O, s, b) = O /\ m \in O
  <2>1. b \notin {"{", "[", "}", "]"}
    BY <1>3, TokenKinds
  <2>2. b \notin {"{", "["} /\ b \notin {"}", "]"}
    BY <2>1
  <2>3. Opened(O, s, b) = O
    BY <2>2, Zenon DEF Opened
  <2> QED
    BY <1>1, <1>2, <2>3
<1>6. \A j \in 1..Len(v) : u[j].parent = v[j].parent /\ (j # m => Equals(u[j], w, v[j], w))
  <2> SUFFICES ASSUME NEW j \in 1..Len(v)
               PROVE  u[j].parent = v[j].parent /\ (j # m => Equals(u[j], w, v[j], w))
    OBVIOUS
  <2>1. Alike(u[j], v[j]) /\ u[j].kids = v[j].kids /\ (j # m => u[j].keys = v[j].keys)
    BY <1>2 DEF GainsName
  <2>2. PICK a, c : a = u[j] /\ c = v[j]
    OBVIOUS
  <2>3. a.type = c.type /\ a.kids = c.kids /\ a.lit = c.lit /\ (j # m => a.keys = c.keys)
    BY <2>1, <2>2 DEF Alike
  <2>4. j # m => Begun(a, w) = Begun(c, w) /\ Writes(a, w) = Writes(c, w)
    BY <2>3, BegunSame
  <2> QED
    BY <2>1, <2>2, <2>4 DEF Equals, Alike
<1>7. ASSUME NEW j \in (1..t.made) \ O PROVE w[j] = Writes(u[j], w)
  <2>1. j \in (1..s.made) \ O /\ j \in 1..Len(v) /\ j # m
    BY <1>1, <1>3, <1>5
  <2>2. w[j] = Writes(v[j], w)
    BY <2>1 DEF Spells
  <2> QED
    BY <1>6, <2>1, <2>2 DEF Equals
<1>8. ASSUME NEW j \in O PROVE Behind(u, w, before, j)
  <2>1. j \in 1..Len(v)
    BY <1>1
  <2>2. PICK r : r = v[j].parent
    OBVIOUS
  <2>3. u[j].parent = r /\ r \in 0..Len(v) /\ (r # 0 => r < j)
    <3>1. v[j].parent \in 0..j - 1
      BY <2>1 DEF Shape
    <3> QED
      BY <1>1, <1>6, <2>1, <2>2, <3>1
  <2>4. r # m
    <3>1. j <= s.top
      BY DEF OpenStack
    <3> QED
      BY <1>1, <1>2, <2>1, <2>3, <3>1
  <2>5. r # 0 => Begun(u[r], w) = Begun(v[r], w)
    BY <1>6, <2>3, <2>4 DEF Equals
  <2>6. Behind(v, w, before, j)
    BY DEF Spells
  <2> QED
    BY <2>2, <2>3, <2>5, <2>6, Zenon DEF Behind
<1>9. Begun(u[m], w) = Begun(v[m], w) \o <<b, ":">>
  <2>1. PICK n \in Nat : n = Len(v)
    BY <1>1
  <2>2. PICK a, c : a = u[m] /\ c = v[m]
    OBVIOUS
  <2>3. a.type = c.type /\ a.kids = c.kids /\ a.keys = Append(c.keys, b)
    BY <1>2, <2>2 DEF GainsName, Alike, Longer
  <2>4. Named(c, n) /\ w \in Texts(n)
    BY <1>1, <2>1, <2>2 DEF AllNamed
  <2>5. Len(c.keys) = Len(c.kids)
    <3>1. m \in 1..s.made /\ ~Waits(O, s, m)
      BY <1>2, <1>3, <1>5 DEF Waits, OpenStack
    <3>2. Len(c.keys) = Len(c.kids) + 0
      BY <1>3, <2>2, <3>1 DEF Matched
    <3>3. Len(c.kids) \in Nat
      <4>1. c.kids \in Seq(Nat)
        BY <2>4, Fields DEF Named
      <4> QED
        BY <4>1
    <3> QED
      BY <3>2, <3>3
  <2>6. Begun(a, w) = Begun(c, w) \o <<b, ":">>
    BY <1>3, <2>3, <2>4, <2>5, BegunNamed, SMTT(60)
  <2> QED
    BY <2>2, <2>6
<1>10. before[t.top] \o Begun(u[t.top], w) = Trailed(Append(q, b)) \o Owed(t.flags)
  <2>1. /\ Trailed(Append(q, b)) = Trailed(q) \o <<b>> /\ Trailed(q) \in Seq(Tokens)
        /\ <<b>> \in Seq(Tokens)
    <3>1. b \notin {"}", "]"}
      BY <1>3, TokenKinds
    <3> QED
      BY <3>1, TrailedNext
  <2>2. Owed(t.flags) = <<":">> /\ Owed(s.flags) = <<>>
    BY <1>3, <1>4 DEF Owed
  <2>3. before[m] \in Seq(Tokens) /\ Begun(v[m], w) \in Seq(Tokens)
        /\ before[m] \o Begun(v[m], w) = Trailed(q) \o Owed(s.flags)
    <3>1. s.top # 0
      BY <1>1, <1>2
    <3> QED
      BY <1>1, <1>2, <3>1, Zenon DEF Ahead
  <2>4. PICK x \in Seq(Tokens), y \in Seq(Tokens), z \in Seq(Tokens) :
          x = before[m] /\ y = Begun(v[m], w) /\ z = Trailed(q)
    BY <2>1, <2>3
  <2>5. PICK e \in Seq(Tokens), c \in Seq(Tokens) : e = <<b>> /\ c = <<":">>
    <3>1. <<":">> \in Seq(Tokens)
      BY SomeTokens DEF Punctuation
    <3> QED
      BY <2>1, <3>1
  <2>6. <<b, ":">> = e \o c
    <3>1. b \in Tokens /\ ":" \in Tokens
      BY DEF Tokens, Punctuation
    <3>2. <<b>> \o <<":">> = <<b, ":">>
      BY <3>1, RowOfTwo, Zenon
    <3> QED
      BY <2>5, <3>2
  <2>7. x \o y = z
    BY <2>2, <2>3, <2>4, Rows
  <2>9. (x \o y) \o (e \o c) = x \o (y \o (e \o c))
    <3>1. PICK i \in Seq(Tokens) : i = e \o c
      BY <2>5, Rows
    <3>2. x \in Seq(Tokens) /\ y \in Seq(Tokens) /\ i \in Seq(Tokens)
      BY <2>4, <3>1
    <3>3. Grouped(x, y, i)
      BY <3>2, RowsOfThree
    <3> QED
      BY <3>1, <3>3, Zenon DEF Grouped
  <2>10. (z \o e) \o c = z \o (e \o c)
    <3>1. z \in Seq(Tokens) /\ e \in Seq(Tokens) /\ c \in Seq(Tokens)
      BY <2>4, <2>5
    <3>2. Grouped(z, e, c)
      BY <3>1, RowsOfThree
    <3> QED
      BY <3>2, Zenon DEF Grouped
  <2>11. x \o (y \o (e \o c)) = (z \o e) \o c
    BY <2>7, <2>9, <2>10, Zenon
  <2> QED
    BY <1>3, <1>9, <2>1, <2>2, <2>4, <2>5, <2>6, <2>11, Zenon
<1>11. Spells(u, O, t, w, before, Append(q, b))
  <2>1. Len(u) = Len(v) /\ "done" \notin t.flags
    BY <1>3 DEF GainsName
  <2> QED
    BY <1>1, <1>7, <1>8, <1>10, <2>1, Zenon DEF Spells
<1> QED
  BY <1>5, <1>11

(* A comma or a colon is read: it was written already. *)
LEMMA SpellsParts ==
  ASSUME NEW v, Shape(v), AllNamed(v), NEW s \in Scans, NEW t \in Scans, NEW O,
         OpenStack(v, O, s), s.made <= Len(v), NEW q \in Seq(Tokens), Marks(v, s, q),
         NEW w, NEW before, Spells(v, O, s, w, before, q),
         NEW b \in Tokens, Parts(v, s, b, t),
         NEW u, Same(u, v)
  PROVE  \E w2, before2 : Spells(u, Opened(O, s, b), t, w2, before2, Append(q, b))
<1>1. /\ w \in Texts(Len(v)) /\ before \in Texts(Len(v))
      /\ s.top \in 0..Len(v) /\ s.made \in Nat /\ Len(v) \in Nat /\ O \subseteq 1..Len(v)
      /\ Ahead(v, s, w, before, q)
  <2>1. "done" \notin s.flags
    BY DEF Parts
  <2> QED
    BY <2>1, SpeltBefore
<1>2. /\ t.top = s.top /\ t.made = s.made /\ b \in {",", ":"} /\ "done" \notin t.flags
      /\ Owed(s.flags) = <<b>> /\ Owed(t.flags) = <<>>
  <2>1. t.top = s.top /\ t.made = s.made /\ "done" \notin s.flags
        /\ t.flags = s.flags \ {IF b = "," THEN "comma" ELSE "colon"}
    BY DEF Parts
  <2>2. CASE b = "," /\ "comma" \in s.flags
    <3>1. "colon" \notin s.flags
      BY <2>2 DEF Marks
    <3> QED
      BY <2>1, <2>2, <3>1 DEF Owed, Sep
  <2>3. CASE b = ":" /\ s.flags \cap {"comma", "colon"} = {"colon"}
    <3>1. "comma" \notin s.flags /\ "colon" \in s.flags
      BY <2>3
    <3> QED
      BY <2>1, <2>3, <3>1 DEF Owed
  <2> QED
    BY <2>2, <2>3 DEF Parts
<1>3. Opened(O, s, b) = O
  BY <1>2 DEF Opened
<1>4. \A j \in 1..Len(v) : Equals(u[j], w, v[j], w) /\ u[j].parent = v[j].parent
  BY SameEquals DEF Same, Alike
<1>5. ASSUME NEW j \in (1..t.made) \ O PROVE w[j] = Writes(u[j], w)
  <2>1. j \in (1..s.made) \ O /\ j \in 1..Len(v)
    <3>1. j \in 1..s.made /\ j \notin O
      BY <1>2
    <3> QED
      BY <1>1, <3>1
  <2>2. w[j] = Writes(v[j], w)
    BY <2>1 DEF Spells
  <2> QED
    BY <1>4, <2>1, <2>2 DEF Equals
<1>6. ASSUME NEW j \in O PROVE Behind(u, w, before, j)
  <2>1. j \in 1..Len(v)
    BY <1>1
  <2>2. PICK r : r = v[j].parent
    OBVIOUS
  <2>3. u[j].parent = r /\ r \in 0..Len(v)
    <3>1. v[j].parent \in 0..j - 1
      BY <2>1 DEF Shape
    <3> QED
      BY <1>1, <1>4, <2>1, <2>2, <3>1
  <2>4. r # 0 => Begun(u[r], w) = Begun(v[r], w)
    BY <1>4, <2>3 DEF Equals
  <2>5. Behind(v, w, before, j)
    BY DEF Spells
  <2> QED
    BY <2>2, <2>3, <2>4, <2>5, Zenon DEF Behind
<1>7. s.top # 0 => before[t.top] \o Begun(u[t.top], w) = Trailed(Append(q, b)) \o Owed(t.flags)
  <2> SUFFICES ASSUME s.top # 0
               PROVE  before[t.top] \o Begun(u[t.top], w) = Trailed(Append(q, b)) \o Owed(t.flags)
    OBVIOUS
  <2>1. Trailed(Append(q, b)) = Trailed(q) \o <<b>> /\ Trailed(Append(q, b)) \in Seq(Tokens)
    <3>1. b \notin {"}", "]"}
      BY <1>2
    <3> QED
      BY <3>1, TrailedNext
  <2>2. Begun(u[s.top], w) = Begun(v[s.top], w)
    BY <1>1, <1>4 DEF Equals
  <2>3. before[s.top] \o Begun(v[s.top], w) = Trailed(q) \o Owed(s.flags)
    BY <1>1 DEF Ahead
  <2>4. Trailed(Append(q, b)) \o <<>> = Trailed(Append(q, b))
    BY <2>1, Rows
  <2> QED
    BY <1>2, <2>1, <2>2, <2>3, <2>4, Zenon
<1>8. Spells(u, O, t, w, before, Append(q, b))
  <2>1. Len(u) = Len(v)
    BY DEF Same
  <2> QED
    BY <1>1, <1>2, <1>5, <1>6, <1>7, <2>1, Zenon DEF Spells
<1> QED
  BY <1>3, <1>8

(* A leaf is read: it is complete, and an entry of the value the pass was in. *)
LEMMA SpellsLeaf ==
  ASSUME NEW v, Shape(v), AllNamed(v), NEW s \in Scans, NEW t \in Scans, NEW O,
         OpenStack(v, O, s), s.made <= Len(v), NEW q \in Seq(Tokens), Marks(v, s, q),
         NEW w, NEW before, Spells(v, O, s, w, before, q), Matched(v, O, s),
         NEW b \in Tokens, IsLeaf(v, s, b, t), t.made <= Len(v), OpenStack(v, O, t),
         NEW u, AllNamed(u), Gains(u, v, t.made), \A j \in 1..Len(v) : ~Kid(v, j, t.made)
  PROVE  \E w2, before2 : Spells(u, Opened(O, s, b), t, w2, before2, Append(q, b))
<1>1. /\ w \in Texts(Len(v)) /\ before \in Texts(Len(v))
      /\ s.top \in 0..Len(v) /\ s.made \in Nat /\ Len(v) \in Nat /\ O \subseteq 1..Len(v)
      /\ s.top # 0 => s.top \in O
      /\ Ahead(v, s, w, before, q)
  <2>1. "done" \notin s.flags
    BY DEF IsLeaf, Starts
  <2> QED
    BY <2>1, SpeltBefore
<1>2. PICK m \in 1..Len(v) : m = s.made + 1 /\ m = t.made
  <2>1. t.made = s.made + 1
    BY DEF IsLeaf
  <2> QED
    BY <1>1, <2>1
<1>3. PICK p : p = v[m].parent
  OBVIOUS
<1>4. /\ p = s.top /\ v[m].type = TypeOf(b) /\ v[m].lit = b /\ b \in Leaves /\ "seek" \in s.flags
      /\ "comma" \notin s.flags /\ "colon" \notin s.flags /\ "done" \notin s.flags
      /\ t.flags = EndFlags(v, s.flags, m) /\ t.top = EndTop(v, m)
  BY <1>2, <1>3 DEF IsLeaf, Made, Starts
<1>5. Opened(O, s, b) = O /\ m \notin O
  <2>1. b \notin {"{", "["} /\ b \notin {"}", "]"}
    BY <1>4, TokenKinds DEF Leaves
  <2>2. Opened(O, s, b) = O
    BY <2>1, Zenon DEF Opened
  <2>3. O \subseteq 1..s.made
    BY DEF OpenStack
  <2> QED
    BY <1>1, <1>2, <2>2, <2>3
<1>6. t.top = (IF p = 0 THEN m ELSE p) /\ (p = 0 <=> "done" \in t.flags) /\ "comma" \in t.flags
  BY <1>3, <1>4 DEF EndFlags, EndTop
<1>7. PICK x : x = Writes(v[m], w)
  OBVIOUS
<1>8. x = <<b>> /\ x \in Seq(Tokens)
  <2>1. v[m].type # "object" /\ v[m].type # "array"
    BY <1>4, TokenKinds DEF Leaves
  <2>2. x = <<b>>
    BY <1>4, <1>7, <2>1 DEF Writes
  <2> QED
    BY <2>2, TrailedNext
<1>9. p # 0 => p \in O /\ Waiting(v[p])
  <2> SUFFICES ASSUME p # 0 PROVE p \in O /\ Waiting(v[p])
    OBVIOUS
  <2>1. p \in O /\ p \in 1..s.made
    BY <1>1, <1>4 DEF OpenStack
  <2>2. Waits(O, s, p)
    BY <1>4, <2>1 DEF Waits
  <2>3. Len(v[p].keys) = IF v[p].type = "object" THEN Len(v[p].kids) + (IF Waits(O, s, p) THEN 1 ELSE 0)
                         ELSE 0
    BY <2>1 DEF Matched
  <2> QED
    BY <2>1, <2>2, <2>3, Zenon DEF Waiting
<1>10. PICK r : r = Append(q, b)
  OBVIOUS
<1>11. /\ Trailed(r) = Trailed(q) \o <<b>> /\ Trailed(r) \in Seq(Tokens) /\ Trailed(q) \in Seq(Tokens)
       /\ q = <<>> => Trailed(q) = <<>>
  <2>1. b \notin {"}", "]"}
    BY <1>4, TokenKinds DEF Leaves
  <2> QED
    BY <1>10, <2>1, TrailedNext
<1>12. Joins(v, w, before, m, x, r)
  <2>1. CASE p = 0
    <3>1. m = 1
      BY <1>3, <2>1 DEF Shape
    <3>2. q = <<>>
      BY <1>4, <2>1 DEF Marks
    <3>3. <<>> \o x = x
      BY <1>8, Rows
    <3> QED
      BY <1>3, <1>8, <1>11, <2>1, <3>1, <3>2, <3>3, Zenon DEF Joins
  <2>2. CASE p # 0
    <3>1. before[p] \o Begun(v[p], w) = Trailed(q) \o Owed(s.flags)
      BY <1>1, <1>4, <2>2, Zenon DEF Ahead
    <3>2. Owed(s.flags) = <<>>
      BY <1>4 DEF Owed
    <3>3. Trailed(q) \o <<>> = Trailed(q)
      BY <1>11, Rows
    <3> QED
      BY <1>3, <1>8, <1>11, <2>2, <3>1, <3>2, <3>3, Zenon DEF Joins
  <2> QED
    BY <2>1, <2>2
<1>13. \A j \in (1..t.made) \ O : j # m => w[j] = Writes(v[j], w)
  <2> SUFFICES ASSUME NEW j \in (1..t.made) \ O, j # m PROVE w[j] = Writes(v[j], w)
    OBVIOUS
  <2>1. j \in (1..s.made) \ O
    <3>1. j \in 1..s.made + 1 /\ j # s.made + 1
      BY <1>2
    <3> QED
      BY <1>1, <3>1, UpTo
  <2> QED
    BY <2>1 DEF Spells
<1>14. \A j \in O : Behind(v, w, before, j)
  BY DEF Spells
<1>15. \E w2, before2 : Spells(u, O, t, w2, before2, r)
  <2>1. t.made \in Nat /\ t.made <= Len(v) /\ Gains(u, v, m) /\ \A j \in 1..Len(v) : ~Kid(v, j, m)
    BY <1>2
  <2> HIDE DEF Gains, Kid
  <2> QED
    BY <1>1, <1>3, <1>5, <1>6, <1>7, <1>8, <1>9, <1>11, <1>12, <1>13, <1>14, <2>1, SpellsMore
<1> QED
  BY <1>5, <1>10, <1>15

(* A container is closed: it is complete, and an entry of its parent. *)
LEMMA SpellsEnds ==
  ASSUME NEW v, Shape(v), AllNamed(v), NEW s \in Scans, NEW t \in Scans, NEW O,
         OpenStack(v, O, s), s.made <= Len(v), NEW q \in Seq(Tokens), Marks(v, s, q),
         NEW w, NEW before, Spells(v, O, s, w, before, q), Matched(v, O, s),
         NEW b \in Tokens, Ends(v, s, b, t), OpenStack(v, O \ {s.top}, t),
         NEW u, AllNamed(u), Gains(u, v, s.top), \A j \in 1..Len(v) : ~Kid(v, j, s.top)
  PROVE  \E w2, before2 : Spells(u, Opened(O, s, b), t, w2, before2, Append(q, b))
<1>1. /\ w \in Texts(Len(v)) /\ before \in Texts(Len(v))
      /\ s.top \in 0..Len(v) /\ s.made \in Nat /\ Len(v) \in Nat /\ O \subseteq 1..Len(v)
      /\ s.top # 0 => s.top \in O
      /\ Ahead(v, s, w, before, q)
  <2>1. "done" \notin s.flags
    BY DEF Ends
  <2> QED
    BY <2>1, SpeltBefore
<1>2. PICK m \in 1..Len(v) : m = s.top
  BY <1>1 DEF Ends, Inside
<1>3. PICK p : p = v[m].parent
  OBVIOUS
<1>4. /\ t.flags = EndFlags(v, s.flags, m) /\ t.top = EndTop(v, m) /\ t.made = s.made
      /\ "done" \notin s.flags /\ m \in O /\ m \in 1..s.made
  <2>1. m # 0 /\ m \in O
    BY <1>1, <1>2
  <2>2. O \subseteq 1..s.made
    BY DEF OpenStack
  <2> QED
    BY <1>2, <2>1, <2>2 DEF Ends
<1>5. PICK P : P = O \ {m}
  OBVIOUS
<1>6. /\ b \in {"}", "]"} /\ b = Closer(v[m]) /\ v[m].type \in Containers /\ "colon" \notin s.flags
      /\ ~(v[m].type = "object" /\ "seek" \in s.flags)
  <2>1. CASE b = "]" /\ "seek" \in s.flags /\ Inside(v, s, "array")
    <3>1. v[m].type = "array"
      BY <1>2, <2>1 DEF Inside
    <3>2. "colon" \notin s.flags
      BY <1>2, <3>1 DEF Marks, Inside
    <3> QED
      BY <2>1, <3>1, <3>2 DEF Closer, Containers
  <2>2. CASE b = "}" /\ "seek" \notin s.flags /\ Inside(v, s, "object")
    <3>1. v[m].type = "object"
      BY <1>2, <2>2 DEF Inside
    <3>2. "colon" \notin s.flags
      BY <2>2 DEF Marks
    <3> QED
      BY <2>2, <3>1, <3>2 DEF Closer, Containers
  <2> QED
    BY <2>1, <2>2 DEF Ends
<1>7. Opened(O, s, b) = P
  BY <1>2, <1>5, <1>6 DEF Opened
<1>8. t.top = (IF p = 0 THEN m ELSE p) /\ (p = 0 <=> "done" \in t.flags) /\ "comma" \in t.flags
  BY <1>3, <1>4 DEF EndFlags, EndTop
<1>9. PICK x : x = Writes(v[m], w)
  OBVIOUS
<1>10. Begun(v[m], w) \in Seq(Tokens) /\ before[m] \in Seq(Tokens)
       /\ before[m] \o Begun(v[m], w) = Trailed(q) \o Owed(s.flags)
  <2>1. s.top # 0
    BY <1>1, <1>2
  <2> QED
    BY <1>1, <1>2, <2>1, Zenon DEF Ahead
<1>11. x = Begun(v[m], w) \o <<b>> /\ x \in Seq(Tokens) /\ <<b>> \in Seq(Tokens)
  <2>1. PICK n \in Nat : n = Len(v)
    BY <1>1
  <2>2. PICK c : c = v[m]
    OBVIOUS
  <2>3. Named(c, n) /\ w \in Texts(n)
    BY <1>1, <2>1, <2>2 DEF AllNamed
  <2>4. Len(c.keys) = IF c.type = "object" THEN Len(c.kids) ELSE 0
    <3>1. Len(c.keys) = IF c.type = "object" THEN Len(c.kids) + (IF Waits(O, s, m) THEN 1 ELSE 0) ELSE 0
      BY <1>4, <2>2 DEF Matched
    <3>2. c.type = "object" => ~Waits(O, s, m)
      BY <1>2, <1>6, <2>2 DEF Waits
    <3>3. Len(c.kids) \in Nat
      <4>1. c.kids \in Seq(Nat)
        BY <2>3, Fields DEF Named
      <4> QED
        BY <4>1
    <3>4. CASE c.type = "object"
      BY <3>1, <3>2, <3>3, <3>4
    <3>5. CASE c.type # "object"
      BY <3>1, <3>5, Zenon
    <3> QED
      BY <3>4, <3>5
  <2>5. Writes(c, w) = Begun(c, w) \o <<Closer(c)>>
    BY <1>6, <2>2, <2>3, <2>4, BegunEnds
  <2>6. <<b>> \in Seq(Tokens)
    BY TrailedNext
  <2>7. Begun(c, w) \o <<b>> \in Seq(Tokens)
    BY <1>10, <2>2, <2>6, Rows
  <2> QED
    BY <1>6, <1>9, <2>2, <2>5, <2>6, <2>7
<1>12. p # 0 => p \in P /\ Waiting(v[p])
  <2> SUFFICES ASSUME p # 0 PROVE p \in P /\ Waiting(v[p])
    OBVIOUS
  <2>1. p \in O /\ p \in 1..s.made
    BY <1>3, <1>4 DEF OpenStack
  <2>2. p # m
    <3>1. v[m].parent \in 0..m - 1
      BY DEF Shape
    <3> QED
      BY <1>3, <3>1
  <2>3. Waits(O, s, p)
    BY <1>2, <2>1, <2>2 DEF Waits
  <2>4. Len(v[p].keys) = IF v[p].type = "object" THEN Len(v[p].kids) + (IF Waits(O, s, p) THEN 1 ELSE 0)
                         ELSE 0
    BY <2>1 DEF Matched
  <2>5. Waiting(v[p])
    BY <2>3, <2>4, Zenon DEF Waiting
  <2> QED
    BY <1>5, <2>1, <2>2, <2>5
<1>13. PICK r : r = Append(q, b)
  OBVIOUS
<1>14. Trailed(r) = (Trailed(q) \o Owed(s.flags)) \o <<b>> /\ Trailed(r) \in Seq(Tokens)
  <2>1. Comma(q, b) <=> "comma" \in s.flags
    <3>1. q # <<>>
      <4>1. s.top # 0
        BY <1>1, <1>2
      <4> QED
        BY <4>1, Zenon DEF Marks
    <3>2. q[Len(q)] \in {"{", "[", ","} => "comma" \notin s.flags
      BY <3>1 DEF Marks
    <3>3. q[Len(q)] \notin {"{", "[", ","} => "comma" \in s.flags
      <4>1. ~("seek" \in s.flags /\ Inside(v, s, "object"))
        BY <1>2, <1>6 DEF Inside
      <4> QED
        BY <3>1, <4>1 DEF Marks
    <3> QED
      BY <1>6, <3>1, <3>2, <3>3 DEF Comma
  <2>2. Trailed(r) = Trailed(q) \o (IF Comma(q, b) THEN <<",", b>> ELSE <<b>>)
    BY <1>13, TrailedMore
  <2>3. Trailed(r) \in Seq(Tokens) /\ Trailed(q) \in Seq(Tokens)
    BY <1>13, TrailedNext
  <2>4. CASE "comma" \in s.flags
    <3>1. Owed(s.flags) = Sep /\ Sep \in Seq(Tokens)
      BY <2>4, SomeTokens DEF Owed, Sep, Punctuation
    <3>2. Sep \o <<b>> = <<",", b>>
      <4>1. "," \in Tokens /\ b \in Tokens
        BY DEF Tokens, Punctuation
      <4> QED
        BY <4>1, RowOfTwo, Zenon DEF Sep
    <3>3. Grouped(Trailed(q), Sep, <<b>>)
      BY <1>11, <2>3, <3>1, RowsOfThree
    <3>4. Trailed(r) = Trailed(q) \o <<",", b>>
      BY <2>1, <2>2, <2>4, Zenon
    <3>5. (Trailed(q) \o Sep) \o <<b>> = Trailed(q) \o (Sep \o <<b>>)
      BY <3>3, Zenon DEF Grouped
    <3> QED
      BY <2>3, <3>1, <3>2, <3>4, <3>5, Zenon
  <2>5. CASE "comma" \notin s.flags
    <3>1. Owed(s.flags) = <<>>
      BY <1>6, <2>5 DEF Owed
    <3>2. Trailed(q) \o <<>> = Trailed(q)
      BY <2>3, Rows
    <3>3. Trailed(r) = Trailed(q) \o <<b>>
      BY <2>1, <2>2, <2>5, Zenon
    <3> QED
      BY <2>3, <3>1, <3>2, <3>3, Zenon
  <2> QED
    BY <2>4, <2>5
<1>15. before[m] \o x = Trailed(r)
  <2>1. Grouped(before[m], Begun(v[m], w), <<b>>)
    BY <1>10, <1>11, RowsOfThree
  <2>2. (before[m] \o Begun(v[m], w)) \o <<b>> = before[m] \o (Begun(v[m], w) \o <<b>>)
    BY <2>1, Zenon DEF Grouped
  <2> QED
    BY <1>10, <1>11, <1>14, <2>2, Zenon
<1>16. Joins(v, w, before, m, x, r)
  <2>1. Behind(v, w, before, m)
    BY <1>4 DEF Spells
  <2>2. CASE p = 0
    <3>1. m = 1
      BY <1>3, <2>2 DEF Shape
    <3>2. before[m] = <<>>
      BY <1>3, <2>1, <2>2, Zenon DEF Behind
    <3>3. <<>> \o x = x
      BY <1>11, Rows
    <3>4. x = Trailed(r)
      BY <1>15, <3>2, <3>3, Zenon
    <3> QED
      BY <1>3, <2>2, <3>1, <3>4, Zenon DEF Joins
  <2>3. CASE p # 0
    <3>1. before[m] = before[p] \o Begun(v[p], w)
      BY <1>3, <2>1, <2>3, Zenon DEF Behind
    <3> QED
      BY <1>3, <1>15, <2>3, <3>1, Zenon DEF Joins
  <2> QED
    BY <2>2, <2>3
<1>17. \A j \in (1..t.made) \ P : j # m => w[j] = Writes(v[j], w)
  <2> SUFFICES ASSUME NEW j \in (1..t.made) \ P, j # m PROVE w[j] = Writes(v[j], w)
    OBVIOUS
  <2>1. j \in (1..s.made) \ O
    BY <1>4, <1>5
  <2> QED
    BY <2>1 DEF Spells
<1>18. \A j \in P : Behind(v, w, before, j)
  BY <1>5 DEF Spells
<1>19. \E w2, before2 : Spells(u, P, t, w2, before2, r)
  <2>1. t.made \in Nat /\ t.made <= Len(v) /\ Gains(u, v, m) /\ \A j \in 1..Len(v) : ~Kid(v, j, m)
    BY <1>1, <1>2, <1>4
  <2>2. OpenStack(v, P, t) /\ P \subseteq 1..Len(v) /\ m \notin P
    BY <1>1, <1>2, <1>5
  <2> QED
    BY <1>1, <1>3, <1>8, <1>9, <1>11, <1>12, <1>14, <1>16, <1>17, <1>18, <2>1, <2>2, SpellsMore
<1> QED
  BY <1>7, <1>13, <1>19

-----------------------------------------------------------------------------

(* The blocks of v are filled up to the counts of s. *)
Filled(v, s) ==
  \A j \in 1..Len(v) :
    IF j <= s.made
    THEN (v[j].type \in Containers => Len(v[j].kids) = s.length[j]) /\ Len(v[j].keys) = s.keys[j]
    ELSE v[j].kids = <<>> /\ v[j].keys = <<>>

(* Blocks filled by the counts have their names. *)
LEMMA FilledNames ==
  ASSUME NEW v, Shape(v), KidsKnown(v), NEW s \in Scans, s.made <= Len(v), Filled(v, s),
         NEW O, Paired(v, O, s)
  PROVE  AllNamed(v) /\ Matched(v, O, s)
<1>0. Len(v) \in Nat /\ s.made \in Nat
  BY ScanFields DEF Shape
<1>1. ASSUME NEW j \in 1..s.made
      PROVE  Len(v[j].keys) =
               IF v[j].type = "object" THEN Len(v[j].kids) + (IF Waits(O, s, j) THEN 1 ELSE 0) ELSE 0
  <2>1. j \in 1..Len(v) /\ j <= s.made
    BY <1>0
  <2>2. (v[j].type \in Containers => Len(v[j].kids) = s.length[j]) /\ Len(v[j].keys) = s.keys[j]
    BY <2>1 DEF Filled
  <2>3. CASE v[j].type = "object"
    <3>1. s.keys[j] = s.length[j] + IF Waits(O, s, j) THEN 1 ELSE 0
      BY <2>3 DEF Paired
    <3>2. v[j].type \in Containers
      BY <2>3 DEF Containers
    <3> QED
      BY <2>2, <2>3, <3>1, <3>2
  <2>4. CASE v[j].type # "object"
    <3>1. s.keys[j] = 0
      BY <2>4 DEF Paired
    <3> QED
      BY <2>2, <2>4, <3>1
  <2> QED
    BY <2>3, <2>4
<1>2. ASSUME NEW j \in 1..Len(v) PROVE Named(v[j], Len(v))
  <2>1. v[j] \in Values
    BY Elements DEF Shape
  <2>2. \A k \in 1..Len(v[j].kids) : v[j].kids[k] \in 1..Len(v)
    BY DEF KidsKnown
  <2>3. Len(v[j].kids) \in Nat
    <3>1. v[j].kids \in Seq(Nat)
      BY <2>1, Fields
    <3> QED
      BY <3>1
  <2>4. v[j].type = "object" => Len(v[j].kids) <= Len(v[j].keys)
    <3>1. CASE j <= s.made
      <4>1. j \in 1..s.made
        BY <1>0, <3>1
      <4>2. v[j].type = "object" =>
              Len(v[j].keys) = Len(v[j].kids) + (IF Waits(O, s, j) THEN 1 ELSE 0)
        BY <1>1, <4>1
      <4>3. PICK n \in Nat : n = IF Waits(O, s, j) THEN 1 ELSE 0
        OBVIOUS
      <4>4. v[j].type = "object" => Len(v[j].keys) = Len(v[j].kids) + n
        BY <4>2, <4>3
      <4>5. PICK x \in Nat : x = Len(v[j].kids)
        BY <2>3
      <4>6. x <= x + n
        OBVIOUS
      <4> QED
        BY <4>4, <4>5, <4>6
    <3>2. CASE ~(j <= s.made)
      BY <3>2 DEF Filled
    <3> QED
      BY <3>1, <3>2
  <2> QED
    BY <2>1, <2>2, <2>4 DEF Named
<1> QED
  BY <1>1, <1>2 DEF AllNamed, Matched

(* One more token of the second pass, and the tree writes what is read. *)
LEMMA GrownMore ==
  ASSUME NEW v, Shape(v), KidsKnown(v), NEW s \in Scans, NEW t \in Scans, Filled(v, s),
         s.made <= Len(v), t.made <= Len(v), t.top <= t.made, NEW b \in Tokens,
         NEW q \in Seq(Tokens), NEW O, Grown(v, O, s, q),
         NEW u, Shape(u), KidsKnown(u), Filled(u, t), Effect(u, v, s, b, t)
  PROVE  Grown(u, Opened(O, s, b), t, Append(q, b))
<1>1. OpenStack(v, O, s) /\ Paired(v, O, s) /\ Marks(v, s, q)
  BY DEF Grown
<1>2. AllNamed(v) /\ Matched(v, O, s)
  BY <1>1, FilledNames
<1>3. PICK w, before : Spells(v, O, s, w, before, q)
  BY DEF Grown
<1>4. Moves(v, s, b, t)
  BY DEF Effect, Moves
<1>5. Len(u) = Len(v) /\ \A j \in 1..Len(v) : Alike(u[j], v[j])
  BY DEF Effect, Same, Gains, GainsName
<1>6. OpenStack(v, Opened(O, s, b), t) /\ Paired(v, Opened(O, s, b), t)
  BY <1>1, <1>4, StackMoves, PairMoves
<1>7. AllNamed(u)
  <2>1. Extends(u, v)
    <3>1. Len(v) \in Nat
      BY DEF Shape
    <3> QED
      BY <1>5, <3>1 DEF Extends, Alike
  <2>2. Paired(u, Opened(O, s, b), t)
    BY <1>6, <2>1, PairedKept
  <2>3. t.made <= Len(u)
    BY <1>5
  <2> QED
    BY <2>2, <2>3, FilledNames
<1>8. \E w2, before2 : Spells(u, Opened(O, s, b), t, w2, before2, Append(q, b))
  <2>1. CASE Opens(v, s, b, t) /\ Same(u, v) /\ v[t.top].kids = <<>> /\ v[t.top].keys = <<>>
    BY <1>1, <1>2, <1>3, <2>1, SpellsOpens
  <2>2. CASE IsLeaf(v, s, b, t) /\ Gains(u, v, t.made) /\ \A j \in 1..Len(v) : ~Kid(v, j, t.made)
    <3>1. Opened(O, s, b) = O
      <4>1. b \notin {"{", "["} /\ b \notin {"}", "]"}
        BY <2>2, TokenKinds DEF IsLeaf, Leaves
      <4> QED
        BY <4>1, Zenon DEF Opened
    <3>2. OpenStack(v, O, t)
      BY <1>6, <3>1
    <3> QED
      BY <1>1, <1>2, <1>3, <1>7, <2>2, <3>2, SpellsLeaf
  <2>3. CASE Names(v, s, b, t) /\ GainsName(u, v, s.top, b)
    BY <1>1, <1>2, <1>3, <2>3, SpellsNames
  <2>4. CASE Ends(v, s, b, t) /\ Gains(u, v, s.top) /\ \A j \in 1..Len(v) : ~Kid(v, j, s.top)
    <3>1. Opened(O, s, b) = O \ {s.top}
      <4>1. b \notin {"{", "["} /\ b \in {"}", "]"}
        BY <2>4 DEF Ends
      <4> QED
        BY <4>1, Zenon DEF Opened
    <3>2. OpenStack(v, O \ {s.top}, t)
      BY <1>6, <3>1
    <3> QED
      BY <1>1, <1>2, <1>3, <1>7, <2>4, <3>2, SpellsEnds
  <2>5. CASE Parts(v, s, b, t) /\ Same(u, v)
    BY <1>1, <1>2, <1>3, <2>5, SpellsParts
  <2> QED
    BY <2>1, <2>2, <2>3, <2>4, <2>5 DEF Effect
<1> QED
  BY <1>1, <1>4, <1>5, <1>8, GrownFrame

-----------------------------------------------------------------------------

(* What the second pass has built so far, and what it has built in the end. *)
Growing(h, O) == Grown(val, O, h[pos], SubSeq(text, 1, pos))
Spelt ==
  \E w \in Texts(Len(val)) :
    w[1] = Trailed(text) /\ \A j \in 1..Len(val) : w[j] = Writes(val[j], w)
TreeInv ==
  /\ parser = "parse" /\ pass = 0 => \E h, P, O : SecondPass(h, P) /\ Growing(h, O)
  /\ parser = "value" => Spelt

(* Before the first token nothing is written. *)
LEMMA GrownBegins ==
  ASSUME NEW v, Shape(v)
  PROVE  Grown(v, {}, Start, <<>>)
<1>1. PICK s : s = Start
  OBVIOUS
<1>2. /\ s.flags = {"seek"} /\ s.top = 0 /\ s.made = 0
      /\ \A j \in Nat : s.length[j] = 0 /\ s.bytes[j] = 0 /\ s.keys[j] = 0
  BY <1>1 DEF Start, Zeros
<1>3. OpenStack(v, {}, s)
  BY <1>2 DEF OpenStack
<1>4. Paired(v, {}, s)
  BY <1>2 DEF Paired, Fresh
<1>5. Marks(v, s, <<>>)
  BY <1>2 DEF Marks
<1>6. PICK w : w \in Texts(Len(v))
  <2>1. [j \in 1..Len(v) |-> <<>>] \in Texts(Len(v))
    BY DEF Texts
  <2> QED
    BY <2>1
<1>7. Spells(v, {}, s, w, w, <<>>)
  BY <1>2, <1>6 DEF Spells
<1> QED
  BY <1>1, <1>3, <1>4, <1>5, <1>7 DEF Grown

(* The first pass ends, and the second one begins. *)
LEMMA TreeBegins ==
  ASSUME JsonInv', parser' = "parse", pass' = 0, pos' = 0
  PROVE  \E h, P, O : SecondPass(h, P)' /\ Growing(h, O)'
<1>1. Shape(val') /\ text' \in Seq(Tokens) /\ \E h, P : SecondPass(h, P)'
  BY DEF JsonInv, Stages, Typed
<1>2. PICK h, P : SecondPass(h, P)'
  BY <1>1
<1>3. h[pos'] = Start
  <2>1. Run(h)'
    BY <1>2 DEF SecondPass
  <2> QED
    BY <2>1 DEF Run
<1>4. SubSeq(text', 1, pos') = <<>>
  BY <1>1
<1>5. Grown(val', {}, h[pos'], SubSeq(text', 1, pos'))
  BY <1>1, <1>3, <1>4, GrownBegins
<1> QED
  BY <1>2, <1>5 DEF Growing

(* The blocks are filled up to where the second pass is. *)
LEMMA FilledNow ==
  ASSUME NEW h, NEW O, SecondPass(h, O)
  PROVE  Filled(val, h[pos])
BY DEF SecondPass, Halfway, Filling, Unfilled, Filled

(* One more token of the second pass. *)
LEMMA TreeGoesOn ==
  ASSUME Shape(val), Typed, KidsKnown(val), pass = 0, NEW h, NEW P, SecondPass(h, P),
         NEW O, Growing(h, O), pos < Len(text), NEW b, b = text[pos + 1], Takes(b),
         UNCHANGED text, pos' = pos + 1
  PROVE  \E Q, R : SecondPass(h, Q)' /\ Growing(h, R)'
<1>1. PICK s : s = h[pos]
  OBVIOUS
<1>2. PICK t : t = h[pos + 1]
  OBVIOUS
<1>3. PICK f : f = h[Len(text)]
  OBVIOUS
<1>4. /\ Shape(val') /\ KidsKnown(val') /\ Len(val') = Len(val)
      /\ Effect(val', val, s, b, t)
  BY <1>1, <1>2, SecondMoves
<1>5. PICK Q : SecondPass(h, Q)'
  BY SecondMoves
<1>6. s \in Scans /\ s.made \in 0..Len(val) /\ pos \in Nat /\ Len(val) \in Nat
  BY <1>1, <1>3, InSecond
<1>7. t \in Scans /\ t.made \in 0..Len(val) /\ t.top <= t.made /\ b \in Tokens
  BY <1>1, <1>2, <1>3, Repeats
<1>8. Filled(val, s)
  BY <1>1, FilledNow
<1>9. Filled(val', t)
  <2>1. \A j \in 1..Len(val') : Halfway(j, h[pos], h[Len(text)])'
    BY <1>5 DEF SecondPass
  <2>2. (h[pos])' = t
    BY <1>2
  <2> QED
    BY <2>1, <2>2 DEF Halfway, Filling, Unfilled, Filled
<1>10. PICK q : q = SubSeq(text, 1, pos)
  OBVIOUS
<1>11. q \in Seq(Tokens) /\ SubSeq(text', 1, pos') = Append(q, b)
  <2>1. text \in Seq(Tokens)
    BY DEF Typed
  <2> QED
    BY <1>6, <1>10, <2>1
<1>12. Grown(val, O, s, q)
  BY <1>1, <1>10 DEF Growing
<1>13. Grown(val', Opened(O, s, b), t, Append(q, b))
  <2>1. s.made <= Len(val) /\ t.made <= Len(val)
    BY <1>6, <1>7
  <2> QED
    BY <1>4, <1>6, <1>7, <1>8, <1>9, <1>11, <1>12, <2>1, GrownMore
<1> QED
  BY <1>2, <1>5, <1>11, <1>13 DEF Growing

(* The end of the second pass. *)
LEMMA TreeEnds ==
  ASSUME Shape(val), Typed, NEW h, NEW P, SecondPass(h, P), NEW O, Growing(h, O), pos = Len(text)
  PROVE  Spelt
<1>1. PICK f : f = h[Len(text)]
  OBVIOUS
<1>2. "done" \in f.flags /\ f.made = Len(val)
  BY <1>1, InSecond
<1>3. SubSeq(text, 1, pos) = text
  <2>1. text \in Seq(Tokens)
    BY DEF Typed
  <2> QED
    BY <2>1
<1>4. Grown(val, O, f, text)
  BY <1>1, <1>3 DEF Growing
<1>5. O = {}
  BY <1>2, <1>4 DEF Grown, OpenStack
<1>6. PICK w, before : Spells(val, O, f, w, before, text)
  BY <1>4 DEF Grown
<1>7. /\ w \in Texts(Len(val)) /\ w[1] = Trailed(text)
      /\ \A j \in 1..Len(val) : w[j] = Writes(val[j], w)
  BY <1>2, <1>5, <1>6 DEF Spells
<1> QED
  BY <1>7 DEF Spelt

(* No step of the parser or of the release breaks it. *)
LEMMA TreeKept ==
  ASSUME JsonInv, JsonInv', TreeInv,
         JsonParse \/ ParseStep \/ JsonValueFree \/ FreeStep \/ UNCHANGED jsonVars
  PROVE  TreeInv'
<1>1. Typed /\ Shape(val) /\ KidsKnown(val) /\ Stages
  BY DEF JsonInv
<1>2. CASE JsonParse
  <2>1. pass' = 1 /\ parser' # "value"
    BY <1>1, <1>2 DEF JsonParse, Stages, scanVars
  <2> QED
    BY <2>1 DEF TreeInv
<1>3. ASSUME NEW b \in Tokens \cup {Eof}, ParseToken(b), pass = 1
      PROVE  TreeInv'
  <2>1. parser' # "value" /\ (pass' = 0 => pos' = 0)
    <3>1. parser = "parse"
      BY <1>3 DEF ParseToken, Read
    <3>2. CASE Rejected \/ AllocFails
      BY <1>3, <3>1, <3>2 DEF Rejected, AllocFails, scanVars
    <3>3. CASE Takes(b)
      <4>1. UNCHANGED <<parser, pass>>
        BY <3>3, Zenon
           DEF Takes, OpenContainer, ReadScalar, ReadString, ReadKey, CloseContainer, Separator
      <4> QED
        BY <1>3, <3>1, <4>1
    <3>4. CASE Advance(b) /\ b = Eof /\ EndOfPass
      BY <1>3, <3>1, <3>4 DEF Advance, EndOfPass
    <3> QED
      BY <1>3, <3>2, <3>3, <3>4 DEF ParseToken, Takes
  <2> QED
    BY <1>3, <2>1, TreeBegins DEF TreeInv
<1>4. ASSUME NEW b \in Tokens \cup {Eof}, ParseToken(b), pass = 0
      PROVE  TreeInv'
  <2>1. parser = "parse"
    BY <1>4 DEF ParseToken, Read
  <2>2. PICK h, P, O : SecondPass(h, P) /\ Growing(h, O)
    BY <1>4, <2>1 DEF TreeInv
  <2>3. CASE AllocFails
    <3>1. parser' = "unwind"
      BY <2>3 DEF AllocFails
    <3> QED
      BY <3>1 DEF TreeInv
  <2>4. CASE pos = Len(text) /\ EndOfPass /\ UNCHANGED text
    <3>1. parser' = "value" /\ UNCHANGED <<text, val>>
      BY <1>4, <2>4 DEF EndOfPass
    <3>2. Spelt
      BY <1>1, <2>2, <2>4, TreeEnds
    <3>3. Spelt'
      BY <3>1, <3>2 DEF Spelt
    <3> QED
      BY <3>1, <3>3 DEF TreeInv
  <2>5. CASE /\ pos < Len(text) /\ b = text[pos + 1] /\ Takes(b) /\ UNCHANGED text
             /\ pos' = pos + 1 /\ UNCHANGED <<parser, pass, cur, oom>>
    <3>1. \E Q, R : SecondPass(h, Q)' /\ Growing(h, R)'
      BY <1>1, <1>4, <2>2, <2>5, TreeGoesOn
    <3> QED
      BY <2>1, <2>5, <3>1 DEF TreeInv
  <2> QED
    BY <1>1, <1>4, <2>2, <2>3, <2>4, <2>5, SecondChoices
<1>5. CASE Unwind \/ Unwound \/ JsonValueFree \/ FreeStep
  <2>1. parser' \notin {"parse", "value"}
    BY <1>5 DEF Unwind, Unwound, JsonValueFree, FreeStep, FreeDescend, FreeValue, FreeEnds, Freeing
  <2> QED
    BY <2>1 DEF TreeInv
<1>6. CASE UNCHANGED jsonVars
  <2>1. UNCHANGED <<parser, text, pass, pos, flags, val, top, root, alloc, cur, oom>>
    BY <1>6 DEF jsonVars, scanVars
  <2>2. \A h, O : SecondPass(h, O)' <=> SecondPass(h, O)
    BY <2>1, PassesStutter
  <2>3. \A h, O : Growing(h, O)' <=> Growing(h, O)
    BY <2>1 DEF Growing
  <2>4. Spelt' <=> Spelt
    BY <2>1 DEF Spelt
  <2> QED
    BY <2>1, <2>2, <2>3, <2>4 DEF TreeInv
<1>7. ASSUME NEW b \in Tokens \cup {Eof}, ParseToken(b) PROVE TreeInv'
  BY <1>1, <1>3, <1>4, <1>7 DEF Typed
<1> QED
  BY <1>2, <1>5, <1>6, <1>7 DEF ParseStep

(* The texts of the values are what written finds. *)
LEMMA WrittenIs ==
  ASSUME Shape(val), KidsKnown(val), NEW w \in Texts(Len(val)),
         \A j \in 1..Len(val) : w[j] = Writes(val[j], w)
  PROVE  \A j \in 1..Len(val) : written[j] = w[j]
<1>1. PICK n \in Nat : n = Len(val)
  BY DEF Shape
<1>2. w = [i \in 1..n |-> Writes(val[i], w)]
  <2>1. w = [i \in 1..n |-> w[i]]
    BY <1>1 DEF Texts
  <2> QED
    BY <1>1, <2>1
<1>3. written = CHOOSE x : x = [i \in 1..n |-> Writes(val[i], x)]
  BY <1>1 DEF written
<1>4. written = [i \in 1..n |-> Writes(val[i], written)]
  BY <1>2, <1>3
<1> DEFINE I == {k \in 0..n : \A j \in 1..n : j > n - k => written[j] = w[j]}
<1>5. 0 \in I
  BY <1>1
<1>6. ASSUME NEW k \in 1..n, k - 1 \in I PROVE k \in I
  <2>1. PICK i \in 1..n : i = n - k + 1
    BY <1>1
  <2>2. \A j \in 1..n : j > i => written[j] = w[j]
    BY <1>1, <1>6, <2>1
  <2>3. \A l \in 1..Len(val[i].kids) : val[i].kids[l] \in 1..n /\ val[i].kids[l] > i
    <3>1. ASSUME NEW l \in 1..Len(val[i].kids)
          PROVE  val[i].kids[l] \in 1..n /\ val[i].kids[l] > i
      <4>1. PICK j : j = val[i].kids[l]
        OBVIOUS
      <4>2. j \in 1..n /\ val[j].parent = i
        BY <1>1, <4>1 DEF KidsKnown
      <4>3. val[j].parent \in 0..j - 1
        BY <1>1, <4>2 DEF Shape
      <4> QED
        BY <1>1, <2>1, <4>1, <4>2, <4>3
    <3> QED
      BY <3>1
  <2>4. \A l \in 1..Len(val[i].kids) : written[val[i].kids[l]] = w[val[i].kids[l]]
    BY <2>2, <2>3
  <2>5. Writes(val[i], written) = Writes(val[i], w)
    <3>1. PICK v : v = val[i]
      OBVIOUS
    <3>2. PICK x : x = written
      OBVIOUS
    <3>3. \A l \in 1..Len(v.kids) : x[v.kids[l]] = w[v.kids[l]]
      BY <2>4, <3>1, <3>2
    <3>4. Writes(v, x) = Writes(v, w)
      BY <3>3, BegunSame
    <3> QED
      BY <3>1, <3>2, <3>4
  <2>6. written[i] = w[i]
    BY <1>1, <1>4, <2>5
  <2>7. ASSUME NEW j \in 1..n, j > n - k PROVE written[j] = w[j]
    <3>1. j = i \/ j > i
      BY <1>1, <2>1, <2>7
    <3> QED
      BY <2>2, <2>6, <3>1
  <2>8. k \in 0..n
    BY <1>1
  <2> QED
    BY <2>7, <2>8
<1>7. n \in I
  <2>1. n \in 0..n
    BY <1>1
  <2> HIDE DEF I
  <2> QED
    BY <1>1, <1>5, <1>6, <2>1, Induction
<1> QED
  BY <1>1, <1>7

(* The finished tree writes the text. *)
LEMMA TreeTells ==
  ASSUME JsonInv, TreeInv
  PROVE  TreeIsText
<1> SUFFICES ASSUME parser = "value" PROVE written[root] = Trailed(text)
  BY DEF TreeIsText
<1>1. Shape(val) /\ KidsKnown(val) /\ root = 1 /\ Len(val) >= 1
  BY DEF JsonInv, Stages, Built
<1>2. PICK w \in Texts(Len(val)) :
        w[1] = Trailed(text) /\ \A j \in 1..Len(val) : w[j] = Writes(val[j], w)
  BY DEF TreeInv, Spelt
<1>3. written[1] = w[1]
  <2>1. 1 \in 1..Len(val)
    BY <1>1 DEF Shape
  <2> QED
    BY <1>1, <1>2, <2>1, WrittenIs
<1> QED
  BY <1>1, <1>2, <1>3

=============================================================================
