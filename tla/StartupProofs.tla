---------------------------- MODULE StartupProofs ----------------------------
(***************************************************************************)
(* The proofs about Startup, for any options, strings, scalars and bounds: *)
(* its types, the memory and the passes of the parser, and the order in    *)
(* which the command line and the file are heard; and then, for texts of   *)
(* any length, what the parser makes of the bytes of a token, against      *)
(* JsonGrammar.                                                            *)
(*                                                                         *)
(* A scan is a function that takes its value at a place from its value at  *)
(* another: it is unfolded once, by the lemmas of DataInduction, into what *)
(* one byte or one turn does.  A string is then read from its end, one     *)
(* character before the rest.  A number is read from its begin: the state  *)
(* of the scan says in which part of the number it stands, and each byte   *)
(* leads to the part that the grammar has next, or ends the scan.          *)
(***************************************************************************)
EXTENDS Startup, JsonProofs

Settings == Nat \cup Strings \cup CmdStrs \cup {NoStr, Garbage}
Setting(k) == IF k \in NumKeys THEN Nat ELSE Strings \cup CmdStrs \cup {NoStr, Garbage}

ConfTyped ==
  /\ conf \in [Keys -> Settings] /\ cmd \in [Keys -> Settings]
  /\ \A k \in Keys : conf[k] \in Setting(k) /\ cmd[k] \in Setting(k)

(* Where the parser stands at each step of coix_init. *)
Placed ==
  /\ main \in {"logger", "cmd", "file", "json", "members", "free", "services",
               "up", "exited", "crashed"}
  /\ options \in 0..MaxOptions /\ member \in Nat \ {0}
  /\ main \in {"logger", "cmd", "file"} => parser = "idle"
  /\ main \in {"logger", "cmd", "file", "json"} => member = 1
  /\ main = "members" => parser = "value" /\ member <= val[root].length + 1
  /\ main = "free" => parser \in {"release", "freed"}
  /\ main \in {"members", "free"} => root \in 1..Len(val)
  /\ main = "free" /\ IsObject => Len(val[root].keys) = Len(val[root].kids)

(* conf has the first of what the command line and the members S say. *)
FirstOf(k, S) ==
  IF cmd[k] = Unset(k) /\ S # {}
  THEN \E i \in S : conf[k] = Offer(k, i) /\ \A j \in S : i <= j
  ELSE conf[k] = cmd[k]

(* The members before the m-th that say something of option k. *)
Told(k, m) == IF IsObject THEN {i \in Offering(k) : i < m} ELSE {}

Heard ==
  /\ main \in {"file", "json"} => conf = cmd
  /\ main = "members" => \A k \in Keys : FirstOf(k, Told(k, member))
  /\ main = "free" => \A k \in Keys : FirstOf(k, IF IsObject THEN Offering(k) ELSE {})
  /\ ConfigIsFirstOffer

StartupInv == JsonInv /\ ConfTyped /\ Placed /\ Heard

-----------------------------------------------------------------------------

(* What process_value reads at its next turn. *)
LEMMA MemberRead ==
  ASSUME JsonInv, parser = "value", InMembers, member \in Nat \ {0}
  PROVE  /\ root \in 1..Len(val) /\ member \in 1..Len(val[root].keys) /\ Key \in Strings
         /\ AsInteger(Member) \in Nat /\ AsString(Member) \in Strings \cup {Garbage}
         /\ Key \in NumKeys => Offer(Key, member) = AsInteger(Member)
         /\ Key \in StrKeys => Offer(Key, member) = AsString(Member)
<1>1. Shape(val) /\ KidsKnown(val) /\ Built
  BY DEF JsonInv, Stages
<1>2. val \in Seq(Values) /\ Len(val) \in Nat /\ root = 1 /\ root \in 1..Len(val)
  BY <1>1 DEF Shape, Built
<1>3. PICK o : o = val[root]
  OBVIOUS
<1>4. o \in Values /\ o.type = "object" /\ member <= o.length
  BY <1>2, <1>3 DEF InMembers, IsObject
<1>5. o.length = o.room /\ Len(o.kids) = o.room /\ Len(o.keys) = o.room /\ o.room \in Nat
  <2>1. o.length = o.room /\ Len(o.kids) = o.room /\ Len(o.keys) = o.room
    BY <1>1, <1>2, <1>3, <1>4 DEF Built, Containers
  <2> QED
    BY <1>4, <2>1, Fields
<1>6. member \in 1..Len(o.keys) /\ member \in 1..Len(o.kids)
  BY <1>4, <1>5
<1>7. Key \in Strings
  <2>1. o.keys \in Seq(Strings)
    BY <1>4, Fields
  <2> QED
    BY <1>3, <1>6, <2>1 DEF Key
<1>8. PICK j : j = o.kids[member]
  OBVIOUS
<1>9. j \in 1..Len(val) /\ Member = val[j]
  BY <1>1, <1>2, <1>3, <1>6, <1>8 DEF KidsKnown, Member
<1>10. val[j] \in Values /\ val[j].length = val[j].room /\ val[j].length \in Nat
  <2>1. val[j] \in Values /\ val[j].length = val[j].room
    BY <1>1, <1>2, <1>9 DEF Built
  <2> QED
    BY <2>1, Fields
<1>11. AsInteger(Member) \in Nat
  BY <1>1, <1>9, <1>10, StartupAssumption DEF AsInteger, Shape
<1>12. AsString(Member) \in Strings \cup {Garbage}
  BY <1>1, <1>9 DEF AsString, Shape
<1>13. Key \in NumKeys => Offer(Key, member) = AsInteger(Member)
  BY <1>3, <1>8, <1>9, <1>10, StartupAssumption DEF Offer, AsInteger
<1>14. Key \in StrKeys => Offer(Key, member) = AsString(Member)
  BY <1>3, <1>8, <1>9 DEF Offer
<1> QED
  BY <1>2, <1>3, <1>6, <1>7, <1>11, <1>12, <1>13, <1>14

-----------------------------------------------------------------------------
(***************************************************************************)
(* The parser.                                                             *)
(***************************************************************************)

(* Every step of coix_init is one of the parser or leaves it alone. *)
LEMMA ParserSteps ==
  ASSUME [Next]_vars
  PROVE  JsonParse \/ ParseStep \/ JsonValueFree \/ FreeStep \/ UNCHANGED jsonVars
BY DEF Next, vars, LoggerCreate, CmdOptionsEnd, CmdOption, FileUnread, FileRead, Parsing,
       ParseFails, ParseReturns, ProcessMember, ProcessMemberCrashes, ProcessValueEnds,
       Releasing, Released, StartServices, StartFails, ParserCrashes, Stop

(* None of them breaks what the parser keeps true. *)
THEOREM JsonKept ==
  ASSUME JsonInv, [Next]_vars
  PROVE  JsonInv'
BY ParserSteps, JsonInvKept

(* The invariant of the parser holds throughout the start of the server. *)
THEOREM JsonAlways == Spec => []JsonInv
<1>1. Init => JsonInv
  BY JsonInvInit DEF Init
<1>2. JsonInv /\ [Next]_vars => JsonInv'
  BY JsonKept
<1> QED
  BY <1>1, <1>2, PTL DEF Spec

(* The second pass accepts what the first one accepted, unless a malloc    *)
(* fails, for every text.                                                  *)
THEOREM PassesAlwaysAgree == Spec => []PassesAgree
<1>1. JsonInv => PassesAgree
  BY JsonInvProperties
<1> QED
  BY <1>1, JsonAlways, PTL

(* No block is written past its end, and the finished tree is filled, for  *)
(* every text: the counts of the first pass are what the second one needs. *)
THEOREM BlocksAlwaysFit == Spec => []BlocksFit
<1>1. JsonInv => BlocksFit
  BY JsonInvProperties
<1> QED
  BY <1>1, JsonAlways, PTL

(* Nothing is freed twice; and without a failed malloc everything is freed *)
(* in the end, by the chain or by the walk, and no NULL block is read.     *)
THEOREM MemoryIsReturned == Spec => []MemoryReturned
<1>1. JsonInv => MemoryReturned
  BY JsonInvProperties
<1> QED
  BY <1>1, JsonAlways, PTL

(* The tree that json_parse returns writes the text it has read, for every *)
(* text: each value is where the text has it, in its order and under its   *)
(* name, and no text is accepted that writes no tree.                      *)
THEOREM TreeIsAlwaysText == Spec => []TreeIsText
<1>1. Init => TreeInv
  BY DEF Init, JsonInit, TreeInv
<1>2. JsonInv /\ JsonInv' /\ TreeInv /\ [Next]_vars => TreeInv'
  <2>1. [Next]_vars => JsonParse \/ ParseStep \/ JsonValueFree \/ FreeStep \/ UNCHANGED jsonVars
    BY ParserSteps
  <2> QED
    BY <2>1, TreeKept
<1>3. JsonInv /\ TreeInv => TreeIsText
  BY TreeTells
<1> QED
  BY <1>1, <1>2, <1>3, JsonAlways, PTL DEF Spec

-----------------------------------------------------------------------------
(***************************************************************************)
(* The configuration.                                                      *)
(***************************************************************************)

(* One turn of process_value hears the next member, and none out of turn.  *)
LEMMA MemberHeard ==
  ASSUME StartupInv, ProcessMember
  PROVE  ConfTyped' /\ \A k \in Keys : FirstOf(k, Told(k, member))'
<1>1. /\ main = "members" /\ IsObject /\ member <= val[root].length /\ member' = member + 1
      /\ UNCHANGED <<val, root, cmd>>
  BY DEF ProcessMember, InMembers, jsonVars
<1>2. JsonInv /\ ConfTyped /\ member \in Nat \ {0} /\ parser = "value"
  BY <1>1 DEF StartupInv, Placed
<1>3. /\ root \in 1..Len(val) /\ member \in 1..Len(val[root].keys) /\ Key \in Strings
      /\ AsInteger(Member) \in Nat /\ AsString(Member) \in Strings \cup {Garbage}
      /\ Key \in NumKeys => Offer(Key, member) = AsInteger(Member)
      /\ Key \in StrKeys => Offer(Key, member) = AsString(Member)
  BY <1>1, <1>2, MemberRead DEF ProcessMember
<1>4. PICK o : o = Offer(Key, member)
  OBVIOUS
<1>5. /\ \/ Key \in Keys /\ conf[Key] = Unset(Key) /\ conf' = [conf EXCEPT ![Key] = o]
         \/ (Key \in Keys => conf[Key] # Unset(Key)) /\ conf' = conf
  <2>1. Key \in Keys => o = IF Key \in NumKeys THEN AsInteger(Member) ELSE AsString(Member)
    BY <1>3, <1>4 DEF Keys
  <2> QED
    BY <2>1 DEF ProcessMember
<1>6. Key \in Keys => o \in Setting(Key) /\ o \in Settings
  BY <1>3, <1>4 DEF Keys, Setting, Settings
<1>7. ConfTyped'
  <2>1. \A k \in Keys : conf'[k] = IF k = Key /\ conf' # conf THEN o ELSE conf[k]
    BY <1>2, <1>5 DEF ConfTyped
  <2>2. conf' \in [Keys -> Settings]
    BY <1>2, <1>5, <1>6 DEF ConfTyped
  <2>3. \A k \in Keys : conf'[k] \in Setting(k)
    BY <1>2, <1>6, <2>1 DEF ConfTyped
  <2> QED
    BY <1>1, <1>2, <2>2, <2>3 DEF ConfTyped
<1>8. ASSUME NEW k \in Keys
      PROVE  FirstOf(k, Told(k, member))'
  <2> DEFINE S == Told(k, member)
             T == Told(k, member + 1)
  <2>1. FirstOf(k, S)
    BY <1>1 DEF StartupInv, Heard
  <2>2. S \subseteq T /\ \A i \in T : i \in S \/ i = member
    BY <1>1, <1>2, <1>3 DEF Told, Offering
  <2>3. \A i \in S : i < member /\ i \in Nat /\ Offer(k, i) # Unset(k)
    BY <1>1 DEF Told, Offering
  <2>4. member \in T <=> k = Key /\ o # Unset(k)
    BY <1>1, <1>2, <1>3, <1>4 DEF Told, Offering, Key
  <2>5. Told(k, member)' = T
    BY <1>1 DEF Told, Offering, Offer, AsString, IsObject
  <2>6. \A i : Offer(k, i)' = Offer(k, i)
    BY <1>1 DEF Offer, AsString
  <2>7. FirstOf(k, Told(k, member))' <=>
          IF cmd[k] = Unset(k) /\ T # {}
          THEN \E i \in T : conf'[k] = Offer(k, i) /\ \A j \in T : i <= j
          ELSE conf'[k] = cmd[k]
    BY <1>1, <2>5, <2>6 DEF FirstOf, Unset
  <2> HIDE DEF S, T
  <2>8. CASE k # Key
    <3>1. T = S /\ conf'[k] = conf[k]
      BY <1>2, <1>5, <2>2, <2>4, <2>8 DEF ConfTyped
    <3> QED
      BY <2>1, <2>7, <3>1 DEF FirstOf
  <2>9. CASE k = Key /\ conf[k] # Unset(k)
    <3>1. conf'[k] = conf[k]
      BY <1>5, <2>9
    <3>2. CASE cmd[k] # Unset(k)
      BY <2>1, <2>7, <3>1, <3>2 DEF FirstOf
    <3>3. CASE cmd[k] = Unset(k)
      <4>1. PICK i \in S : conf[k] = Offer(k, i) /\ \A j \in S : i <= j
        BY <2>1, <2>9, <3>3 DEF FirstOf
      <4>2. \A j \in T : i <= j
        BY <1>2, <2>2, <2>3, <4>1
      <4> QED
        BY <2>2, <2>7, <3>1, <3>3, <4>1, <4>2
    <3> QED
      BY <3>2, <3>3
  <2>10. CASE k = Key /\ conf[k] = Unset(k)
    <3>1. conf'[k] = o /\ cmd[k] = Unset(k) /\ S = {}
      <4>1. conf'[k] = o
        BY <1>2, <1>5, <2>10 DEF ConfTyped
      <4>2. cmd[k] = Unset(k)
        BY <2>1, <2>10 DEF FirstOf
      <4>3. S = {}
        BY <2>1, <2>3, <2>10, <4>2 DEF FirstOf
      <4> QED
        BY <4>1, <4>2, <4>3
    <3>2. CASE o # Unset(k)
      <4>1. T = {member} /\ conf'[k] = Offer(k, member)
        BY <1>4, <2>2, <2>4, <2>10, <3>1, <3>2
      <4>2. member <= member
        BY <1>2
      <4>3. \E i \in T : conf'[k] = Offer(k, i) /\ \A j \in T : i <= j
        BY <4>1, <4>2
      <4> QED
        BY <2>7, <3>1, <4>1, <4>3
    <3>3. CASE o = Unset(k)
      <4>1. T = {}
        BY <2>2, <2>4, <3>1, <3>3
      <4> QED
        BY <2>7, <3>1, <3>3, <4>1
    <3> QED
      BY <3>2, <3>3
  <2> QED
    BY <2>8, <2>9, <2>10
<1> QED
  BY <1>7, <1>8

(* What the file says does not change while its tree is freed. *)
LEMMA OffersStay ==
  ASSUME JsonInv, root \in 1..Len(val), FreeStep,
         IsObject => Len(val[root].keys) = Len(val[root].kids)
  PROVE  /\ root' = root /\ Len(val') = Len(val) /\ (IsObject' <=> IsObject)
         /\ val'[root].keys = val[root].keys /\ val'[root].kids = val[root].kids
         /\ IsObject => \A k \in Keys : Offering(k)' = Offering(k)
         /\ IsObject => \A k \in Keys : \A i \in Offering(k) : Offer(k, i)' = Offer(k, i)
<1>1. /\ root' = root /\ Len(val') = Len(val)
      /\ \A i \in 1..Len(val) :
           /\ Like(val'[i], val[i]) /\ val'[i].kids = val[i].kids
           /\ val'[i].keys = val[i].keys /\ val'[i].room = val[i].room
  BY FreeingKeeps
<1>2. val'[root].type = val[root].type /\ val'[root].kids = val[root].kids /\ val'[root].keys = val[root].keys
  BY <1>1 DEF Like
<1>3. ASSUME IsObject, NEW k \in Keys, NEW i \in 1..Len(val[root].keys)
      PROVE  Offer(k, i)' = Offer(k, i)
  <2>1. PICK j : j = val[root].kids[i]
    OBVIOUS
  <2>2. j \in 1..Len(val)
    BY <1>3, <2>1 DEF JsonInv, KidsKnown
  <2>3. val'[j].type = val[j].type /\ val'[j].lit = val[j].lit /\ val'[j].room = val[j].room
    BY <1>1, <2>2 DEF Like
  <2> QED
    BY <1>1, <1>2, <2>1, <2>3 DEF Offer, AsString
<1>4. ASSUME IsObject, NEW k \in Keys PROVE Offering(k)' = Offering(k)
  BY <1>1, <1>2, <1>3, <1>4 DEF Offering, Unset
<1>5. IsObject' <=> IsObject
  BY <1>1, <1>2 DEF IsObject
<1>6. ASSUME IsObject, NEW k \in Keys, NEW i \in Offering(k) PROVE Offer(k, i)' = Offer(k, i)
  BY <1>3, <1>6 DEF Offering
<1> QED
  BY <1>1, <1>2, <1>4, <1>5, <1>6

(* The end of process_value: all members are heard. *)
LEMMA MembersHeard ==
  ASSUME StartupInv, ProcessValueEnds
  PROVE  /\ root \in 1..Len(val) /\ UNCHANGED <<conf, cmd, val, root>>
         /\ IsObject => Len(val[root].keys) = Len(val[root].kids)
         /\ \A k \in Keys : FirstOf(k, IF IsObject THEN Offering(k) ELSE {})
<1>1. /\ main = "members" /\ UNCHANGED <<conf, cmd, val, root>>
      /\ IsObject => member > val[root].length
  BY DEF ProcessValueEnds, JsonValueFree, confVars
<1>2. /\ JsonInv /\ parser = "value" /\ root \in 1..Len(val) /\ member \in Nat
      /\ \A k \in Keys : FirstOf(k, Told(k, member))
  BY <1>1 DEF StartupInv, Placed, Heard
<1>3. Shape(val) /\ Built
  BY <1>2 DEF JsonInv, Stages
<1>4. ASSUME IsObject
      PROVE  /\ Len(val[root].keys) = Len(val[root].kids)
             /\ Len(val[root].keys) = val[root].length /\ val[root].length \in Nat
  <2>1. val[root] \in Values
    BY <1>2, <1>3 DEF Shape
  <2> QED
    BY <1>2, <1>3, <1>4, <2>1, Fields DEF Built, IsObject, Containers
<1>5. ASSUME IsObject, NEW k \in Keys PROVE Told(k, member) = Offering(k)
  <2>1. \A i \in 1..Len(val[root].keys) : i < member
    BY <1>1, <1>2, <1>4, <1>5
  <2> QED
    BY <1>5, <2>1 DEF Told, Offering
<1>6. ASSUME ~IsObject, NEW k \in Keys PROVE Told(k, member) = {}
  BY <1>6 DEF Told
<1> QED
  BY <1>1, <1>2, <1>4, <1>5, <1>6

(* What was heard first stays so while the file says the same. *)
LEMMA FirstOfStays ==
  ASSUME NEW k, NEW S, FirstOf(k, S), UNCHANGED <<conf, cmd>>,
         \A i \in S : Offer(k, i)' = Offer(k, i)
  PROVE  FirstOf(k, S)'
BY DEF FirstOf, Unset

(* The invariant holds at the start ... *)
LEMMA StartupInvInit ==
  ASSUME Init
  PROVE  StartupInv
<1>1. JsonInv
  BY JsonInvInit DEF Init
<1>2. ConfTyped
  <2>1. \A k \in Keys : Unset(k) \in Settings /\ Unset(k) \in Setting(k)
    BY DEF Unset, Settings, Setting
  <2>2. conf = [k \in Keys |-> Unset(k)] /\ cmd = conf
    BY DEF Init
  <2> QED
    BY <2>1, <2>2 DEF ConfTyped
<1>3. Placed
  BY StartupAssumption DEF Init, JsonInit, Placed
<1>4. Heard
  BY DEF Init, Heard, ConfigIsFirstOffer
<1> QED
  BY <1>1, <1>2, <1>3, <1>4 DEF StartupInv

(* A step that leaves the file and the configuration alone. *)
LEMMA HeardStays ==
  ASSUME UNCHANGED <<jsonVars, conf, cmd>>
  PROVE  /\ \A k, S : FirstOf(k, S)' <=> FirstOf(k, S)
         /\ \A k, m : Told(k, m)' = Told(k, m)
         /\ (IsObject' <=> IsObject) /\ \A k : Offering(k)' = Offering(k)
         /\ ConfTyped => ConfTyped'
<1>1. UNCHANGED <<val, root, parser, conf, cmd>>
  BY DEF jsonVars
<1>2. \A k, i : Offer(k, i)' = Offer(k, i)
  BY <1>1 DEF Offer, AsString
<1>3. (IsObject' <=> IsObject) /\ \A k : Offering(k)' = Offering(k)
  BY <1>1, <1>2 DEF Offering, IsObject, Unset
<1>4. \A k, S : FirstOf(k, S)' <=> FirstOf(k, S)
  BY <1>1, <1>2 DEF FirstOf, Unset
<1>5. \A k, m : Told(k, m)' = Told(k, m)
  BY <1>1, <1>3 DEF Told
<1>6. ConfTyped => ConfTyped'
  BY <1>1 DEF ConfTyped
<1> QED
  BY <1>3, <1>4, <1>5, <1>6

(* ... and no step breaks it. *)
LEMMA StartupInvKept ==
  ASSUME StartupInv, [Next]_vars
  PROVE  StartupInv'
<1>1. JsonInv /\ ConfTyped /\ Placed /\ Heard
  BY DEF StartupInv
<1>2. JsonInv'
  BY <1>1, JsonKept
<1>3. CASE LoggerCreate
  <2>1. /\ main = "logger" /\ main' = "cmd"
        /\ UNCHANGED <<jsonVars, conf, cmd, options, member>>
    BY <1>3 DEF LoggerCreate, confVars
  <2>2. ConfTyped'
    BY <1>1, <2>1, HeardStays
  <2>3. Placed'
    BY <1>1, <2>1 DEF Placed, jsonVars
  <2>4. Heard'
    BY <2>1 DEF Heard, ConfigIsFirstOffer
  <2> QED
    BY <1>2, <2>2, <2>3, <2>4 DEF StartupInv
<1>4. ASSUME NEW k \in Keys, CmdOption(k) PROVE StartupInv'
  <2>1. PICK x \in (IF k \in NumKeys THEN CmdNums ELSE CmdStrs) : conf' = [conf EXCEPT ![k] = x]
    BY <1>4 DEF CmdOption
  <2>2. /\ main = "cmd" /\ options < MaxOptions /\ options' = options + 1
        /\ UNCHANGED <<jsonVars, main, member, cmd>>
    BY <1>4 DEF CmdOption
  <2>3. x \in Setting(k) /\ x \in Settings
    BY StartupAssumption DEF Setting, Settings
  <2>4. ConfTyped'
    BY <1>1, <2>1, <2>2, <2>3 DEF ConfTyped
  <2>5. Placed'
    BY <1>1, <2>2, StartupAssumption DEF Placed, jsonVars
  <2>6. Heard'
    BY <2>2 DEF Heard, ConfigIsFirstOffer
  <2> QED
    BY <1>2, <2>4, <2>5, <2>6 DEF StartupInv
<1>5. CASE CmdOptionsEnd
  <2>1. /\ main = "cmd" /\ main' = "file" /\ cmd' = conf /\ options' = 0
        /\ UNCHANGED <<jsonVars, conf, member>>
    BY <1>5 DEF CmdOptionsEnd
  <2>2. ConfTyped'
    BY <1>1, <2>1 DEF ConfTyped
  <2>3. Placed'
    BY <1>1, <2>1, StartupAssumption DEF Placed, jsonVars
  <2>4. Heard'
    BY <2>1 DEF Heard, ConfigIsFirstOffer
  <2> QED
    BY <1>2, <2>2, <2>3, <2>4 DEF StartupInv
<1>6. CASE FileRead \/ Parsing
  <2>1. /\ main \in {"file", "json"} /\ main' = "json"
        /\ UNCHANGED <<conf, cmd, options, member>>
    BY <1>6 DEF FileRead, Parsing, confVars
  <2>2. ConfTyped'
    BY <1>1, <2>1 DEF ConfTyped
  <2>3. Placed'
    BY <1>1, <2>1 DEF Placed
  <2>4. Heard'
    BY <1>1, <2>1 DEF Heard, ConfigIsFirstOffer
  <2> QED
    BY <1>2, <2>2, <2>3, <2>4 DEF StartupInv
<1>7. CASE FileUnread \/ ParseFails
  <2>1. /\ main \in {"file", "json"} /\ main' = "services" /\ parser # "freed"
        /\ UNCHANGED <<jsonVars, conf, cmd, options, member>>
    BY <1>1, <1>7 DEF FileUnread, ParseFails, Placed, confVars
  <2>2. ConfTyped'
    BY <1>1, <2>1, HeardStays
  <2>3. Placed'
    BY <1>1, <2>1 DEF Placed
  <2>4. Heard'
    BY <1>1, <2>1 DEF Heard, ConfigIsFirstOffer, jsonVars
  <2> QED
    BY <1>2, <2>2, <2>3, <2>4 DEF StartupInv
<1>8. CASE ParseReturns
  <2>1. /\ main = "json" /\ parser = "value" /\ main' = "members"
        /\ UNCHANGED <<jsonVars, conf, cmd, options, member>>
    BY <1>8 DEF ParseReturns, confVars
  <2>2. ConfTyped'
    BY <1>1, <2>1, HeardStays
  <2>3. root \in 1..Len(val) /\ val[root].length \in Nat
    <3>1. Shape(val) /\ Built
      BY <1>1, <2>1 DEF JsonInv, Stages
    <3>2. root \in 1..Len(val) /\ val[root] \in Values
      BY <3>1 DEF Built, Shape
    <3> QED
      BY <3>2, Fields
  <2>4. Placed'
    <3>1. UNCHANGED <<val, root, parser>> /\ member = 1 /\ member <= val[root].length + 1
      BY <1>1, <2>1, <2>3 DEF Placed, jsonVars
    <3> QED
      BY <1>1, <2>1, <2>3, <3>1 DEF Placed
  <2>5. Heard'
    <3>1. member = 1 /\ conf = cmd
      BY <1>1, <2>1 DEF Placed, Heard
    <3>2. ASSUME NEW k \in Keys PROVE FirstOf(k, Told(k, member))'
      <4>1. Told(k, 1) = {}
        BY DEF Told, Offering
      <4>2. member' = 1 /\ Told(k, 1)' = {} /\ conf' = cmd'
        BY <2>1, <3>1, <4>1, HeardStays
      <4> QED
        BY <4>2 DEF FirstOf
    <3> QED
      BY <2>1, <3>2 DEF Heard, ConfigIsFirstOffer
  <2> QED
    BY <1>2, <2>2, <2>4, <2>5 DEF StartupInv
<1>9. CASE ProcessMember
  <2>1. /\ main = "members" /\ member <= val[root].length /\ member' = member + 1
        /\ UNCHANGED <<jsonVars, main, options, cmd>>
    BY <1>9 DEF ProcessMember, InMembers
  <2>2. ConfTyped' /\ \A k \in Keys : FirstOf(k, Told(k, member))'
    BY <1>9, MemberHeard
  <2>3. Placed'
    <3>1. UNCHANGED <<val, root, parser>> /\ member \in Nat /\ val[root].length \in Nat
      <4>1. Shape(val) /\ root \in 1..Len(val)
        BY <1>1, <2>1 DEF JsonInv, Placed
      <4>2. val[root] \in Values
        BY <4>1 DEF Shape
      <4> QED
        BY <1>1, <2>1, <4>2, Fields DEF Placed, jsonVars
    <3>2. member' \in Nat \ {0} /\ member' <= val'[root'].length + 1
      BY <2>1, <3>1
    <3> QED
      BY <1>1, <2>1, <3>1, <3>2 DEF Placed
  <2>4. Heard'
    BY <2>1, <2>2 DEF Heard, ConfigIsFirstOffer
  <2> QED
    BY <1>2, <2>2, <2>3, <2>4 DEF StartupInv
<1>10. CASE ProcessValueEnds
  <2>1. /\ main = "members" /\ main' = "free" /\ parser' = "release"
        /\ UNCHANGED <<conf, cmd, options, member>>
    BY <1>10 DEF ProcessValueEnds, JsonValueFree, confVars
  <2>2. /\ root \in 1..Len(val) /\ UNCHANGED <<val, root>>
        /\ IsObject => Len(val[root].keys) = Len(val[root].kids)
        /\ \A k \in Keys : FirstOf(k, IF IsObject THEN Offering(k) ELSE {})
    BY <1>10, MembersHeard
  <2>3. ConfTyped'
    BY <1>1, <2>1 DEF ConfTyped
  <2>4. Placed'
    BY <1>1, <2>1, <2>2 DEF Placed, IsObject
  <2>5. Heard'
    <3>1. \A k, i : Offer(k, i)' = Offer(k, i)
      BY <2>2 DEF Offer, AsString
    <3>2. (IsObject' <=> IsObject) /\ \A k : Offering(k)' = Offering(k)
      BY <2>2, <3>1 DEF Offering, IsObject, Unset
    <3>3. ASSUME NEW k \in Keys PROVE FirstOf(k, IF IsObject THEN Offering(k) ELSE {})'
      BY <2>1, <2>2, <3>1, <3>2 DEF FirstOf, Unset
    <3> QED
      BY <2>1, <3>3 DEF Heard, ConfigIsFirstOffer
  <2> QED
    BY <1>2, <2>3, <2>4, <2>5 DEF StartupInv
<1>11. CASE Releasing
  <2>1. /\ main = "free" /\ main' = main /\ FreeStep
        /\ UNCHANGED <<conf, cmd, options, member>>
    BY <1>11 DEF Releasing, confVars
  <2>2. /\ root \in 1..Len(val)
        /\ IsObject => Len(val[root].keys) = Len(val[root].kids)
        /\ parser \in {"release", "freed"}
    BY <1>1, <2>1 DEF Placed
  <2>3. /\ root' = root /\ Len(val') = Len(val) /\ (IsObject' <=> IsObject)
        /\ val'[root].keys = val[root].keys /\ val'[root].kids = val[root].kids
        /\ IsObject => \A k \in Keys : Offering(k)' = Offering(k)
        /\ IsObject => \A k \in Keys : \A i \in Offering(k) : Offer(k, i)' = Offer(k, i)
    BY <1>1, <2>1, <2>2, OffersStay
  <2>4. parser' \in {"release", "freed"}
    <3>1. parser = "release"
      BY <2>1, <2>2 DEF FreeStep, FreeDescend, FreeValue, FreeEnds, Freeing
    <3>2. ~oom /\ oom' = oom
      BY <1>1, <2>1, <3>1 DEF JsonInv, Stages, Freeing, FreeStep, FreeDescend, FreeValue, FreeEnds
    <3>3. parser' # "crashed"
      BY <1>2, <3>2 DEF JsonInv, Stages
    <3> QED
      BY <2>1, <3>1, <3>3 DEF FreeStep, FreeDescend, FreeValue, FreeEnds
  <2>5. ConfTyped'
    BY <1>1, <2>1 DEF ConfTyped
  <2>6. Placed'
    BY <1>1, <2>1, <2>2, <2>3, <2>4 DEF Placed
  <2>7. Heard'
    <3>1. ASSUME NEW k \in Keys PROVE FirstOf(k, IF IsObject THEN Offering(k) ELSE {})'
      <4>1. PICK S : S = IF IsObject THEN Offering(k) ELSE {}
        OBVIOUS
      <4>2. FirstOf(k, S)
        BY <1>1, <2>1, <4>1 DEF Heard
      <4>3. \A i \in S : Offer(k, i)' = Offer(k, i)
        BY <2>3, <4>1
      <4>4. FirstOf(k, S)'
        BY <2>1, <4>2, <4>3, FirstOfStays
      <4>5. (IF IsObject THEN Offering(k) ELSE {})' = S
        BY <2>3, <4>1
      <4> QED
        BY <4>4, <4>5 DEF FirstOf
    <3> QED
      BY <2>1, <3>1 DEF Heard, ConfigIsFirstOffer
  <2> QED
    BY <1>2, <2>5, <2>6, <2>7 DEF StartupInv
<1>12. CASE Released
  <2>1. /\ main = "free" /\ main' = "services" /\ parser = "freed"
        /\ UNCHANGED <<jsonVars, conf, cmd, options, member>>
    BY <1>12 DEF Released, confVars
  <2>2. ConfTyped'
    BY <1>1, <2>1, HeardStays
  <2>3. Placed'
    BY <1>1, <2>1 DEF Placed
  <2>4. ASSUME NEW k \in Keys
        PROVE  IF cmd[k] = Unset(k) /\ parser = "freed" /\ IsObject /\ Offering(k) # {}
               THEN \E i \in Offering(k) : conf[k] = Offer(k, i) /\ \A j \in Offering(k) : i <= j
               ELSE conf[k] = cmd[k]
    <3>1. FirstOf(k, IF IsObject THEN Offering(k) ELSE {})
      BY <1>1, <2>1 DEF Heard
    <3>2. CASE IsObject
      <4>1. FirstOf(k, Offering(k))
        BY <3>1, <3>2
      <4> QED
        BY <2>1, <3>2, <4>1 DEF FirstOf
    <3>3. CASE ~IsObject
      <4>1. FirstOf(k, {})
        BY <3>1, <3>3
      <4> QED
        BY <3>3, <4>1 DEF FirstOf
    <3> QED
      BY <3>2, <3>3
  <2>5. Heard'
    <3>1. UNCHANGED <<val, root, parser, conf, cmd>>
      BY <2>1 DEF jsonVars
    <3>2. (\A k, i : Offer(k, i)' = Offer(k, i)) /\ (\A k : Offering(k)' = Offering(k))
      BY <3>1 DEF Offer, AsString, Offering, Unset
    <3>3. ConfigIsFirstOffer'
      BY <2>4, <3>1, <3>2 DEF ConfigIsFirstOffer, IsObject, Unset
    <3> QED
      BY <2>1, <3>3 DEF Heard
  <2> QED
    BY <1>2, <2>2, <2>3, <2>5 DEF StartupInv
<1>13. CASE StartServices \/ StartFails \/ ParserCrashes \/ ProcessMemberCrashes
  <2>1. /\ main' \in {"up", "exited", "crashed"} /\ (main' = "up" => main = "services")
        /\ UNCHANGED <<jsonVars, conf, cmd, options, member>>
    BY <1>13 DEF StartServices, StartFails, ParserCrashes, ProcessMemberCrashes, confVars
  <2>2. ConfTyped'
    BY <1>1, <2>1, HeardStays
  <2>3. Placed'
    BY <1>1, <2>1 DEF Placed
  <2>4. Heard'
    <3>1. UNCHANGED <<val, root, parser, conf, cmd>>
      BY <2>1 DEF jsonVars
    <3>2. (\A k, i : Offer(k, i)' = Offer(k, i)) /\ (\A k : Offering(k)' = Offering(k))
      BY <3>1 DEF Offer, AsString, Offering, Unset
    <3>3. ConfigIsFirstOffer'
      BY <1>1, <2>1, <3>1, <3>2 DEF ConfigIsFirstOffer, IsObject, Unset, Heard
    <3> QED
      BY <2>1, <3>3 DEF Heard
  <2> QED
    BY <1>2, <2>2, <2>3, <2>4 DEF StartupInv
<1>14. CASE UNCHANGED vars
  <2>1. UNCHANGED <<jsonVars, main, conf, cmd, options, member>>
    BY <1>14 DEF vars, confVars
  <2>2. UNCHANGED <<val, root, parser, main, conf, cmd, options, member>>
    BY <2>1 DEF jsonVars
  <2>3. ConfTyped' /\ Placed'
    BY <1>1, <2>2 DEF ConfTyped, Placed, IsObject
  <2>4. (\A k, i : Offer(k, i)' = Offer(k, i)) /\ (\A k : Offering(k)' = Offering(k))
        /\ (IsObject' <=> IsObject)
    BY <2>2 DEF Offer, AsString, Offering, Unset, IsObject
  <2>5. \A k, S : FirstOf(k, S)' <=> FirstOf(k, S)
    BY <2>1, HeardStays
  <2>6. \A k, m : Told(k, m)' = Told(k, m)
    BY <2>1, HeardStays
  <2>7. ConfigIsFirstOffer'
    BY <1>1, <2>2, <2>4 DEF ConfigIsFirstOffer, Unset, Heard
  <2>8. ASSUME main = "members", NEW k \in Keys PROVE FirstOf(k, Told(k, member))'
    <3>1. PICK S : S = Told(k, member)
      OBVIOUS
    <3>2. FirstOf(k, S) /\ Told(k, member)' = S
      BY <1>1, <2>2, <2>6, <2>8, <3>1 DEF Heard
    <3>3. FirstOf(k, S)'
      BY <2>5, <3>2
    <3> QED
      BY <3>2, <3>3 DEF FirstOf
  <2>9. ASSUME main = "free", NEW k \in Keys
        PROVE  FirstOf(k, IF IsObject THEN Offering(k) ELSE {})'
    <3>1. PICK S : S = IF IsObject THEN Offering(k) ELSE {}
      OBVIOUS
    <3>2. FirstOf(k, S) /\ (IF IsObject THEN Offering(k) ELSE {})' = S
      BY <1>1, <2>4, <2>9, <3>1 DEF Heard
    <3>3. FirstOf(k, S)'
      BY <2>5, <3>2
    <3> QED
      BY <3>2, <3>3 DEF FirstOf
  <2>10. Heard'
    BY <1>1, <2>2, <2>7, <2>8, <2>9 DEF Heard
  <2> QED
    BY <1>2, <2>3, <2>10 DEF StartupInv
<1> QED
  BY <1>3, <1>4, <1>5, <1>6, <1>7, <1>8, <1>9, <1>10, <1>11, <1>12, <1>13, <1>14 DEF Next, Stop

(* The inductive invariant of Startup: the parser's, the types of the      *)
(* configuration, where the parser stands at each step, and what has been  *)
(* heard so far.                                                           *)
THEOREM StartupAlways == Spec => []StartupInv
<1>1. Init => StartupInv
  BY StartupInvInit
<1>2. StartupInv /\ [Next]_vars => StartupInv'
  BY StartupInvKept
<1> QED
  BY <1>1, <1>2, PTL DEF Spec

(* Every reachable state is well typed, for any options and any text: the  *)
(* loop over the members never leaves the object, and no configuration     *)
(* holds what is neither a number nor a string read.                       *)
THEOREM StartupTypeCorrect == Spec => []TypeOK
<1>1. StartupInv => TypeOK
  <2> SUFFICES ASSUME StartupInv PROVE TypeOK
    OBVIOUS
  <2>1. JsonInv /\ ConfTyped /\ Placed
    BY DEF StartupInv
  <2>2. JsonTypeOK
    BY <2>1, JsonInvTypes
  <2>3. \A c \in {conf, cmd} : \A k \in Keys :
          c[k] \in IF k \in NumKeys THEN Nat ELSE Strings \cup CmdStrs \cup {NoStr, Garbage}
    BY <2>1 DEF ConfTyped, Setting
  <2> QED
    BY <2>1, <2>2, <2>3 DEF TypeOK, Placed
<1> QED
  BY <1>1, StartupAlways, PTL

(* The command line wins over the file and the first member that says      *)
(* something wins over the later ones, for any options and any text.       *)
THEOREM FirstOfferWins == Spec => []ConfigIsFirstOffer
<1>1. StartupInv => ConfigIsFirstOffer
  BY DEF StartupInv, Heard
<1> QED
  BY <1>1, StartupAlways, PTL

-----------------------------------------------------------------------------
(***************************************************************************)
(* The scan of a string, one turn at a time.                               *)
(***************************************************************************)

Reads == [to : Nat, bytes : Seq(Int)]

(* Four digits are a number, if they are digits, of sixteen bits. *)
LEMMA HexFits ==
  ASSUME NEW t, NEW x, NEW p \in Nat
  PROVE  Hex4(t, x, p) = -1 \/ (Hex4(t, x, p) \in Nat /\ Hex4(t, x, p) <= 65535)
<1> DEFINE d == [i \in 0..3 |-> HexValue(Byte(t, x, p + i))]
<1>1. \A i \in 0..3 : d[i] # NoHex => d[i] \in 0..15
  <2>1. \A b : HexValue(b) # NoHex => HexValue(b) \in 0..15
    BY SMT DEF HexValue, NoHex, DigitBytes
  <2> QED
    BY <2>1, SMT
<1>2. Hex4(t, x, p) = IF \E i \in 0..3 : d[i] = NoHex THEN -1
                      ELSE 4096 * d[0] + 256 * d[1] + 16 * d[2] + d[3]
  <2>1. \A i \in 0..3 : d[i] = HexValue(Byte(t, x, p + i))
    BY SMT
  <2>2. 0 \in 0..3 /\ 1 \in 0..3 /\ 2 \in 0..3 /\ 3 \in 0..3
    BY SMT
  <2> HIDE DEF d
  <2> QED
    BY <2>1, <2>2, SMT DEF Hex4
<1> HIDE DEF d
<1>3. CASE \A i \in 0..3 : d[i] # NoHex
  <2> DEFINE a == d[0]
             b == d[1]
             c == d[2]
             e == d[3]
  <2>1. a \in 0..15 /\ b \in 0..15 /\ c \in 0..15 /\ e \in 0..15
    BY <1>1, <1>3, SMT
  <2>2. Hex4(t, x, p) = 4096 * a + 256 * b + 16 * c + e
    BY <1>2, <1>3, SMT
  <2> HIDE DEF a, b, c, e
  <2> QED
    BY <2>1, <2>2, SMT
<1>4. CASE \E i \in 0..3 : d[i] = NoHex
  BY <1>2, <1>4, SMT
<1> QED
  BY <1>3, <1>4, SMT

(* The bytes of a code point are numbers. *)
LEMMA Utf8Fits ==
  ASSUME NEW u \in Nat
  PROVE  Utf8(u) \in Seq(Int)
BY SMT DEF Utf8

(* The character that two halves make is a number.                         *)
LEMMA PairFits ==
  ASSUME NEW u \in Nat, NEW v \in Nat
  PROVE  Pair(u, v) \in Nat
BY SMT DEF Pair

(* A turn that does not fail moves on, and not far past the end.           *)
LEMMA OneMoves ==
  ASSUME NEW t \in Seq(Int), NEW x, NEW q \in 1..Len(t), One(t, x, q) # Failed
  PROVE  One(t, x, q) \in Reads /\ One(t, x, q).to \in q..Len(t) + 1
<1>1. Len(t) \in Nat /\ t[q] \in Int
  BY SMT
<1>2. CASE t[q] # Backslash
  BY <1>1, <1>2, SMT DEF One, Taken, Reads
<1>3. CASE t[q] = Backslash
  <2>1. One(t, x, q) = Escape(t, x, q + 1) /\ Escape(t, x, q + 1) # Failed
    BY <1>3, SMT DEF One
  <2>2. q + 1 \in 1..Len(t) /\ t[q + 1] \in Int
    <3>1. Left(t, q + 1) # 0
      BY <2>1, SMT DEF Escape
    <3> QED
      BY <1>1, <3>1, SMT DEF Left
  <2>3. CASE t[q + 1] = LetterU
    <3> DEFINE p == q + 1
               u == Hex4(t, x, p + 1)
               v == Hex4(t, x, p + 7)
    <3>1. Escape(t, x, p) = Unicode(t, x, p) /\ Unicode(t, x, p) # Failed
      BY <2>1, <2>3, SMT DEF Escape
    <3>2. (u = -1 \/ u \in Nat) /\ (v = -1 \/ v \in Nat) /\ p \in Nat
      BY HexFits, <1>1, SMT
    <3>3. u # -1 /\ ~(Left(t, p) < 4)
      BY <3>1, SMT DEF Unicode
    <3>4. p + 3 <= Len(t)
      BY <1>1, <3>2, <3>3, SMT DEF Left
    <3>5. CASE ~IsSurrogate(u)
      <4>1. Unicode(t, x, p) = Taken(p + 4, Utf8(u))
        BY <3>3, <3>5, SMT DEF Unicode
      <4>2. Utf8(u) \in Seq(Int)
        BY <3>2, <3>3, Utf8Fits, SMT
      <4> QED
        BY <1>1, <2>1, <3>1, <3>4, <4>1, <4>2, SMTT(60) DEF Taken, Reads
    <3>6. CASE IsSurrogate(u)
      <4>1. v # -1 /\ ~(Left(t, p + 4) < 6)
        BY <3>1, <3>3, <3>6, SMT DEF Unicode
      <4>2. Unicode(t, x, p) = Taken(p + 10, Utf8(Pair(u, v)))
        BY <3>1, <3>3, <3>6, SMT DEF Unicode
      <4>3. p + 9 <= Len(t)
        BY <1>1, <3>2, <4>1, SMT DEF Left
      <4>4. Utf8(Pair(u, v)) \in Seq(Int)
        <5>1. u \in Nat /\ v \in Nat
          BY <3>2, <3>3, <4>1, SMT
        <5> HIDE DEF u, v
        <5>2. Pair(u, v) \in Nat
          BY <5>1, PairFits
        <5> QED
          BY <5>2, Utf8Fits
      <4> QED
        BY <1>1, <2>1, <3>1, <4>2, <4>3, <4>4, SMTT(60) DEF Taken, Reads
    <3> QED
      BY <3>5, <3>6, SMT
  <2>4. CASE t[q + 1] # LetterU
    <3>1. PICK b \in Int : Escape(t, x, q + 1) = Taken(q + 1, <<b>>)
      <4>1. t[q + 1] \in DOMAIN Controls => Controls[t[q + 1]] \in Int
        BY DEF Controls
      <4>2. ~(Left(t, q + 1) = 0 \/ t[q + 1] = 0)
        BY <2>1, SMT DEF Escape
      <4> QED
        BY <2>2, <2>4, <4>1, <4>2, Zenon DEF Escape
    <3> QED
      <4>1. One(t, x, q) = Taken(q + 1, <<b>>)
        BY <2>1, <3>1
      <4>2. <<b>> \in Seq(Int) /\ q + 1 \in Nat /\ q + 1 \in q..Len(t) + 1
        BY <1>1, <2>2
      <4> QED
        BY <4>1, <4>2 DEF Taken, Reads
  <2> QED
    BY <2>3, <2>4, SMT
<1> QED
  BY <1>2, <1>3, SMT

(* What StringAt makes of the text at q, of what it makes of a later place.  *)
Turn(t, x, q, rest) ==
  IF t[q] = 0 THEN Failed
  ELSE IF t[q] = Quote THEN Taken(q, <<>>)
  ELSE IF One(t, x, q) = Failed THEN Failed
  ELSE Before(One(t, x, q).bytes, rest)
LaterPlace(t, x, q) == IF One(t, x, q) = Failed THEN q + 1 ELSE One(t, x, q).to + 1

(* The definition of the scan, unfolded: each place is a turn on a later   *)
(* one, the place behind the text fails, and a place past that has missed  *)
(* the end.                                                                *)
LEMMA StringSteps ==
  ASSUME NEW t \in Seq(Int), NEW x
  PROVE  /\ \A q \in 1..Len(t) :
              StringAt(t, x, q) = Turn(t, x, q, StringAt(t, x, LaterPlace(t, x, q)))
         /\ StringAt(t, x, Len(t) + 1) = Failed
         /\ StringAt(t, x, Len(t) + 2) = Taken(Len(t) + 2, <<>>)
<1> DEFINE L == Len(t)
           N == Len(t) + 12
           V == Reads
           base == [i \in 1..N |-> IF i = L + 1 THEN Failed ELSE Taken(i, <<>>)]
           next == [i \in 1..N |-> IF i <= L THEN LaterPlace(t, x, i) ELSE 1]
           step == [i \in 1..N |-> [v \in V |-> IF i <= L THEN Turn(t, x, i, v) ELSE v]]
<1>1. N \in Nat /\ L \in 0..N /\ L \in Nat
  OBVIOUS
<1>2. ASSUME NEW i \in 1..L PROVE LaterPlace(t, x, i) \in i + 1..L + 2
  <2>1. One(t, x, i) # Failed => One(t, x, i).to \in i..L + 1
    BY OneMoves
  <2> HIDE DEF L
  <2> QED
    BY <1>1, <2>1 DEF LaterPlace
<1>3. Failed \in V /\ \A q \in Nat : Taken(q, <<>>) \in V
  BY DEF Failed, Taken, Reads
<1>4. ASSUME NEW i \in 1..L, NEW v \in V PROVE Turn(t, x, i, v) \in V
  <2>1. One(t, x, i) # Failed => One(t, x, i).bytes \in Seq(Int)
    BY OneMoves DEF Reads
  <2>2. \A b \in Seq(Int) : Before(b, v) \in V
    <3> TAKE b \in Seq(Int)
    <3>1. v.to \in Nat /\ v.bytes \in Seq(Int)
      BY DEF Reads
    <3>2. b \o v.bytes \in Seq(Int)
      BY <3>1
    <3> QED
      BY <1>3, <3>1, <3>2 DEF Before, Taken, Reads
  <2>3. i \in Nat
    BY <1>1
  <2> HIDE DEF V
  <2> QED
    BY <1>3, <2>1, <2>2, <2>3, Zenon DEF Turn
<1>5. Steps(V, N, L, base, next, step)
  <2>1. base \in [1..N -> V]
    <3>1. \A i \in 1..N : i \in Nat
      OBVIOUS
    <3> HIDE DEF N, L, V
    <3> QED
      BY <1>3, <3>1
  <2>2. next \in [1..N -> Nat] /\ \A i \in 1..L : i < next[i] /\ next[i] <= N
    <3>1. \A i \in 1..L : LaterPlace(t, x, i) \in Nat /\ LaterPlace(t, x, i) > i
                            /\ LaterPlace(t, x, i) <= N
      BY <1>1, <1>2
    <3>2. \A i \in 1..L : i \in 1..N /\ i <= L
      BY <1>1
    <3>3. \A i \in 1..N : i <= L => i \in 1..L
      BY <1>1
    <3> HIDE DEF N, L
    <3> QED
      BY <3>1, <3>2, <3>3
  <2>3. step \in [1..N -> [V -> V]]
    <3>1. \A i \in 1..N : i <= L => i \in 1..L
      BY <1>1
    <3> HIDE DEF N, L, V
    <3> QED
      BY <1>4, <3>1
  <2> HIDE DEF N, L, V, base, next, step
  <2> QED
    BY <2>1, <2>2, <2>3 DEF Steps
<1>6. PICK f \in [1..N -> V] : Solves(f, N, L, base, next, step)
  <2> HIDE DEF N, L, V, base, next, step
  <2> QED
    BY <1>1, <1>5, Recursion
<1>7. \A i \in 1..L : f[i] = Turn(t, x, i, f[LaterPlace(t, x, i)])
  <2> TAKE i \in 1..L
  <2>1. i \in 1..N /\ ~(i > L) /\ i <= L /\ LaterPlace(t, x, i) \in 1..N
    BY <1>1, <1>2
  <2>2. f[i] = IF i > L THEN base[i] ELSE step[i][f[next[i]]]
    BY <1>6, <2>1 DEF Solves
  <2>3. next[i] = LaterPlace(t, x, i)
    BY <2>1
  <2>4. f[LaterPlace(t, x, i)] \in V
    BY <2>1
  <2> HIDE DEF N, L, V, base, next
  <2> QED
    BY <2>1, <2>2, <2>3, <2>4
<1>8. \A i \in 1..N : i > L => f[i] = IF i = L + 1 THEN Failed ELSE Taken(i, <<>>)
  <2> HIDE DEF N, L, V, next, step
  <2> QED
    BY <1>6 DEF Solves
<1> DEFINE body(h, q) ==
             IF q > Len(t) + 1 THEN Taken(q, <<>>)
             ELSE IF q = Len(t) + 1 \/ t[q] = 0 THEN Failed
             ELSE IF t[q] = Quote THEN Taken(q, <<>>)
             ELSE IF One(t, x, q) = Failed THEN Failed
             ELSE Before(One(t, x, q).bytes, h[One(t, x, q).to + 1])
           from[q \in 1..Len(t) + 12] ==
             IF q > Len(t) + 1 THEN Taken(q, <<>>)
             ELSE IF q = Len(t) + 1 \/ t[q] = 0 THEN Failed
             ELSE IF t[q] = Quote THEN Taken(q, <<>>)
             ELSE IF One(t, x, q) = Failed THEN Failed
             ELSE Before(One(t, x, q).bytes, from[One(t, x, q).to + 1])
           eq(h) == h = [q \in 1..N |-> body(h, q)]
<1>9. \A h : \A q \in 1..N :
        body(h, q) = IF q <= L THEN Turn(t, x, q, h[LaterPlace(t, x, q)])
                     ELSE IF q = L + 1 THEN Failed ELSE Taken(q, <<>>)
  <2> TAKE h
  <2> TAKE q \in 1..N
  <2>1. CASE q <= L
    <3>1. ~(q > Len(t) + 1) /\ q # Len(t) + 1
      BY <1>1, <2>1
    <3> QED
      BY <2>1, <3>1, Zenon DEF Turn, LaterPlace
  <2>2. CASE q = L + 1
    <3>1. ~(q > Len(t) + 1) /\ ~(q <= L)
      BY <1>1, <2>2
    <3> QED
      BY <2>2, <3>1, Zenon
  <2>3. CASE q > L + 1
    <3>1. ~(q <= L) /\ q # L + 1
      BY <1>1, <2>3
    <3> QED
      BY <2>3, <3>1, Zenon
  <2> QED
    BY <1>1, <2>1, <2>2, <2>3
<1>10. eq(f)
  <2>1. \A q \in 1..N : f[q] = body(f, q)
    <3> TAKE q \in 1..N
    <3>1. q <= L => q \in 1..L
      BY <1>1
    <3>2. q <= L \/ q > L
      BY <1>1
    <3> HIDE DEF body, N, L, V
    <3> QED
      BY <1>7, <1>8, <1>9, <3>1, <3>2
  <2> HIDE DEF body, N, V
  <2> QED
    BY <2>1
<1>11. eq(from)
  <2>1. eq(f)
    BY <1>10
  <2> QED
    BY <2>1, Zenon
<1>12. \A q : StringAt(t, x, q) = from[q]
  BY DEF StringAt
<1>13. \A q \in 1..N : from[q] = body(from, q)
  <2> HIDE DEF from, body, N
  <2> QED
    BY <1>11
<1> HIDE DEF from, body
<1>14. ASSUME NEW q \in 1..Len(t)
       PROVE  StringAt(t, x, q) = Turn(t, x, q, StringAt(t, x, LaterPlace(t, x, q)))
  <2>1. q \in 1..N /\ q <= L
    BY <1>1
  <2> HIDE DEF N, L
  <2> QED
    BY <1>9, <1>12, <1>13, <2>1
<1>15. L + 1 \in 1..N /\ ~(L + 1 <= L) /\ L + 2 \in 1..N /\ ~(L + 2 <= L) /\ L + 2 # L + 1
  BY <1>1
<1> HIDE DEF N, L
<1>16. StringAt(t, x, L + 1) = Failed
  BY <1>9, <1>12, <1>13, <1>15
<1>17. StringAt(t, x, L + 2) = Taken(L + 2, <<>>)
  BY <1>9, <1>12, <1>13, <1>15
<1> QED
  BY <1>14, <1>16, <1>17 DEF L

(***************************************************************************)
(* The digits of an escape, and the bytes of UTF-8, are those of the       *)
(* definitions.                                                            *)
(***************************************************************************)

(* A hexadecimal digit, in letters of either case, is read as what it is.  *)
LEMMA DigitRead ==
  ASSUME NEW d \in 0..15, NEW ten \in {65, 97}
  PROVE  HexValue(HexDigit(d, ten)) = d /\ HexValue(HexDigit(d, ten)) # NoHex
BY SMT DEF HexDigit, HexValue, DigitBytes, NoHex

(* A number of sixteen bits is made of its four hexadecimal digits.        *)
LEMMA FourDigits ==
  ASSUME NEW u \in Nat, u <= 65535
  PROVE  /\ u = 4096 * (u \div 4096) + 256 * ((u \div 256) % 16) + 16 * ((u \div 16) % 16) + (u % 16)
         /\ u \div 4096 \in 0..15 /\ (u \div 256) % 16 \in 0..15
         /\ (u \div 16) % 16 \in 0..15 /\ u % 16 \in 0..15
BY SMT

(* The halves of a character beyond sixteen bits are surrogates, and are   *)
(* joined to that character again, unless bit 6 of the first is set        *)
(* (json.c:331).                                                           *)
LEMMA PairJoins ==
  ASSUME NEW u \in Nat, u >= 65536, u <= 1114111, ~Misjoined(u)
  PROVE  /\ HighHalf(u) \in Nat /\ HighHalf(u) <= 65535 /\ IsSurrogate(HighHalf(u))
         /\ LowHalf(u) \in Nat /\ LowHalf(u) <= 65535
         /\ Pair(HighHalf(u), LowHalf(u)) = u
BY SMT DEF HighHalf, LowHalf, IsSurrogate, Pair, Misjoined

(* A tuple of two, three or four, as the function it is.                   *)
LEMMA Tuples ==
  ASSUME NEW a, NEW b, NEW c, NEW d
  PROVE  /\ <<a, b>> = [i \in 1..2 |-> IF i = 1 THEN a ELSE b]
         /\ <<a, b, c>> = [i \in 1..3 |-> IF i = 1 THEN a ELSE IF i = 2 THEN b ELSE c]
         /\ <<a, b, c, d>> = [i \in 1..4 |-> IF i = 1 THEN a ELSE IF i = 2 THEN b
                                             ELSE IF i = 3 THEN c ELSE d]
OBVIOUS

(* The parser encodes a character as UTF-8 defines it (json.c:335-374).    *)
LEMMA Utf8Agrees ==
  ASSUME NEW u \in Nat
  PROVE  Utf8(u) = InUtf8(u)
<1>1. CASE u <= 127
  BY <1>1, SMT DEF Utf8, InUtf8, Utf8Length
<1>2. CASE u >= 128 /\ u <= 2047
  <2> DEFINE a == 192 + (u \div 64)
             b == 128 + (u % 64)
  <2>1. Utf8Length(u) = 2
    BY <1>2, SMT DEF Utf8Length
  <2>2. Utf8(u) = <<a, b>>
    BY <1>2, SMT DEF Utf8
  <2>3. InUtf8(u) = [i \in 1..2 |-> IF i = 1 THEN a ELSE b]
    BY <2>1, SMT DEF InUtf8
  <2> QED
    BY <2>2, <2>3, Tuples, SMT
<1>3. CASE u >= 2048 /\ u <= 65535
  <2> DEFINE a == 224 + (u \div 4096)
             b == 128 + ((u \div 64) % 64)
             c == 128 + (u % 64)
  <2>1. Utf8Length(u) = 3
    BY <1>3, SMT DEF Utf8Length
  <2>2. Utf8(u) = <<a, b, c>>
    BY <1>3, SMT DEF Utf8
  <2>3. InUtf8(u) = [i \in 1..3 |-> IF i = 1 THEN a ELSE IF i = 2 THEN b ELSE c]
    BY <2>1, SMT DEF InUtf8
  <2> QED
    BY <2>2, <2>3, Tuples, SMT
<1>4. CASE u >= 65536
  <2> DEFINE a == 240 + (u \div 262144)
             b == 128 + ((u \div 4096) % 64)
             c == 128 + ((u \div 64) % 64)
             d == 128 + (u % 64)
  <2>1. Utf8Length(u) = 4
    BY <1>4, SMT DEF Utf8Length
  <2>2. Utf8(u) = <<a, b, c, d>>
    BY <1>4, SMT DEF Utf8
  <2>3. InUtf8(u) = [i \in 1..4 |-> IF i = 1 THEN a ELSE IF i = 2 THEN b ELSE IF i = 3 THEN c ELSE d]
    BY <2>1, SMT DEF InUtf8
  <2> QED
    BY <2>2, <2>3, Tuples, SMT
<1> QED
  BY <1>1, <1>2, <1>3, <1>4, SMT

(* A character that needs no escape has bytes that end no string and begin *)
(* no escape.                                                              *)
LEMMA Utf8Plain ==
  ASSUME NEW u \in Nat, u >= 32, u # Quote, u # Backslash
  PROVE  /\ InUtf8(u) \in Seq(Int) /\ Len(InUtf8(u)) \in 1..4
         /\ \A i \in 1..Len(InUtf8(u)) : InUtf8(u)[i] \notin {0, Quote, Backslash}
<1>1. Utf8(u) \in Seq(Int) /\ Len(Utf8(u)) \in 1..4
  BY SMT DEF Utf8
<1>2. \A i \in 1..Len(Utf8(u)) : Utf8(u)[i] \notin {0, Quote, Backslash}
  BY SMT DEF Utf8, Quote, Backslash
<1> QED
  BY <1>1, <1>2, Utf8Agrees

-----------------------------------------------------------------------------
(***************************************************************************)
(* One character of a string.                                              *)
(***************************************************************************)

(* The text t has s behind its first p bytes. *)
Lies(t, p, s) == \A j \in 1..Len(s) : p + j \in 1..Len(t) /\ t[p + j] = s[j]

(* The places of two sequences of bytes in the one they make together. *)
LEMMA BytesJoined ==
  ASSUME NEW a \in Seq(Int), NEW b \in Seq(Int)
  PROVE  /\ Len(a \o b) = Len(a) + Len(b) /\ \A j \in 1..Len(a) : (a \o b)[j] = a[j]
         /\ \A j \in 1..Len(b) : (a \o b)[Len(a) + j] = b[j]
<1>1. Len(a \o b) = Len(a) + Len(b)
  BY Joined
<1>2. \A j \in 1..Len(a) : (a \o b)[j] = a[j]
  BY Joined
<1>3. \A j \in 1..Len(b) : (a \o b)[Len(a) + j] = b[j]
  BY Joined
<1> QED
  BY <1>1, <1>2, <1>3

(* Bytes put before a scan, twice, are put before it together.             *)
LEMMA BeforeJoins ==
  ASSUME NEW a \in Seq(Int), NEW b \in Seq(Int), NEW r \in Reads
  PROVE  /\ Before(b, r) \in Reads /\ Before(<<>>, r) = r
         /\ Before(a, Before(b, r)) = Before(a \o b, r)
<1>1. r.to \in Nat /\ r.bytes \in Seq(Int) /\ r = [to |-> r.to, bytes |-> r.bytes]
  BY DEF Reads
<1>2. CASE r = Failed
  <2>1. Failed \in Reads
    BY <1>2
  <2> QED
    BY <1>2, <2>1 DEF Before
<1>3. CASE r # Failed
  <2>1. Before(b, r) = Taken(r.to, b \o r.bytes) /\ Before(a \o b, r) = Taken(r.to, (a \o b) \o r.bytes)
        /\ Before(<<>>, r) = Taken(r.to, <<>> \o r.bytes)
    BY <1>3 DEF Before
  <2>2. b \o r.bytes \in Seq(Int) /\ <<>> \o r.bytes = r.bytes
    BY <1>1
  <2>3. Taken(r.to, b \o r.bytes) # Failed
    <3>1. SUFFICES ASSUME r.to = 0, b \o r.bytes = <<>> PROVE FALSE
      BY <2>2, Zenon DEF Taken, Failed
    <3>2. r.bytes = <<>>
      BY <1>1, <3>1
    <3> QED
      BY <1>1, <1>3, <3>1, <3>2 DEF Failed
  <2>4. Before(a, Before(b, r)) = Taken(r.to, a \o (b \o r.bytes))
    BY <2>1, <2>3 DEF Before, Taken
  <2>5. a \o (b \o r.bytes) = (a \o b) \o r.bytes
    BY <1>1, SMTT(60)
  <2>6. Before(<<>>, r) = r
    BY <1>1, <2>1, <2>2 DEF Taken
  <2>7. Before(b, r) \in Reads
    BY <1>1, <2>1, <2>2 DEF Taken, Reads
  <2> QED
    BY <2>1, <2>4, <2>5, <2>6, <2>7
<1> QED
  BY <1>2, <1>3

(* A byte that is neither the quote nor a backslash is taken as it is. *)
LEMMA PlainTurn ==
  ASSUME NEW t \in Seq(Int), NEW x, NEW q \in 1..Len(t), t[q] \notin {0, Quote, Backslash}
  PROVE  StringAt(t, x, q) = Before(<<t[q]>>, StringAt(t, x, q + 1))
<1>1. One(t, x, q) = Taken(q, <<t[q]>>)
  BY DEF One
<1>2. Taken(q, <<t[q]>>) # Failed /\ Taken(q, <<t[q]>>).to = q /\ Taken(q, <<t[q]>>).bytes = <<t[q]>>
  BY DEF Taken, Failed
<1>3. StringAt(t, x, q) = Turn(t, x, q, StringAt(t, x, LaterPlace(t, x, q)))
  BY StringSteps
<1>4. LaterPlace(t, x, q) = q + 1
  BY <1>1, <1>2 DEF LaterPlace
<1> QED
  BY <1>1, <1>2, <1>3, <1>4 DEF Turn

(* An escape is taken as what Escape makes of it. *)
LEMMA EscapeTurn ==
  ASSUME NEW t \in Seq(Int), NEW x, NEW q \in 1..Len(t), t[q] = Backslash,
         NEW e \in Nat, e > 0, NEW b, Escape(t, x, q + 1) = Taken(e, b)
  PROVE  StringAt(t, x, q) = Before(b, StringAt(t, x, e + 1))
<1>1. One(t, x, q) = Taken(e, b)
  BY DEF One
<1>2. Taken(e, b) # Failed /\ Taken(e, b).to = e /\ Taken(e, b).bytes = b
  BY DEF Taken, Failed
<1>3. StringAt(t, x, q) = Turn(t, x, q, StringAt(t, x, LaterPlace(t, x, q)))
  BY StringSteps
<1>4. LaterPlace(t, x, q) = e + 1
  BY <1>1, <1>2 DEF LaterPlace
<1>5. Backslash # 0 /\ Backslash # Quote
  BY SMT DEF Backslash, Quote
<1> QED
  BY <1>1, <1>2, <1>3, <1>4, <1>5 DEF Turn

(* An escape that fails fails the string. *)
LEMMA EscapeFails ==
  ASSUME NEW t \in Seq(Int), NEW x, NEW q \in 1..Len(t), t[q] = Backslash,
         Escape(t, x, q + 1) = Failed
  PROVE  StringAt(t, x, q) = Failed
<1>1. One(t, x, q) = Failed
  BY DEF One
<1>2. StringAt(t, x, q) = Turn(t, x, q, StringAt(t, x, LaterPlace(t, x, q)))
  BY StringSteps
<1>3. Backslash # 0 /\ Backslash # Quote
  BY SMT DEF Backslash, Quote
<1> QED
  BY <1>1, <1>2, <1>3 DEF Turn

(* Some such bytes in a row. *)
LEMMA PlainRun ==
  ASSUME NEW t \in Seq(Int), NEW x, NEW p \in Nat, NEW s \in Seq(Int), Lies(t, p, s),
         \A i \in 1..Len(s) : s[i] \notin {0, Quote, Backslash},
         NEW r \in Reads, StringAt(t, x, p + Len(s) + 1) = r
  PROVE  StringAt(t, x, p + 1) = Before(s, r)
<1> DEFINE n == Len(s)
           I == {k \in 0..n : StringAt(t, x, p + (n - k) + 1) = Before(SubSeq(s, n - k + 1, n), r)}
<1>1. n \in Nat
  OBVIOUS
<1>2. 0 \in I
  <2>1. n - 0 = n /\ SubSeq(s, n + 1, n) = <<>> /\ 0 \in 0..n
    OBVIOUS
  <2>2. Before(<<>>, r) = r
    BY BeforeJoins
  <2> QED
    BY <2>1, <2>2
<1>3. ASSUME NEW k \in 1..n, k - 1 \in I PROVE k \in I
  <2> DEFINE m == n - k + 1
             rest == SubSeq(s, m + 1, n)
  <2>1. m \in 1..n /\ n - k = m - 1 /\ n - (k - 1) = m /\ k \in 0..n /\ p + (m - 1) + 1 = p + m
    BY <1>1
  <2>2. StringAt(t, x, p + m + 1) = Before(rest, r)
    BY <1>3, <2>1
  <2>3. p + m \in 1..Len(t) /\ t[p + m] = s[m] /\ s[m] \notin {0, Quote, Backslash}
    BY <2>1 DEF Lies
  <2>4. StringAt(t, x, p + m) = Before(<<s[m]>>, StringAt(t, x, p + m + 1))
    BY <2>3, PlainTurn
  <2>5. rest \in Seq(Int) /\ <<s[m]>> \in Seq(Int) /\ SubSeq(s, m, n) = <<s[m]>> \o rest
    BY <1>1, <2>1, SMTT(60)
  <2> HIDE DEF m, rest
  <2>6. Before(<<s[m]>>, Before(rest, r)) = Before(<<s[m]>> \o rest, r)
    BY <2>5, BeforeJoins
  <2>7. StringAt(t, x, p + (n - k) + 1) = Before(SubSeq(s, n - k + 1, n), r)
    <3>1. n - k + 1 = m /\ p + (n - k) + 1 = p + m
      BY <2>1 DEF m
    <3> QED
      BY <2>2, <2>4, <2>5, <2>6, <3>1
  <2> QED
    BY <2>1, <2>7
<1> HIDE DEF I
<1>4. n \in I
  <2>1. \A k \in 0..n : k \in I
    BY <1>1, <1>2, <1>3, Induction
  <2> QED
    BY <1>1, <2>1
<1>5. n - n = 0 /\ p + 0 + 1 = p + 1 /\ SubSeq(s, 0 + 1, n) = s
  BY <1>1
<1> QED
  BY <1>4, <1>5 DEF I

(* Four digits of an escape that lies in the text. *)
FourHex(u) == u \in Nat /\ u <= 65535

(* An escape that lies in the text is read as its four digits.             *)
LEMMA EscapeRead ==
  ASSUME NEW t \in Seq(Int), NEW x, NEW p \in Nat, NEW u, FourHex(u),
         NEW ten \in Tens, Lies(t, p, InHex(u, ten))
  PROVE  /\ t[p + 1] = Backslash /\ t[p + 2] = LetterU /\ p + 6 <= Len(t)
         /\ Hex4(t, x, p + 3) = u
<1> DEFINE a == u \div 4096
           b == (u \div 256) % 16
           c == (u \div 16) % 16
           d == u % 16
           s == <<Backslash, LetterU, HexDigit(a, ten), HexDigit(b, ten), HexDigit(c, ten),
                  HexDigit(d, ten)>>
<1>1. InHex(u, ten) = s
  BY DEF InHex
<1>2. a \in 0..15 /\ b \in 0..15 /\ c \in 0..15 /\ d \in 0..15 /\ u = 4096 * a + 256 * b + 16 * c + d
  <2>1. u \in Nat /\ u <= 65535
    BY DEF FourHex
  <2> QED
    BY <2>1, FourDigits, SMT
<1> HIDE DEF a, b, c, d
<1>3. Len(s) = 6 /\ s[1] = Backslash /\ s[2] = LetterU /\ s[3] = HexDigit(a, ten)
      /\ s[4] = HexDigit(b, ten) /\ s[5] = HexDigit(c, ten) /\ s[6] = HexDigit(d, ten)
  OBVIOUS
<1> HIDE DEF s
<1>4. \A j \in 1..6 : p + j \in 1..Len(t) /\ t[p + j] = s[j]
  <2>1. \A j \in 1..Len(s) : p + j \in 1..Len(t) /\ t[p + j] = s[j]
    BY <1>1, Zenon DEF Lies
  <2> QED
    BY <1>3, <2>1
<1>5. t[p + 1] = Backslash /\ t[p + 2] = LetterU /\ p + 6 <= Len(t)
  BY <1>3, <1>4
<1>6. /\ Byte(t, x, p + 3 + 0) = HexDigit(a, ten) /\ Byte(t, x, p + 3 + 1) = HexDigit(b, ten)
      /\ Byte(t, x, p + 3 + 2) = HexDigit(c, ten) /\ Byte(t, x, p + 3 + 3) = HexDigit(d, ten)
  <2>1. p + 3 + 0 = p + 3 /\ p + 3 + 1 = p + 4 /\ p + 3 + 2 = p + 5 /\ p + 3 + 3 = p + 6
    OBVIOUS
  <2>2. p + 3 <= Len(t) /\ p + 4 <= Len(t) /\ p + 5 <= Len(t) /\ p + 6 <= Len(t)
    BY <1>5
  <2>3. t[p + 3] = s[3] /\ t[p + 4] = s[4] /\ t[p + 5] = s[5] /\ t[p + 6] = s[6]
    BY <1>4
  <2> QED
    BY <1>3, <2>1, <2>2, <2>3 DEF Byte
<1> DEFINE e == [i \in 0..3 |-> HexValue(Byte(t, x, p + 3 + i))]
<1>7. e[0] = a /\ e[1] = b /\ e[2] = c /\ e[3] = d
      /\ \A i \in 0..3 : e[i] # NoHex
  <2>1. e[0] = HexValue(HexDigit(a, ten)) /\ e[1] = HexValue(HexDigit(b, ten))
        /\ e[2] = HexValue(HexDigit(c, ten)) /\ e[3] = HexValue(HexDigit(d, ten))
    BY <1>6
  <2> HIDE DEF e
  <2>2. /\ e[0] = a /\ e[0] # NoHex /\ e[1] = b /\ e[1] # NoHex
        /\ e[2] = c /\ e[2] # NoHex /\ e[3] = d /\ e[3] # NoHex
    <3>1. \A i \in 0..15 : HexValue(HexDigit(i, ten)) = i /\ HexValue(HexDigit(i, ten)) # NoHex
      <4>1. ten \in {65, 97}
        BY DEF Tens
      <4>2. ASSUME NEW i \in 0..15
            PROVE  HexValue(HexDigit(i, ten)) = i /\ HexValue(HexDigit(i, ten)) # NoHex
        BY <4>1, DigitRead, ZenonT(60)
      <4> QED
        BY <4>2, Zenon
    <3> DEFINE Digit == 0..15
    <3>2. a \in Digit /\ b \in Digit /\ c \in Digit /\ d \in Digit
      BY <1>2
    <3>3. \A i \in Digit : HexValue(HexDigit(i, ten)) = i /\ HexValue(HexDigit(i, ten)) # NoHex
      BY <3>1
    <3> HIDE DEF Digit
    <3> QED
      BY <2>1, <3>2, <3>3, Zenon
  <2>3. \A i \in 0..3 : i = 0 \/ i = 1 \/ i = 2 \/ i = 3
    OBVIOUS
  <2> QED
    BY <2>2, <2>3
<1>8. Hex4(t, x, p + 3) = IF \E i \in 0..3 : e[i] = NoHex THEN -1
                          ELSE 4096 * e[0] + 256 * e[1] + 16 * e[2] + e[3]
  <2>1. \A i \in 0..3 : e[i] = HexValue(Byte(t, x, p + 3 + i))
    OBVIOUS
  <2>2. 0 \in 0..3 /\ 1 \in 0..3 /\ 2 \in 0..3 /\ 3 \in 0..3
    OBVIOUS
  <2> HIDE DEF e
  <2> QED
    BY <2>1, <2>2, SMT DEF Hex4
<1> HIDE DEF e
<1>9. Hex4(t, x, p + 3) = u
  BY <1>2, <1>7, <1>8, SMT
<1> QED
  BY <1>5, <1>9

(* A character that is written as one escape or as two. *)
LEMMA UnicodeIsRead ==
  ASSUME NEW t \in Seq(Int), NEW x, NEW p \in Nat, NEW u \in Nat, IsCodePoint(u), Narrow(u),
         NEW ten \in Tens, Lies(t, p, InHex(u, ten))
  PROVE  StringAt(t, x, p + 1) = Before(InUtf8(u), StringAt(t, x, p + 7))
<1>1. t[p + 1] = Backslash /\ t[p + 2] = LetterU /\ p + 6 <= Len(t) /\ Hex4(t, x, p + 3) = u
  <2>1. FourHex(u)
    BY SMT DEF FourHex, Narrow
  <2> QED
    BY <2>1, EscapeRead, Zenon
<1>2. Len(t) \in Nat /\ p + 1 \in 1..Len(t) /\ p + 1 + 1 = p + 2 /\ p + 2 + 1 = p + 3
      /\ p + 6 + 1 = p + 7 /\ p + 2 + 4 = p + 6 /\ p + 6 \in Nat /\ p + 6 > 0
  BY <1>1
<1>3. Left(t, p + 2) # 0 /\ ~(Left(t, p + 2) < 4)
  BY <1>1, <1>2 DEF Left
<1>4. ~IsSurrogate(u)
  BY SMT DEF IsCodePoint, IsSurrogate
<1>5. u # -1 /\ LetterU # 0
  BY SMT DEF LetterU
<1>6. Escape(t, x, p + 2) = Unicode(t, x, p + 2)
  BY <1>1, <1>3, <1>5 DEF Escape
<1>7. Unicode(t, x, p + 2) = Taken(p + 6, InUtf8(u))
  BY <1>1, <1>2, <1>3, <1>4, <1>5, Utf8Agrees DEF Unicode
<1> QED
  BY <1>1, <1>2, <1>6, <1>7, EscapeTurn

(* A character that is written as two escapes is read as that character,   *)
(* and the scan goes on behind them.                                       *)
LEMMA PairIsRead ==
  ASSUME NEW t \in Seq(Int), NEW x, NEW p \in Nat, NEW u \in Nat, IsCodePoint(u), ~Narrow(u),
         ~Misjoined(u), NEW ten \in Tens,
         Lies(t, p, InHex(HighHalf(u), ten)), Lies(t, p + 6, InHex(LowHalf(u), ten))
  PROVE  StringAt(t, x, p + 1) = Before(InUtf8(u), StringAt(t, x, p + 13))
<1> DEFINE h == HighHalf(u)
           l == LowHalf(u)
<1>1. FourHex(h) /\ h \in Nat /\ IsSurrogate(h) /\ FourHex(l) /\ l \in Nat /\ Pair(h, l) = u
  <2>1. u <= 1114111 /\ u >= 65536
    BY SMT DEF IsCodePoint, Narrow
  <2> QED
    BY <2>1, PairJoins, SMT DEF FourHex
<1> HIDE DEF h, l
<1>2. t[p + 1] = Backslash /\ t[p + 2] = LetterU /\ p + 6 <= Len(t) /\ Hex4(t, x, p + 3) = h
  BY <1>1, EscapeRead, Zenon DEF h
<1>3. t[p + 6 + 1] = Backslash /\ t[p + 6 + 2] = LetterU /\ p + 6 + 6 <= Len(t)
      /\ Hex4(t, x, p + 6 + 3) = l
  <2>1. p + 6 \in Nat
    OBVIOUS
  <2> QED
    BY <1>1, <2>1, EscapeRead, Zenon DEF l
<1>4. Len(t) \in Nat /\ p + 1 \in 1..Len(t) /\ p + 1 + 1 = p + 2 /\ p + 2 + 1 = p + 3
      /\ p + 12 + 1 = p + 13 /\ p + 2 + 10 = p + 12 /\ p + 12 \in Nat /\ p + 12 > 0
      /\ p + 2 + 7 = p + 6 + 3 /\ p + 2 + 5 = p + 6 + 1 /\ p + 2 + 6 = p + 6 + 2
  BY <1>3
<1>5. Left(t, p + 2) # 0 /\ ~(Left(t, p + 2) < 4) /\ ~(Left(t, p + 2 + 4) < 6)
  <2>1. p + 12 <= Len(t)
    BY <1>3
  <2> QED
    BY <1>4, <2>1, SMT DEF Left
<1>6. Byte(t, x, p + 6 + 1) = Backslash /\ Byte(t, x, p + 6 + 2) = LetterU
  BY <1>3, <1>4, SMTT(60) DEF Byte
<1>7. h # -1 /\ l # -1 /\ LetterU # 0
  BY <1>1, SMT DEF LetterU
<1>8. Escape(t, x, p + 2) = Unicode(t, x, p + 2)
  BY <1>2, <1>5, <1>7 DEF Escape
<1>9. Unicode(t, x, p + 2) = Taken(p + 12, InUtf8(u))
  BY <1>1, <1>2, <1>3, <1>4, <1>5, <1>6, <1>7, Utf8Agrees DEF Unicode
<1> QED
  BY <1>2, <1>4, <1>8, <1>9, EscapeTurn, SMTT(60)

(* The ways to write a character by a letter of its own. *)
LEMMA ShortIsRead ==
  ASSUME NEW t \in Seq(Int), NEW x, NEW p \in Nat, NEW u, NEW c \in Int,
         Lies(t, p, <<Backslash, c>>),
         (c \in DOMAIN Controls /\ Controls[c] = u) \/ (c = u /\ u \in {Quote, Slash, Backslash})
  PROVE  u \in Nat /\ StringAt(t, x, p + 1) = Before(InUtf8(u), StringAt(t, x, p + 3))
<1>1. p + 2 <= Len(t) /\ t[p + 1] = Backslash /\ t[p + 2] = c
  <2>1. Len(<<Backslash, c>>) = 2 /\ <<Backslash, c>>[1] = Backslash /\ <<Backslash, c>>[2] = c
    OBVIOUS
  <2> DEFINE s == <<Backslash, c>>
  <2> HIDE DEF s
  <2>2. \A j \in 1..2 : p + j \in 1..Len(t) /\ t[p + j] = s[j]
    BY <2>1, Zenon DEF Lies, s
  <2>3. p + 1 \in 1..Len(t) /\ p + 2 \in 1..Len(t) /\ t[p + 1] = s[1] /\ t[p + 2] = s[2]
    BY <2>2
  <2> QED
    BY <2>1, <2>3 DEF s
<1>2. Len(t) \in Nat /\ p + 1 \in 1..Len(t) /\ p + 1 + 1 = p + 2 /\ p + 2 \in Nat /\ p + 2 > 0
      /\ p + 2 + 1 = p + 3
  BY <1>1
<1>3. Left(t, p + 2) # 0
  BY <1>1, <1>2 DEF Left
<1>4. /\ c # 0 /\ c # LetterU /\ u \in Int /\ u \in Nat /\ u <= 127
      /\ u = IF c \in DOMAIN Controls THEN Controls[c] ELSE c
  BY SMTT(60) DEF Controls, LetterU, Quote, Slash, Backslash
<1>5. InUtf8(u) = <<u>>
  <2>1. Utf8(u) = <<u>>
    BY <1>4 DEF Utf8
  <2> QED
    BY <1>4, <2>1, Utf8Agrees
<1>6. Escape(t, x, p + 2) = Taken(p + 2, InUtf8(u))
  BY <1>1, <1>3, <1>4, <1>5, Zenon DEF Escape
<1> HIDE DEF Escape
<1> QED
  BY <1>1, <1>2, <1>4, <1>6, EscapeTurn, SMTT(60)

(* The escape of four digits has six bytes. *)
LEMMA HexSpelled ==
  ASSUME NEW u, FourHex(u), NEW ten \in Tens
  PROVE  InHex(u, ten) \in Seq(Int) /\ Len(InHex(u, ten)) = 6
         /\ InHex(u, ten)[1] = Backslash /\ InHex(u, ten)[2] = LetterU
<1>1. \A d \in 0..15 : HexDigit(d, ten) \in Int
  BY SMT DEF HexDigit, Tens
<1>2. u \div 4096 \in 0..15 /\ (u \div 256) % 16 \in 0..15 /\ (u \div 16) % 16 \in 0..15 /\ u % 16 \in 0..15
  BY FourDigits, SMT DEF FourHex
<1>3. Backslash \in Int /\ LetterU \in Int
  BY SMT DEF Backslash, LetterU
<1> DEFINE a == HexDigit(u \div 4096, ten)
           b == HexDigit((u \div 256) % 16, ten)
           c == HexDigit((u \div 16) % 16, ten)
           d == HexDigit(u % 16, ten)
<1>4. InHex(u, ten) = <<Backslash, LetterU, a, b, c, d>>
  BY DEF InHex
<1>5. a \in Int /\ b \in Int /\ c \in Int /\ d \in Int
  BY <1>1, <1>2, SMT
<1> HIDE DEF a, b, c, d
<1> QED
  BY <1>3, <1>4, <1>5

(* The ways to write a character, one by one. *)
Short(u, c) == (c \in DOMAIN Controls /\ Controls[c] = u) \/ (c = u /\ u \in {Quote, Slash, Backslash})
Itself(u) == u >= 32 /\ u # Quote /\ u # Backslash

(* A way to write a character is one escape, two, its own bytes, or a      *)
(* letter or a mark behind a backslash.                                    *)
LEMMA WaysAre ==
  ASSUME NEW u \in Nat, IsCodePoint(u), NEW s \in Ways(u)
  PROVE  \/ Narrow(u) /\ FourHex(u) /\ \E ten \in Tens : s = InHex(u, ten)
         \/ ~Narrow(u) /\ \E ten \in Tens : s = InHex(HighHalf(u), ten) \o InHex(LowHalf(u), ten)
         \/ Itself(u) /\ s = InUtf8(u)
         \/ \E c \in Int : s = <<Backslash, c>> /\ Short(u, c)
<1>1. Narrow(u) => FourHex(u)
  BY SMT DEF Narrow, FourHex
<1>2. \A c \in DOMAIN Controls : c \in Int
  BY SMT DEF Controls
<1>3. ~(u < 32 \/ u \in {Quote, Backslash}) => Itself(u)
  BY SMT DEF Itself, Quote, Backslash
<1> DEFINE hex == {IF Narrow(u) THEN InHex(u, ten)
                   ELSE InHex(HighHalf(u), ten) \o InHex(LowHalf(u), ten) : ten \in Tens}
           plain == IF u < 32 \/ u \in {Quote, Backslash} THEN {} ELSE {InUtf8(u)}
           letters == {<<Backslash, c>> : c \in {d \in DOMAIN Controls : Controls[d] = u}}
           marks == IF u \in {Quote, Slash, Backslash} THEN {<<Backslash, u>>} ELSE {}
<1>4. s \in hex \cup plain \cup letters \cup marks
  BY Zenon DEF Ways
<1>5. CASE s \in hex
  BY <1>1, <1>5, Zenon
<1>6. CASE s \in plain
  BY <1>3, <1>6, Zenon
<1>7. CASE s \in letters
  BY <1>2, <1>7, Zenon DEF Short
<1>8. CASE s \in marks
  <2>1. u \in Int
    OBVIOUS
  <2> QED
    BY <1>8, <2>1, Zenon DEF Short
<1> QED
  BY <1>4, <1>5, <1>6, <1>7, <1>8, Zenon

(* Every way to write a character is read as the character in UTF-8. *)
LEMMA CharIsRead ==
  ASSUME NEW u \in Nat, IsCodePoint(u), ~Misjoined(u), NEW s \in Ways(u),
         NEW t \in Seq(Int), NEW x, NEW p \in Nat, Lies(t, p, s)
  PROVE  \A r \in Reads : StringAt(t, x, p + Len(s) + 1) = r => StringAt(t, x, p + 1) = Before(InUtf8(u), r)
<1> SUFFICES ASSUME NEW r \in Reads, StringAt(t, x, p + Len(s) + 1) = r
             PROVE  StringAt(t, x, p + 1) = Before(InUtf8(u), r)
  OBVIOUS
<1>1. CASE Narrow(u) /\ FourHex(u) /\ \E ten \in Tens : s = InHex(u, ten)
  <2>1. PICK ten \in Tens : s = InHex(u, ten)
    BY <1>1
  <2>2. Len(s) = 6
    BY <1>1, <2>1, HexSpelled, Zenon
  <2>3. p + Len(s) + 1 = p + 7
    BY <2>2
  <2> QED
    BY <1>1, <2>1, <2>3, UnicodeIsRead, ZenonT(60)
<1>2. CASE ~Narrow(u) /\ \E ten \in Tens : s = InHex(HighHalf(u), ten) \o InHex(LowHalf(u), ten)
  <2>1. PICK ten \in Tens : s = InHex(HighHalf(u), ten) \o InHex(LowHalf(u), ten)
    BY <1>2
  <2> DEFINE a == InHex(HighHalf(u), ten)
             b == InHex(LowHalf(u), ten)
  <2>2. FourHex(HighHalf(u)) /\ FourHex(LowHalf(u))
    <3>1. u <= 1114111 /\ u >= 65536
      BY <1>2, SMT DEF IsCodePoint, Narrow
    <3> QED
      BY <3>1, PairJoins, SMT DEF FourHex
  <2>3. a \in Seq(Int) /\ b \in Seq(Int) /\ Len(a) = 6 /\ Len(b) = 6
    BY <2>2, HexSpelled, Zenon
  <2> HIDE DEF a, b
  <2>4. s = a \o b
    BY <2>1 DEF a, b
  <2>5. Len(s) = 12 /\ \A j \in 1..6 : s[j] = a[j] /\ s[6 + j] = b[j]
    <3>1. /\ Len(s) = Len(a) + Len(b) /\ \A j \in 1..Len(a) : s[j] = a[j]
          /\ \A j \in 1..Len(b) : s[Len(a) + j] = b[j]
      <4>1. /\ Len(a \o b) = Len(a) + Len(b) /\ \A j \in 1..Len(a) : (a \o b)[j] = a[j]
            /\ \A j \in 1..Len(b) : (a \o b)[Len(a) + j] = b[j]
        <5>1. a \in Seq(Int) /\ b \in Seq(Int)
          BY <2>3
        <5> QED
          BY <5>1, BytesJoined, Zenon
      <4> QED
        BY <2>4, <4>1, Zenon
    <3>2. Len(s) = 12
      BY <2>3, <3>1
    <3>3. \A j \in 1..6 : s[j] = a[j] /\ s[6 + j] = b[j]
      BY <2>3, <3>1, Zenon
    <3> QED
      BY <3>2, <3>3
  <2>6. \A j \in 1..12 : p + j \in 1..Len(t) /\ t[p + j] = s[j]
    <3>1. \A j \in 1..Len(s) : p + j \in 1..Len(t) /\ t[p + j] = s[j]
      BY Zenon DEF Lies
    <3> QED
      BY <2>5, <3>1
  <2>7. Lies(t, p, a)
    <3>1. \A j \in 1..6 : p + j \in 1..Len(t) /\ t[p + j] = a[j]
      <4> TAKE j \in 1..6
      <4>1. j \in 1..12
        OBVIOUS
      <4> QED
        BY <2>5, <2>6, <4>1
    <3> QED
      BY <2>3, <3>1 DEF Lies
  <2>8. Lies(t, p + 6, b)
    <3>1. \A j \in 1..6 : (p + 6) + j \in 1..Len(t) /\ t[(p + 6) + j] = b[j]
      <4> TAKE j \in 1..6
      <4>1. 6 + j \in 1..12 /\ p + (6 + j) = (p + 6) + j
        OBVIOUS
      <4> QED
        BY <2>5, <2>6, <4>1
    <3> QED
      BY <2>3, <3>1 DEF Lies
  <2>9. p + Len(s) + 1 = p + 13
    BY <2>5
  <2> QED
    BY <1>2, <2>7, <2>8, <2>9, PairIsRead, ZenonT(60) DEF a, b
<1>3. CASE Itself(u) /\ s = InUtf8(u)
  <2>1. s \in Seq(Int) /\ \A i \in 1..Len(s) : s[i] \notin {0, Quote, Backslash}
    BY <1>3, Utf8Plain DEF Itself
  <2>2. StringAt(t, x, p + 1) = Before(s, r)
    BY <2>1, PlainRun
  <2> QED
    BY <1>3, <2>2
<1>4. CASE \E c \in Int : s = <<Backslash, c>> /\ Short(u, c)
  <2>1. PICK c \in Int : s = <<Backslash, c>> /\ Short(u, c)
    BY <1>4
  <2>2. p + Len(s) + 1 = p + 3
    BY <2>1
  <2>3. StringAt(t, x, p + 1) = Before(InUtf8(u), StringAt(t, x, p + 3))
    BY <2>1, ShortIsRead, Zenon DEF Short
  <2> QED
    BY <2>2, <2>3
<1> QED
  BY <1>1, <1>2, <1>3, <1>4, WaysAre, Zenon

(* What lies behind a place of a sequence: the part there, and the rest. *)
LEMMA PartAndRest ==
  ASSUME NEW s \in Seq(Int), NEW a \in Nat, NEW e \in Seq(Int), a + Len(e) <= Len(s),
         \A j \in 1..Len(e) : s[a + j] = e[j]
  PROVE  SubSeq(s, a + 1, Len(s)) = e \o SubSeq(s, a + Len(e) + 1, Len(s))
<1> DEFINE l == SubSeq(s, a + 1, Len(s))
           b == SubSeq(s, a + Len(e) + 1, Len(s))
<1>1. Len(s) \in Nat /\ Len(e) \in Nat
  OBVIOUS
<1>2. l \in Seq(Int) /\ Len(l) = Len(s) - a /\ \A i \in 1..Len(s) - a : l[i] = s[a + i]
  <2>1. \A i \in a + 1..Len(s) : s[i] \in Int
    BY <1>1
  <2> QED
    BY <1>1, <2>1
<1>3. b \in Seq(Int) /\ Len(b) = Len(s) - (a + Len(e))
      /\ \A i \in 1..Len(s) - (a + Len(e)) : b[i] = s[a + Len(e) + i]
  <2>1. \A i \in a + Len(e) + 1..Len(s) : s[i] \in Int
    BY <1>1
  <2> QED
    BY <1>1, <2>1
<1> HIDE DEF l, b
<1>4. /\ e \o b \in Seq(Int) /\ Len(e \o b) = Len(e) + Len(b)
      /\ \A i \in 1..Len(e) : (e \o b)[i] = e[i]
      /\ \A j \in 1..Len(b) : (e \o b)[Len(e) + j] = b[j]
  <2>1. e \in Seq(Int) /\ b \in Seq(Int)
    BY <1>3
  <2> QED
    BY <2>1, Joined
<1>5. Len(e \o b) = Len(l)
  BY <1>1, <1>2, <1>3, <1>4
<1>6. ASSUME NEW i \in 1..Len(l) PROVE (e \o b)[i] = l[i]
  <2>1. l[i] = s[a + i]
    BY <1>1, <1>2
  <2>2. CASE i <= Len(e)
    <3>1. i \in 1..Len(e)
      BY <1>1, <2>2
    <3> QED
      BY <1>4, <2>1, <3>1
  <2>3. CASE i > Len(e)
    <3> DEFINE j == i - Len(e)
    <3>1. j \in 1..Len(b) /\ i = Len(e) + j /\ a + Len(e) + j = a + i
          /\ j \in 1..Len(s) - (a + Len(e))
      BY <1>1, <1>2, <1>3, <2>3
    <3> HIDE DEF j
    <3>2. (e \o b)[Len(e) + j] = b[j] /\ b[j] = s[a + Len(e) + j]
      BY <1>3, <1>4, <3>1
    <3> QED
      BY <2>1, <3>1, <3>2
  <2>4. i <= Len(e) \/ i > Len(e)
    BY <1>1, <1>2
  <2> QED
    BY <2>2, <2>3, <2>4, Zenon
<1>7. e \o b = l
  <2> DEFINE c == e \o b
  <2>1. c \in Seq(Int) /\ Len(c) = Len(l) /\ \A i \in 1..Len(l) : c[i] = l[i]
    BY <1>4, <1>5, <1>6
  <2> HIDE DEF c
  <2>2. c = l
    BY <1>2, <2>1, SeqEqual
  <2> QED
    BY <2>2 DEF c
<1> QED
  BY <1>7 DEF l, b

(* The ways to write a character are bytes, and so is what it means. *)
LEMMA WaysFit ==
  ASSUME NEW u \in Nat, IsCodePoint(u), ~Misjoined(u), NEW s \in Ways(u)
  PROVE  s \in Seq(Int) /\ InUtf8(u) \in Seq(Int)
<1>1. InUtf8(u) \in Seq(Int)
  <2>1. Utf8(u) \in Seq(Int)
    BY Utf8Fits
  <2> QED
    BY <2>1, Utf8Agrees
<1>2. CASE Narrow(u) /\ FourHex(u) /\ \E ten \in Tens : s = InHex(u, ten)
  BY <1>1, <1>2, HexSpelled, Zenon
<1>3. CASE ~Narrow(u) /\ \E ten \in Tens : s = InHex(HighHalf(u), ten) \o InHex(LowHalf(u), ten)
  <2>1. FourHex(HighHalf(u)) /\ FourHex(LowHalf(u))
    <3>1. u <= 1114111 /\ u >= 65536
      BY <1>3, SMT DEF IsCodePoint, Narrow
    <3> QED
      BY <3>1, PairJoins, SMT DEF FourHex
  <2>2. PICK ten \in Tens : s = InHex(HighHalf(u), ten) \o InHex(LowHalf(u), ten)
    BY <1>3
  <2> DEFINE a == InHex(HighHalf(u), ten)
             b == InHex(LowHalf(u), ten)
  <2>3. a \in Seq(Int) /\ b \in Seq(Int)
    BY <2>1, HexSpelled, Zenon
  <2> HIDE DEF a, b
  <2>4. a \o b \in Seq(Int)
    BY <2>3
  <2> QED
    BY <1>1, <2>2, <2>4, Zenon DEF a, b
<1>4. CASE Itself(u) /\ s = InUtf8(u)
  BY <1>1, <1>4
<1>5. CASE \E c \in Int : s = <<Backslash, c>> /\ Short(u, c)
  <2>1. Backslash \in Int
    BY SMT DEF Backslash
  <2> QED
    BY <1>1, <1>5, <2>1
<1> QED
  BY <1>2, <1>3, <1>4, <1>5, WaysAre, Zenon

(* A character of a string and the way it is written.                      *)
LEMMA SpelledFits ==
  ASSUME NEW c \in Spelled
  PROVE  /\ c[1] \in Nat /\ IsCodePoint(c[1]) /\ ~Misjoined(c[1])
         /\ c[2] \in Ways(c[1]) /\ c[2] \in Seq(Int) /\ InUtf8(c[1]) \in Seq(Int)
<1>1. c[1] \in Points /\ c[2] \in Ways(c[1])
  BY DEF Spelled
<1>2. IsCodePoint(c[1]) /\ ~Misjoined(c[1])
  BY <1>1, GrammarAssumption
<1>3. c[1] \in Nat
  BY <1>2, SMT DEF IsCodePoint
<1> QED
  BY <1>1, <1>2, <1>3, WaysFit, Zenon

(* The characters of a string, up to where the scan goes on. *)
LEMMA StringIsRead ==
  ASSUME NEW cs \in Seq(Spelled)
  PROVE  /\ InJson(cs) \in Seq(Int) /\ Meaning(cs) \in Seq(Int)
         /\ \A t \in Seq(Int), x \in Int, p \in Nat, r \in Reads :
              Lies(t, p, InJson(cs)) /\ StringAt(t, x, p + Len(InJson(cs)) + 1) = r =>
                StringAt(t, x, p + 1) = Before(Meaning(cs), r)
<1> DEFINE n == Len(cs)
           ss == [i \in 1..n |-> cs[i][2]]
           ms == [i \in 1..n |-> InUtf8(cs[i][1])]
           J == InJson(cs)
           M == Meaning(cs)
<1>1. n \in Nat /\ DOMAIN cs = 1..n /\ \A i \in 1..n : cs[i] \in Spelled
  OBVIOUS
<1> HIDE DEF n
<1>2. \A i \in 1..n : cs[i][2] \in Seq(Int) /\ InUtf8(cs[i][1]) \in Seq(Int)
  BY <1>1, SpelledFits
<1>3. ss \in Seq(Seq(Int)) /\ ms \in Seq(Seq(Int)) /\ Len(ss) = n /\ Len(ms) = n
  BY <1>1, <1>2
<1>4. J = FlattenSeq(ss) /\ M = FlattenSeq(ms)
  BY <1>1 DEF InJson, Meaning
<1>5. \A i \in 1..n : ss[i] = cs[i][2] /\ ms[i] = InUtf8(cs[i][1])
  OBVIOUS
<1> HIDE DEF ss, ms, J, M
<1>6. J \in Seq(Int) /\ M \in Seq(Int)
  BY <1>3, <1>4, Flattened
<1>7. PICK at : Places(ss, at)
  BY <1>3, Flattened
<1>8. PICK mt : Places(ms, mt)
  BY <1>3, Flattened
<1>9. /\ at \in [0..n -> Nat] /\ at[0] = 0 /\ Len(J) = at[n]
      /\ \A k \in 1..n : /\ at[k] = at[k - 1] + Len(ss[k]) /\ at[k] <= at[n]
                         /\ \A j \in 1..Len(ss[k]) : J[at[k - 1] + j] = ss[k][j]
  BY <1>3, <1>4, <1>7 DEF Places
<1>10. /\ mt \in [0..n -> Nat] /\ mt[0] = 0 /\ Len(M) = mt[n]
       /\ \A k \in 1..n : /\ mt[k] = mt[k - 1] + Len(ms[k]) /\ mt[k] <= mt[n]
                          /\ \A j \in 1..Len(ms[k]) : M[mt[k - 1] + j] = ms[k][j]
  BY <1>3, <1>4, <1>8 DEF Places
<1>11. ASSUME NEW t \in Seq(Int), NEW x \in Int, NEW p \in Nat, NEW r \in Reads,
              Lies(t, p, J), StringAt(t, x, p + Len(J) + 1) = r
       PROVE  StringAt(t, x, p + 1) = Before(M, r)
  <2> DEFINE I == {k \in 0..n :
                     StringAt(t, x, p + at[n - k] + 1) = Before(SubSeq(M, mt[n - k] + 1, Len(M)), r)}
  <2>1. 0 \in I
    <3>1. n - 0 = n /\ mt[n] = Len(M) /\ at[n] = Len(J) /\ 0 \in 0..n
      BY <1>1, <1>9, <1>10
    <3>2. SubSeq(M, Len(M) + 1, Len(M)) = <<>>
      BY <1>6
    <3>3. Before(<<>>, r) = r
      BY BeforeJoins
    <3> QED
      BY <1>11, <3>1, <3>2, <3>3
  <2>2. ASSUME NEW k \in 1..n, k - 1 \in I PROVE k \in I
    <3> DEFINE m == n - k + 1
               u == cs[m][1]
               s == ss[m]
               e == ms[m]
               a == at[m - 1]
               b == mt[m - 1]
               rest == SubSeq(M, mt[m] + 1, Len(M))
    <3>1. m \in 1..n /\ n - k = m - 1 /\ n - (k - 1) = m /\ k \in 0..n /\ m - 1 \in 0..n /\ m \in 0..n
          /\ n \in 0..n
      BY <1>1
    <3> HIDE DEF m
    <3>2. /\ u \in Nat /\ IsCodePoint(u) /\ ~Misjoined(u) /\ s \in Ways(u) /\ s \in Seq(Int)
          /\ e = InUtf8(u) /\ e \in Seq(Int)
      BY <1>1, <1>5, <3>1, SpelledFits
    <3>3. a \in Nat /\ b \in Nat /\ at[m] \in Nat /\ mt[m] \in Nat /\ at[n] \in Nat
      BY <1>9, <1>10, <3>1
    <3>4. at[m] = a + Len(s) /\ at[m] <= Len(J) /\ \A j \in 1..Len(s) : J[a + j] = s[j]
      BY <1>9, <3>1
    <3>5. mt[m] = b + Len(e) /\ mt[m] <= Len(M) /\ \A j \in 1..Len(e) : M[b + j] = e[j]
      BY <1>10, <3>1
    <3>6. StringAt(t, x, p + at[m] + 1) = Before(rest, r)
      BY <2>2, <3>1
    <3> HIDE DEF u, s, e, a, b
    <3>7. Lies(t, p + a, s)
      <4>1. \A i \in 1..Len(J) : p + i \in 1..Len(t) /\ t[p + i] = J[i]
        BY <1>11, Zenon DEF Lies
      <4>2. ASSUME NEW j \in 1..Len(s) PROVE (p + a) + j \in 1..Len(t) /\ t[(p + a) + j] = s[j]
        <5>1. a + j \in 1..Len(J) /\ p + (a + j) = (p + a) + j
          BY <1>6, <3>2, <3>3, <3>4
        <5> QED
          BY <3>4, <4>1, <5>1
      <4> QED
        BY <4>2 DEF Lies
    <3>8. rest \in Seq(Int)
      <4>1. \A i \in 1..Len(M) : M[i] \in Int
        BY <1>6
      <4> QED
        BY <1>6, <3>3, <4>1
    <3> HIDE DEF rest
    <3>9. Before(rest, r) \in Reads
      BY <3>8, BeforeJoins
    <3>10. p + a \in Nat /\ (p + a) + Len(s) + 1 = p + at[m] + 1
      BY <3>2, <3>3, <3>4, SMTT(60)
    <3>11. StringAt(t, x, p + a + 1) = Before(e, Before(rest, r))
      <4>1. StringAt(t, x, (p + a) + Len(s) + 1) = Before(rest, r)
        BY <3>6, <3>10, Zenon
      <4>2. \A q \in Reads : StringAt(t, x, (p + a) + Len(s) + 1) = q =>
              StringAt(t, x, (p + a) + 1) = Before(InUtf8(u), q)
        <5>1. u \in Nat /\ IsCodePoint(u) /\ ~Misjoined(u) /\ s \in Ways(u)
          BY <3>2
        <5>2. p + a \in Nat /\ Lies(t, p + a, s)
          BY <3>7, <3>10
        <5> HIDE DEF Reads
        <5> QED
          BY <5>1, <5>2, CharIsRead
      <4> QED
        BY <3>2, <3>9, <4>1, <4>2, Zenon
    <3>12. Before(e, Before(rest, r)) = Before(e \o rest, r)
      BY <3>2, <3>8, BeforeJoins
    <3>13. SubSeq(M, b + 1, Len(M)) = e \o rest
      <4>1. SubSeq(M, b + 1, Len(M)) = e \o SubSeq(M, b + Len(e) + 1, Len(M))
        <5>1. b + Len(e) <= Len(M)
          BY <3>5
        <5>2. \A j \in 1..Len(e) : M[b + j] = e[j]
          BY <3>5
        <5> QED
          BY <1>6, <3>2, <3>3, <5>1, <5>2, PartAndRest, Zenon
      <4> QED
        BY <3>5, <4>1, Zenon DEF rest
    <3> QED
      BY <3>1, <3>11, <3>12, <3>13, Zenon DEF a, b
  <2> HIDE DEF I
  <2>3. n \in I
    <3>1. \A k \in 0..n : k \in I
      BY <1>1, <2>1, <2>2, Induction
    <3> QED
      BY <1>1, <3>1
  <2>4. n - n = 0 /\ p + 0 + 1 = p + 1 /\ SubSeq(M, 0 + 1, Len(M)) = M
    BY <1>1, <1>6
  <2> QED
    BY <1>9, <1>10, <2>3, <2>4 DEF I
<1> QED
  BY <1>6, <1>11, Zenon DEF J, M

(***************************************************************************)
(* A string that ends at its quote, and one that is cut off.               *)
(***************************************************************************)

(* Where the parts of a text lie that begins with a quote. *)
LEMMA Quoted ==
  ASSUME NEW a \in Seq(Int), NEW b \in Seq(Int), NEW t, t = <<Quote>> \o a \o b
  PROVE  /\ t \in Seq(Int) /\ Len(t) = 1 + Len(a) + Len(b)
         /\ Lies(t, 1, a) /\ Lies(t, 1 + Len(a), b)
<1>1. Quote \in Int
  BY SMT DEF Quote
<1> DEFINE q == <<Quote>>
           c == q \o a
<1>2. q \in Seq(Int) /\ Len(q) = 1
  BY <1>1
<1> HIDE DEF q
<1>3. /\ c \in Seq(Int) /\ Len(c) = 1 + Len(a)
      /\ \A j \in 1..Len(a) : c[1 + j] = a[j]
  <2>1. q \in Seq(Int) /\ a \in Seq(Int)
    BY <1>2
  <2>2. /\ q \o a \in Seq(Int) /\ Len(q \o a) = Len(q) + Len(a)
        /\ \A j \in 1..Len(a) : (q \o a)[Len(q) + j] = a[j]
    BY <2>1, Joined
  <2> QED
    BY <1>2, <2>2, Zenon
<1>4. t = c \o b
  BY DEF q
<1> HIDE DEF c
<1>5. /\ t \in Seq(Int) /\ Len(t) = Len(c) + Len(b)
      /\ \A i \in 1..Len(c) : t[i] = c[i]
      /\ \A j \in 1..Len(b) : t[Len(c) + j] = b[j]
  <2>1. c \in Seq(Int) /\ b \in Seq(Int)
    BY <1>3
  <2>2. /\ c \o b \in Seq(Int) /\ Len(c \o b) = Len(c) + Len(b)
        /\ \A i \in 1..Len(c) : (c \o b)[i] = c[i]
        /\ \A j \in 1..Len(b) : (c \o b)[Len(c) + j] = b[j]
    BY <2>1, Joined
  <2> QED
    BY <1>4, <2>2, Zenon
<1>6. Len(a) \in Nat /\ Len(b) \in Nat
  OBVIOUS
<1>7. ASSUME NEW j \in 1..Len(a) PROVE 1 + j \in 1..Len(t) /\ t[1 + j] = a[j]
  <2>1. 1 + j \in 1..Len(c) /\ 1 + j \in 1..Len(t)
    BY <1>3, <1>5, <1>6, SMTT(60)
  <2> QED
    BY <1>3, <1>5, <2>1
<1>8. ASSUME NEW j \in 1..Len(b) PROVE 1 + Len(a) + j \in 1..Len(t) /\ t[1 + Len(a) + j] = b[j]
  BY <1>3, <1>5, <1>6
<1> QED
  BY <1>3, <1>5, <1>7, <1>8 DEF Lies

(* A whole string is taken up to its quote, as its characters in UTF-8. *)
LEMMA StringsHold ==
  ASSUME NEW cs \in Seq(Spelled), NEW x \in Int
  PROVE  LET t == <<Quote>> \o InJson(cs) \o <<Quote>>
         IN  StringAt(t, x, 2) = Taken(Len(t), Meaning(cs))
<1> DEFINE a == InJson(cs)
           m == Meaning(cs)
           q == <<Quote>>
           t == q \o a \o q
<1>1. a \in Seq(Int) /\ m \in Seq(Int)
  BY StringIsRead
<1>2. Quote \in Int /\ Quote # 0
  BY SMT DEF Quote
<1>3. q \in Seq(Int) /\ Len(q) = 1 /\ q[1] = Quote
  BY <1>2
<1>4. t \in Seq(Int) /\ Len(t) = 1 + Len(a) + Len(q) /\ Lies(t, 1, a) /\ Lies(t, 1 + Len(a), q)
  <2> HIDE DEF a
  <2> QED
    BY <1>1, <1>3, Quoted
<1> HIDE DEF a, m, q, t
<1> DEFINE r == Taken(Len(t), <<>>)
<1>5. Len(t) \in 1..Len(t) /\ t[Len(t)] = Quote /\ 1 + Len(a) + 1 = Len(t) /\ Len(t) \in Nat
  <2>1. Len(a) \in Nat /\ 1 \in 1..Len(q)
    BY <1>1, <1>3
  <2>2. 1 + Len(a) + 1 \in 1..Len(t) /\ t[1 + Len(a) + 1] = q[1]
    BY <1>4, <2>1 DEF Lies
  <2> QED
    BY <1>3, <1>4, <2>1, <2>2
<1>6. StringAt(t, x, 1 + Len(a) + 1) = r
  <2>1. StringAt(t, x, Len(t)) = Turn(t, x, Len(t), StringAt(t, x, LaterPlace(t, x, Len(t))))
    BY <1>4, <1>5, StringSteps
  <2> QED
    BY <1>2, <1>5, <2>1 DEF Turn
<1>7. r \in Reads /\ r # Failed /\ r.to = Len(t) /\ r.bytes = <<>>
  BY <1>5 DEF Reads, Taken, Failed
<1> HIDE DEF r
<1>8. StringAt(t, x, 1 + 1) = Before(m, r)
  BY <1>4, <1>6, <1>7, StringIsRead DEF a, m
<1>9. m \o <<>> = m
  BY <1>1
<1>10. StringAt(t, x, 2) = Taken(Len(t), m)
  BY <1>7, <1>8, <1>9 DEF Before
<1> QED
  BY <1>10 DEF a, m, q, t

(* The texts of the runs are such strings, and so are their first parts. *)
LEMMA TextsFit ==
  ASSUME NEW cs \in SpelledTexts
  PROVE  /\ cs \in Seq(Spelled)
         /\ cs # <<>> => Front(cs) \in Seq(Spelled) /\ Last(cs) \in Spelled
<1>1. PICK n \in 0..MaxChars : cs \in [1..n -> Spelled]
  BY DEF SpelledTexts
<1>2. cs \in Seq(Spelled)
  BY <1>1, GrammarAssumption
<1> QED
  BY <1>2, SMT DEF Front, Last

(* The last digit of an escape that is no digit. *)
LEMMA LastDigit ==
  ASSUME NEW t, NEW x, NEW p \in Nat, HexValue(Byte(t, x, p + 3)) = NoHex
  PROVE  Hex4(t, x, p) = -1
<1>1. 3 \in 0..3
  OBVIOUS
<1> QED
  BY <1>1 DEF Hex4

(* What fails behind some characters fails them too. *)
LEMMA BeforeFailed ==
  ASSUME NEW b
  PROVE  Before(b, Failed) = Failed /\ Failed \in Reads
BY DEF Before, Failed, Reads

(* An escape that is cut off within its first six bytes fails, but for the *)
(* one whose last digit lies behind the text.                              *)
LEMMA CutEscape ==
  ASSUME NEW t \in Seq(Int), NEW x \in Int, NEW p \in Nat, NEW n \in 1..5, Len(t) = p + n,
         t[p + 1] = Backslash, n >= 2 => t[p + 2] = LetterU,
         n # 5 \/ HexValue(x) = NoHex
  PROVE  StringAt(t, x, p + 1) = Failed
<1>1. p + 1 \in 1..Len(t) /\ p + 1 + 1 = p + 2 /\ p + 2 + 1 = p + 3 /\ p + 3 + 3 = p + 6
      /\ p + 2 + 7 = p + 9 /\ Left(t, p + 2) = n - 1
  BY DEF Left
<1>2. CASE n = 1
  <2>1. Escape(t, x, p + 2) = Failed
    BY <1>1, <1>2 DEF Escape
  <2> QED
    BY <1>1, <2>1, EscapeFails
<1>3. CASE n >= 2
  <2>1. t[p + 2] = LetterU /\ LetterU # 0 /\ Left(t, p + 2) # 0
    BY <1>1, <1>3, SMT DEF LetterU
  <2>2. Escape(t, x, p + 2) = Unicode(t, x, p + 2)
    BY <2>1 DEF Escape
  <2>3. Left(t, p + 2) < 4 \/ Hex4(t, x, p + 3) = -1
    <3>1. CASE n < 5
      BY <1>1, <3>1
    <3>2. CASE n = 5
      <4>1. Byte(t, x, p + 3 + 3) = x /\ p + 3 \in Nat
        BY <1>1, <3>2 DEF Byte
      <4> QED
        BY <3>2, <4>1, LastDigit
    <3> QED
      BY <3>1, <3>2
  <2>4. Unicode(t, x, p + 2) = Failed
    BY <1>1, <2>3, Zenon DEF Unicode
  <2> QED
    BY <1>1, <2>2, <2>4, EscapeFails, Zenon
<1> QED
  BY <1>2, <1>3

(* The same of a pair of escapes. *)
LEMMA CutPair ==
  ASSUME NEW t \in Seq(Int), NEW x \in Int, NEW p \in Nat, NEW n \in 6..11, Len(t) = p + n,
         t[p + 1] = Backslash, t[p + 2] = LetterU, IsSurrogate(Hex4(t, x, p + 3)),
         n # 11 \/ HexValue(x) = NoHex
  PROVE  StringAt(t, x, p + 1) = Failed
<1>1. p + 1 \in 1..Len(t) /\ p + 1 + 1 = p + 2 /\ p + 2 + 1 = p + 3 /\ p + 9 + 3 = p + 12
      /\ p + 2 + 7 = p + 9 /\ Left(t, p + 2) # 0 /\ Left(t, p + 2 + 4) = n - 5
  BY DEF Left
<1>2. LetterU # 0
  BY SMT DEF LetterU
<1>3. Escape(t, x, p + 2) = Unicode(t, x, p + 2)
  BY <1>1, <1>2 DEF Escape
<1>4. Left(t, p + 2 + 4) < 6 \/ Hex4(t, x, p + 9) = -1
  <2>1. CASE n < 11
    BY <1>1, <2>1
  <2>2. CASE n = 11
    <3>1. Byte(t, x, p + 9 + 3) = x /\ p + 9 \in Nat
      BY <1>1, <2>2 DEF Byte
    <3> QED
      BY <2>2, <3>1, LastDigit
  <2> QED
    BY <2>1, <2>2, SMTT(60)
<1>5. Unicode(t, x, p + 2) = Failed
  <2> DEFINE u == Hex4(t, x, p + 3)
             v == Hex4(t, x, p + 9)
  <2>1. Unicode(t, x, p + 2) =
          IF Left(t, p + 2) < 4 \/ u = -1 THEN Failed
          ELSE IF ~IsSurrogate(u) THEN Taken(p + 2 + 4, Utf8(u))
          ELSE IF \/ Left(t, p + 2 + 4) < 6
                  \/ Byte(t, x, p + 2 + 5) # Backslash \/ Byte(t, x, p + 2 + 6) # LetterU \/ v = -1
               THEN Failed
          ELSE Taken(p + 2 + 10, Utf8(Pair(u, v)))
    BY <1>1, Zenon DEF Unicode
  <2> QED
    BY <1>4, <2>1, Zenon
<1> QED
  BY <1>1, <1>3, <1>5, EscapeFails, Zenon

(* A character that is cut off fails, but for that one. *)
Begins(t, p, s, n) == Len(t) = p + n /\ \A j \in 1..n : p + j \in 1..Len(t) /\ t[p + j] = s[j]
Tempts(s, n, x) == n % 6 = 5 /\ s[n - 3] = LetterU /\ HexValue(x) # NoHex

(* A character of which the text has only the first n bytes makes the scan *)
(* fail, but for an escape that lacks just its last digit, where the byte  *)
(* in memory behind the text is one.                                       *)
LEMMA CutChar ==
  ASSUME NEW u \in Nat, IsCodePoint(u), ~Misjoined(u), NEW s \in Ways(u),
         NEW t \in Seq(Int), NEW x \in Int, NEW p \in Nat, NEW n \in 0..Len(s),
         Begins(t, p, s, n), ~Tempts(s, n, x)
  PROVE  StringAt(t, x, p + 1) = Failed
<1>1. s \in Seq(Int) /\ Len(s) \in Nat /\ n \in Nat /\ n <= Len(s) /\ Len(t) = p + n
  BY WaysFit DEF Begins
<1> HIDE DEF Reads
<1>2. StringAt(t, x, Len(t) + 1) = Failed
  BY StringSteps
<1>3. CASE n = 0
  BY <1>1, <1>2, <1>3
<1>4. CASE n = Len(s)
  <2>1. Lies(t, p, s)
    <3> QED
      BY <1>4, Zenon DEF Begins, Lies
  <2>2. StringAt(t, x, p + Len(s) + 1) = Failed /\ Failed \in Reads
    BY <1>1, <1>2, <1>4, BeforeFailed
  <2>3. StringAt(t, x, p + 1) = Before(InUtf8(u), Failed)
    <3> HIDE DEF Reads
    <3> QED
      BY <2>1, <2>2, CharIsRead
  <2> QED
    BY <2>3, BeforeFailed
<1>5. CASE n > 0 /\ n < Len(s)
  <2>1. 1 \in 1..n /\ t[p + 1] = s[1] /\ (n >= 2 => t[p + 2] = s[2])
    <3>1. 1 \in 1..n /\ (n >= 2 => 2 \in 1..n)
      BY <1>1, <1>5
    <3> QED
      BY <3>1, Zenon DEF Begins
  <2>2. ASSUME s[1] = Backslash, Len(s) >= 6 => s[2] = LetterU, n <= 5, Len(s) = 2 \/ Len(s) >= 6
        PROVE  StringAt(t, x, p + 1) = Failed
    <3>1. n >= 2 => t[p + 2] = LetterU
      <4>1. n >= 2 => Len(s) # 2
        <5>1. n \in Nat
          BY <1>1
        <5>2. \A l \in Nat : n < l /\ n >= 2 => l # 2
          BY <5>1
        <5> QED
          BY <1>1, <1>5, <5>2, Zenon
      <4> QED
        BY <2>1, <2>2, <4>1
    <3>2. n # 5 \/ HexValue(x) = NoHex
      <4>1. n = 5 => 5 % 6 = 5 /\ 5 - 3 = 2 /\ s[2] = LetterU
        BY <1>1, <1>5, <2>2
      <4> QED
        BY <4>1 DEF Tempts
    <3>3. n \in 1..5
      BY <1>1, <1>5, <2>2
    <3> QED
      BY <1>1, <2>1, <2>2, <3>1, <3>2, <3>3, CutEscape
  <2>3. CASE Narrow(u) /\ FourHex(u) /\ \E ten \in Tens : s = InHex(u, ten)
    <3>1. Len(s) = 6 /\ s[1] = Backslash /\ s[2] = LetterU
      <4>1. PICK ten \in Tens : s = InHex(u, ten)
        BY <2>3
      <4> QED
        BY <2>3, <4>1, HexSpelled, Zenon
    <3>2. n <= 5
      BY <1>5, <3>1
    <3> QED
      BY <2>2, <3>1, <3>2
  <2>4. CASE ~Narrow(u) /\ \E ten \in Tens : s = InHex(HighHalf(u), ten) \o InHex(LowHalf(u), ten)
    <3>1. PICK ten \in Tens : s = InHex(HighHalf(u), ten) \o InHex(LowHalf(u), ten)
      BY <2>4
    <3> DEFINE h == HighHalf(u)
               a == InHex(h, ten)
               b == InHex(LowHalf(u), ten)
    <3>2. FourHex(h) /\ FourHex(LowHalf(u)) /\ IsSurrogate(h)
      <4>1. u <= 1114111 /\ u >= 65536
        BY <2>4, SMT DEF IsCodePoint, Narrow
      <4> QED
        BY <4>1, PairJoins, SMT DEF FourHex
    <3> HIDE DEF h
    <3>3. /\ a \in Seq(Int) /\ Len(a) = 6 /\ a[1] = Backslash /\ a[2] = LetterU
          /\ b \in Seq(Int) /\ Len(b) = 6 /\ b[1] = Backslash /\ b[2] = LetterU
      BY <3>2, HexSpelled, Zenon DEF h
    <3>4. s = a \o b
      BY <3>1 DEF h
    <3> HIDE DEF a, b
    <3>5. Len(s) = 12 /\ s[8] = LetterU /\ \A j \in 1..6 : s[j] = a[j]
      <4>1. /\ Len(a \o b) = Len(a) + Len(b) /\ \A j \in 1..Len(a) : (a \o b)[j] = a[j]
            /\ \A j \in 1..Len(b) : (a \o b)[Len(a) + j] = b[j]
        <5>1. a \in Seq(Int) /\ b \in Seq(Int)
          BY <3>3
        <5> QED
          BY <5>1, BytesJoined, Zenon
      <4>2. /\ Len(s) = Len(a) + Len(b) /\ \A j \in 1..Len(a) : s[j] = a[j]
            /\ \A j \in 1..Len(b) : s[Len(a) + j] = b[j]
        BY <3>4, <4>1, Zenon
      <4>3. Len(a) + Len(b) = 12 /\ 2 \in 1..Len(b) /\ Len(a) + 2 = 8
        BY <3>3
      <4> QED
        BY <3>3, <4>2, <4>3, Zenon
    <3>6. s[1] = Backslash /\ s[2] = LetterU
      BY <3>3, <3>5
    <3>7. CASE n <= 5
      BY <2>2, <3>5, <3>6, <3>7
    <3>8. CASE n > 5
      <4>1. n \in 6..11
        <5>1. n < 12
          BY <1>5, <3>5
        <5> QED
          BY <1>1, <3>8, <5>1
      <4>2. Lies(t, p, a)
        <5>1. ASSUME NEW j \in 1..6 PROVE p + j \in 1..Len(t) /\ t[p + j] = a[j]
          <6>1. j \in 1..n
            BY <4>1
          <6> QED
            BY <3>5, <6>1, Zenon DEF Begins
        <5> QED
          BY <3>3, <5>1 DEF Lies
      <4>3. t[p + 1] = Backslash /\ t[p + 2] = LetterU /\ Hex4(t, x, p + 3) = h
        BY <3>2, <4>2, EscapeRead, Zenon DEF a
      <4>4. n # 11 \/ HexValue(x) = NoHex
        <5>1. 11 % 6 = 5 /\ 11 - 3 = 8
          OBVIOUS
        <5> QED
          BY <3>5, <5>1 DEF Tempts
      <4>5. IsSurrogate(Hex4(t, x, p + 3))
        BY <3>2, <4>3
      <4> QED
        BY <1>1, <4>1, <4>3, <4>4, <4>5, CutPair
    <3> QED
      BY <1>1, <3>7, <3>8
  <2>5. CASE Itself(u) /\ s = InUtf8(u)
    <3> DEFINE c == SubSeq(s, 1, n)
    <3>1. c \in Seq(Int) /\ Len(c) = n /\ \A j \in 1..n : c[j] = s[j]
      <4>1. \A j \in 1..n : s[j] \in Int
        BY <1>1
      <4> QED
        BY <1>1, <4>1
    <3> HIDE DEF c
    <3>2. \A j \in 1..Len(s) : s[j] \notin {0, Quote, Backslash}
      BY <2>5, Utf8Plain DEF Itself
    <3>3. \A j \in 1..Len(c) : c[j] \notin {0, Quote, Backslash}
      <4>1. \A j \in 1..n : j \in 1..Len(s)
        BY <1>1
      <4> QED
        BY <3>1, <3>2, <4>1, Zenon
    <3>4. Lies(t, p, c)
      <4>1. \A j \in 1..n : p + j \in 1..Len(t) /\ t[p + j] = c[j]
        BY <3>1, Zenon DEF Begins
      <4> QED
        BY <3>1, <4>1 DEF Lies
    <3>5. StringAt(t, x, p + Len(c) + 1) = Failed /\ Failed \in Reads
      BY <1>1, <1>2, <3>1, BeforeFailed
    <3>6. StringAt(t, x, p + 1) = Before(c, Failed)
      <4>1. c \in Seq(Int)
        BY <3>1
      <4> QED
        BY <3>3, <3>4, <3>5, <4>1, PlainRun
    <3> QED
      BY <3>6, BeforeFailed
  <2>6. CASE \E c \in Int : s = <<Backslash, c>> /\ Short(u, c)
    <3>1. Len(s) = 2 /\ s[1] = Backslash
      BY <2>6
    <3>2. n <= 5
      BY <1>1, <1>5, <3>1
    <3> QED
      BY <2>2, <3>1, <3>2
  <2> QED
    BY <2>3, <2>4, <2>5, <2>6, WaysAre, Zenon
<1> QED
  BY <1>1, <1>3, <1>4, <1>5

(* A string that is cut off within its last character fails, but for that  *)
(* one.                                                                    *)
LEMMA CutStringsFail ==
  ASSUME NEW cs \in Seq(Spelled), NEW c \in Spelled, NEW x \in Int, NEW n \in 0..Len(c[2]),
         ~Tempts(c[2], n, x)
  PROVE  StringAt(<<Quote>> \o InJson(cs) \o SubSeq(c[2], 1, n), x, 2) = Failed
<1> DEFINE a == InJson(cs)
           m == Meaning(cs)
           s == c[2]
           u == c[1]
           b == SubSeq(s, 1, n)
           t == <<Quote>> \o a \o b
<1>1. a \in Seq(Int) /\ m \in Seq(Int)
  BY StringIsRead
<1>2. u \in Nat /\ IsCodePoint(u) /\ ~Misjoined(u) /\ s \in Ways(u) /\ s \in Seq(Int)
  BY SpelledFits
<1> HIDE DEF a, m, s, u
<1>3. n \in 0..Len(s) /\ ~Tempts(s, n, x)
  BY DEF s
<1>4. b \in Seq(Int) /\ Len(b) = n /\ \A j \in 1..n : b[j] = s[j]
  <2>1. \A j \in 1..n : s[j] \in Int
    BY <1>2, <1>3
  <2> QED
    BY <1>2, <1>3, <2>1
<1> HIDE DEF b
<1>5. /\ t \in Seq(Int) /\ Len(t) = 1 + Len(a) + n /\ Lies(t, 1, a)
      /\ \A j \in 1..n : 1 + Len(a) + j \in 1..Len(t) /\ t[1 + Len(a) + j] = b[j]
  <2>1. /\ t \in Seq(Int) /\ Len(t) = 1 + Len(a) + Len(b)
        /\ Lies(t, 1, a) /\ Lies(t, 1 + Len(a), b)
    BY <1>1, <1>4, Quoted
  <2> HIDE DEF t
  <2> QED
    BY <1>4, <2>1, Zenon DEF Lies
<1> HIDE DEF t
<1>6. 1 + Len(a) \in Nat
  BY <1>1
<1>7. Begins(t, 1 + Len(a), s, n)
  BY <1>4, <1>5, Zenon DEF Begins
<1>8. StringAt(t, x, 1 + Len(a) + 1) = Failed
  <2>1. t \in Seq(Int)
    BY <1>5
  <2> QED
    BY <1>2, <1>3, <1>6, <1>7, <2>1, CutChar, Zenon
<1>9. StringAt(t, x, 1 + 1) = Before(m, Failed)
  <2>1. t \in Seq(Int) /\ Failed \in Reads /\ 1 \in Nat
    BY <1>5, BeforeFailed
  <2> QED
    BY <1>5, <1>8, <2>1, StringIsRead, ZenonT(60) DEF a, m
<1>10. StringAt(t, x, 2) = Failed
  BY <1>9, BeforeFailed
<1> QED
  BY <1>10 DEF a, b, s, t

(* A word that is cut off fails, but for the one whose last letter lies    *)
(* behind the text.                                                        *)
LEMMA CutWordsFail ==
  ASSUME NEW word \in JsonWords, NEW x \in Int, NEW n \in 1..Len(word) - 1,
         ~(n = Len(word) - 1 /\ x = word[n + 1])
  PROVE  WordAt(SubSeq(word, 1, n), x, 1) = Failed
<1> DEFINE t == SubSeq(word, 1, n)
<1>1. /\ \A w \in JsonWords : w \in Seq(Int) /\ Len(w) \in 4..5
      /\ \A v, w \in JsonWords : v[1] = w[1] => v = w
  BY SMT DEF JsonWords, TrueWord, FalseWord, NullWord
<1>2. t \in Seq(Int) /\ Len(t) = n /\ \A j \in 1..n : t[j] = word[j]
  <2>1. word \in Seq(Int) /\ Len(word) \in 4..5 /\ \A j \in 1..n : word[j] \in Int
    BY <1>1
  <2> QED
    BY <2>1
<1> HIDE DEF t
<1>3. Len(word) \in 4..5 /\ n \in Nat /\ 1 \in 1..n
  BY <1>1
<1> DEFINE is(w) == /\ Left(t, 1) >= Len(w) - 1
                    /\ \A i \in 1..Len(w) : Byte(t, x, 1 + i - 1) = w[i]
           found == {w \in JsonWords : is(w)}
<1>4. ASSUME NEW w \in JsonWords, is(w) PROVE FALSE
  <2>1. \A i \in 1..Len(w) : Byte(t, x, i) = w[i]
    <3>1. \A i \in 1..Len(w) : 1 + i - 1 = i
      BY <1>1
    <3> QED
      BY <1>4, <3>1
  <2>2. w = word
    <3>1. 1 \in 1..Len(w) /\ 1 <= Len(t)
      <4>1. Len(w) \in 4..5
        BY <1>1
      <4>2. 1 \in 1..Len(w)
        BY <4>1
      <4>3. 1 <= n
        BY <1>3
      <4> QED
        BY <1>2, <4>2, <4>3, Zenon
    <3>2. Byte(t, x, 1) = t[1] /\ t[1] = word[1]
      BY <1>2, <1>3, <3>1 DEF Byte
    <3> QED
      BY <1>1, <2>1, <3>1, <3>2
  <2>3. n = Len(word) - 1
    BY <1>2, <1>3, <1>4, <2>2 DEF Left
  <2>4. n + 1 \in 1..Len(word) /\ ~(n + 1 <= Len(t))
    BY <1>2, <1>3, <2>3
  <2>5. x = word[n + 1]
    BY <2>1, <2>2, <2>4 DEF Byte
  <2> QED
    BY <2>3, <2>5
<1>5. found = {}
  BY <1>4
<1>6. WordAt(t, x, 1) = IF found = {} THEN Failed
                        ELSE Taken(1 + Len(CHOOSE w \in found : TRUE) - 1, <<>>)
  BY DEF WordAt
<1> QED
  BY <1>5, <1>6 DEF t

(* A string, however it is written, is kept as its characters in UTF-8: of *)
(* as many characters as one likes, of every code point but those that     *)
(* json.c:331 misjoins, whatever byte lies behind the text                 *)
(* (json.c:277-430).                                                       *)
THEOREM StringsAreDecoded == Spec => []StringsDecoded
<1>1. StringsDecoded
  <2>1. \A x \in Beyond : x \in Int
    BY GrammarAssumption
  <2> QED
    BY <2>1, StringsHold, TextsFit, Zenon DEF StringsDecoded
<1> QED
  BY <1>1, PTL

(* A text that is cut off within a string or a word is rejected wherever   *)
(* that is, but for the one place where the parser does not test how much  *)
(* is left (json.c:300, 317, 596-627).                                     *)
THEOREM EndIsAlwaysSeen == Spec => []EndIsSeen
<1>1. EndIsSeen
  <2>1. \A x \in Beyond : x \in Int
    BY GrammarAssumption
  <2>2. ASSUME NEW cs \in SpelledTexts \ {<<>>}, NEW x \in Beyond, NEW n \in 0..Len(Last(cs)[2])
        PROVE  \/ StringAt(<<Quote>> \o InJson(Front(cs)) \o SubSeq(Last(cs)[2], 1, n), x, 2) = Failed
               \/ Tempts(Last(cs)[2], n, x)
    <3>1. Front(cs) \in Seq(Spelled) /\ Last(cs) \in Spelled
      BY TextsFit
    <3> QED
      BY <2>1, <3>1, CutStringsFail, Zenon
  <2> QED
    BY <2>1, <2>2, CutWordsFail, Zenon DEF EndIsSeen, Tempts
<1> QED
  BY <1>1, PTL

-----------------------------------------------------------------------------
(***************************************************************************)
(* Numbers: where the automaton of the first pass stands when it has read  *)
(* k bytes of a number without its sign, u.                                *)
(***************************************************************************)

NumStates ==
  [digits : Nat, zero : BOOLEAN, exp : BOOLEAN, sign : BOOLEAN, double : BOOLEAN,
   int : Int, status : {"reads", "done", "failed"}]

(* The fields of a state, and a state by its fields. *)
LEMMA StateFields ==
  ASSUME NEW n \in NumStates
  PROVE  /\ n.digits \in Nat /\ n.zero \in BOOLEAN /\ n.exp \in BOOLEAN /\ n.sign \in BOOLEAN
         /\ n.double \in BOOLEAN /\ n.int \in Int /\ n.status \in {"reads", "done", "failed"}
BY DEF NumStates

(* The kinds of bytes are disjoint. *)
Signs == {Plus, Minus}
(* A byte is of one kind, and those of numbers are of these four.          *)
LEMMA ByteKinds ==
  ASSUME NEW b
  PROVE  /\ b \in DigitBytes => b \notin ExpBytes /\ b \notin Signs /\ b # Dot /\ b \in Int
         /\ b \in ExpBytes => b \notin Signs /\ b # Dot
         /\ b \in Signs => b # Dot
         /\ b \in NumberBytes <=> b \in DigitBytes \/ b \in ExpBytes \/ b \in Signs \/ b = Dot
         /\ Zero \in DigitBytes
BY SMT DEF DigitBytes, ExpBytes, Signs, Dot, Plus, Minus, NumberBytes, Zero

(* One digit more of an integer that is held.                              *)
LEMMA KeptNext ==
  ASSUME NEW a \in Int, a >= 0, NEW b \in DigitBytes
  PROVE  10 * a + (b - Zero) >= 0 /\ Kept(10 * Kept(a) + (b - Zero)) = Kept(10 * a + (b - Zero))
<1>1. b - Zero \in 0..9
  BY SMT DEF DigitBytes, Zero
<1> DEFINE d == b - Zero
<1>2. d \in 0..9 /\ d \in Int /\ IntLimit \in Nat \ {0}
  BY <1>1, TextAssumption
<1> HIDE DEF d
<1>3. 10 * a + d >= 0 /\ Kept(10 * Kept(a) + d) = Kept(10 * a + d)
  BY <1>2, SMT DEF Kept
<1> QED
  BY <1>3 DEF d

(* What a byte makes of a state, field by field. *)
LEMMA StepIs ==
  ASSUME NEW n \in NumStates, n.status = "reads", NEW b \in Int, NEW m, m = NumberStep(n, b)
  PROVE  /\ m \in NumStates
         /\ b \in DigitBytes /\ n.exp =>
              /\ m.status = "reads" /\ m.exp /\ m.double = n.double /\ m.sign
              /\ m.digits = n.digits + 1
         /\ b \in DigitBytes /\ ~n.exp /\ n.double =>
              /\ m.status = "reads" /\ ~m.exp /\ m.double /\ m.sign = n.sign
              /\ m.digits = n.digits + 1
         /\ b \in DigitBytes /\ ~n.exp /\ ~n.double =>
              IF n.zero THEN m.status = "failed"
              ELSE /\ m.status = "reads" /\ ~m.exp /\ ~m.double /\ m.sign = n.sign
                   /\ m.digits = n.digits + 1 /\ m.int = Kept(10 * n.int + (b - Zero))
                   /\ m.zero <=> n.digits = 0 /\ b = Zero
         /\ b \notin DigitBytes =>
              IF b \in Signs /\ n.exp /\ ~n.sign
              THEN /\ m.status = "reads" /\ m.exp /\ m.double = n.double /\ m.sign
                   /\ m.digits = n.digits
              ELSE IF b = Dot /\ ~n.double /\ n.digits # 0
              THEN /\ m.status = "reads" /\ m.exp = n.exp /\ m.double /\ m.sign = n.sign
                   /\ m.digits = 0
              ELSE IF (b = Dot /\ ~n.double) \/ (n.digits = 0 /\ n.double)
              THEN m.status = "failed"
              ELSE IF b \in ExpBytes /\ ~n.exp
              THEN m.status = "reads" /\ m.exp /\ m.double /\ m.sign = n.sign /\ m.digits = 0
              ELSE m.status = "done" /\ m.double = n.double /\ m.int = n.int
<1>1. Zero \in Int
  BY SMT DEF Zero
<1>2. CASE b \in DigitBytes
  <2>1. m = NumberDigit(n, b)
    BY <1>2 DEF NumberStep
  <2>2. CASE n.exp
    <3>1. m = [n EXCEPT !.digits = @ + 1, !.sign = TRUE]
      BY <2>1, <2>2, Zenon DEF NumberDigit
    <3>2. /\ m \in NumStates /\ m.status = n.status /\ m.exp = n.exp /\ m.double = n.double
          /\ m.sign = TRUE /\ m.digits = n.digits + 1
      <4>1. m = [digits |-> n.digits + 1, zero |-> n.zero, exp |-> n.exp, sign |-> TRUE, double |-> n.double,
           int |-> n.int, status |-> n.status]
        BY <3>1 DEF NumStates
      <4>2. m \in NumStates
        BY <4>1, StateFields DEF NumStates
      <4> QED
        BY <4>1, <4>2
    <3> QED
      BY <1>2, <2>2, <3>2, Zenon
  <2>3. CASE ~n.exp /\ n.double
    <3>1. m = [n EXCEPT !.digits = @ + 1]
      BY <2>1, <2>3, Zenon DEF NumberDigit
    <3>2. /\ m \in NumStates /\ m.status = n.status /\ m.exp = n.exp /\ m.double = n.double
          /\ m.sign = n.sign /\ m.digits = n.digits + 1
      BY <3>1 DEF NumStates
    <3> QED
      BY <1>2, <2>3, <3>2, Zenon
  <2>4. CASE ~n.exp /\ ~n.double /\ n.zero
    <3>1. m = [n EXCEPT !.status = "failed"]
      BY <2>1, <2>4, Zenon DEF NumberDigit
    <3>2. m \in NumStates /\ m.status = "failed"
      BY <3>1 DEF NumStates
    <3> QED
      BY <1>2, <2>4, <3>2, Zenon
  <2>5. CASE ~n.exp /\ ~n.double /\ ~n.zero
    <3> DEFINE z == n.digits = 0 /\ b = Zero
    <3>0. z \in BOOLEAN
      OBVIOUS
    <3>1. m = [n EXCEPT !.digits = @ + 1, !.zero = z, !.int = Kept(10 * @ + (b - Zero))]
      BY <2>1, <2>5, Zenon DEF NumberDigit
    <3> HIDE DEF z
    <3>2. /\ m \in NumStates /\ m.status = n.status /\ m.exp = n.exp /\ m.double = n.double
          /\ m.sign = n.sign /\ m.digits = n.digits + 1 /\ m.int = Kept(10 * n.int + (b - Zero))
          /\ m.zero = z
      <4>1. m = [digits |-> n.digits + 1, zero |-> z, exp |-> n.exp, sign |-> n.sign, double |-> n.double,
           int |-> Kept(10 * n.int + (b - Zero)), status |-> n.status]
        BY <1>1, <3>0, <3>1 DEF NumStates
      <4>2. Kept(10 * n.int + (b - Zero)) \in Int
        BY <1>1, StateFields, TextAssumption DEF Kept
      <4>3. m \in NumStates
        BY <1>1, <3>0, <4>1, <4>2, StateFields DEF NumStates
      <4> QED
        BY <4>1, <4>3
    <3> QED
      BY <1>2, <2>5, <3>2, Zenon DEF z
  <2> QED
    BY <2>2, <2>3, <2>4, <2>5, Zenon
<1>3. CASE b \notin DigitBytes
  <2>1. m = NumberOther(n, b)
    BY <1>3 DEF NumberStep
  <2> DEFINE A == b \in Signs /\ n.exp /\ ~n.sign
             B == b = Dot /\ ~n.double /\ n.digits # 0
             C == (b = Dot /\ ~n.double) \/ (n.digits = 0 /\ n.double)
             D == b \in ExpBytes /\ ~n.exp
  <2>2. m = IF A THEN [n EXCEPT !.sign = TRUE]
            ELSE IF B THEN [n EXCEPT !.double = TRUE, !.digits = 0]
            ELSE IF C THEN [n EXCEPT !.status = "failed"]
            ELSE IF D THEN [n EXCEPT !.exp = TRUE, !.double = TRUE, !.digits = 0, !.zero = FALSE]
            ELSE [n EXCEPT !.status = "done"]
    BY <2>1, Zenon DEF NumberOther, Signs
  <2> HIDE DEF A, B, C, D
  <2>3. CASE A
    <3>1. m = [n EXCEPT !.sign = TRUE]
      BY <2>2, <2>3, Zenon
    <3>2. /\ m \in NumStates /\ m.status = n.status /\ m.exp = n.exp /\ m.double = n.double
          /\ m.sign = TRUE /\ m.digits = n.digits
      BY <3>1 DEF NumStates
    <3> QED
      BY <1>3, <2>3, <3>2, Zenon DEF A
  <2>4. CASE ~A /\ B
    <3>1. m = [n EXCEPT !.double = TRUE, !.digits = 0]
      BY <2>2, <2>4, Zenon
    <3>2. /\ m \in NumStates /\ m.status = n.status /\ m.exp = n.exp /\ m.double = TRUE
          /\ m.sign = n.sign /\ m.digits = 0
      <4>1. m = [digits |-> 0, zero |-> n.zero, exp |-> n.exp, sign |-> n.sign, double |-> TRUE,
           int |-> n.int, status |-> n.status]
        BY <3>1 DEF NumStates
      <4>2. m \in NumStates
        BY <4>1, StateFields DEF NumStates
      <4> QED
        BY <4>1, <4>2
    <3> QED
      BY <1>3, <2>4, <3>2, Zenon DEF A, B
  <2>5. CASE ~A /\ ~B /\ C
    <3>1. m = [n EXCEPT !.status = "failed"]
      BY <2>2, <2>5, Zenon
    <3>2. m \in NumStates /\ m.status = "failed"
      BY <3>1 DEF NumStates
    <3> QED
      BY <1>3, <2>5, <3>2, Zenon DEF A, B, C
  <2>6. CASE ~A /\ ~B /\ ~C /\ D
    <3>1. m = [n EXCEPT !.exp = TRUE, !.double = TRUE, !.digits = 0, !.zero = FALSE]
      BY <2>2, <2>6, Zenon
    <3>2. /\ m \in NumStates /\ m.status = n.status /\ m.exp = TRUE /\ m.double = TRUE
          /\ m.sign = n.sign /\ m.digits = 0
      <4>1. m = [digits |-> 0, zero |-> FALSE, exp |-> TRUE, sign |-> n.sign, double |-> TRUE,
           int |-> n.int, status |-> n.status]
        BY <3>1 DEF NumStates
      <4>2. m \in NumStates
        BY <4>1, StateFields DEF NumStates
      <4> QED
        BY <4>1, <4>2
    <3> QED
      BY <1>3, <2>6, <3>2, Zenon DEF A, B, C, D
  <2>7. CASE ~A /\ ~B /\ ~C /\ ~D
    <3>1. m = [n EXCEPT !.status = "done"]
      BY <2>2, <2>7, Zenon
    <3>2. m \in NumStates /\ m.status = "done" /\ m.double = n.double /\ m.int = n.int
      BY <3>1 DEF NumStates
    <3> QED
      BY <1>3, <2>7, <3>2, Zenon DEF A, B, C, D
  <2> QED
    BY <2>3, <2>4, <2>5, <2>6, <2>7, Zenon
<1> QED
  BY <1>2, <1>3

(* Digits from place a to place b; and more of them. *)
Digits(u, a, b) == \A q \in a..b : u[q] \in DigitBytes

(* One digit more behind digits.                                           *)
LEMMA MoreDigits ==
  ASSUME NEW u, NEW a \in Int, NEW k \in Int, Digits(u, a, k - 1), u[k] \in DigitBytes
  PROVE  Digits(u, a, k)
<1>1. \A q \in a..k : q \in a..k - 1 \/ q = k
  OBVIOUS
<1> QED
  BY <1>1 DEF Digits

(* No place is among the digits from a place to an earlier one.            *)
LEMMA NoDigits ==
  ASSUME NEW u, NEW a \in Int, NEW b \in Int, b < a
  PROVE  Digits(u, a, b)
<1>1. a..b = {}
  OBVIOUS
<1> QED
  BY <1>1 DEF Digits

(* The parts of a number: up to place i its integer, up to place j its     *)
(* fraction, up to place h the mark and the sign of its exponent, and then *)
(* the digits of that up to place k.                                       *)
IntPart(u, i) == Digits(u, 1, i) /\ (i > 1 => u[1] # Zero)
FracPart(u, i, j) == j = i \/ (i >= 1 /\ j > i + 1 /\ u[i + 1] = Dot /\ Digits(u, i + 2, j))
ExpPart(u, j, h, k) ==
  /\ u[j + 1] \in ExpBytes /\ (h = j + 1 \/ (h = j + 2 /\ u[j + 2] \in Signs))
  /\ h <= k /\ Digits(u, h + 1, k)

(* Where the automaton stands within each of them. *)
InInt(n, u, v, k) ==
  /\ n.status = "reads" /\ ~n.exp /\ ~n.double /\ ~n.sign
  /\ IntPart(u, k) /\ n.digits = k /\ (n.zero <=> k >= 1 /\ u[1] = Zero)
  /\ v[k] >= 0 /\ n.int = Kept(v[k])
InFrac(n, u, k, i) ==
  /\ n.status = "reads" /\ ~n.exp /\ n.double /\ ~n.sign
  /\ IntPart(u, i) /\ u[i + 1] = Dot /\ Digits(u, i + 2, k)
  /\ i \in 1..k - 1 /\ n.digits = k - i - 1
InExp(n, u, k, i, j, h) ==
  /\ n.status = "reads" /\ n.exp /\ n.double /\ n.digits = k - h
  /\ IntPart(u, i) /\ FracPart(u, i, j) /\ ExpPart(u, j, h, k)
  /\ i \in 0..j /\ j \in 0..k - 1 /\ h \in Nat /\ (n.sign <=> h = j + 2 \/ h < k)

(* One byte more, from each of them. *)
LEMMA IntSteps ==
  ASSUME NEW n \in NumStates, NEW u, NEW v, NEW k \in Nat \ {0}, InInt(n, u, v, k - 1),
         u[k] \in Int, v[k - 1] \in Int, v[k] = 10 * v[k - 1] + (u[k] - Zero),
         NEW m, m = NumberStep(n, u[k])
  PROVE  /\ u[k] \in DigitBytes /\ (k > 1 => u[1] # Zero) => InInt(m, u, v, k)
         /\ u[k] = Dot /\ k > 1 => InFrac(m, u, k, k - 1)
         /\ u[k] \in ExpBytes => InExp(m, u, k, k - 1, k - 1, k)
         /\ m.status = "reads" => \/ u[k] \in DigitBytes /\ (k > 1 => u[1] # Zero)
                                  \/ u[k] = Dot /\ k > 1
                                  \/ u[k] \in ExpBytes
<1>1. n.status = "reads" /\ n.digits = k - 1 /\ ~n.exp /\ ~n.double /\ ~n.sign
      /\ IntPart(u, k - 1) /\ (n.zero <=> k - 1 >= 1 /\ u[1] = Zero)
      /\ v[k - 1] >= 0 /\ n.int = Kept(v[k - 1])
  BY DEF InInt
<1>2. (n.digits = 0 <=> k = 1) /\ (n.zero <=> k > 1 /\ u[1] = Zero) /\ k - 1 \in Nat
  BY <1>1
<1> DEFINE b == u[k]
<1>3. ASSUME b \in DigitBytes, k > 1 => u[1] # Zero PROVE InInt(m, u, v, k)
  <2>1. ~n.zero
    BY <1>2, <1>3
  <2>2. /\ m.status = "reads" /\ ~m.exp /\ ~m.double /\ m.sign = n.sign
        /\ m.digits = n.digits + 1 /\ m.int = Kept(10 * n.int + (b - Zero))
        /\ m.zero <=> n.digits = 0 /\ b = Zero
    BY <1>1, <1>3, <2>1, StepIs
  <2>3. Digits(u, 1, k)
    BY <1>1, <1>3, MoreDigits DEF IntPart
  <2>4. m.digits = k /\ v[k] >= 0 /\ m.int = Kept(v[k]) /\ (m.zero <=> k >= 1 /\ u[1] = Zero)
    <3>1. m.zero <=> k = 1 /\ u[k] = Zero
      BY <1>2, <2>2
    <3>2. m.zero <=> k >= 1 /\ u[1] = Zero
      BY <1>3, <3>1
    <3>3. v[k] >= 0 /\ m.int = Kept(v[k])
      <4> DEFINE a == v[k - 1]
      <4>1. a \in Int /\ a >= 0 /\ v[k] = 10 * a + (b - Zero) /\ m.int = Kept(10 * Kept(a) + (b - Zero))
        BY <1>1, <2>2
      <4> HIDE DEF a
      <4>2. 10 * a + (b - Zero) >= 0 /\ Kept(10 * Kept(a) + (b - Zero)) = Kept(10 * a + (b - Zero))
        BY <1>3, <4>1, KeptNext
      <4> QED
        BY <4>1, <4>2, Zenon
    <3>4. m.digits = k
      BY <1>1, <2>2
    <3> QED
      BY <3>2, <3>3, <3>4, Zenon
  <2> QED
    BY <1>1, <1>3, <2>2, <2>3, <2>4, Zenon DEF InInt, IntPart
<1>4. ASSUME b = Dot, k > 1 PROVE InFrac(m, u, k, k - 1)
  <2>1. b \notin DigitBytes /\ b \notin Signs
    BY <1>4, ByteKinds
  <2>2. m.status = "reads" /\ m.exp = n.exp /\ m.double /\ m.sign = n.sign /\ m.digits = 0
    BY <1>1, <1>2, <1>4, <2>1, StepIs
  <2>3. k - 1 \in 1..k - 1 /\ k - 1 + 1 = k /\ 0 = k - (k - 1) - 1 /\ k < k - 1 + 2
        /\ k - 1 + 2 \in Int
    BY <1>4
  <2>4. Digits(u, k - 1 + 2, k)
    BY <2>3, NoDigits
  <2> QED
    BY <1>1, <1>4, <2>2, <2>3, <2>4, Zenon DEF InFrac
<1>5. ASSUME b \in ExpBytes PROVE InExp(m, u, k, k - 1, k - 1, k)
  <2>1. b \notin DigitBytes /\ b \notin Signs /\ b # Dot
    BY <1>5, ByteKinds
  <2>2. m.status = "reads" /\ m.exp /\ m.double /\ m.sign = n.sign /\ m.digits = 0
    BY <1>1, <1>5, <2>1, StepIs
  <2>3. k - 1 + 1 = k /\ k - k = 0 /\ k < k + 1 /\ k + 1 \in Int /\ k # k - 1 + 2 /\ ~(k < k)
        /\ k - 1 \in 0..k - 1 /\ k <= k /\ k \in Nat
    OBVIOUS
  <2>4. Digits(u, k + 1, k)
    BY <2>3, NoDigits
  <2> QED
    BY <1>1, <1>5, <2>2, <2>3, <2>4, Zenon DEF InExp, FracPart, ExpPart
<1>6. ASSUME m.status = "reads"
      PROVE  \/ b \in DigitBytes /\ (k > 1 => u[1] # Zero)
             \/ b = Dot /\ k > 1
             \/ b \in ExpBytes
  <2>1. CASE b \in DigitBytes
    <3>1. ~n.zero
      BY <1>1, <1>6, <2>1, StepIs
    <3> QED
      BY <1>2, <2>1, <3>1
  <2>2. CASE b \notin DigitBytes
    <3>1. (b = Dot /\ n.digits # 0) \/ b \in ExpBytes
      BY <1>1, <1>6, <2>2, StepIs
    <3> QED
      BY <1>2, <3>1
  <2> QED
    BY <2>1, <2>2
<1> QED
  BY <1>3, <1>4, <1>5, <1>6

(* One byte more from within the fraction: a digit stays there, the mark   *)
(* of the exponent leaves it once it has a digit, no other byte reads on.  *)
LEMMA FracSteps ==
  ASSUME NEW n \in NumStates, NEW u, NEW k \in Nat \ {0}, NEW i, InFrac(n, u, k - 1, i),
         u[k] \in Int, NEW m, m = NumberStep(n, u[k])
  PROVE  /\ u[k] \in DigitBytes => InFrac(m, u, k, i)
         /\ u[k] \in ExpBytes /\ k - 1 > i + 1 => InExp(m, u, k, i, k - 1, k)
         /\ m.status = "reads" => u[k] \in DigitBytes \/ (u[k] \in ExpBytes /\ k - 1 > i + 1)
<1>1. /\ n.status = "reads" /\ ~n.exp /\ n.double /\ ~n.sign
      /\ IntPart(u, i) /\ u[i + 1] = Dot /\ Digits(u, i + 2, k - 1)
      /\ i \in 1..k - 1 - 1 /\ n.digits = k - 1 - i - 1
  BY DEF InFrac
<1>2. /\ i \in 1..k - 1 /\ i \in Nat /\ i >= 1 /\ i \in 0..k - 1 /\ (n.digits = 0 <=> ~(k - 1 > i + 1))
      /\ n.digits + 1 = k - i - 1 /\ i + 2 \in Int /\ k - 1 >= i + 1
  BY <1>1
<1> DEFINE b == u[k]
<1>3. ASSUME b \in DigitBytes PROVE InFrac(m, u, k, i)
  <2>1. m.status = "reads" /\ ~m.exp /\ m.double /\ m.sign = n.sign /\ m.digits = n.digits + 1
    BY <1>1, <1>3, StepIs
  <2>2. Digits(u, i + 2, k)
    BY <1>1, <1>2, <1>3, MoreDigits
  <2> QED
    BY <1>1, <1>2, <2>1, <2>2, Zenon DEF InFrac
<1>4. ASSUME b \in ExpBytes, k - 1 > i + 1 PROVE InExp(m, u, k, i, k - 1, k)
  <2>1. b \notin DigitBytes /\ b \notin Signs /\ b # Dot
    BY <1>4, ByteKinds
  <2>2. m.status = "reads" /\ m.exp /\ m.double /\ m.sign = n.sign /\ m.digits = 0
    BY <1>1, <1>2, <1>4, <2>1, StepIs
  <2>3. k - 1 + 1 = k /\ k - k = 0 /\ k < k + 1 /\ k + 1 \in Int /\ k # k - 1 + 2 /\ ~(k < k)
        /\ k - 1 \in 0..k - 1 /\ k <= k /\ k \in Nat
    OBVIOUS
  <2>4. Digits(u, k + 1, k)
    BY <2>3, NoDigits
  <2> QED
    BY <1>1, <1>2, <1>4, <2>2, <2>3, <2>4, Zenon DEF InExp, FracPart, ExpPart
<1>5. ASSUME m.status = "reads", b \notin DigitBytes PROVE b \in ExpBytes /\ k - 1 > i + 1
  <2>1. n.digits # 0 /\ b \in ExpBytes
    BY <1>1, <1>5, StepIs
  <2> QED
    BY <1>2, <2>1
<1> QED
  BY <1>3, <1>4, <1>5

(* One byte more from within the exponent: a digit, or a sign as its first *)
(* byte, stays there, and no other byte reads on.                          *)
LEMMA ExpSteps ==
  ASSUME NEW n \in NumStates, NEW u, NEW k \in Nat \ {0}, NEW i, NEW j, NEW h,
         InExp(n, u, k - 1, i, j, h), u[k] \in Int, NEW m, m = NumberStep(n, u[k])
  PROVE  /\ u[k] \in DigitBytes => InExp(m, u, k, i, j, h)
         /\ u[k] \in Signs /\ k = j + 2 => InExp(m, u, k, i, j, k)
         /\ m.status = "reads" => u[k] \in DigitBytes \/ (u[k] \in Signs /\ k = j + 2)
<1>1. /\ n.status = "reads" /\ n.exp /\ n.double /\ n.digits = k - 1 - h
      /\ IntPart(u, i) /\ FracPart(u, i, j)
      /\ u[j + 1] \in ExpBytes /\ (h = j + 1 \/ (h = j + 2 /\ u[j + 2] \in Signs))
      /\ h <= k - 1 /\ Digits(u, h + 1, k - 1)
      /\ i \in 0..j /\ j \in 0..k - 1 - 1 /\ h \in Nat /\ (n.sign <=> h = j + 2 \/ h < k - 1)
  BY DEF InExp, ExpPart
<1>2. /\ j \in Nat /\ j \in 0..k - 1 /\ h <= k /\ h < k /\ h + 1 \in Int
      /\ n.digits + 1 = k - h
  BY <1>1
<1> DEFINE b == u[k]
<1>3. ASSUME b \in DigitBytes PROVE InExp(m, u, k, i, j, h)
  <2>1. m.status = "reads" /\ m.exp /\ m.double /\ m.sign /\ m.digits = n.digits + 1
    BY <1>1, <1>3, StepIs
  <2>2. Digits(u, h + 1, k)
    BY <1>1, <1>2, <1>3, MoreDigits
  <2> QED
    BY <1>1, <1>2, <2>1, <2>2, Zenon DEF InExp, ExpPart
<1>4. ASSUME b \in Signs, k = j + 2 PROVE InExp(m, u, k, i, j, k)
  <2>1. b \notin DigitBytes
    BY <1>4, ByteKinds
  <2>2. h = k - 1 /\ ~(h = j + 2 \/ h < k - 1) /\ n.digits = 0
    BY <1>1, <1>2, <1>4
  <2>3. m.status = "reads" /\ m.exp /\ m.double /\ m.sign /\ m.digits = 0
    BY <1>1, <1>4, <2>1, <2>2, StepIs
  <2>4. k - k = 0 /\ k < k + 1 /\ k + 1 \in Int /\ k <= k /\ k \in Nat
    OBVIOUS
  <2>5. Digits(u, k + 1, k)
    BY <2>4, NoDigits
  <2> QED
    BY <1>1, <1>2, <1>4, <2>3, <2>4, <2>5, Zenon DEF InExp, ExpPart
<1>5. ASSUME m.status = "reads", b \notin DigitBytes PROVE b \in Signs /\ k = j + 2
  <2>1. b \in Signs /\ ~n.sign
    BY <1>1, <1>5, StepIs
  <2>2. ~(h = j + 2) /\ ~(h < k - 1)
    BY <1>1, <2>1
  <2> QED
    BY <1>1, <1>2, <2>1, <2>2
<1> QED
  BY <1>3, <1>4, <1>5

(* The states that the automaton goes through, st, over the bytes u, whose *)
(* first k have the value v[k].                                            *)
Runs(st, u) ==
  /\ st \in [0..Len(u) -> NumStates] /\ st[0] = NewNumber
  /\ \A k \in 1..Len(u) : st[k] = NumberStep(st[k - 1], u[k])
Totals(v, u) ==
  v \in [0..Len(u) -> Int] /\ v[0] = 0 /\ \A k \in 1..Len(u) : v[k] = 10 * v[k - 1] + (u[k] - Zero)

(* The automaton starts within an integer part of no digits.               *)
LEMMA AtStart ==
  ASSUME NEW st, NEW u \in Seq(Int), NEW v, Runs(st, u), Totals(v, u)
  PROVE  InInt(st[0], u, v, 0)
<1>1. st[0] = NewNumber /\ v[0] = 0
  BY DEF Runs, Totals
<1>2. IntPart(u, 0)
  <2>1. Digits(u, 1, 0) /\ ~(0 > 1)
    BY NoDigits
  <2> QED
    BY <2>1 DEF IntPart
<1>3. /\ NewNumber.status = "reads" /\ ~NewNumber.exp /\ ~NewNumber.double /\ ~NewNumber.sign
      /\ NewNumber.digits = 0 /\ NewNumber.int = 0 /\ ~NewNumber.zero
  BY DEF NewNumber
<1>4. ~(0 >= 1) /\ 0 >= 0 /\ Kept(0) = 0
  BY TextAssumption DEF Kept
<1> QED
  BY <1>1, <1>2, <1>3, <1>4, Zenon DEF InInt

(* Where the automaton reads on, it stands in one of the parts. *)
Stands(n, u, v, k) ==
  \/ InInt(n, u, v, k)
  \/ \E i \in Nat : InFrac(n, u, k, i)
  \/ \E i \in Nat, j \in Nat, h \in Nat : InExp(n, u, k, i, j, h)

(* The automaton takes no bytes but those of the parts of a number.        *)
LEMMA AlwaysStands ==
  ASSUME NEW st, NEW u \in Seq(Int), NEW v, Runs(st, u), Totals(v, u)
  PROVE  \A k \in 0..Len(u) : st[k].status = "reads" => Stands(st[k], u, v, k)
<1> DEFINE I == {k \in 0..Len(u) : st[k].status = "reads" => Stands(st[k], u, v, k)}
<1>1. 0 \in I
  <2>1. InInt(st[0], u, v, 0) /\ 0 \in 0..Len(u)
    BY AtStart
  <2> QED
    BY <2>1, Zenon DEF Stands
<1>2. ASSUME NEW k \in 1..Len(u), k - 1 \in I PROVE k \in I
  <2>1. k \in Nat \ {0} /\ k - 1 \in 0..Len(u) /\ k \in 0..Len(u) /\ u[k] \in Int
    OBVIOUS
  <2>2. st[k - 1] \in NumStates /\ st[k] = NumberStep(st[k - 1], u[k])
    BY <2>1 DEF Runs
  <2>3. v[k - 1] \in Int /\ v[k] = 10 * v[k - 1] + (u[k] - Zero)
    BY <2>1 DEF Totals
  <2>4. ASSUME st[k].status = "reads" PROVE Stands(st[k], u, v, k)
    <3>1. Stands(st[k - 1], u, v, k - 1)
      <4>1. st[k - 1].status = "reads"
        BY <2>2, <2>4, Zenon DEF NumberStep
      <4> QED
        BY <1>2, <4>1
    <3>2. CASE InInt(st[k - 1], u, v, k - 1)
      <4>1. \/ InInt(st[k], u, v, k) \/ InFrac(st[k], u, k, k - 1) \/ InExp(st[k], u, k, k - 1, k - 1, k)
        <5>1. /\ u[k] \in DigitBytes /\ (k > 1 => u[1] # Zero) => InInt(st[k], u, v, k)
              /\ u[k] = Dot /\ k > 1 => InFrac(st[k], u, k, k - 1)
              /\ u[k] \in ExpBytes => InExp(st[k], u, k, k - 1, k - 1, k)
              /\ st[k].status = "reads" => \/ u[k] \in DigitBytes /\ (k > 1 => u[1] # Zero)
                                           \/ u[k] = Dot /\ k > 1
                                           \/ u[k] \in ExpBytes
          BY <2>1, <2>2, <2>3, <3>2, IntSteps
        <5> QED
          BY <2>4, <5>1, Zenon
      <4>2. k - 1 \in Nat /\ k \in Nat
        BY <2>1
      <4> QED
        BY <4>1, <4>2, Zenon DEF Stands
    <3>3. ASSUME NEW i \in Nat, InFrac(st[k - 1], u, k - 1, i) PROVE Stands(st[k], u, v, k)
      <4>1. InFrac(st[k], u, k, i) \/ InExp(st[k], u, k, i, k - 1, k)
        <5>1. /\ u[k] \in DigitBytes => InFrac(st[k], u, k, i)
              /\ u[k] \in ExpBytes /\ k - 1 > i + 1 => InExp(st[k], u, k, i, k - 1, k)
              /\ st[k].status = "reads" =>
                   u[k] \in DigitBytes \/ (u[k] \in ExpBytes /\ k - 1 > i + 1)
          BY <2>1, <2>2, <3>3, FracSteps
        <5> QED
          BY <2>4, <5>1, Zenon
      <4>2. k - 1 \in Nat /\ k \in Nat
        BY <2>1
      <4> QED
        BY <4>1, <4>2, Zenon DEF Stands
    <3>4. ASSUME NEW i \in Nat, NEW j \in Nat, NEW h \in Nat, InExp(st[k - 1], u, k - 1, i, j, h)
          PROVE  Stands(st[k], u, v, k)
      <4>1. InExp(st[k], u, k, i, j, h) \/ InExp(st[k], u, k, i, j, k)
        <5>1. /\ u[k] \in DigitBytes => InExp(st[k], u, k, i, j, h)
              /\ u[k] \in Signs /\ k = j + 2 => InExp(st[k], u, k, i, j, k)
              /\ st[k].status = "reads" => u[k] \in DigitBytes \/ (u[k] \in Signs /\ k = j + 2)
          BY <2>1, <2>2, <3>4, ExpSteps
        <5> QED
          BY <2>4, <5>1, Zenon
      <4>2. k \in Nat
        BY <2>1
      <4> QED
        BY <4>1, <4>2, Zenon DEF Stands
    <3> QED
      BY <3>1, <3>2, <3>3, <3>4, Zenon DEF Stands
  <2> QED
    BY <2>1, <2>4
<1> HIDE DEF I
<1>3. Len(u) \in Nat
  OBVIOUS
<1>4. \A k \in 0..Len(u) : k \in I
  BY <1>1, <1>2, <1>3, Induction
<1> QED
  BY <1>4 DEF I

(* A number that has these parts is read to the end of them. *)
LEMMA ReadsInt ==
  ASSUME NEW st, NEW u \in Seq(Int), NEW v, Runs(st, u), Totals(v, u),
         NEW i \in 0..Len(u), IntPart(u, i)
  PROVE  InInt(st[i], u, v, i)
<1> DEFINE I == {k \in 0..i : InInt(st[k], u, v, k)}
<1>1. 0 \in I
  <2>1. InInt(st[0], u, v, 0) /\ 0 \in 0..i
    BY AtStart
  <2> QED
    BY <2>1
<1>2. ASSUME NEW k \in 1..i, k - 1 \in I PROVE k \in I
  <2>1. k \in Nat \ {0} /\ k - 1 \in 0..Len(u) /\ k \in 0..i /\ k \in 1..Len(u) /\ u[k] \in Int
    OBVIOUS
  <2>2. st[k - 1] \in NumStates /\ st[k] = NumberStep(st[k - 1], u[k])
    BY <2>1 DEF Runs
  <2>3. v[k - 1] \in Int /\ v[k] = 10 * v[k - 1] + (u[k] - Zero)
    BY <2>1 DEF Totals
  <2>4. u[k] \in DigitBytes /\ (k > 1 => u[1] # Zero)
    <3>1. k > 1 => i > 1
      OBVIOUS
    <3> QED
      BY <3>1 DEF IntPart, Digits
  <2>5. InInt(st[k], u, v, k)
    <3>1. InInt(st[k - 1], u, v, k - 1)
      BY <1>2
    <3> QED
      BY <2>1, <2>2, <2>3, <2>4, <3>1, IntSteps
  <2> QED
    BY <2>1, <2>5
<1> HIDE DEF I
<1>3. i \in Nat
  OBVIOUS
<1>4. i \in I
  <2>1. \A k \in 0..i : k \in I
    BY <1>1, <1>2, <1>3, Induction
  <2> QED
    BY <1>3, <2>1
<1> QED
  BY <1>4 DEF I

(* It takes the fraction of a number, of any length.                       *)
LEMMA ReadsFrac ==
  ASSUME NEW st, NEW u \in Seq(Int), NEW v, Runs(st, u), Totals(v, u),
         NEW i \in 0..Len(u), NEW j \in i..Len(u), IntPart(u, i), FracPart(u, i, j), j # i
  PROVE  InFrac(st[j], u, j, i) /\ j > i + 1
<1>1. i >= 1 /\ j > i + 1 /\ u[i + 1] = Dot /\ Digits(u, i + 2, j)
  BY DEF FracPart
<1> DEFINE I == {d \in 0..j - i - 1 : InFrac(st[i + 1 + d], u, i + 1 + d, i)}
<1>2. 0 \in I
  <2> DEFINE k == i + 1
  <2>1. k \in Nat \ {0} /\ k - 1 = i /\ k - 1 \in 0..Len(u) /\ k \in 1..Len(u) /\ u[k] \in Int /\ k > 1
        /\ i + 1 + 0 = k /\ 0 \in 0..j - i - 1
    BY <1>1
  <2>2. st[k - 1] \in NumStates /\ st[k] = NumberStep(st[k - 1], u[k])
    BY <2>1 DEF Runs
  <2>3. v[k - 1] \in Int /\ v[k] = 10 * v[k - 1] + (u[k] - Zero)
    BY <2>1 DEF Totals
  <2>4. InInt(st[i], u, v, i) /\ u[k] = Dot
    BY <1>1, ReadsInt
  <2> HIDE DEF k
  <2>5. InFrac(st[k], u, k, k - 1)
    BY <2>1, <2>2, <2>3, <2>4, IntSteps
  <2> QED
    BY <2>1, <2>5
<1>3. ASSUME NEW d \in 1..j - i - 1, d - 1 \in I PROVE d \in I
  <2> DEFINE k == i + 1 + d
  <2>1. k \in Nat \ {0} /\ k - 1 = i + 1 + (d - 1) /\ k - 1 \in 0..Len(u) /\ k \in 1..Len(u) /\ u[k] \in Int
        /\ k \in i + 2..j /\ d \in 0..j - i - 1
    OBVIOUS
  <2>2. InFrac(st[k - 1], u, k - 1, i)
    BY <1>3, <2>1
  <2> HIDE DEF k
  <2>3. st[k - 1] \in NumStates /\ st[k] = NumberStep(st[k - 1], u[k])
    BY <2>1 DEF Runs
  <2>4. u[k] \in DigitBytes
    BY <1>1, <2>1 DEF Digits
  <2>5. InFrac(st[k], u, k, i)
    BY <2>1, <2>2, <2>3, <2>4, FracSteps
  <2> QED
    BY <2>1, <2>5 DEF k
<1> HIDE DEF I
<1>4. j - i - 1 \in Nat
  BY <1>1
<1>5. \A d \in 0..j - i - 1 : d \in I
  BY <1>2, <1>3, <1>4, Induction
<1>6. j - i - 1 \in I /\ i + 1 + (j - i - 1) = j
  BY <1>4, <1>5
<1> QED
  BY <1>1, <1>6 DEF I

(* It takes the exponent of a number, of any length.                       *)
LEMMA ReadsExp ==
  ASSUME NEW st, NEW u \in Seq(Int), NEW v, Runs(st, u), Totals(v, u),
         NEW i \in 0..Len(u), NEW j \in i..Len(u), IntPart(u, i), FracPart(u, i, j),
         NEW h \in j + 1..Len(u), ExpPart(u, j, h, Len(u))
  PROVE  InExp(st[Len(u)], u, Len(u), i, j, h)
<1> DEFINE m == Len(u)
<1>1. u[j + 1] \in ExpBytes /\ (h = j + 1 \/ (h = j + 2 /\ u[j + 2] \in Signs)) /\ Digits(u, h + 1, m)
  BY DEF ExpPart
<1>2. m \in Nat /\ \A k \in 1..m : /\ k \in Nat \ {0} /\ k - 1 \in 0..m /\ u[k] \in Int
                                   /\ st[k - 1] \in NumStates /\ st[k] = NumberStep(st[k - 1], u[k])
                                   /\ v[k - 1] \in Int /\ v[k] = 10 * v[k - 1] + (u[k] - Zero)
  <2>1. m \in Nat /\ \A k \in 1..m : k \in Nat \ {0} /\ k - 1 \in 0..m /\ u[k] \in Int
    OBVIOUS
  <2> QED
    BY <2>1, Zenon DEF Runs, Totals
<1> HIDE DEF m
<1>3. InExp(st[j + 1], u, j + 1, i, j, j + 1)
  <2> DEFINE k == j + 1
  <2>1. k \in 1..m /\ k - 1 = j /\ j \in 0..m /\ i \in 0..m
    BY <1>2 DEF m
  <2> HIDE DEF k
  <2>2. u[k] \in ExpBytes
    BY <1>1 DEF k
  <2>3. CASE j = i
    <3>1. InInt(st[k - 1], u, v, k - 1)
      BY <2>1, <2>3, ReadsInt
    <3>2. InExp(st[k], u, k, k - 1, k - 1, k)
      BY <1>2, <2>1, <2>2, <3>1, IntSteps
    <3> QED
      BY <2>1, <2>3, <3>2 DEF k
  <2>4. CASE j # i
    <3>1. InFrac(st[k - 1], u, k - 1, i) /\ k - 1 > i + 1
      BY <2>1, <2>4, ReadsFrac
    <3>2. InExp(st[k], u, k, i, k - 1, k)
      BY <1>2, <2>1, <2>2, <3>1, FracSteps
    <3> QED
      BY <2>1, <3>2 DEF k
  <2> QED
    BY <2>3, <2>4
<1>4. InExp(st[h], u, h, i, j, h)
  <2>1. CASE h = j + 1
    BY <1>3, <2>1
  <2>2. CASE h = j + 2 /\ u[j + 2] \in Signs
    <3>1. h \in 1..m /\ h - 1 = j + 1
      BY <1>2, <2>2 DEF m
    <3> QED
      BY <1>2, <1>3, <2>2, <3>1, ExpSteps
  <2> QED
    BY <1>1, <2>1, <2>2
<1> DEFINE I == {d \in 0..m - h : InExp(st[h + d], u, h + d, i, j, h)}
<1>5. 0 \in I
  <2>1. h + 0 = h /\ 0 \in 0..m - h
    BY <1>2 DEF m
  <2> QED
    BY <1>4, <2>1
<1>6. ASSUME NEW d \in 1..m - h, d - 1 \in I PROVE d \in I
  <2> DEFINE k == h + d
  <2>1. k \in 1..m /\ k - 1 = h + (d - 1) /\ k \in h + 1..m /\ d \in 0..m - h
    BY <1>2
  <2>2. InExp(st[k - 1], u, k - 1, i, j, h)
    BY <1>6, <2>1
  <2> HIDE DEF k
  <2>3. u[k] \in DigitBytes
    BY <1>1, <2>1 DEF Digits
  <2>4. InExp(st[k], u, k, i, j, h)
    BY <1>2, <2>1, <2>2, <2>3, ExpSteps
  <2> QED
    BY <2>1, <2>4 DEF k
<1>7. m - h \in Nat
  BY DEF m
<1> HIDE DEF I
<1>8. \A d \in 0..m - h : d \in I
  BY <1>5, <1>6, <1>7, Induction
<1>9. m - h \in I /\ h + (m - h) = m
  BY <1>2, <1>7, <1>8
<1> QED
  BY <1>9 DEF I, m

(* The value of the digits of a number, as the definition unfolds. *)
LEMMA ValuesExist ==
  ASSUME NEW s, Unsigned(s) \in Seq(Int)
  PROVE  \E v : /\ Totals(v, Unsigned(s))
                /\ IntValue(s) = IF s[1] = Minus THEN -v[Len(Unsigned(s))] ELSE v[Len(Unsigned(s))]
<1> DEFINE u == Unsigned(s)
           N == Len(u)
           step == [i \in 1..N |-> [a \in Int |-> 10 * a + (u[i] - Zero)]]
           body(h, i) == IF i = 0 THEN 0 ELSE 10 * h[i - 1] + (u[i] - Zero)
           value[i \in 0..Len(u)] == IF i = 0 THEN 0 ELSE 10 * value[i - 1] + (u[i] - Zero)
           eq(h) == h = [i \in 0..N |-> body(h, i)]
<1>1. N \in Nat /\ Zero \in Int /\ \A i \in 1..N : u[i] \in Int
  <2>1. Zero \in Int
    BY SMT DEF Zero
  <2> HIDE DEF u
  <2>2. u \in Seq(Int)
    BY DEF u
  <2> QED
    BY <2>1, <2>2
<1> HIDE DEF N
<1>2. step \in [1..N -> [Int -> Int]]
  BY <1>1
<1>3. PICK f \in [0..N -> Int] : Climbs(f, N, 0, step)
  <2>1. 0 \in Int
    OBVIOUS
  <2> HIDE DEF step
  <2> QED
    BY <1>1, <1>2, <2>1, RecursionUp
<1>4. f[0] = 0 /\ \A i \in 1..N : f[i] = 10 * f[i - 1] + (u[i] - Zero)
  <2>1. f[0] = 0 /\ \A i \in 1..N : f[i] = step[i][f[i - 1]]
    BY <1>3 DEF Climbs
  <2>2. ASSUME NEW i \in 1..N PROVE f[i] = 10 * f[i - 1] + (u[i] - Zero)
    <3>1. i - 1 \in 0..N
      BY <1>1
    <3>2. f[i - 1] \in Int
      BY <3>1
    <3>3. step[i][f[i - 1]] = 10 * f[i - 1] + (u[i] - Zero)
      BY <3>2, Zenon
    <3> QED
      BY <2>1, <3>3, Zenon
  <2> QED
    BY <2>1, <2>2
<1> HIDE DEF step
<1>5. eq(f)
  <2>1. \A i \in 0..N : f[i] = body(f, i)
    <3> TAKE i \in 0..N
    <3>1. i = 0 \/ i \in 1..N
      BY <1>1
    <3>2. i \in 1..N => i # 0
      OBVIOUS
    <3> QED
      BY <1>4, <3>1, <3>2, Zenon
  <2> HIDE DEF body
  <2> QED
    BY <2>1
<1>6. eq(value)
  <2>1. eq(f)
    BY <1>5
  <2> QED
    BY <2>1, Zenon DEF N
<1> HIDE DEF value
<1>7. \A i \in 0..N : value[i] = body(value, i)
  <2> HIDE DEF body
  <2> QED
    BY <1>6
<1>8. \A i \in 0..N : value[i] = f[i]
  <2> DEFINE I == {i \in 0..N : value[i] = f[i]}
  <2>1. 0 \in I
    BY <1>1, <1>4, <1>7
  <2>2. ASSUME NEW i \in 1..N, i - 1 \in I PROVE i \in I
    <3>1. i \in 0..N /\ i # 0
      BY <1>1
    <3>2. value[i] = 10 * value[i - 1] + (u[i] - Zero)
      BY <1>7, <3>1, Zenon
    <3>3. value[i - 1] = f[i - 1]
      BY <2>2
    <3>4. value[i] = f[i]
      BY <1>4, <3>2, <3>3, Zenon
    <3> QED
      BY <3>1, <3>4
  <2> HIDE DEF I
  <2>3. \A i \in 0..N : i \in I
    BY <1>1, <2>1, <2>2, Induction
  <2> QED
    BY <2>3 DEF I
<1>9. IntValue(s) = IF s[1] = Minus THEN -value[N] ELSE value[N]
  BY Zenon DEF IntValue, value, N
<1>10. value[N] = f[N]
  BY <1>1, <1>8
<1>11. Totals(f, u)
  BY <1>4, Zenon DEF Totals, N
<1>12. IntValue(s) = IF s[1] = Minus THEN -f[N] ELSE f[N]
  BY <1>9, <1>10, Zenon
<1> QED
  BY <1>11, <1>12, Zenon DEF N

(* A byte leads from a state to a state, and one that is part of no number *)
(* ends it.                                                                *)
LEMMA StepFits ==
  ASSUME NEW n \in NumStates, NEW b \in Int
  PROVE  /\ NumberStep(n, b) \in NumStates
         /\ NumberStep(n, b).status = "reads" => n.status = "reads" /\ b \in NumberBytes
<1>1. CASE n.status = "reads"
  <2> DEFINE m == NumberStep(n, b)
  <2>1. m \in NumStates
    BY <1>1, StepIs
  <2>2. ASSUME m.status = "reads", b \notin NumberBytes PROVE FALSE
    <3>1. b \notin DigitBytes /\ b \notin Signs /\ b # Dot /\ b \notin ExpBytes
      BY <2>2, ByteKinds
    <3>2. m.status = "failed" \/ m.status = "done"
      BY <1>1, <3>1, StepIs
    <3> QED
      BY <2>2, <3>2
  <2> QED
    BY <1>1, <2>1, <2>2
<1>2. CASE n.status # "reads"
  BY <1>2 DEF NumberStep
<1> QED
  BY <1>1, <1>2

(* The scan of a number that begins the text, as the definition unfolds. *)
First(t) == IF t[1] = Minus THEN 1 + 1 ELSE 1
Over(t, g) == {q \in First(t)..Len(t) + 1 : g[q].status # "reads"}

(* There is one such scan for every text: the definition, unfolded.        *)
LEMMA NumberUnfolds ==
  ASSUME NEW t \in Seq(Int), t # <<>>
  PROVE  \E g \in [First(t) - 1..Len(t) + 1 -> NumStates] :
           /\ g[First(t) - 1] = NewNumber
           /\ \A q \in First(t)..Len(t) + 1 : g[q] = NumberStep(g[q - 1], Byte(t, 0, q))
           /\ NumberAt(t, 1) =
                [status |-> g[Min(Over(t, g))].status, to |-> Min(Over(t, g)) - 1,
                 double |-> g[Min(Over(t, g))].double,
                 int |-> IF t[1] = Minus THEN -g[Min(Over(t, g))].int ELSE g[Min(Over(t, g))].int]
<1> DEFINE f == First(t)
           last == Len(t) + 1
           N == last - f + 1
           step == [i \in 1..N |-> [n \in NumStates |-> NumberStep(n, Byte(t, 0, f - 1 + i))]]
           body(h, q) == IF q < f THEN NewNumber ELSE NumberStep(h[q - 1], Byte(t, 0, q))
           upTo[q \in First(t) - 1..Len(t) + 1] ==
             IF q < First(t) THEN NewNumber ELSE NumberStep(upTo[q - 1], Byte(t, 0, q))
           eq(h) == h = [q \in f - 1..last |-> body(h, q)]
<1>1. f \in {1, 2} /\ last \in Nat /\ last >= 2 /\ Len(t) >= 1
  BY DEF First
<1>2. N \in Nat
  BY <1>1
<1>3. NewNumber \in NumStates
  BY DEF NewNumber, NumStates
<1>4. \A q \in Int : q >= 1 => Byte(t, 0, q) \in Int
  BY DEF Byte
<1> HIDE DEF f, last
<1>5. step \in [1..N -> [NumStates -> NumStates]]
  <2>1. \A i \in 1..N : f - 1 + i \in Int /\ f - 1 + i >= 1
    BY <1>1
  <2>2. \A i \in 1..N : Byte(t, 0, f - 1 + i) \in Int
    BY <1>4, <2>1
  <2>3. \A i \in 1..N, n \in NumStates : NumberStep(n, Byte(t, 0, f - 1 + i)) \in NumStates
    <3> HIDE DEF N
    <3> QED
      BY <2>2, StepFits, Zenon
  <2> HIDE DEF N
  <2> QED
    BY <2>3
<1>6. PICK c \in [0..N -> NumStates] : Climbs(c, N, NewNumber, step)
  <2> HIDE DEF step, N
  <2> QED
    BY <1>2, <1>3, <1>5, RecursionUp
<1>7. c[0] = NewNumber /\ \A i \in 1..N : c[i] = NumberStep(c[i - 1], Byte(t, 0, f - 1 + i))
  <2>1. c[0] = NewNumber /\ \A i \in 1..N : c[i] = step[i][c[i - 1]]
    BY <1>6 DEF Climbs
  <2>2. ASSUME NEW i \in 1..N PROVE c[i] = NumberStep(c[i - 1], Byte(t, 0, f - 1 + i))
    <3>1. i - 1 \in 0..N
      BY <1>2
    <3>2. c[i - 1] \in NumStates
      BY <3>1
    <3>3. step[i][c[i - 1]] = NumberStep(c[i - 1], Byte(t, 0, f - 1 + i))
      BY <3>2, Zenon
    <3> QED
      BY <2>1, <3>3, Zenon
  <2> QED
    BY <2>1, <2>2
<1> HIDE DEF step
<1> DEFINE g == [q \in f - 1..last |-> c[q - (f - 1)]]
<1>8. eq(g)
  <2>1. ASSUME NEW q \in f - 1..last PROVE g[q] = body(g, q)
    <3>1. CASE q < f
      <4>1. q - (f - 1) = 0
        BY <1>1, <3>1
      <4> QED
        BY <1>7, <3>1, <4>1, Zenon
    <3>2. CASE ~(q < f)
      <4> DEFINE i == q - (f - 1)
      <4>1. i \in 1..N /\ i - 1 = q - 1 - (f - 1) /\ f - 1 + i = q /\ q - 1 \in f - 1..last
        BY <1>1, <3>2
      <4> HIDE DEF i
      <4>2. c[i] = NumberStep(c[i - 1], Byte(t, 0, q))
        BY <1>7, <4>1
      <4>3. g[q] = c[i] /\ g[q - 1] = c[i - 1]
        BY <4>1, Zenon DEF i
      <4> HIDE DEF g
      <4> QED
        BY <3>2, <4>2, <4>3, Zenon
    <3> QED
      BY <3>1, <3>2
  <2> HIDE DEF body
  <2> QED
    BY <2>1, Zenon
<1>9. eq(upTo)
  <2>1. eq(g)
    BY <1>8
  <2> QED
    BY <2>1, Zenon DEF f, last
<1> HIDE DEF upTo
<1>10. \A q \in f - 1..last : upTo[q] = body(upTo, q)
  <2> HIDE DEF body
  <2> QED
    BY <1>9
<1>11. \A i \in 0..N : upTo[f - 1 + i] \in NumStates
  <2> DEFINE I == {i \in 0..N : upTo[f - 1 + i] \in NumStates}
  <2>1. 0 \in I
    <3>1. f - 1 + 0 = f - 1 /\ f - 1 \in f - 1..last /\ f - 1 < f /\ 0 \in 0..N
      BY <1>1, <1>2
    <3> QED
      BY <1>3, <1>10, <3>1, Zenon
  <2>2. ASSUME NEW i \in 1..N, i - 1 \in I PROVE i \in I
    <3> DEFINE q == f - 1 + i
    <3>1. q \in f - 1..last /\ ~(q < f) /\ q - 1 = f - 1 + (i - 1) /\ i \in 0..N /\ q \in Int /\ q >= 1
      BY <1>1
    <3>2. upTo[q - 1] \in NumStates
      BY <2>2, <3>1
    <3> HIDE DEF q
    <3>3. upTo[q] = NumberStep(upTo[q - 1], Byte(t, 0, q))
      BY <1>10, <3>1, Zenon
    <3>4. Byte(t, 0, q) \in Int
      BY <1>4, <3>1
    <3>5. upTo[q] \in NumStates
      BY <3>2, <3>3, <3>4, StepFits, Zenon
    <3> QED
      BY <3>1, <3>5 DEF q
  <2> HIDE DEF I, N
  <2>3. \A i \in 0..N : i \in I
    BY <1>2, <2>1, <2>2, Induction
  <2> QED
    BY <2>3 DEF I
<1>12. upTo \in [f - 1..last -> NumStates]
  <2>1. ASSUME NEW q \in f - 1..last PROVE upTo[q] \in NumStates
    <3> DEFINE i == q - (f - 1)
    <3>1. i \in 0..N /\ f - 1 + i = q
      BY <1>1
    <3> HIDE DEF i
    <3> QED
      BY <1>11, <3>1
  <2>2. upTo = [q \in f - 1..last |-> body(upTo, q)]
    BY <1>9
  <2>3. upTo = [q \in f - 1..last |-> upTo[q]]
    <3> HIDE DEF body
    <3> QED
      BY <2>2
  <2> QED
    BY <2>1, <2>3
<1>13. upTo[f - 1] = NewNumber /\ \A q \in f..last : upTo[q] = NumberStep(upTo[q - 1], Byte(t, 0, q))
  <2>1. f - 1 \in f - 1..last /\ f - 1 < f /\ \A q \in f..last : q \in f - 1..last /\ ~(q < f)
    BY <1>1
  <2> QED
    BY <1>10, <2>1, Zenon
<1>14. NumberAt(t, 1) =
         [status |-> upTo[Min(Over(t, upTo))].status, to |-> Min(Over(t, upTo)) - 1,
          double |-> upTo[Min(Over(t, upTo))].double,
          int |-> IF t[1] = Minus THEN -upTo[Min(Over(t, upTo))].int ELSE upTo[Min(Over(t, upTo))].int]
  BY Zenon DEF NumberAt, First, Over, upTo
<1> QED
  BY <1>12, <1>13, <1>14, Zenon DEF f, last

(* What is read of a text that begins with the bytes s, behind which comes *)
(* nothing, or a byte that is part of no number.                           *)
LEMMA NumberReads ==
  ASSUME NEW s \in Seq(Int), s # <<>>, NEW behind \in Seq(Int),
         behind = <<>> \/ behind[1] \notin NumberBytes,
         NEW u, u = Unsigned(s), NEW n, n = NumberAt(s \o behind, 1)
  PROVE  /\ u \in Seq(Int)
         /\ \E st : /\ Runs(st, u)
                    /\ \/ st[Len(u)].status # "reads" /\ n.to # Len(s)
                       \/ /\ st[Len(u)].status = "reads" /\ n.to = Len(s)
                          /\ \E e \in Int \ NumberBytes : \E z : z = NumberStep(st[Len(u)], e) /\
                               /\ n.status = z.status /\ n.double = z.double
                               /\ n.int = IF s[1] = Minus THEN -z.int ELSE z.int
<1> DEFINE t == s \o behind
           L == Len(s)
           f == First(s)
           m == L - f + 1
           e == Byte(t, 0, L + 1)
<1>1. /\ t \in Seq(Int) /\ Len(t) = L + Len(behind) /\ L \in Nat /\ L >= 1 /\ Len(behind) \in Nat
      /\ \A i \in 1..L : t[i] = s[i]
      /\ \A j \in 1..Len(behind) : t[L + j] = behind[j]
  <2>1. s \in Seq(Int) /\ behind \in Seq(Int)
    OBVIOUS
  <2>2. /\ s \o behind \in Seq(Int) /\ Len(s \o behind) = Len(s) + Len(behind)
        /\ Len(s) \in Nat /\ Len(behind) \in Nat
        /\ \A i \in 1..Len(s) : (s \o behind)[i] = s[i]
        /\ \A j \in 1..Len(behind) : (s \o behind)[Len(s) + j] = behind[j]
    BY <2>1, Joined
  <2>3. Len(s) >= 1
    OBVIOUS
  <2> QED
    BY <2>2, <2>3, Zenon
<1>2. f \in {1, 2} /\ m \in Nat /\ f - 1 + m = L /\ First(t) = f /\ t # <<>> /\ t[1] = s[1]
      /\ f <= L + 1 /\ L + 1 <= Len(t) + 1
  <2>1. t[1] = s[1]
    BY <1>1
  <2>2. First(t) = f
    BY <2>1 DEF First
  <2>3. t # <<>>
    BY <1>1
  <2>4. f \in {1, 2}
    BY DEF First
  <2> HIDE DEF t, f
  <2> QED
    BY <1>1, <2>1, <2>2, <2>3, <2>4, SMTT(60)
<1>3. u \in Seq(Int) /\ Len(u) = m /\ \A k \in 1..m : u[k] = s[f - 1 + k]
  <2>1. CASE s[1] = Minus
    <3>1. u = Tail(s) /\ f = 2
      BY <2>1 DEF Unsigned, First
    <3> HIDE DEF f
    <3> QED
      BY <3>1
  <2>2. CASE s[1] # Minus
    <3>1. u = s /\ f = 1
      BY <2>2 DEF Unsigned, First
    <3> HIDE DEF f
    <3> QED
      BY <3>1
  <2> QED
    BY <2>1, <2>2
<1>4. e \in Int /\ e \notin NumberBytes
  <2>1. CASE behind = <<>>
    <3>1. ~(L + 1 <= Len(t))
      BY <1>1, <2>1
    <3>2. e = 0
      BY <3>1, Zenon DEF Byte
    <3>3. 0 \in Int /\ 0 \notin NumberBytes
      BY SMT DEF NumberBytes, DigitBytes, ExpBytes, Plus, Minus, Dot
    <3> QED
      BY <3>2, <3>3
  <2>2. CASE behind # <<>>
    <3>1. 1 \in 1..Len(behind) /\ L + 1 <= Len(t) /\ behind[1] \in Int
      BY <1>1, <2>2
    <3>2. e = t[L + 1] /\ t[L + 1] = behind[1]
      BY <1>1, <3>1, Zenon DEF Byte
    <3> QED
      BY <2>2, <3>1, <3>2
  <2> QED
    BY <2>1, <2>2
<1> HIDE DEF t, L, f, m
<1>5. PICK g \in [f - 1..Len(t) + 1 -> NumStates] :
        /\ g[f - 1] = NewNumber
        /\ \A q \in f..Len(t) + 1 : g[q] = NumberStep(g[q - 1], Byte(t, 0, q))
        /\ NumberAt(t, 1) =
             [status |-> g[Min(Over(t, g))].status, to |-> Min(Over(t, g)) - 1,
              double |-> g[Min(Over(t, g))].double,
              int |-> IF t[1] = Minus THEN -g[Min(Over(t, g))].int ELSE g[Min(Over(t, g))].int]
  <2>1. t \in Seq(Int) /\ t # <<>> /\ First(t) = f
    BY <1>1, <1>2
  <2> QED
    BY <2>1, NumberUnfolds
<1> DEFINE st == [k \in 0..m |-> g[f - 1 + k]]
           E == {q \in f..Len(t) + 1 : g[q].status # "reads"}
<1>6. Over(t, g) = E
  BY <1>2 DEF Over
<1>7. st \in [0..m -> NumStates] /\ st[0] = NewNumber
      /\ \A k \in 1..m : st[k] = NumberStep(st[k - 1], u[k])
  <2>1. \A k \in 0..m : f - 1 + k \in f - 1..Len(t) + 1
    BY <1>1, <1>2
  <2>2. st \in [0..m -> NumStates]
    BY <2>1
  <2>3. f - 1 + 0 = f - 1 /\ 0 \in 0..m
    BY <1>2
  <2>4. ASSUME NEW k \in 1..m PROVE st[k] = NumberStep(st[k - 1], u[k])
    <3> DEFINE q == f - 1 + k
    <3>1. q \in f..Len(t) + 1 /\ q - 1 = f - 1 + (k - 1) /\ k \in 0..m /\ k - 1 \in 0..m /\ q \in 1..L
          /\ q <= Len(t)
      <4>1. L <= Len(t) /\ Len(t) \in Nat /\ L \in Nat
        BY <1>1
      <4>2. q <= L /\ q \in f..L
        BY <1>2, <4>1
      <4> QED
        BY <1>2, <4>1, <4>2, SMTT(60)
    <3> HIDE DEF q
    <3>2. g[q] = NumberStep(g[q - 1], t[q])
      BY <1>5, <3>1, Zenon DEF Byte
    <3>3. t[q] = u[k]
      BY <1>1, <1>3, <3>1, Zenon DEF q
    <3>4. st[k] = g[q] /\ st[k - 1] = g[q - 1]
      BY <3>1, Zenon DEF q
    <3> HIDE DEF st
    <3> QED
      BY <3>2, <3>3, <3>4, Zenon
  <2> QED
    BY <1>5, <2>2, <2>3, <2>4, Zenon
<1>8. st[m] = g[L] /\ m \in 0..m
  BY <1>2, SMTT(60)
<1> HIDE DEF st, E
<1>9. Runs(st, u)
  BY <1>3, <1>7 DEF Runs
<1>10. ASSUME NEW k \in E, \A i \in E : k <= i
       PROVE  /\ n.to = k - 1 /\ n.status = g[k].status /\ n.double = g[k].double
              /\ n.int = IF s[1] = Minus THEN -g[k].int ELSE g[k].int
  <2>1. E \in SUBSET Nat
    BY <1>1, <1>2 DEF E
  <2>2. Min(E) = k
    BY <1>10, <2>1, MinIs
  <2>3. n = [status |-> g[k].status, to |-> k - 1, double |-> g[k].double,
             int |-> IF t[1] = Minus THEN -g[k].int ELSE g[k].int]
    BY <1>5, <1>6, <2>2, Zenon DEF t
  <2> QED
    BY <1>2, <2>3, SMTT(60)
<1>11. CASE st[m].status # "reads"
  <2>1. L \in E
    <3>1. m # 0
      <4>1. NewNumber.status = "reads"
        BY DEF NewNumber
      <4> QED
        BY <1>7, <1>11, <4>1, Zenon
    <3>2. L \in f..Len(t) + 1
      BY <1>1, <1>2, <3>1
    <3> QED
      BY <1>8, <1>11, <3>2 DEF E
  <2>2. PICK k \in E : \A i \in E : k <= i
    <3>1. E \in SUBSET Nat
      BY <1>1, <1>2 DEF E
    <3>2. E # {}
      BY <2>1
    <3> QED
      BY <3>1, <3>2, LeastOne
  <2>3. n.to = k - 1 /\ k <= L /\ k \in Int
    <3>1. k \in Int
      BY <1>1, <1>2 DEF E
    <3> QED
      BY <1>10, <2>1, <2>2, <3>1
  <2>4. n.to # L
    BY <1>1, <2>3
  <2> QED
    BY <1>3, <1>9, <1>11, <2>4, Zenon DEF L
<1>12. CASE st[m].status = "reads"
  <2> DEFINE z == NumberStep(st[m], e)
             I == {d \in 0..m : st[m - d].status = "reads"}
  <2>1. \A k \in 0..m : st[k].status = "reads"
    <3>1. 0 \in I
      BY <1>2, <1>12
    <3>2. ASSUME NEW d \in 1..m, d - 1 \in I PROVE d \in I
      <4> DEFINE k == m - d + 1
      <4>1. k \in 1..m /\ m - (d - 1) = k /\ m - d = k - 1 /\ d \in 0..m /\ k - 1 \in 0..m
            /\ k \in 1..Len(u)
        BY <1>2, <1>3
      <4> HIDE DEF k
      <4>2. st[k].status = "reads"
        BY <3>2, <4>1
      <4>3. st[k] = NumberStep(st[k - 1], u[k])
        BY <1>7, <4>1
      <4>4. st[k - 1].status = "reads"
        BY <4>2, <4>3, Zenon DEF NumberStep
      <4> QED
        BY <4>1, <4>4
    <3> HIDE DEF I
    <3>3. \A d \in 0..m : d \in I
      BY <1>2, <3>1, <3>2, Induction
    <3>4. \A k \in 0..m : m - k \in 0..m /\ m - (m - k) = k
      BY <1>2
    <3> QED
      BY <3>3, <3>4 DEF I
  <2>2. g[L + 1] = z
    <3>1. L + 1 \in f..Len(t) + 1 /\ L + 1 - 1 = L
      BY <1>1, <1>2
    <3> DEFINE q == L + 1
    <3>2. q \in f..Len(t) + 1 /\ q - 1 = L
      BY <1>1, <3>1
    <3>3. e = Byte(t, 0, q)
      OBVIOUS
    <3> HIDE DEF q, e
    <3>4. g[q] = NumberStep(g[q - 1], Byte(t, 0, q))
      BY <1>5, <3>2
    <3>5. g[q] = NumberStep(st[m], e)
      BY <1>8, <3>2, <3>3, <3>4, Zenon
    <3> QED
      BY <3>5 DEF q
  <2>3. z.status # "reads"
    <3>1. st[m] \in NumStates
      BY <1>7, <1>8
    <3> QED
      BY <1>4, <3>1, StepFits, Zenon
  <2>4. L + 1 \in E
    <3>1. L + 1 \in f..Len(t) + 1
      BY <1>1, <1>2
    <3> QED
      BY <2>2, <2>3, <3>1, Zenon DEF E
  <2>5. \A i \in E : L + 1 <= i
    <3> SUFFICES ASSUME NEW i \in E, ~(L + 1 <= i) PROVE FALSE
      OBVIOUS
    <3>1. i \in f..Len(t) + 1 /\ g[i].status # "reads"
      BY DEF E
    <3> DEFINE k == i - (f - 1)
    <3>2. k \in 0..m /\ f - 1 + k = i
      BY <1>1, <1>2, <3>1
    <3> HIDE DEF k
    <3>3. st[k] = g[i]
      BY <3>2 DEF st
    <3> QED
      BY <2>1, <3>1, <3>2, <3>3
  <2>6. /\ n.to = L + 1 - 1 /\ n.status = z.status /\ n.double = z.double
        /\ n.int = IF s[1] = Minus THEN -z.int ELSE z.int
    <3> HIDE DEF z, e
    <3> DEFINE k == L + 1
    <3>0. k \in E /\ (\A i \in E : k <= i)
      BY <2>4, <2>5
    <3> HIDE DEF k
    <3>1. /\ n.to = k - 1 /\ n.status = g[k].status /\ n.double = g[k].double
          /\ n.int = IF s[1] = Minus THEN -g[k].int ELSE g[k].int
      BY <1>10, <3>0
    <3>2. g[k] = z
      BY <2>2 DEF k
    <3>3. n.to = L + 1 - 1
      BY <1>1, <3>1 DEF k
    <3> QED
      BY <3>1, <3>2, <3>3, Zenon
  <2>7. L + 1 - 1 = L /\ e \in Int \ NumberBytes
    BY <1>1, <1>4
  <2> HIDE DEF e
  <2> QED
    BY <1>3, <1>9, <1>12, <2>6, <2>7, ZenonT(60) DEF L
<1> QED
  BY <1>3, <1>11, <1>12

(***************************************************************************)
(* The parts of a number are those of the definition.                      *)
(***************************************************************************)

(* A piece of a sequence, and when it is digits.                           *)
LEMMA CutIs ==
  ASSUME NEW u \in Seq(Int), NEW a \in 0..Len(u), NEW b \in a..Len(u),
         NEW w, w = SubSeq(u, a + 1, b)
  PROVE  /\ w \in Seq(Int) /\ Len(w) = b - a /\ DOMAIN w = 1..b - a /\ \A k \in 1..b - a : w[k] = u[a + k]
         /\ AreDigits(w) <=> b > a /\ Digits(u, a + 1, b)
<1>1. w \in Seq(Int) /\ Len(w) = b - a /\ DOMAIN w = 1..b - a /\ \A k \in 1..b - a : w[k] = u[a + k]
  <2>1. Len(u) \in Nat /\ \A i \in a + 1..b : u[i] \in Int
    OBVIOUS
  <2> QED
    BY <2>1
<1>2. w # <<>> <=> b > a
  <2>1. w # <<>> <=> Len(w) # 0
    <3>1. w \in Seq(Int)
      BY <1>1
    <3> QED
      BY <3>1, EmptySeq, Zenon
  <2>2. Len(w) # 0 <=> b > a
    BY <1>1
  <2> QED
    BY <2>1, <2>2, Zenon
<1>3. (\A k \in 1..b - a : w[k] \in DigitBytes) <=> Digits(u, a + 1, b)
  <2>1. ASSUME \A k \in 1..b - a : w[k] \in DigitBytes PROVE Digits(u, a + 1, b)
    <3>1. ASSUME NEW q \in a + 1..b PROVE u[q] \in DigitBytes
      <4> DEFINE k == q - a
      <4>1. k \in 1..b - a /\ a + k = q
        OBVIOUS
      <4> HIDE DEF k
      <4> QED
        BY <1>1, <2>1, <4>1
    <3> QED
      BY <3>1 DEF Digits
  <2>2. ASSUME Digits(u, a + 1, b) PROVE \A k \in 1..b - a : w[k] \in DigitBytes
    <3> TAKE k \in 1..b - a
    <3>1. a + k \in a + 1..b
      OBVIOUS
    <3> QED
      BY <1>1, <2>2, <3>1 DEF Digits
  <2> QED
    BY <2>1, <2>2
<1> QED
  BY <1>1, <1>2, <1>3, Zenon DEF AreDigits

(* The forms of the grammar, as the parts that the automaton goes through. *)
LEMMA FormsAre ==
  ASSUME NEW u \in Seq(Int), NEW i \in 0..Len(u), NEW j \in i..Len(u)
  PROVE  /\ IsInt(SubSeq(u, 1, i)) <=> i >= 1 /\ IntPart(u, i)
         /\ IsFrac(SubSeq(u, i + 1, j)) <=>
              j = i \/ (j > i + 1 /\ u[i + 1] = Dot /\ Digits(u, i + 2, j))
         /\ IsExp(SubSeq(u, j + 1, Len(u))) <=>
              j = Len(u) \/ \E h \in j + 1..Len(u) - 1 : ExpPart(u, j, h, Len(u))
<1>1. IsInt(SubSeq(u, 1, i)) <=> i >= 1 /\ IntPart(u, i)
  <2> DEFINE w == SubSeq(u, 1, i)
             a == 0
  <2>1. w = SubSeq(u, a + 1, i) /\ a \in 0..Len(u) /\ i \in a..Len(u)
    OBVIOUS
  <2>2. a + 1 = 1 /\ i - a = i /\ (i >= 1 => 1 \in 1..i) /\ (i > a <=> i >= 1) /\ a + 1 = 1
    OBVIOUS
  <2> HIDE DEF w, a
  <2>3. Len(w) = i /\ (i >= 1 => w[1] = u[1]) /\ (AreDigits(w) <=> i >= 1 /\ Digits(u, 1, i))
    <3>1. Len(w) = i - a /\ \A k \in 1..i - a : w[k] = u[a + k]
      BY <2>1, CutIs
    <3>2. AreDigits(w) <=> i > a /\ Digits(u, a + 1, i)
      BY <2>1, CutIs
    <3>3. i >= 1 => w[1] = u[1]
      BY <2>2, <3>1
    <3> QED
      BY <2>2, <3>1, <3>2, <3>3, Zenon
  <2>4. i > 1 => i >= 1
    OBVIOUS
  <2> QED
    BY <2>3, <2>4, Zenon DEF IsInt, IntPart, w
<1>2. IsFrac(SubSeq(u, i + 1, j)) <=>
        j = i \/ (j > i + 1 /\ u[i + 1] = Dot /\ Digits(u, i + 2, j))
  <2> DEFINE w == SubSeq(u, i + 1, j)
  <2>1. w \in Seq(Int) /\ Len(w) = j - i /\ \A k \in 1..j - i : w[k] = u[i + k]
    BY CutIs
  <2>2. CASE j = i
    <3>1. w = <<>>
      BY <2>1, <2>2
    <3> QED
      BY <2>2, <3>1, Zenon DEF IsFrac
  <2>3. CASE j # i
    <3>1. w # <<>> /\ w[1] = u[i + 1] /\ i + 1 \in 0..Len(u) /\ j \in i + 1..Len(u)
      <4>1. 1 \in 1..j - i /\ i + 1 \in 0..Len(u) /\ j \in i + 1..Len(u) /\ j - i # 0
        BY <2>3
      <4> HIDE DEF w
      <4> QED
        BY <2>1, <4>1
    <3>2. Tail(w) = SubSeq(u, i + 1 + 1, j)
      <4> DEFINE x == Tail(w)
                 y == SubSeq(u, i + 1 + 1, j)
      <4>1. y \in Seq(Int) /\ Len(y) = j - (i + 1) /\ \A k \in 1..j - (i + 1) : y[k] = u[i + 1 + k]
        BY <3>1, CutIs
      <4> HIDE DEF w, y
      <4>2. x \in Seq(Int) /\ Len(x) = Len(w) - 1 /\ \A k \in 1..Len(w) - 1 : x[k] = w[k + 1]
        BY <2>1, <3>1
      <4> HIDE DEF x
      <4>3. Len(x) = Len(y)
        BY <2>1, <4>1, <4>2
      <4>4. ASSUME NEW k \in 1..Len(x) PROVE x[k] = y[k]
        <5>1. k \in 1..Len(w) - 1 /\ k \in 1..j - (i + 1) /\ k + 1 \in 1..j - i /\ i + 1 + k = i + (k + 1)
          BY <2>1, <4>2
        <5> QED
          BY <2>1, <4>1, <4>2, <5>1
      <4>5. x = y
        BY <4>1, <4>2, <4>3, <4>4, SeqEqual
      <4> QED
        BY <4>5 DEF x, y, w
    <3>3. AreDigits(Tail(w)) <=> j > i + 1 /\ Digits(u, i + 1 + 1, j)
      BY <3>1, <3>2, CutIs
    <3>4. i + 1 + 1 = i + 2
      OBVIOUS
    <3> HIDE DEF w
    <3>5. IsFrac(w) <=> j = i \/ (j > i + 1 /\ u[i + 1] = Dot /\ Digits(u, i + 2, j))
      BY <2>3, <3>1, <3>3, <3>4, Zenon DEF IsFrac
    <3> QED
      BY <3>5 DEF w
  <2> QED
    BY <2>2, <2>3
<1>3. IsExp(SubSeq(u, j + 1, Len(u))) <=>
        j = Len(u) \/ \E h \in j + 1..Len(u) - 1 : ExpPart(u, j, h, Len(u))
  <2> DEFINE m == Len(u)
             w == SubSeq(u, j + 1, m)
  <2>1. w \in Seq(Int) /\ Len(w) = m - j /\ (\A k \in 1..m - j : w[k] = u[j + k])
        /\ m \in Nat /\ j \in 0..m /\ m \in j..m
    <3>1. j \in 0..m /\ m \in j..m /\ m \in Nat
      OBVIOUS
    <3> QED
      BY <3>1, CutIs
  <2>2. CASE j = m
    <3>1. w = <<>>
      BY <2>1, <2>2
    <3> QED
      BY <2>2, <3>1, Zenon DEF IsExp
  <2>3. CASE j # m
    <3> HIDE DEF m
    <3>1. w # <<>> /\ w[1] = u[j + 1] /\ j + 1 \in 0..m /\ m \in j + 1..m
      <4>1. 1 \in 1..m - j /\ j + 1 \in 0..m /\ m \in j + 1..m /\ m - j # 0
        BY <2>1, <2>3
      <4> HIDE DEF w
      <4> QED
        BY <2>1, <4>1
    <3>2. Tail(w) = SubSeq(u, j + 1 + 1, m)
      <4> DEFINE x == Tail(w)
                 y == SubSeq(u, j + 1 + 1, m)
      <4>1. y \in Seq(Int) /\ Len(y) = m - (j + 1) /\ \A k \in 1..m - (j + 1) : y[k] = u[j + 1 + k]
        BY <3>1, CutIs, SMTT(60) DEF m
      <4> HIDE DEF w, y
      <4>2. x \in Seq(Int) /\ Len(x) = Len(w) - 1 /\ \A k \in 1..Len(w) - 1 : x[k] = w[k + 1]
        BY <2>1, <3>1
      <4> HIDE DEF x
      <4>3. Len(x) = Len(y)
        BY <2>1, <4>1, <4>2
      <4>4. ASSUME NEW k \in 1..Len(x) PROVE x[k] = y[k]
        <5>1. k \in 1..Len(w) - 1 /\ k \in 1..m - (j + 1) /\ k + 1 \in 1..m - j /\ j + 1 + k = j + (k + 1)
          BY <2>1, <4>2
        <5> QED
          BY <2>1, <4>1, <4>2, <5>1
      <4>5. x = y
        BY <4>1, <4>2, <4>3, <4>4, SeqEqual
      <4> QED
        BY <4>5 DEF x, y, w
    <3>3. AreDigits(Tail(w)) <=> m > j + 1 /\ Digits(u, j + 1 + 1, m)
      BY <3>1, <3>2, CutIs DEF m
    <3>4. Len(w) > 1 => /\ w[2] = u[j + 2]
                        /\ AreDigits(SubSeq(w, 3, Len(w))) <=> m > j + 2 /\ Digits(u, j + 2 + 1, m)
      <4> SUFFICES ASSUME Len(w) > 1
                   PROVE  /\ w[2] = u[j + 2]
                          /\ AreDigits(SubSeq(w, 3, Len(w))) <=> m > j + 2 /\ Digits(u, j + 2 + 1, m)
        OBVIOUS
      <4> HIDE DEF w
      <4>1. j + 2 \in 0..m /\ m \in j + 2..m /\ 2 \in 1..m - j /\ 2 \in 0..Len(w) /\ Len(w) \in 2..Len(w)
            /\ w \in Seq(Int)
        BY <2>1
      <4>2. w[2] = u[j + 2]
        BY <2>1, <4>1
      <4>3. AreDigits(SubSeq(w, 2 + 1, Len(w))) <=> Len(w) > 2 /\ Digits(w, 2 + 1, Len(w))
        BY <4>1, CutIs
      <4>4. Len(w) > 2 <=> m > j + 2
        BY <2>1
      <4>5. Digits(w, 3, Len(w)) <=> Digits(u, j + 2 + 1, m)
        <5>1. ASSUME Digits(w, 3, Len(w)), NEW q \in j + 2 + 1..m PROVE u[q] \in DigitBytes
          <6> DEFINE k == q - j
          <6>1. k \in 3..Len(w) /\ k \in 1..m - j /\ j + k = q
            BY <2>1
          <6> HIDE DEF k
          <6>2. w[k] \in DigitBytes
            BY <5>1, <6>1 DEF Digits
          <6> QED
            BY <2>1, <6>1, <6>2
        <5>2. ASSUME Digits(u, j + 2 + 1, m), NEW k \in 3..Len(w) PROVE w[k] \in DigitBytes
          <6>1. k \in 1..m - j /\ j + k \in j + 2 + 1..m
            BY <2>1
          <6>2. u[j + k] \in DigitBytes
            BY <5>2, <6>1 DEF Digits
          <6> QED
            BY <2>1, <6>1, <6>2
        <5> QED
          BY <5>1, <5>2, Zenon DEF Digits
      <4>6. 2 + 1 = 3
        OBVIOUS
      <4> QED
        BY <4>2, <4>3, <4>4, <4>5, <4>6, Zenon
    <3> HIDE DEF w
    <3>5. Len(w) > 1 <=> m > j + 1
      BY <2>1
    <3>6. IsExp(w) <=> /\ u[j + 1] \in ExpBytes
                       /\ \/ m > j + 1 /\ Digits(u, j + 1 + 1, m)
                          \/ m > j + 1 /\ u[j + 2] \in Signs /\ m > j + 2 /\ Digits(u, j + 2 + 1, m)
      BY <3>1, <3>3, <3>4, <3>5, Zenon DEF IsExp, Signs
    <3>7. ASSUME NEW h \in j + 1..m - 1, ExpPart(u, j, h, m)
          PROVE  /\ u[j + 1] \in ExpBytes
                 /\ \/ m > j + 1 /\ Digits(u, j + 1 + 1, m)
                    \/ m > j + 1 /\ u[j + 2] \in Signs /\ m > j + 2 /\ Digits(u, j + 2 + 1, m)
      <4>1. /\ u[j + 1] \in ExpBytes /\ (h = j + 1 \/ (h = j + 2 /\ u[j + 2] \in Signs))
            /\ Digits(u, h + 1, m)
        BY <3>7 DEF ExpPart
      <4>2. m > h /\ m > j + 1
        BY <2>1
      <4> QED
        BY <4>1, <4>2, Zenon
    <3>8. ASSUME u[j + 1] \in ExpBytes, m > j + 1, Digits(u, j + 1 + 1, m)
          PROVE  j + 1 \in j + 1..m - 1 /\ ExpPart(u, j, j + 1, m)
      <4>1. j + 1 \in j + 1..m - 1 /\ j + 1 <= m
        BY <2>1, <3>8
      <4> QED
        BY <3>8, <4>1, Zenon DEF ExpPart
    <3>9. ASSUME u[j + 1] \in ExpBytes, u[j + 2] \in Signs, m > j + 2, Digits(u, j + 2 + 1, m)
          PROVE  j + 2 \in j + 1..m - 1 /\ ExpPart(u, j, j + 2, m)
      <4>1. j + 2 \in j + 1..m - 1 /\ j + 2 <= m
        BY <2>1, <3>9
      <4> QED
        BY <3>9, <4>1, Zenon DEF ExpPart
    <3>10. IsExp(w) <=> \E h \in j + 1..m - 1 : ExpPart(u, j, h, m)
      BY <3>6, <3>7, <3>8, <3>9, Zenon
    <3> QED
      BY <2>3, <3>10, Zenon DEF w, m
  <2> QED
    BY <2>2, <2>3
<1> QED
  BY <1>1, <1>2, <1>3

(* The number u, without its sign, has its parts and nothing else. *)
HasParts(u) ==
  \E i \in 0..Len(u) : \E j \in i..Len(u) :
    /\ IntPart(u, i) /\ FracPart(u, i, j)
    /\ j = Len(u) \/ \E h \in j + 1..Len(u) - 1 : ExpPart(u, j, h, Len(u))

(* The automaton reads such a number to its end, and no other. *)
LEMMA ReadsParts ==
  ASSUME NEW st, NEW u \in Seq(Int), NEW v, Runs(st, u), Totals(v, u)
  PROVE  LET n == st[Len(u)] IN
         HasParts(u) <=> n.status = "reads" /\ ~(n.digits = 0 /\ n.double)
<1> DEFINE m == Len(u)
           n == st[m]
<1>1. m \in Nat /\ m \in 0..m /\ n \in NumStates
  <2>1. m \in Nat /\ m \in 0..m
    OBVIOUS
  <2> QED
    BY <2>1 DEF Runs
<1>2. ASSUME n.status = "reads", ~(n.digits = 0 /\ n.double) PROVE HasParts(u)
  <2>1. Stands(n, u, v, m)
    BY <1>1, <1>2, AlwaysStands
  <2> HIDE DEF n, m
  <2>2. CASE InInt(n, u, v, m)
    <3>1. IntPart(u, m) /\ FracPart(u, m, m)
      BY <2>2, Zenon DEF InInt, FracPart
    <3>2. m \in m..m
      BY <1>1
    <3> QED
      BY <1>1, <3>1, <3>2, Zenon DEF HasParts, m
  <2>3. ASSUME NEW i \in Nat, InFrac(n, u, m, i) PROVE HasParts(u)
    <3>1. /\ n.double /\ IntPart(u, i) /\ u[i + 1] = Dot /\ Digits(u, i + 2, m)
          /\ i \in 1..m - 1 /\ n.digits = m - i - 1
      BY <2>3 DEF InFrac
    <3>2. i >= 1 /\ m > i + 1 /\ i \in 0..m /\ m \in i..m
      BY <1>1, <1>2, <3>1
    <3>3. FracPart(u, i, m)
      BY <3>1, <3>2, Zenon DEF FracPart
    <3> QED
      BY <3>1, <3>2, <3>3, Zenon DEF HasParts, m
  <2>4. ASSUME NEW i \in Nat, NEW j \in Nat, NEW h \in Nat, InExp(n, u, m, i, j, h) PROVE HasParts(u)
    <3>1. /\ n.double /\ n.digits = m - h
          /\ IntPart(u, i) /\ FracPart(u, i, j) /\ ExpPart(u, j, h, m)
          /\ i \in 0..j /\ j \in 0..m - 1
      BY <2>4 DEF InExp
    <3>2. h >= j + 1 /\ h <= m
      BY <3>1 DEF ExpPart
    <3>3. h \in j + 1..m - 1 /\ i \in 0..m /\ j \in i..m
      BY <1>1, <1>2, <3>1, <3>2
    <3> QED
      BY <3>1, <3>3, Zenon DEF HasParts, m
  <2> QED
    BY <2>1, <2>2, <2>3, <2>4, Zenon DEF Stands
<1>3. ASSUME HasParts(u) PROVE n.status = "reads" /\ ~(n.digits = 0 /\ n.double)
  <2>1. PICK i \in 0..m : \E j \in i..m :
          /\ IntPart(u, i) /\ FracPart(u, i, j)
          /\ j = m \/ \E h \in j + 1..m - 1 : ExpPart(u, j, h, m)
    BY <1>3 DEF HasParts
  <2>2. PICK j \in i..m :
          /\ IntPart(u, i) /\ FracPart(u, i, j)
          /\ j = m \/ \E h \in j + 1..m - 1 : ExpPart(u, j, h, m)
    BY <2>1
  <2>3. CASE j = m /\ i = m
    <3>1. InInt(n, u, v, m)
      BY <1>1, <2>2, <2>3, ReadsInt
    <3> QED
      BY <3>1, Zenon DEF InInt
  <2>4. CASE j = m /\ i # m
    <3>1. InFrac(n, u, m, i) /\ m > i + 1
      BY <2>2, <2>4, ReadsFrac
    <3> HIDE DEF n, m
    <3>2. n.status = "reads" /\ n.digits = m - i - 1
      BY <3>1, Zenon DEF InFrac
    <3> QED
      BY <1>1, <3>1, <3>2
  <2>5. ASSUME NEW h \in j + 1..m - 1, ExpPart(u, j, h, m)
        PROVE  n.status = "reads" /\ ~(n.digits = 0 /\ n.double)
    <3>1. h \in j + 1..m
      BY <1>1
    <3>2. InExp(n, u, m, i, j, h)
      BY <2>2, <2>5, <3>1, ReadsExp
    <3> HIDE DEF n, m
    <3>3. n.status = "reads" /\ n.digits = m - h
      BY <3>2, Zenon DEF InExp
    <3> QED
      BY <1>1, <2>5, <3>3
  <2> QED
    BY <2>2, <2>3, <2>4, <2>5, Zenon
<1> QED
  BY <1>2, <1>3, Zenon

(* Such numbers are those of JSON, and a sign without a digit. *)
LEMMA PartsAre ==
  ASSUME NEW s \in Seq(Int), s # <<>>, s[1] \in DigitBytes \cup {Minus},
         NEW u \in Seq(Int), u = Unsigned(s)
  PROVE  /\ HasParts(u) <=> IsNumber(s) \/ (s[1] = Minus /\ IsExp(Tail(s)))
         /\ IsInt(u) => IntPart(u, Len(u))
<1> DEFINE m == Len(u)
<1>1. m \in Nat /\ 0 \in 0..m /\ m \in 0..m
  OBVIOUS
<1>2. ASSUME HasParts(u) PROVE IsNumber(s) \/ (s[1] = Minus /\ IsExp(Tail(s)))
  <2>1. PICK i \in 0..m : \E j \in i..m :
          /\ IntPart(u, i) /\ FracPart(u, i, j)
          /\ j = m \/ \E h \in j + 1..m - 1 : ExpPart(u, j, h, m)
    BY <1>2 DEF HasParts
  <2>2. PICK j \in i..m :
          /\ IntPart(u, i) /\ FracPart(u, i, j)
          /\ j = m \/ \E h \in j + 1..m - 1 : ExpPart(u, j, h, m)
    BY <2>1
  <2>3. IsExp(SubSeq(u, j + 1, m))
    BY <2>2, FormsAre
  <2>4. CASE i >= 1
    <3>1. IsInt(SubSeq(u, 1, i))
      BY <2>2, <2>4, FormsAre
    <3>2. IsFrac(SubSeq(u, i + 1, j))
      <4>1. j = i \/ (j > i + 1 /\ u[i + 1] = Dot /\ Digits(u, i + 2, j))
        BY <2>2 DEF FracPart
      <4> QED
        BY <4>1, FormsAre
    <3>3. IsNumber(s)
      BY <2>3, <3>1, <3>2, Zenon DEF IsNumber
    <3> QED
      BY <3>3
  <2>5. CASE i = 0
    <3>1. j = 0
      BY <2>2, <2>5, SMT DEF FracPart
    <3>2. s[1] = Minus
      <4> SUFFICES ASSUME s[1] # Minus PROVE FALSE
        OBVIOUS
      <4>1. u = s /\ u[1] \in DigitBytes
        BY DEF Unsigned
      <4>2. m # 0
        BY <4>1
      <4>3. u[j + 1] \in ExpBytes
        BY <2>2, <3>1, <4>2, Zenon DEF ExpPart
      <4>4. u[1] \in ExpBytes
        BY <3>1, <4>3
      <4> QED
        BY <4>1, <4>4, ByteKinds
    <3>3. IsExp(u)
      <4>1. SubSeq(u, 0 + 1, m) = u
        OBVIOUS
      <4> QED
        BY <2>3, <3>1, <4>1
    <3> QED
      BY <3>2, <3>3 DEF Unsigned
  <2> QED
    BY <2>4, <2>5
<1>3. ASSUME IsNumber(s) PROVE HasParts(u)
  <2>1. PICK i \in 0..m : \E j \in i..m :
          IsInt(SubSeq(u, 1, i)) /\ IsFrac(SubSeq(u, i + 1, j)) /\ IsExp(SubSeq(u, j + 1, m))
    BY <1>3, Zenon DEF IsNumber
  <2>2. PICK j \in i..m :
          IsInt(SubSeq(u, 1, i)) /\ IsFrac(SubSeq(u, i + 1, j)) /\ IsExp(SubSeq(u, j + 1, m))
    BY <2>1
  <2>3. i >= 1 /\ IntPart(u, i)
    BY <2>2, FormsAre
  <2>4. FracPart(u, i, j)
    <3>1. j = i \/ (j > i + 1 /\ u[i + 1] = Dot /\ Digits(u, i + 2, j))
      BY <2>2, FormsAre
    <3> QED
      BY <2>3, <3>1, Zenon DEF FracPart
  <2>5. j = m \/ \E h \in j + 1..m - 1 : ExpPart(u, j, h, m)
    BY <2>2, FormsAre
  <2> QED
    BY <2>3, <2>4, <2>5, Zenon DEF HasParts
<1>4. ASSUME s[1] = Minus, IsExp(Tail(s)) PROVE HasParts(u)
  <2> DEFINE i == 0
             j == 0
  <2>1. i \in 0..m /\ j \in i..m /\ i = j
    BY <1>1
  <2>2. IsExp(SubSeq(u, j + 1, m))
    <3>1. SubSeq(u, j + 1, m) = u /\ u = Tail(s)
      BY <1>4, SMTT(60) DEF Unsigned
    <3> QED
      BY <1>4, <3>1
  <2>3. IntPart(u, i)
    <3>1. Digits(u, 1, 0) /\ ~(0 > 1)
      BY NoDigits
    <3> QED
      BY <3>1 DEF IntPart
  <2> HIDE DEF i, j
  <2>4. FracPart(u, i, j)
    BY <2>1 DEF FracPart
  <2>5. j = m \/ \E h \in j + 1..m - 1 : ExpPart(u, j, h, m)
    BY <2>1, <2>2, FormsAre
  <2> QED
    BY <2>1, <2>3, <2>4, <2>5, Zenon DEF HasParts
<1>5. ASSUME IsInt(u) PROVE IntPart(u, m)
  <2>1. SubSeq(u, 1, m) = u /\ m \in m..m
    BY <1>1
  <2>2. IsInt(SubSeq(u, 1, m))
    BY <1>5, <2>1
  <2> QED
    BY <1>1, <2>1, <2>2, FormsAre
<1> QED
  BY <1>2, <1>3, <1>4, <1>5, Zenon

(* What the two passes make of a text that begins like a number. *)
LEMMA NumbersHold ==
  ASSUME NEW s \in Seq(Int), s # <<>>, s[1] \in DigitBytes \cup {Minus},
         NEW behind \in Seq(Int), behind = <<>> \/ behind[1] \notin NumberBytes
  PROVE  LET n == NumberAt(s \o behind, 1)
             whole == n.status = "done" /\ n.to = Len(s)
         IN  /\ whole <=> IsNumber(s) \/ (s[1] = Minus /\ IsExp(Tail(s)))
             /\ whole => NumberSkipped(s \o behind, 1) = n.to
             /\ IsInt(Unsigned(s)) =>
                  /\ ~n.double
                  /\ -IntLimit < IntValue(s) /\ IntValue(s) < IntLimit => n.int = IntValue(s)
<1> DEFINE t == s \o behind
           n == NumberAt(t, 1)
           whole == n.status = "done" /\ n.to = Len(s)
           u == Unsigned(s)
           m == Len(u)
<1>1. /\ u \in Seq(Int)
      /\ \E st : /\ Runs(st, u)
                 /\ \/ st[m].status # "reads" /\ n.to # Len(s)
                    \/ /\ st[m].status = "reads" /\ n.to = Len(s)
                       /\ \E e \in Int \ NumberBytes : \E z : z = NumberStep(st[m], e) /\
                            /\ n.status = z.status /\ n.double = z.double
                            /\ n.int = IF s[1] = Minus THEN -z.int ELSE z.int
  BY NumberReads
<1> HIDE DEF n, u
<1>2. PICK st : /\ Runs(st, u)
                /\ \/ st[m].status # "reads" /\ n.to # Len(s)
                   \/ /\ st[m].status = "reads" /\ n.to = Len(s)
                      /\ \E e \in Int \ NumberBytes : \E z : z = NumberStep(st[m], e) /\
                           /\ n.status = z.status /\ n.double = z.double
                           /\ n.int = IF s[1] = Minus THEN -z.int ELSE z.int
  BY <1>1, Zenon
<1>3. PICK v : Totals(v, u) /\ IntValue(s) = IF s[1] = Minus THEN -v[m] ELSE v[m]
  BY <1>1, ValuesExist DEF u
<1> DEFINE c == st[m]
<1>4. c \in NumStates /\ m \in Nat
  <2>1. m \in Nat /\ m \in 0..m
    BY <1>1
  <2> QED
    BY <1>2, <2>1 DEF Runs
<1>5. HasParts(u) <=> c.status = "reads" /\ ~(c.digits = 0 /\ c.double)
  BY <1>1, <1>2, <1>3, ReadsParts
<1> HIDE DEF c, m
<1>6. c.status = "reads" =>
        /\ n.to = Len(s)
        /\ IF c.digits = 0 /\ c.double THEN n.status = "failed"
           ELSE /\ n.status = "done" /\ n.double = c.double
                /\ n.int = IF s[1] = Minus THEN -c.int ELSE c.int
  <2> SUFFICES ASSUME c.status = "reads"
               PROVE  /\ n.to = Len(s)
                      /\ IF c.digits = 0 /\ c.double THEN n.status = "failed"
                         ELSE /\ n.status = "done" /\ n.double = c.double
                              /\ n.int = IF s[1] = Minus THEN -c.int ELSE c.int
    OBVIOUS
  <2>1. n.to = Len(s) /\ \E e \in Int \ NumberBytes : \E z : z = NumberStep(c, e) /\
          /\ n.status = z.status /\ n.double = z.double
          /\ n.int = IF s[1] = Minus THEN -z.int ELSE z.int
    BY <1>2, Zenon DEF c
  <2>2. PICK e \in Int \ NumberBytes : \E z : z = NumberStep(c, e) /\
          /\ n.status = z.status /\ n.double = z.double
          /\ n.int = IF s[1] = Minus THEN -z.int ELSE z.int
    BY <2>1
  <2>3. PICK z : z = NumberStep(c, e) /\
          /\ n.status = z.status /\ n.double = z.double
          /\ n.int = IF s[1] = Minus THEN -z.int ELSE z.int
    BY <2>2
  <2>4. e \in Int /\ e \notin DigitBytes /\ e \notin Signs /\ e # Dot /\ e \notin ExpBytes
    BY ByteKinds
  <2>5. IF c.digits = 0 /\ c.double THEN z.status = "failed"
        ELSE z.status = "done" /\ z.double = c.double /\ z.int = c.int
    BY <1>4, <2>3, <2>4, StepIs
  <2> QED
    BY <2>1, <2>3, <2>5, Zenon
<1>7. whole <=> HasParts(u)
  <2>1. c.status # "reads" => n.to # Len(s)
    BY <1>2 DEF c
  <2> QED
    BY <1>5, <1>6, <2>1, Zenon
<1>8. ASSUME IsInt(u)
      PROVE  /\ ~n.double
             /\ -IntLimit < IntValue(s) /\ IntValue(s) < IntLimit => n.int = IntValue(s)
  <2>1. IntPart(u, m) /\ m \in 0..m
    BY <1>1, <1>4, <1>8, PartsAre DEF u, m
  <2>2. InInt(c, u, v, m)
    BY <1>1, <1>2, <1>3, <2>1, ReadsInt DEF c, m
  <2>3. c.status = "reads" /\ ~c.double /\ v[m] >= 0 /\ c.int = Kept(v[m])
    BY <2>2 DEF InInt
  <2>4. ~n.double /\ n.int = IF s[1] = Minus THEN -Kept(v[m]) ELSE Kept(v[m])
    BY <1>6, <2>3, Zenon
  <2>5. ASSUME -IntLimit < IntValue(s), IntValue(s) < IntLimit PROVE n.int = IntValue(s)
    <3>1. v[m] \in Int /\ IntLimit \in Nat
      <4>1. v \in [0..m -> Int]
        BY <1>3, Zenon DEF Totals, m
      <4>2. m \in 0..m
        BY <1>4
      <4> QED
        BY <4>1, <4>2, TextAssumption
    <3>2. v[m] < IntLimit
      BY <1>3, <2>3, <2>5, <3>1
    <3>3. Kept(v[m]) = v[m]
      BY <2>3, <3>1, <3>2 DEF Kept
    <3> QED
      BY <1>3, <2>4, <3>3, Zenon
  <2> QED
    BY <2>4, <2>5
<1>9. ASSUME whole PROVE NumberSkipped(t, 1) = n.to
  <2> DEFINE L == Len(s)
             B == {q \in 1..Len(t) : t[q] \notin NumberBytes}
  <2>1. /\ t \in Seq(Int) /\ Len(t) = L + Len(behind) /\ L \in Nat /\ L >= 1 /\ Len(behind) \in Nat
        /\ \A i \in 1..L : t[i] = s[i]
        /\ \A j \in 1..Len(behind) : t[L + j] = behind[j]
    <3>1. s \in Seq(Int) /\ behind \in Seq(Int)
      OBVIOUS
    <3>2. /\ s \o behind \in Seq(Int) /\ Len(s \o behind) = Len(s) + Len(behind)
          /\ Len(s) \in Nat /\ Len(behind) \in Nat
          /\ \A i \in 1..Len(s) : (s \o behind)[i] = s[i]
          /\ \A j \in 1..Len(behind) : (s \o behind)[Len(s) + j] = behind[j]
      BY <3>1, Joined
    <3>3. Len(s) >= 1
      OBVIOUS
    <3> QED
      BY <3>2, <3>3, Zenon
  <2> HIDE DEF t, L
  <2>2. \A k \in 1..m : u[k] \in NumberBytes
    <3>1. c.status = "reads"
      BY <1>5, <1>7, <1>9
    <3> DEFINE I == {d \in 0..m : st[m - d].status = "reads"}
    <3>2. 0 \in I
      BY <1>4, <3>1 DEF c
    <3>3. \A k \in 1..m : /\ st[k - 1] \in NumStates /\ st[k] = NumberStep(st[k - 1], u[k])
                          /\ u[k] \in Int
      <4>1. \A k \in 1..m : k - 1 \in 0..m /\ u[k] \in Int
        BY <1>1, <1>4, SMTT(60) DEF m
      <4> QED
        BY <1>2, <4>1, Zenon DEF Runs, m
    <3>4. ASSUME NEW d \in 1..m, d - 1 \in I PROVE d \in I
      <4> DEFINE k == m - d + 1
      <4>1. k \in 1..m /\ m - (d - 1) = k /\ m - d = k - 1 /\ d \in 0..m
        BY <1>4
      <4> HIDE DEF k
      <4>2. st[k].status = "reads"
        BY <3>4, <4>1
      <4>3. st[k - 1].status = "reads"
        BY <3>3, <4>1, <4>2, Zenon DEF NumberStep
      <4> QED
        BY <4>1, <4>3
    <3> HIDE DEF I
    <3>5. \A d \in 0..m : d \in I
      BY <1>4, <3>2, <3>4, Induction
    <3>6. ASSUME NEW k \in 1..m PROVE u[k] \in NumberBytes
      <4>1. m - k \in 0..m /\ m - (m - k) = k
        BY <1>4
      <4>2. st[k].status = "reads"
        BY <3>5, <4>1 DEF I
      <4> QED
        BY <3>3, <4>2, StepFits, Zenon
    <3> QED
      BY <3>6
  <2>3. ASSUME NEW i \in 1..L PROVE t[i] \in NumberBytes
    <3>1. t[i] = s[i]
      BY <2>1
    <3>2. CASE s[1] = Minus
      <4>1. u = Tail(s)
        BY <3>2 DEF u, Unsigned
      <4>2. CASE i = 1
        BY <3>1, <3>2, <4>2, ByteKinds DEF Signs
      <4>3. CASE i # 1
        <5>1. i - 1 \in 1..m /\ u[i - 1] = s[i - 1 + 1] /\ i - 1 + 1 = i
          BY <2>1, <4>1, <4>3 DEF m, L
        <5> QED
          BY <2>2, <3>1, <5>1
      <4> QED
        BY <4>2, <4>3
    <3>3. CASE s[1] # Minus
      <4>1. u = s
        BY <3>3 DEF u, Unsigned
      <4> QED
        BY <2>2, <3>1, <4>1 DEF m, L
    <3> QED
      BY <3>2, <3>3
  <2>4. CASE behind = <<>>
    <3>1. Len(t) = L
      BY <2>1, <2>4
    <3>2. B = {}
      BY <2>3, <3>1
    <3> QED
      BY <1>9, <3>1, <3>2, Zenon DEF NumberSkipped, L
  <2>5. CASE behind # <<>>
    <3>1. 1 \in 1..Len(behind) /\ L + 1 \in 1..Len(t)
      BY <2>1, <2>5
    <3>2. L + 1 \in B
      BY <2>1, <2>5, <3>1
    <3>3. \A i \in B : L + 1 <= i
      BY <2>1, <2>3
    <3>4. B \in SUBSET Nat
      OBVIOUS
    <3> HIDE DEF B
    <3>5. Min(B) = L + 1
      BY <3>2, <3>3, <3>4, MinIs
    <3>6. B # {} /\ Min(B) - 1 = L
      BY <2>1, <3>2, <3>5
    <3>7. NumberSkipped(t, 1) = IF B = {} THEN Len(t) ELSE Min(B) - 1
      BY Zenon DEF NumberSkipped, B
    <3>8. NumberSkipped(t, 1) = L
      BY <3>6, <3>7, Zenon
    <3> QED
      BY <1>9, <3>8, Zenon DEF L
  <2> QED
    BY <2>4, <2>5
<1>10. HasParts(u) <=> IsNumber(s) \/ (s[1] = Minus /\ IsExp(Tail(s)))
  BY <1>1, PartsAre DEF u
<1> QED
  BY <1>7, <1>8, <1>9, <1>10, Zenon DEF n, u, t

(* A whole text is taken for a number just if it is one by the grammar of  *)
(* JSON, or a sign without a digit to it, integers get their value, and    *)
(* the second pass, which does not look at what it skips, ends where the   *)
(* first one did: for numbers of every length and of any bytes             *)
(* (json.c:650-668, 738-850).                                              *)
THEOREM NumbersAreRead == Spec => []NumbersRead
<1>1. NumbersRead
  <2>1. ASSUME NEW s \in NumberTexts
        PROVE  s \in Seq(Int) /\ s # <<>> /\ s[1] \in DigitBytes \cup {Minus}
    <3>1. PICK k \in 1..MaxSymbols : s \in [1..k -> Symbols]
      BY DEF NumberTexts
    <3>2. k \in Nat /\ k >= 1 /\ Symbols \subseteq Int
      BY GrammarAssumption
    <3>3. s \in [1..k -> Int]
      BY <3>1, <3>2, Zenon
    <3>4. s \in Seq(Int) /\ Len(s) = k
      BY <3>2, <3>3
    <3>5. s # <<>>
      BY <3>2, <3>4
    <3> QED
      BY <3>4, <3>5, Zenon DEF NumberTexts
  <2>2. ASSUME NEW behind \in {<<>>} \cup {<<b>> : b \in Delimiters}
        PROVE  behind \in Seq(Int) /\ (behind = <<>> \/ behind[1] \notin NumberBytes)
    <3>1. \A b \in Delimiters : b \in Int /\ b \notin NumberBytes
      BY SMT DEF Delimiters, NumberBytes, DigitBytes, ExpBytes, Plus, Minus, Dot
    <3>2. CASE behind # <<>>
      <4>1. PICK b \in Delimiters : behind = <<b>>
        BY <3>2
      <4>2. b \in Int /\ b \notin NumberBytes
        BY <3>1, <4>1, Zenon
      <4>3. <<b>> \in Seq(Int) /\ <<b>>[1] = b
        BY <4>2
      <4> QED
        BY <4>1, <4>2, <4>3, Zenon
    <3>3. CASE behind = <<>>
      BY <3>3
    <3> QED
      BY <3>2, <3>3
  <2> QED
    BY <2>1, <2>2, NumbersHold, Zenon DEF NumbersRead
<1> QED
  BY <1>1, PTL

=============================================================================
