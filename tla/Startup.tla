------------------------------- MODULE Startup -------------------------------
(***************************************************************************)
(* The start of the server, coix_init of src/src/coix.c: the command line, *)
(* then the JSON configuration file, by options_parser.c and the parser of *)
(* module Json, then the socket, the thread pool and epoll.  It runs in    *)
(* one thread.                                                             *)
(***************************************************************************)
EXTENDS Json, JsonGrammar

CONSTANTS
  NumKeys,    \* options that are numbers: port, thread_num
  StrKeys,    \* options that are strings: addr, htdocs
  IntOf,      \* a scalar, read as u.integer and kept as an unsigned int
  CmdNums,    \* what strtoul makes of a number on the command line
  CmdStrs,    \* strings on the command line
  MaxOptions  \* bound on the options on the command line

Keys == NumKeys \cup StrKeys
NoStr == "NULL"
Garbage == "garbage"
Unset(k) == IF k \in NumKeys THEN 0 ELSE NoStr

ASSUME StartupAssumption ==
  /\ Keys \subseteq Strings /\ NumKeys \cap StrKeys = {}
  /\ IntOf \in [Scalars -> Nat] /\ CmdNums \subseteq Nat
  /\ {NoStr, Garbage} \cap (Strings \cup CmdStrs) = {}
  /\ MaxOptions \in Nat

VARIABLES
  main,     \* the step of coix_init
  conf,     \* struct config
  options,  \* options read from the command line
  member,   \* loop counter of process_value
  cmd       \* history: conf as the command line left it

confVars == <<conf, options, member, cmd>>
vars == <<jsonVars, main, confVars>>

Init ==
  /\ JsonInit
  /\ main = "logger"
  /\ conf = [k \in Keys |-> Unset(k)] /\ cmd = conf
  /\ options = 0 /\ member = 1

(* logger_create *)
LoggerCreate ==
  /\ main = "logger"
  /\ main' = "cmd"
  /\ UNCHANGED <<jsonVars, confVars>>

(* One option of getopt_long; a later one replaces an earlier one. *)
CmdOption(k) ==
  /\ main = "cmd" /\ options < MaxOptions
  /\ \E x \in (IF k \in NumKeys THEN CmdNums ELSE CmdStrs) : conf' = [conf EXCEPT ![k] = x]
  /\ options' = options + 1
  /\ UNCHANGED <<jsonVars, main, member, cmd>>

CmdOptionsEnd ==
  /\ main = "cmd"
  /\ main' = "file" /\ cmd' = conf
  /\ options' = 0
  /\ UNCHANGED <<jsonVars, conf, member>>

(* json_options_parse: stat, fopen or fread fails, or the file is empty. *)
FileUnread ==
  /\ main = "file"
  /\ main' = "services"
  /\ UNCHANGED <<jsonVars, confVars>>

FileRead ==
  /\ main = "file"
  /\ JsonParse
  /\ main' = "json"
  /\ UNCHANGED confVars

Parsing ==
  /\ main = "json"
  /\ ParseStep \/ (parser = "undo" /\ FreeStep)
  /\ UNCHANGED <<main, confVars>>

(* json_parse returned NULL. *)
ParseFails ==
  /\ main = "json" /\ parser = "null"
  /\ main' = "services"
  /\ UNCHANGED <<jsonVars, confVars>>

ParseReturns ==
  /\ main = "json" /\ parser = "value"
  /\ main' = "members"
  /\ UNCHANGED <<jsonVars, confVars>>

-----------------------------------------------------------------------------
(***************************************************************************)
(* process_value                                                           *)
(***************************************************************************)

IsObject == val[root].type = "object"
Key == val[root].keys[member]
Member == val[val[root].kids[member]]

(* u.integer of a value of any type: a union shares its first 8 bytes with *)
(* the length of strings and containers.                                   *)
AsInteger(v) == IF v.type = "scalar" THEN IntOf[v.lit] ELSE v.length

(* What a strdup that looks at no pointer would copy. *)
AsString_AnyType(v) == v.lit

(* u.string.ptr of a value that has such a pointer: the string, or the     *)
(* bytes of a container's block.                                           *)
AsString(v) == IF v.type = "string" THEN v.lit ELSE Garbage

InMembers == main = "members" /\ IsObject /\ member <= val[root].length

(* The file wins over the command line. *)
ProcessMember_FileWins ==
  /\ InMembers
  /\ conf' = IF Key \in NumKeys THEN [conf EXCEPT ![Key] = AsInteger(Member)]
             ELSE IF Key \in StrKeys /\ HasBlock(Member) THEN [conf EXCEPT ![Key] = AsString(Member)]
             ELSE conf
  /\ member' = member + 1
  /\ UNCHANGED <<jsonVars, main, options, cmd>>

(* One turn of the loop: a member sets an option that nobody has set yet. *)
ProcessMember ==
  /\ InMembers
  /\ \/ /\ Key \in Keys /\ conf[Key] = Unset(Key)
        /\ Key \in StrKeys => HasBlock(Member)
        /\ conf' = [conf EXCEPT ![Key] = IF Key \in NumKeys THEN AsInteger(Member)
                                         ELSE AsString(Member)]
     \/ /\ Key \in Keys => conf[Key] # Unset(Key)
        /\ UNCHANGED conf
  /\ member' = member + 1
  /\ UNCHANGED <<jsonVars, main, options, cmd>>

(* strdup of a pointer that the value does not have. *)
ProcessMemberCrashes ==
  /\ InMembers
  /\ Key \in StrKeys /\ conf[Key] = Unset(Key) /\ ~HasBlock(Member)
  /\ main' = "crashed"
  /\ UNCHANGED <<jsonVars, confVars>>

(* process_value returns, at once if the value is no object. *)
ProcessValueEnds ==
  /\ main = "members"
  /\ IsObject => member > val[root].length
  /\ JsonValueFree
  /\ main' = "free"
  /\ UNCHANGED confVars

Releasing ==
  /\ main = "free"
  /\ FreeStep
  /\ UNCHANGED <<main, confVars>>

Released ==
  /\ main = "free" /\ parser = "freed"
  /\ main' = "services"
  /\ UNCHANGED <<jsonVars, confVars>>

-----------------------------------------------------------------------------
(***************************************************************************)
(* The rest of coix_init, and its ends.                                    *)
(***************************************************************************)

(* listenfd_create, thpool_init, epoll_create1 and epoll_add: each gets    *)
(* what it asks the system for, or ends the process.                       *)
StartServices ==
  /\ main = "services"
  /\ main' = "up"
  /\ UNCHANGED <<jsonVars, confVars>>

(* log_error, or exit: no logger, no memory for the file, no service. *)
StartFails ==
  /\ main \in {"logger", "file", "services"}
  /\ main' = "exited"
  /\ UNCHANGED <<jsonVars, confVars>>

ParserCrashes ==
  /\ main = "json" /\ parser = "crashed"
  /\ main' = "crashed"
  /\ UNCHANGED <<jsonVars, confVars>>

Ended == main \in {"up", "exited", "crashed"}
Stop == Ended /\ UNCHANGED vars

Next ==
  \/ LoggerCreate \/ CmdOptionsEnd \/ (\E k \in Keys : CmdOption(k))
  \/ FileUnread \/ FileRead \/ Parsing \/ ParseFails \/ ParseReturns
  \/ ProcessMember \/ ProcessMemberCrashes \/ ProcessValueEnds
  \/ Releasing \/ Released
  \/ StartServices \/ StartFails \/ ParserCrashes
  \/ Stop

(* One thread, which runs until it ends: the system's scheduler lets it.   *)
Spec == Init /\ [][Next]_vars /\ WF_vars(Next)

-----------------------------------------------------------------------------

TypeOK ==
  /\ JsonTypeOK
  /\ main \in {"logger", "cmd", "file", "json", "members", "free", "services",
               "up", "exited", "crashed"}
  /\ \A c \in {conf, cmd} : \A k \in Keys :
       c[k] \in IF k \in NumKeys THEN Nat ELSE Strings \cup CmdStrs \cup {NoStr, Garbage}
  /\ options \in 0..MaxOptions /\ member \in Nat \ {0}
  /\ main = "members" => parser = "value" /\ member <= val[root].length + 1

(* What member i of the file's object says of option k, and the members    *)
(* that say something of it: 0 says nothing.                               *)
Offer(k, i) ==
  LET v == val[val[root].kids[i]] IN
  CASE k \in StrKeys -> AsString(v)
    [] k \notin StrKeys /\ v.type = "scalar" -> IntOf[v.lit]
    [] OTHER -> v.room
Offering(k) ==
  {i \in 1..Len(val[root].keys) : val[root].keys[i] = k /\ Offer(k, i) # Unset(k)}

(* Each option ends up as the first of: what the command line says of it,  *)
(* and what the members of the file's object say of it, in the order of    *)
(* the file.  A file that is missing, malformed or no object changes       *)
(* nothing, whole or in part (options_parser.c:47-73).                     *)
ConfigIsFirstOffer ==
  main \in {"services", "up"} =>
    \A k \in Keys :
      IF cmd[k] = Unset(k) /\ parser = "freed" /\ IsObject /\ Offering(k) # {}
      THEN \E i \in Offering(k) : conf[k] = Offer(k, i) /\ \A j \in Offering(k) : i <= j
      ELSE conf[k] = cmd[k]

-----------------------------------------------------------------------------
(***************************************************************************)
(* What the parser makes of the bytes within a token is a matter of the    *)
(* text alone: these are claimed of the first step.                        *)
(***************************************************************************)

(* A string, however each of its characters is written, is kept as its     *)
(* characters in UTF-8, and ends at its quote (json.c:277-430).            *)
StringsDecoded ==
  main = "logger" =>
    \A cs \in SpelledTexts, x \in Beyond :
      LET t == <<Quote>> \o InJson(cs) \o <<Quote>> IN
      StringAt(t, x, 2) = Taken(Len(t), Meaning(cs))

(* A text cut off anywhere within a string or a word is rejected, and no   *)
(* byte behind its end is taken for a part of it, unless just the last     *)
(* digit or letter is missing and the byte that lies in memory behind the  *)
(* text happens to be one: then the parser runs on past the end            *)
(* (json.c:300, 317, 596-627).                                             *)
EndIsSeen ==
  main = "logger" =>
    /\ \A cs \in SpelledTexts \ {<<>>}, x \in Beyond :
         LET s == Last(cs)[2] IN
         \A n \in 0..Len(s) :
           \/ StringAt(<<Quote>> \o InJson(Front(cs)) \o SubSeq(s, 1, n), x, 2) = Failed
           \/ n % 6 = 5 /\ s[n - 3] = LetterU /\ HexValue(x) # NoHex
    /\ \A word \in JsonWords, x \in Beyond : \A n \in 1..Len(word) - 1 :
         \/ WordAt(SubSeq(word, 1, n), x, 1) = Failed
         \/ n = Len(word) - 1 /\ x = word[n + 1]

(* The first pass takes a whole text for a number just if it is one, or a  *)
(* sign without a digit to it, and gets the integers right that do not     *)
(* overflow; and then the second pass, which does not look at what it      *)
(* skips, ends at the same place (json.c:650-668, 738-850).                *)
NumbersRead ==
  main = "logger" =>
    \A s \in NumberTexts, behind \in {<<>>} \cup {<<b>> : b \in Delimiters} :
      LET n == NumberAt(s \o behind, 1)
          whole == n.status = "done" /\ n.to = Len(s)
      IN  /\ whole <=> IsNumber(s) \/ (s[1] = Minus /\ IsExp(Tail(s)))
          /\ whole => NumberSkipped(s \o behind, 1) = n.to
          /\ IsInt(Unsigned(s)) =>
               /\ ~n.double
               /\ -IntLimit < IntValue(s) /\ IntValue(s) < IntLimit => n.int = IntValue(s)

-----------------------------------------------------------------------------

(* Start-up comes to an end for every configuration file: the two passes   *)
(* over the text, the walk that frees the tree along parent pointers       *)
(* (json.c:962-996) and the loop over the members all terminate.           *)
StartupEnds == <>Ended

=============================================================================
