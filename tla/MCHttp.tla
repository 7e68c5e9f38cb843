-------------------------------- MODULE MCHttp --------------------------------
(* Requests as browsers send them, for a small document tree. *)
EXTENDS Http

CONSTANTS w1, w2, c1, c2

MCWorkers == {w1, w2}
MCClients == {c1, c2}
MCAlphabet == STRING
MCSegments == {0, 13}
MCCuts == {0, 12}
MCSymmetry == Permutations(MCWorkers) \cup Permutations(MCClients)

Root == <<"root">>
Page == <<"/", "index.", "html">>
Style == <<"/", "style", "css">>
Deep == <<"/", "dir", "/", "a">>
Tool(name) == <<"/", name>>

MCTree ==
  (Root :> "dir") @@ (Root \o <<"/", "dir">> :> "dir") @@ (Root \o Page :> "file")
  @@ (Root \o Style :> "file") @@ (Root \o Tool("data.txt") :> "file")
  @@ (Root \o Tool("collect") :> "collect") @@ (Root \o Tool("viewdata") :> "viewdata")
  @@ (Root \o Tool("multi") :> "multi")

MCFileSize ==
  [p \in {q \in DOMAIN MCTree : MCTree[q] # "dir"} |->
     CASE p = Root \o Style -> 30 [] p = Root \o Page -> 2 [] OTHER -> 1]

MCOldData == <<"a", NewLine>>
MCEscapes == "!" :> <<"2", "1">>

(* A body of the form's one field. *)
FormBody(typed) == <<"data=">> \o Encoded(typed)
Digit(n) == CHOOSE d \in DOMAIN DigitValue : DigitValue[d] = n
LengthOf(n) == IF n < 10 THEN <<Digit(n)>> ELSE <<Digit(n \div 10), Digit(n % 10)>>

Get(p, q) ==
  [method |-> "GET", path |-> p, query |-> q, before |-> 1, length |-> <<>>,
   after |-> 0, body |-> <<>>, typed |-> <<>>]
Form(typed, headers) ==
  [method |-> "POST", path |-> Tool("collect"), query |-> NoQuery,
   before |-> 1 - headers, length |-> LengthOf(Len(FormBody(typed))),
   after |-> headers, body |-> FormBody(typed), typed |-> typed]

Files == {Get(<<"/">>, NoQuery), Get(Style, NoQuery), Get(<<"/", "dir">>, NoQuery),
          Get(Tool("data.txt"), NoQuery), Get(Deep, NoQuery), Get(Tool("none"), NoQuery)}
Queries == {Get(Tool("multi"), GoodQuery),
            Get(Tool("viewdata"), ""), Get(Page, "other")}
Forms == {Form(<<"a", " ">>, 0), Form(<<"!">>, 0)}
Odd == {[Form(<<"a">>, 0) EXCEPT !.length = <<>>], Form(<<"a">>, 1),
        [Form(<<"a">>, 0) EXCEPT !.body = <<"data=", "%">>],
        [Form(<<"a">>, 0) EXCEPT !.path = Tool("multi")],
        [Form(<<"a">>, 0) EXCEPT !.length = <<"0", "0", "2">>],
        [Form(<<"a">>, 0) EXCEPT !.method = "PUT"],
        Form(<<"a", "a", "a", "a">>, 0)}

(* No path, so that the blank before it and the one behind it run together. *)
Illegible == {[Get(Style, NoQuery) EXCEPT !.path = <<>>]}

MCRequests == Illegible \cup Files \cup Queries \cup Forms \cup Odd
MCForms == Forms \cup {Form(<<"a">>, 1)}
=============================================================================
