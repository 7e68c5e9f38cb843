------------------------------ MODULE HttpProofs ------------------------------
(* Theorems about Http, for any clients, workers, requests and sizes. *)
EXTENDS Http, DataInduction

(* Cutting a text at a place leaves a text that is no longer. *)
LEMMA UntilIsPrefix ==
  ASSUME NEW S, NEW s \in Seq(S), NEW Stop(_)
  PROVE  Until(s, Stop) \in Seq(S) /\ Len(Until(s, Stop)) <= Len(s)
<1> DEFINE I == {i \in 1..Len(s) : Stop(s[i])}
           k == IF I # {} THEN Min(I) ELSE 0
<1>1. I \in SUBSET Nat /\ I \subseteq 1..Len(s)
  OBVIOUS
<1>2. k \in 0..Len(s)
  <2>1. CASE I # {}
    <3>1. Min(I) \in I
      BY <1>1, <2>1, MinExists
    <3>2. Min(I) \in 1..Len(s)
      BY <1>1, <3>1
    <3>3. k = Min(I)
      BY <2>1
    <3> HIDE DEF I, k
    <3> QED
      BY <3>2, <3>3
  <2>2. CASE I = {}
    BY <2>2
  <2> QED
    BY <2>1, <2>2
<1>3. Until(s, Stop) = IF k = 0 THEN s ELSE SubSeq(s, 1, k - 1)
  BY DEF Until, SelectInSeq
<1> HIDE DEF k
<1> QED
  BY <1>2, <1>3

(* A text up to what is no digit has nothing else. *)
LEMMA UntilNoDigit ==
  ASSUME NEW S, NEW s \in Seq(S)
  PROVE  \A i \in 1..Len(Until(s, LAMBDA u : ~IsDigit(u))) :
           IsDigit(Until(s, LAMBDA u : ~IsDigit(u))[i])
<1> DEFINE I == {i \in 1..Len(s) : ~IsDigit(s[i])}
           p == Until(s, LAMBDA u : ~IsDigit(u))
<1>1. p = IF I = {} THEN s ELSE SubSeq(s, 1, Min(I) - 1)
  <2>1. I \in SUBSET Nat /\ (I # {} => Min(I) # 0)
    <3>1. I \in SUBSET Nat /\ I \subseteq 1..Len(s)
      OBVIOUS
    <3>2. I # {} => Min(I) \in I
      BY <3>1, MinExists
    <3> HIDE DEF I
    <3> QED
      BY <3>1, <3>2
  <2>2. p = LET k == IF I # {} THEN Min(I) ELSE 0 IN IF k = 0 THEN s ELSE SubSeq(s, 1, k - 1)
    BY DEF Until, SelectInSeq
  <2> HIDE DEF I, p
  <2> QED
    BY <2>1, <2>2
<1> SUFFICES ASSUME NEW i \in 1..Len(p) PROVE IsDigit(p[i])
  OBVIOUS
<1>2. CASE I = {}
  BY <1>1, <1>2
<1>3. CASE I # {}
  <2>1. PICK k \in I : \A j \in I : k <= j
    <3>1. I \in SUBSET Nat
      OBVIOUS
    <3> QED
      BY <1>3, <3>1, LeastOne
  <2>2. I \in SUBSET Nat /\ k \in 1..Len(s)
    OBVIOUS
  <2>3. Min(I) = k
    BY <2>1, <2>2, MinIs
  <2> HIDE DEF p
  <2>4. p = SubSeq(s, 1, k - 1)
    BY <1>1, <1>3, <2>3
  <2>5. i \in 1..Len(s) /\ i < k /\ p[i] = s[i]
    BY <2>2, <2>4
  <2> QED
    BY <2>1, <2>2, <2>5
<1> QED
  BY <1>2, <1>3

(* What is behind a place is a text. *)
LEMMA AfterIsSuffix ==
  ASSUME NEW S, NEW s \in Seq(S), NEW Stop(_)
  PROVE  After(s, Stop) \in Seq(S)
<1>1. Until(s, Stop) \in Seq(S)
  BY UntilIsPrefix
<1>2. Len(Until(s, Stop)) \in Nat
  BY <1>1
<1>3. \A k \in Nat : SubSeq(s, k + 1, Len(s)) \in Seq(S)
  OBVIOUS
<1> QED
  BY <1>2, <1>3 DEF After

(* Cut keeps what fits. *)
LEMMA CutFits ==
  ASSUME NEW S, NEW s \in Seq(S), NEW n \in Nat
  PROVE  Cut(s, n) \in Seq(S) /\ Len(Cut(s, n)) <= n /\ (Len(s) >= n => Len(Cut(s, n)) = n)
BY DEF Cut

(* struct http_request, without its limits. *)
ParsedRequests ==
  [method : Words \cup {""}, uri : Seq(Alphabet), length : Seq(DOMAIN DigitValue),
   content : Seq(Alphabet)]

(* A text up to what is no digit. *)
LEMMA DigitsOf ==
  ASSUME NEW s \in Seq(Alphabet)
  PROVE  /\ Until(s, LAMBDA u : ~IsDigit(u)) \in Seq(DOMAIN DigitValue)
         /\ Len(Until(s, LAMBDA u : ~IsDigit(u))) <= Len(s)
<1> DEFINE p == Until(s, LAMBDA u : ~IsDigit(u))
<1>1. p \in Seq(Alphabet) /\ Len(p) <= Len(s)
  BY UntilIsPrefix
<1>2. \A i \in 1..Len(p) : IsDigit(p[i])
  BY UntilNoDigit
<1> HIDE DEF p
<1>3. p \in Seq(DOMAIN DigitValue)
  BY <1>1, <1>2 DEF IsDigit
<1> QED
  BY <1>1, <1>3 DEF p

(* What http_request_parse makes of a buffer fits into struct http_request. *)
LEMMA ParseFits ==
  ASSUME NEW b \in [1..MaxBuf -> Alphabet]
  PROVE  /\ Len(Parse(b).uri) < MaxUri /\ Len(Parse(b).content) <= MaxContent
         /\ Len(Parse(b).length) < MaxLength \/ LengthSpills(b)
         /\ Parse(b) \in ParsedRequests
<1>1. b \in Seq(Alphabet) /\ b # <<>> /\ MaxBuf \in Nat \ {0}
  BY HttpAssumption
<1>2. Method(b) \in Words \cup {""}
  BY DEF Method
<1>3. Uri(b) \in Seq(Alphabet) /\ Len(Uri(b)) < MaxUri
  <2> DEFINE rest == IF b[1] \in Words THEN Tail(b) ELSE b
             begun == After(rest, LAMBDA u : ~Blank(u))
             word == Until(begun, Blank)
             copied == Cut(word, MaxUri - 1)
  <2>1. rest \in Seq(Alphabet)
    BY <1>1
  <2> HIDE DEF rest
  <2>2. begun \in Seq(Alphabet)
    BY <2>1, AfterIsSuffix
  <2> HIDE DEF begun
  <2>3. word \in Seq(Alphabet)
    BY <2>2, UntilIsPrefix
  <2> HIDE DEF word
  <2>4. MaxUri - 1 \in Nat /\ MaxUri \in Nat
    BY HttpRequestAssumption
  <2>5. copied \in Seq(Alphabet) /\ Len(copied) <= MaxUri - 1
    BY <2>3, <2>4, CutFits
  <2>6. Uri(b) = CString(copied)
    BY DEF Uri, copied, word, begun, rest
  <2> HIDE DEF copied
  <2> QED
    BY <2>4, <2>6, <2>5, UntilIsPrefix DEF CString
<1>4. BehindLength(b) \in Seq(Alphabet)
  <2>1. CString(b) \in Seq(Alphabet)
    BY <1>1, UntilIsPrefix DEF CString
  <2>2. LengthAt(b) \in Nat
    <3> DEFINE I == {i \in 1..Len(CString(b)) : CString(b)[i] = ContentLength}
    <3>1. I \in SUBSET Nat
      OBVIOUS
    <3>2. I # {} => Min(I) \in Nat
      BY <3>1, MinExists
    <3>3. LengthAt(b) = IF I # {} THEN Min(I) ELSE 0
      BY DEF LengthAt, SelectInSeq
    <3> HIDE DEF I
    <3> QED
      BY <3>2, <3>3
  <2> QED
    BY <2>1, <2>2 DEF BehindLength
<1>5. LengthDigits(b) \in Seq(DOMAIN DigitValue) /\ LengthDigits(b) \in Seq(Alphabet)
  <2>1. LengthDigits(b) \in Seq(DOMAIN DigitValue)
    BY <1>4, DigitsOf DEF LengthDigits
  <2> QED
    BY <1>4, <2>1, UntilIsPrefix DEF LengthDigits
<1>6. Content(b) \in Seq(Alphabet) /\ Len(Content(b)) <= MaxContent
  <2> DEFINE behind == After(BehindLength(b), LAMBDA u : ~IsDigit(u))
             body == After(behind, LAMBDA u : u # NewLine)
  <2>1. behind \in Seq(Alphabet)
    BY <1>4, AfterIsSuffix
  <2>2. body \in Seq(Alphabet)
    BY <2>1, AfterIsSuffix
  <2>3. Content(b) = Cut(body, MaxContent)
    BY DEF Content
  <2> HIDE DEF body
  <2> QED
    BY <2>2, <2>3, CutFits, HttpRequestAssumption
<1>7. /\ <<>> \in Seq(Alphabet) /\ <<>> \in Seq(DOMAIN DigitValue) /\ Len(<<>>) = 0
      /\ MaxContent \in Nat /\ MaxLength \in Nat /\ 0 < MaxLength
  BY HttpRequestAssumption
<1>12. LengthField(b) \in Seq(DOMAIN DigitValue) /\ (Len(LengthDigits(b)) < MaxLength => LengthField(b) = LengthDigits(b))
  <2> DEFINE over == Cut(LengthDigits(b), MaxLength) \o Content(b)
  <2>1. Cut(LengthDigits(b), MaxLength) \in Seq(Alphabet)
    BY <1>5, <1>7, CutFits
  <2>2. over \in Seq(Alphabet)
    BY <1>6, <2>1
  <2> HIDE DEF over
  <2>3. Until(over, LAMBDA u : ~IsDigit(u)) \in Seq(DOMAIN DigitValue)
    BY <2>2, DigitsOf
  <2>4. LengthField(b) = IF Len(LengthDigits(b)) < MaxLength THEN LengthDigits(b)
                         ELSE Until(over, LAMBDA u : ~IsDigit(u))
    BY DEF LengthField, over
  <2> QED
    BY <1>5, <2>3, <2>4
<1> DEFINE length == IF Method(b) = "POST" THEN LengthField(b) ELSE <<>>
           content == IF Method(b) = "POST" THEN Content(b) ELSE <<>>
<1>8. /\ length \in Seq(DOMAIN DigitValue) /\ (Len(length) < MaxLength \/ LengthSpills(b))
      /\ content \in Seq(Alphabet) /\ Len(content) <= MaxContent
  <2>1. CASE Method(b) = "POST"
    <3>1. Len(LengthDigits(b)) < MaxLength \/ LengthSpills(b)
      BY <1>5, <1>7, <2>1 DEF LengthSpills
    <3> QED
      BY <1>12, <1>6, <2>1, <3>1
  <2>2. CASE Method(b) # "POST"
    BY <1>7, <2>2
  <2> QED
    BY <2>1, <2>2
<1>9. Parse(b) = [method |-> Method(b), uri |-> Uri(b), length |-> length, content |-> content]
  BY DEF Parse
<1> HIDE DEF length, content
<1>10. Parse(b).uri = Uri(b) /\ Parse(b).content = content /\ Parse(b).length = length
  BY <1>9
<1>11. Parse(b) \in ParsedRequests
  <2> DEFINE M == Words \cup {""}
             D == Seq(DOMAIN DigitValue)
  <2>1. Method(b) \in M /\ length \in D
    BY <1>2, <1>8
  <2>2. ParsedRequests = [method : M, uri : Seq(Alphabet), length : D, content : Seq(Alphabet)]
    BY DEF ParsedRequests
  <2> HIDE DEF M, D
  <2> QED
    BY <1>3, <1>8, <1>9, <2>1, <2>2
<1> QED
  BY <1>3, <1>8, <1>10, <1>11

(* A request of which nothing is known yet. *)
LEMMA NoRequestFits ==
  /\ NoRequest \in ParsedRequests
  /\ Len(NoRequest.uri) < MaxUri /\ Len(NoRequest.content) <= MaxContent
  /\ Len(NoRequest.length) < MaxLength
BY HttpRequestAssumption DEF NoRequest, ParsedRequests

(* A request is written as text. *)
LEMMA RequestIsText ==
  ASSUME NEW r \in Requests
  PROVE  Text(r) \in Seq(Alphabet)
<1>1. /\ r.method \in Alphabet /\ r.path \in Seq(Alphabet) /\ r.query \in Alphabet
      /\ r.before \in Nat /\ r.length \in Seq(Alphabet) /\ r.after \in Nat
      /\ r.body \in Seq(Alphabet)
  BY HttpAssumption
<1>2. /\ Space \in Alphabet /\ NewLine \in Alphabet /\ ContentLength \in Alphabet
      /\ "?" \in Alphabet /\ OtherHeader \in Alphabet
  BY HttpRequestAssumption, HttpAssumption, CollectAssumption
<1>3. \A n \in Nat : Headers(n) \in Seq(Alphabet)
  BY <1>2 DEF Headers
<1>4. Target(r) \in Seq(Alphabet)
  BY <1>1, <1>2 DEF Target
<1> DEFINE line == IF r.length = <<>> THEN <<>> ELSE <<ContentLength>> \o r.length \o <<NewLine>>
<1>5. line \in Seq(Alphabet)
  BY <1>1, <1>2
<1>6. <<r.method, Space>> \in Seq(Alphabet) /\ <<Space, NewLine>> \in Seq(Alphabet)
      /\ <<NewLine>> \in Seq(Alphabet)
  BY <1>1, <1>2
<1>7. Text(r) = <<r.method, Space>> \o Target(r) \o <<Space, NewLine>> \o Headers(r.before)
                \o line \o Headers(r.after) \o <<NewLine>> \o r.body
  BY DEF Text
<1> HIDE DEF line
<1>8. \A s, t \in Seq(Alphabet) : s \o t \in Seq(Alphabet)
  OBVIOUS
<1>9. Headers(r.before) \in Seq(Alphabet) /\ Headers(r.after) \in Seq(Alphabet)
  BY <1>1, <1>3
<1>10. <<r.method, Space>> \o Target(r) \o <<Space, NewLine>> \in Seq(Alphabet)
  BY <1>4, <1>6, <1>8
<1>11. <<r.method, Space>> \o Target(r) \o <<Space, NewLine>> \o Headers(r.before) \o line
         \in Seq(Alphabet)
  BY <1>5, <1>8, <1>9, <1>10
<1> QED
  BY <1>1, <1>6, <1>7, <1>8, <1>9, <1>11

(* A read leaves the buffer at its size, and text in it. *)
Buffers == [1..MaxBuf -> Alphabet]

(* The read fills rd_buf and no more. *)
LEMMA FilledFits ==
  ASSUME NEW w \in Workers, buf[w] \in Buffers, NEW t \in Seq(Alphabet), NEW b \in Filled(w, t)
  PROVE  b \in Buffers /\ Len(b) = MaxBuf
<1> DEFINE fill(rest) ==
      [i \in 1..MaxBuf |-> IF Len(t) + i <= MaxBuf THEN rest[Len(t) + i] ELSE NUL]
<1>1. PICK rest \in {buf[w], [i \in 1..MaxBuf |-> Junk]} : b = Cut(t \o fill(rest), MaxBuf)
  BY DEF Filled
<1>2. rest \in Buffers /\ NUL \in Alphabet /\ MaxBuf \in Nat
  BY <1>1, HttpRequestAssumption, HttpAssumption DEF Buffers
<1>3. fill(rest) \in Buffers
  BY <1>2 DEF Buffers
<1>4. fill(rest) \in Seq(Alphabet) /\ Len(fill(rest)) = MaxBuf
  BY <1>2, <1>3 DEF Buffers
<1> HIDE DEF fill
<1>5. t \o fill(rest) \in Seq(Alphabet) /\ Len(t \o fill(rest)) = Len(t) + MaxBuf
  BY <1>4
<1> DEFINE both == t \o fill(rest)
<1>6. b \in Seq(Alphabet) /\ Len(b) = MaxBuf
  <2>1. both \in Seq(Alphabet) /\ Len(both) >= MaxBuf /\ b = Cut(both, MaxBuf)
    BY <1>1, <1>2, <1>5
  <2> HIDE DEF both
  <2> QED
    BY <1>2, <2>1, CutFits
<1> QED
  BY <1>6 DEF Buffers

(***************************************************************************)
(* The loops of the parser, on a text whose parts are known.               *)
(***************************************************************************)

(* The first place of I is where a loop that looks for it stops. *)
First(I) == IF I # {} THEN Min(I) ELSE 0
Before(s, I) == IF First(I) = 0 THEN s ELSE SubSeq(s, 1, First(I) - 1)

(* It stops behind p when what it looks for is not in p, and comes next. *)
LEMMA StopsBehind ==
  ASSUME NEW p \in Seq(Alphabet), NEW q \in Seq(Alphabet), NEW I \in SUBSET (1..Len(p \o q)),
         \A i \in I : i > Len(p), q # <<>> => Len(p) + 1 \in I
  PROVE  Before(p \o q, I) = p
<1>1. CASE q = <<>>
  <2>1. I = {} /\ p \o q = p
    BY <1>1
  <2> QED
    BY <2>1 DEF Before, First
<1>2. CASE q # <<>>
  <2>1. Min(I) = Len(p) + 1
    BY <1>2, MinIs
  <2>2. Before(p \o q, I) = SubSeq(p \o q, 1, Len(p))
    BY <1>2, <2>1 DEF Before, First
  <2> QED
    BY <2>2
<1> QED
  BY <1>1, <1>2

(* What lies behind p. *)
LEMMA RestIs ==
  ASSUME NEW p \in Seq(Alphabet), NEW q \in Seq(Alphabet)
  PROVE  SubSeq(p \o q, Len(p) + 1, Len(p \o q)) = q
OBVIOUS

(* It comes past p when what it looks for is not in p. *)
LEMMA ComesPast ==
  ASSUME NEW p \in Seq(Alphabet), NEW q \in Seq(Alphabet), NEW I \in SUBSET (1..Len(p \o q)),
         \A i \in I : i > Len(p)
  PROVE  \E t \in Seq(Alphabet) : Before(p \o q, I) = p \o t
<1>1. CASE I = {}
  BY <1>1 DEF Before, First
<1>2. CASE I # {}
  <2>1. PICK k \in I : \A i \in I : k <= i
    <3>1. I \in SUBSET Nat
      OBVIOUS
    <3> QED
      BY <1>2, <3>1, LeastOne
  <2>2. Min(I) = k /\ k \in Len(p) + 1 .. Len(p) + Len(q)
    BY <2>1, MinIs
  <2>3. Before(p \o q, I) = SubSeq(p \o q, 1, k - 1)
    BY <1>2, <2>2 DEF Before, First
  <2> DEFINE t == SubSeq(q, 1, k - 1 - Len(p))
  <2>4. t \in Seq(Alphabet) /\ SubSeq(p \o q, 1, k - 1) = p \o t
    BY <2>2
  <2> QED
    BY <2>3, <2>4
<1> QED
  BY <1>1, <1>2

(* u is not in s. *)
Without(s, u) == \A i \in 1..Len(s) : s[i] # u

(* What is in neither of two texts is not in both together. *)
LEMMA WithoutBoth ==
  ASSUME NEW p \in Seq(Alphabet), NEW q \in Seq(Alphabet), NEW u, Without(p, u), Without(q, u)
  PROVE  p \o q \in Seq(Alphabet) /\ Without(p \o q, u)
BY DEF Without

(* A buffer that begins with p, as a string. *)
LEMMA StringPast ==
  ASSUME NEW p \in Seq(Alphabet), NEW q \in Seq(Alphabet), Without(p, NUL)
  PROVE  \E t \in Seq(Alphabet) : CString(p \o q) = p \o t
<1> DEFINE I == {i \in 1..Len(p \o q) : (p \o q)[i] = NUL}
<1>1. CString(p \o q) = Before(p \o q, I)
  BY DEF CString, Until, SelectInSeq, Before, First
<1>2. \A i \in I : i > Len(p)
  BY DEF Without
<1> HIDE DEF I
<1>3. I \in SUBSET (1..Len(p \o q))
  BY DEF I
<1>4. \E t \in Seq(Alphabet) : Before(p \o q, I) = p \o t
  BY <1>2, <1>3, ComesPast
<1> QED
  BY <1>1, <1>4

(* A text without NUL is a string. *)
LEMMA StringWhole ==
  ASSUME NEW p \in Seq(Alphabet), Without(p, NUL)
  PROVE  CString(p) = p
<1>1. {i \in 1..Len(p) : p[i] = NUL} = {}
  BY DEF Without
<1> QED
  BY <1>1 DEF CString, Until, SelectInSeq

(* The first word of a request is its method. *)
LEMMA MethodRead ==
  ASSUME NEW m \in Words, NEW q \in Seq(Alphabet), m \in Alphabet
  PROVE  Method(<<m>> \o q) = m /\ Tail(<<m>> \o q) = q
<1>1. (<<m>> \o q)[1] = m
  OBVIOUS
<1> QED
  BY <1>1 DEF Method

(* The word between two blanks is its uri. *)
LEMMA UriRead ==
  ASSUME NEW m \in Words, m \in Alphabet, NEW u \in Seq(Alphabet), u # <<>>, NEW q \in Seq(Alphabet),
         Space \in Alphabet, \A i \in 1..Len(u) : ~Blank(u[i]) /\ u[i] # NUL
  PROVE  Uri(<<m>> \o (<<Space>> \o (u \o (<<Space>> \o q)))) = Cut(u, MaxUri - 1)
<1> DEFINE tail == <<Space>> \o q
           word == u \o tail
           rest == <<Space>> \o word
           b == <<m>> \o rest
<1>1. tail \in Seq(Alphabet) /\ tail # <<>> /\ Len(tail) > 0 /\ tail[1] = Space
  OBVIOUS
<1> HIDE DEF tail
<1>2. word \in Seq(Alphabet) /\ Len(word) > 0 /\ word[1] = u[1] /\ word[Len(u) + 1] = Space
      /\ \A i \in 1..Len(u) : word[i] = u[i]
  BY <1>1
<1>3. Until(word, Blank) = u
  <2> DEFINE I == {i \in 1..Len(word) : Blank(word[i])}
  <2>1. Until(word, Blank) = Before(word, I)
    BY DEF Until, SelectInSeq, Before, First
  <2>2. \A i \in I : i > Len(u)
    BY <1>2
  <2>3. Len(u) + 1 \in I
    BY <1>1, <1>2 DEF Blank
  <2>4. I \in SUBSET (1..Len(u \o tail))
    OBVIOUS
  <2> HIDE DEF I
  <2>5. Before(u \o tail, I) = u
    BY <1>1, <2>2, <2>3, <2>4, StopsBehind
  <2> QED
    BY <2>1, <2>5
<1> HIDE DEF word
<1>4. rest \in Seq(Alphabet) /\ Len(rest) = Len(word) + 1 /\ rest[1] = Space /\ rest[2] = word[1]
  BY <1>2
<1>5. After(rest, LAMBDA v : ~Blank(v)) = word
  <2> DEFINE I == {i \in 1..Len(rest) : ~Blank(rest[i])}
  <2>1. Until(rest, LAMBDA v : ~Blank(v)) = Before(rest, I)
    BY DEF Until, SelectInSeq, Before, First
  <2>2. ~Blank(word[1])
    BY <1>2
  <2>3. 2 \in I
    BY <1>2, <1>4, <2>2
  <2>4. 1 \notin I
    BY <1>4 DEF Blank
  <2>5. I \in SUBSET (1..Len(rest))
    OBVIOUS
  <2> HIDE DEF I
  <2>6. <<Space>> \in Seq(Alphabet) /\ Len(<<Space>>) = 1
    OBVIOUS
  <2>7. \A i \in I : i > Len(<<Space>>)
    BY <1>4, <2>4, <2>5, <2>6
  <2>8. Before(rest, I) = <<Space>>
    <3>1. I \in SUBSET (1..Len(<<Space>> \o word)) /\ Len(<<Space>>) + 1 \in I
      BY <2>3, <2>5, <2>6
    <3> QED
      BY <1>2, <2>6, <2>7, <3>1, StopsBehind
  <2>9. After(rest, LAMBDA v : ~Blank(v)) = SubSeq(rest, Len(<<Space>>) + 1, Len(rest))
    BY <2>1, <2>8 DEF After
  <2> QED
    BY <1>2, <2>6, <2>9, RestIs
<1> HIDE DEF rest
<1>6. b[1] = m /\ Tail(b) = rest
  BY <1>4
<1> HIDE DEF b
<1>7. Uri(b) = CString(Cut(u, MaxUri - 1))
  BY <1>3, <1>5, <1>6 DEF Uri
<1>8. Cut(u, MaxUri - 1) \in Seq(Alphabet) /\ Without(Cut(u, MaxUri - 1), NUL)
  BY HttpRequestAssumption DEF Cut, Without
<1>9. Uri(b) = Cut(u, MaxUri - 1)
  BY <1>7, <1>8, StringWhole
<1> QED
  BY <1>9 DEF b, rest, word, tail

(* What lies behind the first Content-Length, and how it is taken apart. *)
LEMMA LengthFound ==
  ASSUME NEW pre \in Seq(Alphabet), NEW behind \in Seq(Alphabet), NEW b,
         CString(b) = pre \o (<<ContentLength>> \o behind), ContentLength \in Alphabet,
         Without(pre, ContentLength)
  PROVE  LengthAt(b) # 0 /\ BehindLength(b) = behind
<1> DEFINE q == <<ContentLength>> \o behind
           s == pre \o q
           I == {i \in 1..Len(s) : s[i] = ContentLength}
<1>1. q \in Seq(Alphabet) /\ Len(q) = Len(behind) + 1 /\ q[1] = ContentLength
      /\ SubSeq(q, 2, Len(q)) = behind
  OBVIOUS
<1> HIDE DEF q
<1>2. s \in Seq(Alphabet) /\ Len(s) = Len(pre) + Len(q)
      /\ \A i \in 1..Len(pre) : s[i] = pre[i]
  BY <1>1
<1>3. s[Len(pre) + 1] = ContentLength
  BY <1>1
<1>4. LengthAt(b) = First(I)
  BY DEF LengthAt, SelectInSeq, First, q
<1>5. Len(pre) + 1 \in I /\ I \in SUBSET Nat
  BY <1>1, <1>2, <1>3
<1>6. \A i \in I : Len(pre) + 1 <= i
  BY <1>2 DEF Without
<1> HIDE DEF I
<1>7. First(I) = Len(pre) + 1
  BY <1>5, <1>6, MinIs DEF First
<1>8. BehindLength(b) = SubSeq(s, Len(pre) + 2, Len(s))
  BY <1>4, <1>7 DEF BehindLength, q
<1>9. SubSeq(s, Len(pre) + 2, Len(s)) = SubSeq(q, 2, Len(q))
  BY <1>1
<1> QED
  BY <1>1, <1>4, <1>7, <1>8, <1>9 DEF q

(* What is a digit. *)
LEMMA DigitsAre == \A u : IsDigit(u) => u \in {"0", "1", "2", "3", "4", "5", "6", "7", "8", "9"}
<1>1. DOMAIN DigitValue = Range(<<"0", "1", "2", "3", "4", "5", "6", "7", "8", "9">>)
  BY DEF DigitValue
<1>2. DOMAIN DigitValue = {"0", "1", "2", "3", "4", "5", "6", "7", "8", "9"}
  BY <1>1 DEF Range
<1> QED
  BY <1>2 DEF IsDigit

(* The digits, and the two ends of line behind them, before a body. *)
LEMMA DigitsRead ==
  ASSUME NEW d \in Seq(Alphabet), NEW body \in Seq(Alphabet), NEW b, NewLine \in Alphabet,
         \A i \in 1..Len(d) : IsDigit(d[i]),
         BehindLength(b) = d \o (<<NewLine>> \o body)
  PROVE  LengthDigits(b) = d /\ After(BehindLength(b), LAMBDA u : ~IsDigit(u)) = <<NewLine>> \o body
<1> DEFINE q == <<NewLine>> \o body
           s == d \o q
           I == {i \in 1..Len(s) : ~IsDigit(s[i])}
<1>1. q \in Seq(Alphabet) /\ q # <<>> /\ Len(q) > 0 /\ q[1] = NewLine
  OBVIOUS
<1> HIDE DEF q
<1>2. s \in Seq(Alphabet) /\ s[Len(d) + 1] = NewLine /\ Len(s) = Len(d) + Len(q)
      /\ \A i \in 1..Len(d) : s[i] = d[i]
  BY <1>1
<1>3. Until(s, LAMBDA u : ~IsDigit(u)) = Before(s, I)
  BY DEF Until, SelectInSeq, Before, First
<1>4. ~IsDigit(NewLine)
  BY DigitsAre, "\r\n" \notin {"0", "1", "2", "3", "4", "5", "6", "7", "8", "9"} DEF NewLine
<1>5. Len(d) + 1 \in I
  BY <1>1, <1>2, <1>4
<1>6. \A i \in I : i > Len(d)
  BY <1>2
<1>7. I \in SUBSET (1..Len(d \o q))
  OBVIOUS
<1> HIDE DEF I
<1>8. Before(d \o q, I) = d
  BY <1>1, <1>5, <1>6, <1>7, StopsBehind
<1>9. Until(s, LAMBDA u : ~IsDigit(u)) = d
  BY <1>3, <1>8
<1>10. After(s, LAMBDA u : ~IsDigit(u)) = q
  <2>1. After(s, LAMBDA u : ~IsDigit(u)) = SubSeq(s, Len(d) + 1, Len(s))
    BY <1>9 DEF After
  <2> QED
    BY <1>1, <2>1, RestIs
<1>11. BehindLength(b) = s
  BY DEF q
<1> QED
  BY <1>9, <1>10, <1>11 DEF LengthDigits, q

(* The ends of line before a body are skipped. *)
LEMMA LinesSkipped ==
  ASSUME NEW q \in Seq(Alphabet), NewLine \in Alphabet, Len(q) > 0, q[1] # NewLine
  PROVE  After(<<NewLine>> \o (<<NewLine>> \o q), LAMBDA u : u # NewLine) = q
<1> DEFINE p == <<NewLine>> \o <<NewLine>>
           s == p \o q
           I == {i \in 1..Len(s) : s[i] # NewLine}
<1>1. p \in Seq(Alphabet) /\ Len(p) = 2 /\ p[1] = NewLine /\ p[2] = NewLine
  OBVIOUS
<1>2. <<NewLine>> \o (<<NewLine>> \o q) = s
  OBVIOUS
<1> HIDE DEF p
<1>3. p \in Seq(Alphabet)
  BY <1>1
<1>4. \A u, v \in Seq(Alphabet) : u \o v \in Seq(Alphabet) /\ Len(u \o v) = Len(u) + Len(v)
  OBVIOUS
<1>5. s \in Seq(Alphabet) /\ Len(s) = Len(p) + Len(q)
  BY <1>3, <1>4
<1>6. s[3] = q[1] /\ s[1] = NewLine /\ s[2] = NewLine
  <2>1. s[1] = p[1]
    BY <1>1, <1>5
  <2>2. s[2] = p[2]
    BY <1>1, <1>5
  <2>3. s[3] = q[1]
    BY <1>1, <1>5
  <2> QED
    BY <1>1, <2>1, <2>2, <2>3
<1>7. Until(s, LAMBDA u : u # NewLine) = Before(s, I)
  BY DEF Until, SelectInSeq, Before, First
<1>8. Len(p) + 1 \in I
  BY <1>1, <1>5, <1>6
<1>9. \A i \in I : i > Len(p)
  BY <1>1, <1>5, <1>6
<1>10. I \in SUBSET (1..Len(p \o q))
  OBVIOUS
<1> HIDE DEF I
<1>11. Before(p \o q, I) = p
  BY <1>1, <1>8, <1>9, <1>10, StopsBehind
<1>12. After(s, LAMBDA u : u # NewLine) = SubSeq(s, Len(p) + 1, Len(s))
  BY <1>7, <1>11 DEF After
<1> QED
  BY <1>1, <1>2, <1>12, RestIs

(* The parts of a request. *)
LEMMA PartsAreText ==
  ASSUME NEW r \in Requests
  PROVE  /\ r.method \in Alphabet /\ r.path \in Seq(Alphabet) /\ r.query \in Alphabet
         /\ r.length \in Seq(Alphabet) /\ r.body \in Seq(Alphabet)
         /\ Target(r) \in Seq(Alphabet)
         /\ Headers(r.before) \in Seq(Alphabet) /\ Headers(r.after) \in Seq(Alphabet)
         /\ Space \in Alphabet /\ NewLine \in Alphabet /\ ContentLength \in Alphabet
<1>1. /\ r.method \in Alphabet /\ r.path \in Seq(Alphabet) /\ r.query \in Alphabet
      /\ r.before \in Nat /\ r.length \in Seq(Alphabet) /\ r.after \in Nat
      /\ r.body \in Seq(Alphabet)
  BY HttpAssumption
<1>2. /\ Space \in Alphabet /\ NewLine \in Alphabet /\ ContentLength \in Alphabet
      /\ "?" \in Alphabet /\ OtherHeader \in Alphabet
  BY HttpRequestAssumption, HttpAssumption, CollectAssumption
<1>3. \A n \in Nat : Headers(n) \in Seq(Alphabet)
  BY <1>2 DEF Headers
<1>4. Target(r) \in Seq(Alphabet)
  BY <1>1, <1>2 DEF Target
<1> QED
  BY <1>1, <1>2, <1>3, <1>4

(* Texts one after another, in whichever order they are put together. *)
LEMMA Assoc ==
  ASSUME NEW s \in Seq(Alphabet), NEW t \in Seq(Alphabet), NEW u \in Seq(Alphabet)
  PROVE  (s \o t) \o u = s \o (t \o u)
OBVIOUS

(* Two units are one behind the other. *)
LEMMA Pair ==
  ASSUME NEW u \in Alphabet, NEW v \in Alphabet
  PROVE  <<u, v>> = <<u>> \o <<v>>
<1>1. <<u, v>> \in Seq(Alphabet) /\ <<u>> \o <<v>> \in Seq(Alphabet)
  OBVIOUS
<1>2. Len(<<u, v>>) = 2 /\ Len(<<u>> \o <<v>>) = 2
  OBVIOUS
<1>3. \A i \in 1..2 : <<u, v>>[i] = (<<u>> \o <<v>>)[i]
  OBVIOUS
<1> QED
  BY <1>1, <1>2, <1>3, SeqEqual

(* The line with the length, if there is one. *)
LengthLine(r) == IF r.length = <<>> THEN <<>> ELSE <<ContentLength>> \o r.length \o <<NewLine>>

(* A request is its first line, and what follows it. *)
Rest(r) ==
  Headers(r.before) \o (LengthLine(r) \o (Headers(r.after) \o (<<NewLine>> \o r.body)))

(* The text of a request, cut behind its first line. *)
LEMMA TextIs ==
  ASSUME NEW r \in Requests
  PROVE  /\ Rest(r) \in Seq(Alphabet)
         /\ Text(r) = (<<r.method>> \o (<<Space>> \o (Target(r) \o <<Space>>)))
                      \o (<<NewLine>> \o Rest(r))
<1> DEFINE m == <<r.method>>
           s == <<Space>>
           e == <<NewLine>>
           t == Target(r)
           h == Headers(r.before)
           l == LengthLine(r)
           k == Headers(r.after)
           d == r.body
           p1 == m \o s
           p2 == p1 \o t
           se == s \o e
           p3 == p2 \o se
           p4 == p3 \o h
           p5 == p4 \o l
           p6 == p5 \o k
           p7 == p6 \o e
           q7 == e \o d
           q6 == k \o q7
           q5 == l \o q6
           q4 == h \o q5
           q3 == e \o q4
           ts == t \o s
           sts == s \o ts
           first == m \o sts
<1>1. /\ m \in Seq(Alphabet) /\ s \in Seq(Alphabet) /\ e \in Seq(Alphabet)
      /\ t \in Seq(Alphabet) /\ h \in Seq(Alphabet) /\ l \in Seq(Alphabet)
      /\ k \in Seq(Alphabet) /\ d \in Seq(Alphabet)
  BY PartsAreText DEF LengthLine
<1>2. Text(r) = p7 \o d
  <2>1. <<r.method, Space>> = p1 /\ <<Space, NewLine>> = se
    BY PartsAreText, Pair
  <2>2. Text(r) = <<r.method, Space>> \o t \o <<Space, NewLine>> \o h \o l \o k \o e \o d
    BY DEF Text, LengthLine
  <2> QED
    BY <2>1, <2>2
<1>3. Rest(r) = q4
  BY DEF Rest
<1> HIDE DEF m, s, e, t, h, l, k, d
<1>4. /\ p1 \in Seq(Alphabet) /\ se \in Seq(Alphabet) /\ q7 \in Seq(Alphabet)
      /\ ts \in Seq(Alphabet)
  BY <1>1
<1> HIDE DEF p1, se, q7, ts
<1>5. p2 \in Seq(Alphabet) /\ q6 \in Seq(Alphabet) /\ sts \in Seq(Alphabet)
  BY <1>1, <1>4
<1> HIDE DEF p2, q6, sts
<1>6. p3 \in Seq(Alphabet) /\ q5 \in Seq(Alphabet) /\ first \in Seq(Alphabet)
  BY <1>1, <1>4, <1>5
<1> HIDE DEF p3, q5, first
<1>7. p4 \in Seq(Alphabet) /\ q4 \in Seq(Alphabet)
  BY <1>1, <1>6
<1> HIDE DEF p4, q4
<1>8. p5 \in Seq(Alphabet) /\ q3 \in Seq(Alphabet)
  BY <1>1, <1>7
<1> HIDE DEF p5, q3
<1>9. p6 \in Seq(Alphabet)
  BY <1>1, <1>8
<1> HIDE DEF p6, p7
<1>10. p7 \o d = p6 \o q7
  <2>1. p6 \in Seq(Alphabet) /\ e \in Seq(Alphabet) /\ d \in Seq(Alphabet)
    BY <1>1, <1>9
  <2> QED
    BY <2>1, Assoc DEF p7, q7
<1>11. @ = p5 \o q6
  <2>1. p5 \in Seq(Alphabet) /\ k \in Seq(Alphabet) /\ q7 \in Seq(Alphabet)
    BY <1>1, <1>4, <1>8
  <2> QED
    BY <2>1, Assoc DEF p6, q6
<1>12. @ = p4 \o q5
  <2>1. p4 \in Seq(Alphabet) /\ l \in Seq(Alphabet) /\ q6 \in Seq(Alphabet)
    BY <1>1, <1>5, <1>7
  <2> QED
    BY <2>1, Assoc DEF p5, q5
<1>13. @ = p3 \o q4
  <2>1. p3 \in Seq(Alphabet) /\ h \in Seq(Alphabet) /\ q5 \in Seq(Alphabet)
    BY <1>1, <1>6
  <2> QED
    BY <2>1, Assoc DEF p4, q4
<1>14. @ = p2 \o (se \o q4)
  <2>1. p2 \in Seq(Alphabet) /\ se \in Seq(Alphabet) /\ q4 \in Seq(Alphabet)
    BY <1>4, <1>5, <1>7
  <2> QED
    BY <2>1, Assoc DEF p3
<1>15. se \o q4 = s \o q3
  <2>1. s \in Seq(Alphabet) /\ e \in Seq(Alphabet) /\ q4 \in Seq(Alphabet)
    BY <1>1, <1>7
  <2> QED
    BY <2>1, Assoc DEF se, q3
<1>16. p2 \o (s \o q3) = (p2 \o s) \o q3
  <2>1. p2 \in Seq(Alphabet) /\ s \in Seq(Alphabet) /\ q3 \in Seq(Alphabet)
    BY <1>1, <1>5, <1>8
  <2> QED
    BY <2>1, Assoc
<1>17. p2 \o s = p1 \o ts
  <2>1. p1 \in Seq(Alphabet) /\ t \in Seq(Alphabet) /\ s \in Seq(Alphabet)
    BY <1>1, <1>4
  <2> QED
    BY <2>1, Assoc DEF p2, ts
<1>18. @ = first
  <2>1. m \in Seq(Alphabet) /\ s \in Seq(Alphabet) /\ ts \in Seq(Alphabet)
    BY <1>1, <1>4
  <2> QED
    BY <2>1, Assoc DEF p1, sts, first
<1>19. Text(r) = first \o q3
  BY <1>2, <1>10, <1>11, <1>12, <1>13, <1>14, <1>15, <1>16, <1>17, <1>18
<1> QED
  BY <1>3, <1>7, <1>19 DEF first, sts, ts, q3, m, s, e, t

RequestLine(r) == <<r.method>> \o (<<Space>> \o (Target(r) \o <<Space>>))

(* Neither NUL nor the name of the length is in the request line. *)
LEMMA LineIsLegible ==
  ASSUME NEW r \in Requests, WellFormed(r)
  PROVE  /\ RequestLine(r) \in Seq(Alphabet) /\ Target(r) # <<>>
         /\ \A i \in 1..Len(Target(r)) : Legible(Target(r)[i])
         /\ \A u \in {NUL, ContentLength} : Without(RequestLine(r), u)
<1>1. /\ r.method \in Alphabet /\ r.path \in Seq(Alphabet) /\ r.query \in Alphabet
      /\ Target(r) \in Seq(Alphabet) /\ Space \in Alphabet
  BY PartsAreText
<1>2. "?" \in Alphabet /\ Legible("?")
  <2>1. "?" # " " /\ "?" # "\r\n" /\ "?" # "NUL" /\ "?" # "Content-Length: "
    BY Zenon
  <2> QED
    BY <2>1, CollectAssumption, Zenon DEF Legible, Blank, Space, NewLine, NUL, ContentLength
<1>3. Target(r) # <<>> /\ \A i \in 1..Len(Target(r)) : Legible(Target(r)[i])
  <2>1. r.path # <<>> /\ Legible(r.query) /\ \A i \in 1..Len(r.path) : Legible(r.path[i])
    BY <1>1 DEF WellFormed
  <2>2. CASE r.query = NoQuery
    <3>1. Target(r) = r.path
      BY <1>1, <2>2 DEF Target
    <3> QED
      BY <2>1, <3>1
  <2>3. CASE r.query # NoQuery
    <3> DEFINE q == <<"?", r.query>>
    <3>1. q \in Seq(Alphabet) /\ Len(q) = 2 /\ q[1] = "?" /\ q[2] = r.query
      BY <1>1, <1>2
    <3>2. Target(r) = r.path \o q
      BY <2>3 DEF Target
    <3> HIDE DEF q
    <3>3. \A i \in 1..2 : Legible(q[i])
      BY <1>2, <2>1, <3>1
    <3>4. Len(r.path) > 0 /\ Len(r.path \o q) = Len(r.path) + 2
      <4>1. r.path \in Seq(Alphabet) /\ r.path # <<>> /\ q \in Seq(Alphabet) /\ Len(q) = 2
        BY <1>1, <2>1, <3>1
      <4>2. \A s, v \in Seq(Alphabet) :
              Len(s \o v) = Len(s) + Len(v) /\ (s # <<>> => Len(s) > 0)
        OBVIOUS
      <4> QED
        BY <4>1, <4>2
    <3>5. ASSUME NEW i \in 1..Len(r.path \o q) PROVE Legible((r.path \o q)[i])
      <4>1. CASE i <= Len(r.path)
        <5>1. i \in 1..Len(r.path) /\ (r.path \o q)[i] = r.path[i]
          BY <1>1, <3>1, <3>4, <4>1
        <5> QED
          BY <2>1, <5>1
      <4>2. CASE i > Len(r.path)
        <5>1. i - Len(r.path) \in 1..2 /\ (r.path \o q)[i] = q[i - Len(r.path)]
          BY <1>1, <3>1, <3>4, <4>2
        <5> QED
          BY <3>3, <5>1
      <4> QED
        BY <1>1, <3>4, <4>1, <4>2
    <3> QED
      BY <3>2, <3>4, <3>5
  <2> QED
    BY <2>2, <2>3
<1>4. ASSUME NEW u \in {NUL, ContentLength} PROVE Without(RequestLine(r), u)
  <2>1. \A i \in 1..Len(Target(r)) : Target(r)[i] # u
    BY <1>3 DEF Legible
  <2>2. r.method # u /\ Space # u
    <3>1. r.method \in {"GET", "POST", "PUT"}
      BY DEF WellFormed, Words
    <3>2. \A m \in {"GET", "POST", "PUT", " "} : m # "NUL" /\ m # "Content-Length: "
      BY Zenon
    <3> QED
      BY <3>1, <3>2, Zenon DEF Space, NUL, ContentLength
  <2>3. <<Space>> \in Seq(Alphabet) /\ Without(<<Space>>, u)
    BY <1>1, <2>2 DEF Without
  <2>4. <<r.method>> \in Seq(Alphabet) /\ Without(<<r.method>>, u)
    BY <1>1, <2>2 DEF Without
  <2>5. Without(Target(r), u)
    BY <2>1 DEF Without
  <2> DEFINE ts == Target(r) \o <<Space>>
             sts == <<Space>> \o ts
  <2>6. ts \in Seq(Alphabet) /\ Without(ts, u)
    BY <1>1, <2>3, <2>5, WithoutBoth
  <2> HIDE DEF ts
  <2>7. sts \in Seq(Alphabet) /\ Without(sts, u)
    BY <2>3, <2>6, WithoutBoth
  <2> HIDE DEF sts
  <2>8. Without(<<r.method>> \o sts, u)
    BY <2>4, <2>7, WithoutBoth
  <2> QED
    BY <2>8 DEF RequestLine, sts, ts
<1>5. RequestLine(r) \in Seq(Alphabet)
  BY <1>1 DEF RequestLine
<1> QED
  BY <1>3, <1>4, <1>5

(* Nor in the other headers. *)
LEMMA HeadersAreLegible ==
  ASSUME NEW n \in Nat
  PROVE  \A u \in {NUL, ContentLength} : Without(Headers(n), u) /\ Without(<<NewLine>>, u)
<1> SUFFICES ASSUME NEW u \in {NUL, ContentLength}
             PROVE  Without(Headers(n), u) /\ Without(<<NewLine>>, u)
  OBVIOUS
<1>1. OtherHeader # u /\ NewLine # u
  BY Zenon DEF OtherHeader, NewLine, NUL, ContentLength
<1>2. Len(Headers(n)) = 2 * n /\ \A i \in 1..2 * n : Headers(n)[i] \in {OtherHeader, NewLine}
  BY DEF Headers
<1> QED
  BY <1>1, <1>2 DEF Without

(* Nothing in a request ends it as a string. *)
LEMMA TextIsString ==
  ASSUME NEW r \in Requests, WellFormed(r)
  PROVE  Without(Text(r), NUL)
<1> USE DEF Without
<1>1. /\ r.length \in Seq(Alphabet) /\ r.body \in Seq(Alphabet)
      /\ Headers(r.before) \in Seq(Alphabet) /\ Headers(r.after) \in Seq(Alphabet)
      /\ <<NewLine>> \in Seq(Alphabet) /\ <<ContentLength>> \in Seq(Alphabet)
      /\ RequestLine(r) \in Seq(Alphabet) /\ r.before \in Nat /\ r.after \in Nat
  BY PartsAreText, LineIsLegible, HttpAssumption
<1> HIDE DEF Without
<1>2. Without(r.body, NUL)
  BY <1>1 DEF WellFormed, Without
<1>3. Without(Headers(r.before), NUL) /\ Without(Headers(r.after), NUL)
      /\ Without(<<NewLine>>, NUL)
  BY <1>1, HeadersAreLegible
<1>4. LengthLine(r) \in Seq(Alphabet) /\ Without(LengthLine(r), NUL)
  <2>1. CASE r.length = <<>>
    BY <2>1 DEF LengthLine, Without
  <2>2. CASE r.length # <<>>
    <3>1. "NUL" \notin {"0", "1", "2", "3", "4", "5", "6", "7", "8", "9"}
      BY Zenon
    <3>2. Without(r.length, NUL)
      <4>1. \A i \in 1..Len(r.length) : IsDigit(r.length[i])
        BY <1>1 DEF WellFormed
      <4>2. ~IsDigit(NUL)
        BY <3>1, DigitsAre DEF NUL
      <4> QED
        BY <4>1, <4>2 DEF Without
    <3>3. Without(<<ContentLength>>, NUL)
      <4>1. ContentLength # NUL
        BY Zenon DEF ContentLength, NUL
      <4> QED
        BY <4>1 DEF Without
    <3> DEFINE n == <<ContentLength>> \o r.length
    <3>4. n \in Seq(Alphabet) /\ Without(n, NUL)
      BY <1>1, <3>2, <3>3, WithoutBoth
    <3>5. LengthLine(r) = n \o <<NewLine>>
      BY <2>2 DEF LengthLine
    <3> HIDE DEF n
    <3>6. <<NewLine>> \in Seq(Alphabet) /\ Without(<<NewLine>>, NUL)
      BY <1>1, <1>3
    <3> QED
      BY <3>4, <3>5, <3>6, WithoutBoth
  <2> QED
    BY <2>1, <2>2
<1> DEFINE eb == <<NewLine>> \o r.body
           keb == Headers(r.after) \o eb
           lkeb == LengthLine(r) \o keb
<1>5. eb \in Seq(Alphabet) /\ Without(eb, NUL)
  BY <1>1, <1>2, <1>3, WithoutBoth
<1> HIDE DEF eb
<1>6. keb \in Seq(Alphabet) /\ Without(keb, NUL)
  BY <1>1, <1>3, <1>5, WithoutBoth
<1> HIDE DEF keb
<1>7. lkeb \in Seq(Alphabet) /\ Without(lkeb, NUL)
  BY <1>4, <1>6, WithoutBoth
<1> HIDE DEF lkeb
<1>8. Rest(r) = Headers(r.before) \o lkeb
  BY DEF Rest, lkeb, keb, eb
<1>9. Rest(r) \in Seq(Alphabet) /\ Without(Rest(r), NUL)
  BY <1>1, <1>3, <1>7, <1>8, WithoutBoth
<1> DEFINE er == <<NewLine>> \o Rest(r)
<1>10. er \in Seq(Alphabet) /\ Without(er, NUL)
  BY <1>1, <1>3, <1>9, WithoutBoth
<1>11. Text(r) = RequestLine(r) \o er
  BY TextIs DEF RequestLine
<1> HIDE DEF er
<1>12. Without(RequestLine(r), NUL)
  BY LineIsLegible
<1> QED
  BY <1>1, <1>10, <1>11, <1>12, WithoutBoth

(* What comes before the first Content-Length, and behind it. *)
LEMMA TextHasLength ==
  ASSUME NEW r \in Requests, WellFormed(r), r.length # <<>>
  PROVE  \E pre \in Seq(Alphabet) :
           /\ Without(pre, ContentLength)
           /\ Text(r) = pre \o (<<ContentLength>> \o (r.length \o (<<NewLine>> \o
                          (Headers(r.after) \o (<<NewLine>> \o r.body)))))
<1> DEFINE a == RequestLine(r)
           e == <<NewLine>>
           h == Headers(r.before)
           c == <<ContentLength>>
           n == r.length
           k == Headers(r.after) \o (e \o r.body)
           ne == n \o e
           line == LengthLine(r)
           ae == a \o e
           pre == ae \o h
           lk == line \o k
           hlk == h \o lk
<1>1. r \in Requests /\ r.before \in Nat
  BY HttpAssumption
<1>2. h \in Seq(Alphabet) /\ n \in Seq(Alphabet) /\ c \in Seq(Alphabet)
  BY PartsAreText
<1>3. e \in Seq(Alphabet)
  BY PartsAreText
<1>4. k \in Seq(Alphabet)
  <2>1. Headers(r.after) \in Seq(Alphabet) /\ r.body \in Seq(Alphabet)
    BY PartsAreText
  <2> HIDE DEF e
  <2>2. e \o r.body \in Seq(Alphabet)
    BY <1>3, <2>1
  <2> QED
    BY <2>1, <2>2
<1>5. a \in Seq(Alphabet) /\ Without(a, ContentLength)
  BY LineIsLegible
<1>6. Without(h, ContentLength) /\ Without(e, ContentLength)
  BY <1>1, HeadersAreLegible
<1>7. Text(r) = a \o (e \o hlk)
  BY TextIs DEF RequestLine, Rest
<1>8. line = (c \o n) \o e
  BY DEF LengthLine
<1> HIDE DEF a, e, h, c, k, n, line
<1>9. ne \in Seq(Alphabet) /\ ae \in Seq(Alphabet) /\ Without(ae, ContentLength)
  <2>1. ne \in Seq(Alphabet)
    BY <1>2, <1>3
  <2> QED
    BY <1>3, <1>5, <1>6, <2>1, WithoutBoth
<1> HIDE DEF ae, ne
<1>10. pre \in Seq(Alphabet) /\ Without(pre, ContentLength)
  BY <1>2, <1>6, <1>9, WithoutBoth
<1>11. line = c \o ne
  BY <1>2, <1>3, <1>8, Assoc DEF ne
<1>12. line \in Seq(Alphabet)
  BY <1>2, <1>9, <1>11
<1>13. lk = c \o (ne \o k)
  BY <1>2, <1>4, <1>9, <1>11, Assoc
<1>14. ne \o k = n \o (e \o k)
  <2>1. n \in Seq(Alphabet) /\ e \in Seq(Alphabet) /\ k \in Seq(Alphabet)
    BY <1>2, <1>3, <1>4
  <2> QED
    BY <2>1, Assoc, Zenon DEF ne
<1>15. lk \in Seq(Alphabet)
  BY <1>4, <1>12
<1> HIDE DEF lk
<1>16. hlk \in Seq(Alphabet)
  BY <1>2, <1>15
<1> HIDE DEF hlk
<1>17. Text(r) = ae \o hlk
  BY <1>3, <1>5, <1>7, <1>16, Assoc DEF ae
<1>18. ae \o hlk = pre \o lk
  <2>1. ae \in Seq(Alphabet) /\ h \in Seq(Alphabet) /\ lk \in Seq(Alphabet)
    BY <1>2, <1>9, <1>15
  <2> QED
    BY <2>1, Assoc DEF hlk
<1> HIDE DEF pre
<1>19. Text(r) = pre \o (c \o (n \o (e \o k)))
  BY <1>13, <1>14, <1>17, <1>18
<1> QED
  BY <1>10, <1>19 DEF c, n, e, k

(* Content begins with the body. *)
BodyIn(content, body) == \A i \in 1..Len(body) : i <= Len(content) /\ content[i] = body[i]

(* The length and the body, whatever lies behind them. *)
LEMMA LengthIsRead ==
  ASSUME NEW r \in Requests, WellFormed(r), NEW rest \in Seq(Alphabet), NEW b,
         b = Text(r) \o rest, r.length # <<>>
  PROVE  /\ LengthAt(b) # 0 /\ LengthDigits(b) = r.length
         /\ BodyIsFound(r) => BodyIn(Content(b), r.body)
<1> DEFINE e == <<NewLine>>
           c == <<ContentLength>>
           n == r.length
           d == r.body
           h == Headers(r.after)
           ed == e \o d
           k == h \o ed
           ek == e \o k
           nek == n \o ek
           cnek == c \o nek
<1>1. n \in Seq(Alphabet) /\ d \in Seq(Alphabet) /\ h \in Seq(Alphabet)
  BY PartsAreText
<1>2. e \in Seq(Alphabet) /\ c \in Seq(Alphabet) /\ NewLine \in Alphabet /\ ContentLength \in Alphabet
  BY PartsAreText
<1>3. PICK z \in Seq(Alphabet) : CString(b) = Text(r) \o z
  BY RequestIsText, TextIsString, StringPast
<1>4. PICK pre \in Seq(Alphabet) : Without(pre, ContentLength) /\ Text(r) = pre \o cnek
  BY TextHasLength
<1> HIDE DEF e, c, n, d, h
<1>5. ed \in Seq(Alphabet)
  BY <1>1, <1>2
<1> HIDE DEF ed
<1>6. k \in Seq(Alphabet)
  BY <1>1, <1>5
<1> HIDE DEF k
<1>7. ek \in Seq(Alphabet)
  BY <1>2, <1>6
<1> HIDE DEF ek
<1>8. nek \in Seq(Alphabet)
  BY <1>1, <1>7
<1> HIDE DEF nek
<1>9. cnek \in Seq(Alphabet)
  BY <1>2, <1>8
<1> HIDE DEF cnek
<1>10. CString(b) = pre \o (cnek \o z)
  <2>1. pre \in Seq(Alphabet) /\ cnek \in Seq(Alphabet) /\ z \in Seq(Alphabet)
    BY <1>2, <1>3, <1>9
  <2>2. (pre \o cnek) \o z = pre \o (cnek \o z)
    BY <2>1, Assoc, Zenon
  <2> QED
    BY <1>3, <1>4, <2>2
<1>11. cnek \o z = c \o (nek \o z)
  <2>1. c \in Seq(Alphabet) /\ nek \in Seq(Alphabet) /\ z \in Seq(Alphabet)
    BY <1>2, <1>8
  <2> QED
    BY <2>1 DEF cnek
<1>12. nek \o z = n \o (ek \o z)
  <2>1. n \in Seq(Alphabet) /\ ek \in Seq(Alphabet) /\ z \in Seq(Alphabet)
    BY <1>1, <1>7
  <2> QED
    BY <2>1 DEF nek
<1>13. ek \o z = e \o (k \o z)
  <2>1. e \in Seq(Alphabet) /\ k \in Seq(Alphabet) /\ z \in Seq(Alphabet)
    BY <1>2, <1>6
  <2> QED
    BY <2>1 DEF ek
<1> DEFINE kz == k \o z
           behind == n \o (e \o kz)
<1>14. kz \in Seq(Alphabet) /\ e \o kz \in Seq(Alphabet) /\ behind \in Seq(Alphabet)
  <2>1. kz \in Seq(Alphabet)
    BY <1>6
  <2> HIDE DEF kz
  <2>2. e \o kz \in Seq(Alphabet)
    BY <1>2, <2>1
  <2> QED
    BY <1>1, <2>1, <2>2
<1> HIDE DEF kz
<1>15. CString(b) = pre \o (c \o behind)
  BY <1>10, <1>11, <1>12, <1>13 DEF kz
<1> HIDE DEF behind
<1>16. LengthAt(b) # 0 /\ BehindLength(b) = behind
  BY <1>2, <1>4, <1>14, <1>15, LengthFound DEF c
<1>18. LengthDigits(b) = n /\ After(BehindLength(b), LAMBDA u : ~IsDigit(u)) = e \o kz
  <2>1. \A i \in 1..Len(n) : IsDigit(n[i])
    BY <1>1 DEF WellFormed, n
  <2>2. BehindLength(b) = n \o (e \o kz)
    BY <1>16 DEF behind
  <2> QED
    BY <1>1, <1>2, <1>14, <2>1, <2>2, DigitsRead DEF e
<1>17. ASSUME BodyIsFound(r) PROVE BodyIn(Content(b), r.body)
  <2>3. LengthDigits(b) = n /\ After(BehindLength(b), LAMBDA u : ~IsDigit(u)) = e \o kz
    BY <1>18
  <2>4. h = <<>>
    <3>1. r.after = 0
      BY <1>17 DEF BodyIsFound
    <3> QED
      BY <3>1 DEF h, Headers
  <2>5. kz = e \o (d \o z)
    <3>1. k = e \o d
      BY <1>5, <2>4 DEF k, ed
    <3>2. e \in Seq(Alphabet) /\ d \in Seq(Alphabet) /\ z \in Seq(Alphabet)
      BY <1>1, <1>2
    <3>3. (e \o d) \o z = e \o (d \o z)
      BY <3>2
    <3> QED
      BY <3>1, <3>3, Zenon DEF kz
  <2>6. CASE d = <<>>
    BY <2>3, <2>6 DEF n, d, BodyIn
  <2>7. CASE d # <<>>
    <3> DEFINE dz == d \o z
    <3>1. Len(d) > 0
      BY <1>1, <2>7
    <3>2. d[1] # NewLine
      BY <1>17, <2>7 DEF BodyIsFound, d
    <3>3. dz \in Seq(Alphabet) /\ Len(dz) = Len(d) + Len(z) /\ \A i \in 1..Len(d) : dz[i] = d[i]
      BY <1>1
    <3> HIDE DEF dz
    <3>4. d \in Seq(Alphabet) /\ z \in Seq(Alphabet) /\ Len(d) \in Nat /\ Len(z) \in Nat
      BY <1>1
    <3>5. Len(dz) > 0 /\ dz[1] # NewLine
      BY <3>1, <3>2, <3>3, <3>4
    <3>6. After(e \o (e \o dz), LAMBDA u : u # NewLine) = dz
      BY <1>2, <3>3, <3>5, LinesSkipped DEF e
    <3>7. Content(b) = Cut(dz, MaxContent)
      BY <2>3, <2>5, <3>6 DEF Content, dz
    <3>8. Len(d) <= MaxContent /\ MaxContent \in Nat
      BY <1>17, HttpRequestAssumption DEF BodyIsFound, d
    <3>9. ASSUME NEW i \in 1..Len(d) PROVE i <= Len(Content(b)) /\ Content(b)[i] = d[i]
      BY <1>1, <3>3, <3>7, <3>8 DEF Cut
    <3> QED
      BY <2>3, <3>9 DEF n, d, BodyIn
  <2> QED
    BY <2>6, <2>7
<1> QED
  BY <1>16, <1>17, <1>18 DEF n

(* Whatever lies behind a request in the buffer, it is understood. *)
LEMMA RequestIsRead ==
  ASSUME NEW r \in Requests, WellFormed(r), NEW rest \in Seq(Alphabet), NEW b,
         b = Text(r) \o rest
  PROVE  /\ Method(b) = r.method
         /\ Uri(b) = Cut(Target(r), MaxUri - 1)
         /\ r.length # <<>> => LengthAt(b) # 0 /\ LengthDigits(b) = r.length
         /\ BodyIsFound(r) => BodyIn(Content(b), r.body)
<1> DEFINE m == <<r.method>>
           s == <<Space>>
           t == Target(r)
           er == <<NewLine>> \o Rest(r)
           q == er \o rest
           ts == t \o s
           sts == s \o ts
<1>1. m \in Seq(Alphabet) /\ s \in Seq(Alphabet) /\ t \in Seq(Alphabet)
  BY PartsAreText
<1>2. er \in Seq(Alphabet)
  <2>1. Rest(r) \in Seq(Alphabet) /\ NewLine \in Alphabet
    BY PartsAreText, TextIs
  <2> QED
    BY <2>1
<1>3. Text(r) = (m \o sts) \o er
  BY TextIs
<1> HIDE DEF er
<1>4. q \in Seq(Alphabet)
  BY <1>2
<1> HIDE DEF q
<1>5. b = m \o (s \o (t \o (s \o q)))
  <2> HIDE DEF m, s, t
  <2>1. ts \in Seq(Alphabet)
    BY <1>1
  <2> HIDE DEF ts
  <2>2. sts \in Seq(Alphabet)
    BY <1>1, <2>1
  <2> HIDE DEF sts
  <2>3. m \o sts \in Seq(Alphabet)
    BY <1>1, <2>2
  <2>4. b = (m \o sts) \o q
    <3>1. m \o sts \in Seq(Alphabet) /\ er \in Seq(Alphabet)
      BY <1>2, <2>3
    <3>2. b = ((m \o sts) \o er) \o rest
      BY <1>3
    <3> QED
      BY <3>1, <3>2, Assoc DEF q
  <2>5. (m \o sts) \o q = m \o (sts \o q)
    <3>1. m \in Seq(Alphabet) /\ sts \in Seq(Alphabet) /\ q \in Seq(Alphabet)
      BY <1>1, <1>4, <2>2
    <3> QED
      BY <3>1, Assoc, Zenon
  <2>6. sts \o q = s \o (ts \o q)
    <3>1. s \in Seq(Alphabet) /\ ts \in Seq(Alphabet) /\ q \in Seq(Alphabet)
      BY <1>1, <1>4, <2>1
    <3> QED
      BY <3>1, Assoc, Zenon DEF sts
  <2>7. ts \o q = t \o (s \o q)
    <3>1. t \in Seq(Alphabet) /\ s \in Seq(Alphabet) /\ q \in Seq(Alphabet)
      BY <1>1, <1>4
    <3> QED
      BY <3>1 DEF ts
  <2> QED
    BY <2>4, <2>5, <2>6, <2>7
<1>6. r.method \in Words /\ r.method \in Alphabet /\ Space \in Alphabet
  BY PartsAreText DEF WellFormed
<1>7. Method(b) = r.method
  <2> DEFINE rest1 == s \o (t \o (s \o q))
  <2>1. rest1 \in Seq(Alphabet)
    BY <1>1, <1>4
  <2> HIDE DEF rest1
  <2>2. Method(m \o rest1) = r.method
    BY <1>6, <2>1, MethodRead
  <2> QED
    BY <1>5, <2>2 DEF rest1
<1>8. Uri(b) = Cut(t, MaxUri - 1)
  <2>1. t # <<>> /\ \A i \in 1..Len(t) : ~Blank(t[i]) /\ t[i] # NUL
    BY LineIsLegible DEF Legible
  <2> HIDE DEF t
  <2> QED
    BY <1>1, <1>4, <1>5, <1>6, <2>1, UriRead
<1>9. r.length # <<>> =>
        LengthAt(b) # 0 /\ LengthDigits(b) = r.length /\ (BodyIsFound(r) => BodyIn(Content(b), r.body))
  BY LengthIsRead
<1> QED
  BY <1>7, <1>8, <1>9 DEF BodyIsFound

(* What http_request_parse makes of a buffer that begins with a request. *)
LEMMA ParseUnderstands ==
  ASSUME NEW r \in Requests, WellFormed(r), NEW b \in Buffers, IsPrefix(Text(r), b)
  PROVE  /\ Parse(b).method = r.method
         /\ Parse(b).uri = Cut(Target(r), MaxUri - 1)
         /\ r.method # "POST" => Parse(b).length = <<>>
         /\ r.method = "POST" /\ r.length # <<>> => Parse(b).length = r.length
         /\ r.method = "POST" /\ BodyIsFound(r) => Body(Parse(b)) = r.body
         /\ r.method # "POST" => ~LengthSpills(b)
         /\ (r.method = "POST" => r.length # <<>>) => ~ParseCrashes(b) /\ ~LengthSpills(b)
<1>1. Text(r) \in Seq(Alphabet) /\ b \in Seq(Alphabet) /\ Len(b) \in Nat
  BY RequestIsText, HttpAssumption DEF Buffers
<1>2. PICK rest \in Seq(Alphabet) : b = Text(r) \o rest
  <2> DEFINE t == Text(r)
             rest == SubSeq(b, Len(t) + 1, Len(b))
  <2>1. t \in Seq(Alphabet) /\ Len(t) <= Len(b) /\ t = SubSeq(b, 1, Len(t))
    BY <1>1 DEF IsPrefix
  <2> HIDE DEF t
  <2>2. rest \in Seq(Alphabet) /\ Len(rest) = Len(b) - Len(t)
    BY <1>1, <2>1
  <2>3. \A i \in 1..Len(rest) : rest[i] = b[Len(t) + i]
    BY <1>1, <2>1, <2>2
  <2>4. \A i \in 1..Len(t) : t[i] = b[i]
    BY <1>1, <2>1
  <2> HIDE DEF rest
  <2>5. b = t \o rest
    <3> DEFINE both == t \o rest
    <3>1. both \in Seq(Alphabet) /\ Len(both) = Len(b)
      BY <1>1, <2>1, <2>2
    <3>2. \A i \in 1..Len(both) : both[i] = IF i <= Len(t) THEN t[i] ELSE rest[i - Len(t)]
      BY <1>1, <2>1, <2>2
    <3>3. \A i \in 1..Len(both) : both[i] = b[i]
      <4> SUFFICES ASSUME NEW i \in 1..Len(both) PROVE both[i] = b[i]
        OBVIOUS
      <4>1. Len(both) = Len(b) /\ Len(b) \in Nat /\ Len(t) \in Nat /\ Len(rest) = Len(b) - Len(t)
        BY <1>1, <2>1, <2>2, <3>1
      <4> HIDE DEF both
      <4>2. CASE i <= Len(t)
        <5>1. both[i] = t[i] /\ i \in 1..Len(t)
          BY <3>2, <4>1, <4>2
        <5> QED
          BY <2>4, <5>1
      <4>3. CASE i > Len(t)
        <5>1. both[i] = rest[i - Len(t)] /\ i - Len(t) \in 1..Len(rest)
          BY <3>2, <4>1, <4>3
        <5>2. rest[i - Len(t)] = b[Len(t) + (i - Len(t))] /\ Len(t) + (i - Len(t)) = i
          BY <2>3, <4>1, <5>1
        <5> QED
          BY <5>1, <5>2
      <4> QED
        BY <4>1, <4>2, <4>3
    <3> HIDE DEF both
    <3>4. both = b
      BY <1>1, <3>1, <3>3, SeqEqual
    <3> QED
      BY <3>4 DEF both
  <2> QED
    BY <2>2, <2>5 DEF t
<1>3. /\ Method(b) = r.method
      /\ Uri(b) = Cut(Target(r), MaxUri - 1)
      /\ r.length # <<>> => LengthAt(b) # 0 /\ LengthDigits(b) = r.length
      /\ BodyIsFound(r) => BodyIn(Content(b), r.body)
  BY <1>2, RequestIsRead
<1>7. Len(r.length) < MaxLength /\ r.length \in Seq(Alphabet) /\ MaxLength \in Nat
  BY PartsAreText, HttpRequestAssumption DEF WellFormed
<1>8. r.length # <<>> => ~LengthSpills(b) /\ LengthField(b) = r.length
  <2>1. r.length # <<>> => Len(LengthDigits(b)) < MaxLength
    BY <1>3, <1>7
  <2> QED
    BY <1>3, <1>7, <2>1 DEF LengthSpills, LengthField
<1>4. /\ Parse(b).method = Method(b) /\ Parse(b).uri = Uri(b)
      /\ Parse(b).length = IF Method(b) = "POST" THEN LengthField(b) ELSE <<>>
      /\ Parse(b).content = IF Method(b) = "POST" THEN Content(b) ELSE <<>>
  BY DEF Parse
<1>5. ASSUME r.method = "POST", BodyIsFound(r)
      PROVE  Parse(b).length = r.length /\ Body(Parse(b)) = r.body
  <2>1. Parse(b).length = r.length /\ BodyIn(Parse(b).content, r.body)
    BY <1>3, <1>4, <1>5, <1>8 DEF BodyIsFound
  <2>2. Atoi(r.length) = Len(r.body) /\ r.body \in Seq(Alphabet)
    BY <1>5, PartsAreText DEF BodyIsFound, WellFormed
  <2>3. Body(Parse(b)) = [i \in 1..Len(r.body) |-> r.body[i]]
    <3>1. Body(Parse(b)) = [i \in 1..Len(r.body) |->
             IF i <= Len(Parse(b).content) THEN Parse(b).content[i]
             ELSE IF i <= MaxContent THEN NUL ELSE Junk]
      BY <2>1, <2>2 DEF Body
    <3>2. \A i \in 1..Len(r.body) :
            i <= Len(Parse(b).content) /\ Parse(b).content[i] = r.body[i]
      BY <2>1 DEF BodyIn
    <3> QED
      BY <3>1, <3>2
  <2> QED
    BY <2>1, <2>2, <2>3
<1>6. /\ r.method # "POST" => ~LengthSpills(b)
      /\ (r.method = "POST" => r.length # <<>>) => ~ParseCrashes(b) /\ ~LengthSpills(b)
  BY <1>3, <1>8 DEF ParseCrashes, LengthSpills
<1> QED
  BY <1>3, <1>4, <1>5, <1>6, <1>8

(* A request that fits into rd_buf is at its beginning. *)
LEMMA FilledBegins ==
  ASSUME NEW w \in Workers, buf[w] \in Buffers, NEW t \in Seq(Alphabet), Len(t) <= MaxBuf,
         NEW b \in Filled(w, t)
  PROVE  IsPrefix(t, b)
<1> DEFINE fill(rest) ==
      [i \in 1..MaxBuf |-> IF Len(t) + i <= MaxBuf THEN rest[Len(t) + i] ELSE NUL]
<1>1. PICK rest \in {buf[w], [i \in 1..MaxBuf |-> Junk]} : b = Cut(t \o fill(rest), MaxBuf)
  BY DEF Filled
<1>2. rest \in Buffers /\ NUL \in Alphabet /\ MaxBuf \in Nat
  BY <1>1, HttpRequestAssumption, HttpAssumption DEF Buffers
<1>3. fill(rest) \in Seq(Alphabet) /\ Len(fill(rest)) = MaxBuf
  <2>1. fill(rest) \in Buffers
    BY <1>2 DEF Buffers
  <2> HIDE DEF fill
  <2> QED
    BY <1>2, <2>1 DEF Buffers
<1> DEFINE f == fill(rest)
           both == t \o f
<1> HIDE DEF fill, f
<1>4. f \in Seq(Alphabet) /\ Len(f) = MaxBuf
  BY <1>3 DEF f
<1>5. both \in Seq(Alphabet) /\ Len(both) = Len(t) + MaxBuf
      /\ \A i \in 1..Len(t) : both[i] = t[i]
  BY <1>2, <1>4
<1>6. b = Cut(both, MaxBuf)
  BY <1>1 DEF f
<1> HIDE DEF both
<1>7. Len(b) = MaxBuf /\ b \in Seq(Alphabet) /\ \A i \in 1..Len(t) : b[i] = t[i]
  BY <1>2, <1>5, <1>6 DEF Cut
<1>8. SubSeq(t, 1, Len(t)) = SubSeq(b, 1, Len(t))
  BY <1>2, <1>7
<1> QED
  BY <1>7, <1>8 DEF IsPrefix

(* send_response finds the path in the uri, and the file that it names. *)
LEMMA PathFound ==
  ASSUME NEW r \in Requests, WellFormed(r), Len(Target(r)) < MaxUri
  PROVE  /\ Cut(Target(r), MaxUri - 1) = Target(r)
         /\ Until(Target(r), IsQuery) = r.path
         /\ (\E i \in DOMAIN Target(r) : IsQuery(Target(r)[i])) <=> r.query # NoQuery
<1>1. /\ r.path \in Seq(Alphabet) /\ r.query \in Alphabet /\ Target(r) \in Seq(Alphabet)
      /\ "?" \in Alphabet /\ MaxUri \in Nat
  BY PartsAreText, CollectAssumption, HttpRequestAssumption
<1>2. Cut(Target(r), MaxUri - 1) = Target(r)
  BY <1>1 DEF Cut
<1> DEFINE q == IF r.query = NoQuery THEN <<>> ELSE <<"?", r.query>>
           I == {i \in 1..Len(r.path \o q) : IsQuery((r.path \o q)[i])}
<1>3. Target(r) = r.path \o q
  BY DEF Target
<1>4. q \in Seq(Alphabet) /\ (r.query = NoQuery => q = <<>>)
      /\ (r.query # NoQuery => Len(q) = 2 /\ q[1] = "?")
  BY <1>1
<1> HIDE DEF q
<1>5. \A i \in 1..Len(r.path) : ~IsQuery((r.path \o q)[i])
  <2>1. \A i \in 1..Len(r.path) : r.path[i] # "?"
    BY <1>1 DEF WellFormed
  <2>2. \A i \in 1..Len(r.path) : (r.path \o q)[i] = r.path[i]
    BY <1>1, <1>4
  <2> QED
    BY <2>1, <2>2 DEF IsQuery
<1>6. q # <<>> => r.query # NoQuery /\ Len(r.path) + 1 \in I
  <2> SUFFICES ASSUME q # <<>> PROVE r.query # NoQuery /\ Len(r.path) + 1 \in I
    OBVIOUS
  <2>1. r.query # NoQuery /\ Len(q) = 2 /\ q[1] = "?"
    BY <1>4
  <2>2. (r.path \o q)[Len(r.path) + 1] = "?" /\ Len(r.path) + 1 \in 1..Len(r.path \o q)
    BY <1>1, <1>4, <2>1
  <2> QED
    BY <2>1, <2>2 DEF IsQuery
<1>7. \A i \in I : i > Len(r.path)
  BY <1>1, <1>4, <1>5
<1>8. Until(Target(r), IsQuery) = Before(r.path \o q, I)
  BY <1>3 DEF Until, SelectInSeq, Before, First
<1>9. (\E i \in DOMAIN Target(r) : IsQuery(Target(r)[i])) <=> I # {}
  <2>1. DOMAIN (r.path \o q) = 1..Len(r.path \o q)
    BY <1>1, <1>4
  <2> QED
    BY <1>3, <2>1
<1>10. I \in SUBSET (1..Len(r.path \o q))
  OBVIOUS
<1>11. I # {} => r.query # NoQuery
  <2>1. ASSUME r.query = NoQuery PROVE I = {}
    <3>1. q = <<>>
      BY <1>4, <2>1
    <3>2. Len(r.path \o q) = Len(r.path)
      BY <1>1, <3>1
    <3> QED
      BY <1>5, <3>2
  <2> QED
    BY <2>1
<1>12. r.query # NoQuery => q # <<>>
  BY <1>4
<1> HIDE DEF I
<1>13. Before(r.path \o q, I) = r.path
  BY <1>1, <1>4, <1>6, <1>7, <1>10, StopsBehind
<1> QED
  BY <1>2, <1>6, <1>8, <1>9, <1>11, <1>12, <1>13

(* The file that a path names has a name as long as the path, or longer. *)
LEMMA NamedIsLonger ==
  ASSUME NEW r \in Requests
  PROVE  Len(Named(r)) \in Nat /\ Len(Htdocs \o r.path) <= Len(Named(r))
<1> DEFINE Both == Alphabet \cup {"index.", "html"}
           more == IF Last(r.path) = "/" THEN Index ELSE <<>>
           name == Htdocs \o r.path
<1>1. Htdocs \in Seq(Alphabet) /\ r.path \in Seq(Alphabet)
  BY PartsAreText, HttpAssumption
<1>2. name \in Seq(Alphabet)
  BY <1>1
<1>3. Named(r) = name \o more
  BY DEF Named
<1> HIDE DEF name
<1>4. Index \in Seq(Both) /\ <<>> \in Seq(Both) /\ name \in Seq(Both)
  BY <1>2 DEF Index
<1>5. more \in Seq(Both) /\ name \in Seq(Both)
  BY <1>4
<1> HIDE DEF more, Both
<1>6. Len(name \o more) = Len(name) + Len(more) /\ Len(more) \in Nat /\ Len(name) \in Nat
  BY <1>5
<1> QED
  BY <1>3, <1>6 DEF name

(* A path that fits into file_path is found there whole. *)
LEMMA FileFound ==
  ASSUME NEW r \in Requests, WellFormed(r), Len(Htdocs \o r.path) < MaxPath
  PROVE  LET name == FilePath(r.path) IN
         Named(r) = IF Last(name) = "/" THEN name \o Index ELSE name
<1>1. /\ r.path \in Seq(Alphabet) /\ r.path # <<>> /\ Htdocs \in Seq(Alphabet)
      /\ MaxPath \in Nat
  BY PartsAreText, HttpAssumption DEF WellFormed
<1> DEFINE p == r.path
           name == Htdocs \o p
<1>2. p \in Seq(Alphabet) /\ Len(p) > 0
  BY <1>1
<1> HIDE DEF p
<1>3. name \in Seq(Alphabet) /\ Len(name) = Len(Htdocs) + Len(p) /\ name[Len(name)] = p[Len(p)]
  BY <1>1, <1>2
<1>4. Last(name) = Last(p)
  BY <1>3 DEF Last
<1>5. FilePath(p) = name
  BY <1>1, <1>3 DEF FilePath, Cut, p
<1>6. Named(r) = IF Last(name) = "/" THEN name \o Index ELSE name
  <2>1. name \o <<>> = name
    BY <1>3
  <2> QED
    BY <1>4, <2>1 DEF Named, p
<1> QED
  BY <1>3, <1>5, <1>6 DEF p

(***************************************************************************)
(* What collect makes of the form that a browser has made of a text.       *)
(***************************************************************************)

(* The units that Decoded takes from s at i, and where it goes on. *)
UnitAt(s, i) ==
  IF s[i] = "+" THEN Space
  ELSE IF s[i] = "%" THEN Code(At(s, i + 1), At(s, i + 2)) ELSE s[i]
Behind(s, i) == IF s[i] = "%" THEN i + 3 ELSE i + 1

(* Decoded is the recursion that it is written as.                         *)
LEMMA DecodedSteps ==
  ASSUME NEW S, NEW s \in Seq(S)
  PROVE  \E from : /\ Decoded(s) = from[1]
                   /\ \A i \in 1..Len(s) + 3 :
                        from[i] = IF i > Len(s) THEN <<>>
                                  ELSE <<UnitAt(s, i)>> \o from[Behind(s, i)]
<1> DEFINE L == Len(s)
           N == Len(s) + 3
           T == {UnitAt(s, i) : i \in 1..L}
           V == Seq(T)
           base == [i \in 1..N |-> <<>>]
           next == [i \in 1..N |-> Behind(s, i)]
           step == [i \in 1..N |-> [v \in V |-> IF i <= L THEN <<UnitAt(s, i)>> \o v ELSE v]]
<1>1. N \in Nat /\ L \in 0..N /\ L \in Nat
  OBVIOUS
<1>2. Steps(V, N, L, base, next, step)
  <2>1. base \in [1..N -> V]
    OBVIOUS
  <2>2. next \in [1..N -> Nat] /\ \A i \in 1..L : i < next[i] /\ next[i] <= N
    BY DEF Behind
  <2>3. step \in [1..N -> [V -> V]]
    <3> HIDE DEF N, L
    <3>1. ASSUME NEW i \in 1..N, NEW v \in V PROVE (IF i <= L THEN <<UnitAt(s, i)>> \o v ELSE v) \in V
      <4>1. CASE i <= L
        <5>1. <<UnitAt(s, i)>> \in Seq(T)
          BY <1>1, <4>1
        <5> QED
          BY <4>1, <5>1
      <4>2. CASE ~(i <= L)
        BY <4>2
      <4> QED
        BY <4>1, <4>2
    <3> QED
      BY <3>1
  <2> HIDE DEF N, L, V, base, next, step
  <2> QED
    BY <2>1, <2>2, <2>3 DEF Steps
<1>3. PICK f \in [1..N -> V] : Solves(f, N, L, base, next, step)
  <2> HIDE DEF N, L, V, base, next, step
  <2> QED
    BY <1>1, <1>2, Recursion
<1> DEFINE from[i \in 1..Len(s) + 3] ==
             IF i > Len(s) THEN <<>>
             ELSE IF s[i] = "+" THEN <<Space>> \o from[i + 1]
             ELSE IF s[i] = "%" THEN <<Code(At(s, i + 1), At(s, i + 2))>> \o from[i + 3]
             ELSE <<s[i]>> \o from[i + 1]
           eq(h) == h = [i \in 1..Len(s) + 3 |->
             IF i > Len(s) THEN <<>>
             ELSE IF s[i] = "+" THEN <<Space>> \o h[i + 1]
             ELSE IF s[i] = "%" THEN <<Code(At(s, i + 1), At(s, i + 2))>> \o h[i + 3]
             ELSE <<s[i]>> \o h[i + 1]]
<1>4. \A h : eq(h) <=> h = [i \in 1..N |-> IF i > L THEN <<>> ELSE <<UnitAt(s, i)>> \o h[Behind(s, i)]]
  <2> TAKE h
  <2>1. \A i \in 1..N :
          (IF i > Len(s) THEN <<>>
             ELSE IF s[i] = "+" THEN <<Space>> \o h[i + 1]
             ELSE IF s[i] = "%" THEN <<Code(At(s, i + 1), At(s, i + 2))>> \o h[i + 3]
             ELSE <<s[i]>> \o h[i + 1])
          = IF i > L THEN <<>> ELSE <<UnitAt(s, i)>> \o h[Behind(s, i)]
    BY Zenon DEF UnitAt, Behind
  <2> QED
    BY <2>1
<1>5. eq(f)
  <2>1. ASSUME NEW i \in 1..N PROVE f[i] = IF i > L THEN <<>> ELSE <<UnitAt(s, i)>> \o f[Behind(s, i)]
    <3>1. f[i] = IF i > L THEN base[i] ELSE step[i][f[next[i]]]
      BY <1>3 DEF Solves
    <3>2. CASE i > L
      BY <3>1, <3>2
    <3>3. CASE ~(i > L)
      <4>1. i \in 1..L /\ i <= L /\ next[i] = Behind(s, i)
        BY <1>1, <3>3
      <4>2. next[i] \in 1..N
        BY <4>1 DEF Behind
      <4>3. f[next[i]] \in V
        BY <4>2
      <4>4. step[i][f[next[i]]] = <<UnitAt(s, i)>> \o f[next[i]]
        BY <4>1, <4>3
      <4> QED
        BY <3>1, <3>3, <4>1, <4>4
    <3> QED
      BY <3>2, <3>3
  <2>2. f = [i \in 1..N |-> IF i > L THEN <<>> ELSE <<UnitAt(s, i)>> \o f[Behind(s, i)]]
    <3> HIDE DEF N, L
    <3> QED
      BY <2>1
  <2> QED
    BY <1>4, <2>2
<1>6. eq(from)
  <2> HIDE DEF N, L
  <2> QED
    BY <1>5
<1>7. Decoded(s) = from[1]
  BY DEF Decoded
<1>8. \A i \in 1..N : from[i] = IF i > L THEN <<>> ELSE <<UnitAt(s, i)>> \o from[Behind(s, i)]
  <2>1. from = [i \in 1..N |-> IF i > L THEN <<>> ELSE <<UnitAt(s, i)>> \o from[Behind(s, i)]]
    <3> HIDE DEF from, eq
    <3> QED
      BY <1>4, <1>6
  <2> HIDE DEF from
  <2> QED
    BY <2>1, Zenon
<1> HIDE DEF from
<1> QED
  BY <1>7, <1>8

(* The code of an escaped character stands for it. *)
LEMMA CodeStandsFor ==
  ASSUME NEW ch \in DOMAIN Escapes
  PROVE  Code(Escapes[ch][1], Escapes[ch][2]) = ch
<1>1. PICK a \in DOMAIN DigitValue, b \in DOMAIN DigitValue : Escapes[ch] = <<a, b>>
  BY CollectAssumption
<1>2. \A c \in DOMAIN Escapes : Escapes[c] = <<a, b>> <=> c = ch
  BY <1>1, CollectAssumption
<1>3. (CHOOSE c \in DOMAIN Escapes : Escapes[c] = <<a, b>>) = ch
  BY <1>2
<1>4. IsDigit(a) /\ IsDigit(b) /\ ~(a = "0" /\ b = "0")
  BY <1>1, CollectAssumption DEF IsDigit
<1>5. \E c \in DOMAIN Escapes : Escapes[c] = <<a, b>>
  BY <1>1
<1>6. Code(a, b) = ch
  BY <1>3, <1>4, <1>5 DEF Code
<1> QED
  BY <1>1, <1>6

(* What a typed character becomes holds no end of line. *)
LineUnits == (Alphabet \cup {"+", "%"} \cup DOMAIN DigitValue) \ {NewLine}

(* An escaped character keeps to that. *)
LEMMA EscapedFits ==
  ASSUME NEW ch \in Alphabet, ch \in {"+", "%", NewLine} => ch \in DOMAIN Escapes
  PROVE  Escaped(ch) \in Seq(LineUnits)
<1>1. {"+", "%"} \subseteq LineUnits
  <2>1. "+" # NewLine /\ "%" # NewLine
    BY Zenon DEF NewLine
  <2> QED
    BY <2>1 DEF LineUnits
<1>2. DOMAIN DigitValue \subseteq LineUnits
  <2>1. NewLine \notin {"0", "1", "2", "3", "4", "5", "6", "7", "8", "9"}
    BY Zenon DEF NewLine
  <2>2. ~IsDigit(NewLine)
    BY <2>1, DigitsAre, Zenon
  <2> QED
    BY <2>2 DEF LineUnits, IsDigit
<1>3. CASE ch = Space
  BY <1>1, <1>3 DEF Escaped
<1>4. CASE ch # Space /\ ch \in DOMAIN Escapes
  <2>1. PICK a \in DOMAIN DigitValue, b \in DOMAIN DigitValue : Escapes[ch] = <<a, b>>
    BY <1>4, CollectAssumption
  <2>2. Escaped(ch) = <<"%", a, b>>
    BY <1>4, <2>1 DEF Escaped
  <2>3. "%" \in LineUnits /\ a \in LineUnits /\ b \in LineUnits
    BY <1>1, <1>2
  <2> QED
    BY <2>2, <2>3
<1>5. CASE ch # Space /\ ch \notin DOMAIN Escapes
  <2>1. ch \in LineUnits
    BY <1>5 DEF LineUnits
  <2> QED
    BY <1>5, <2>1 DEF Escaped
<1> QED
  BY <1>3, <1>4, <1>5

(* What a browser makes of a text is decoded to that text.                 *)
LEMMA DecodedIsTyped ==
  ASSUME NEW typed \in Seq(Alphabet),
         \A i \in DOMAIN typed : typed[i] \in {"+", "%", NewLine} => typed[i] \in DOMAIN Escapes
  PROVE  Encoded(typed) \in Seq(LineUnits) /\ Decoded(Encoded(typed)) = typed
<1> DEFINE n == Len(typed)
           S == LineUnits
           ss == [i \in 1..n |-> Escaped(typed[i])]
           s == Encoded(typed)
<1>1. n \in Nat /\ DOMAIN typed = 1..n /\ \A i \in 1..n : typed[i] \in Alphabet
  OBVIOUS
<1>2. \A i \in 1..n : Escaped(typed[i]) \in Seq(S)
  BY <1>1, EscapedFits
<1> HIDE DEF n, S, s
<1>3. ss \in Seq(Seq(S)) /\ Len(ss) = n
  BY <1>1, <1>2
<1>4. s \in Seq(S) /\ s = FlattenSeq(ss)
  BY <1>3, Flattened DEF Encoded, s, n
<1>5. PICK at : Places(ss, at)
  BY <1>3, Flattened
<1>6. /\ at \in [0..n -> Nat] /\ at[0] = 0 /\ Len(s) = at[n]
      /\ \A k \in 1..n :
           /\ at[k] = at[k - 1] + Len(Escaped(typed[k])) /\ at[k] <= at[n]
           /\ \A j \in 1..Len(Escaped(typed[k])) : s[at[k - 1] + j] = Escaped(typed[k])[j]
  <2>1. \A k \in 1..n : ss[k] = Escaped(typed[k])
    OBVIOUS
  <2> HIDE DEF ss
  <2> QED
    BY <1>3, <1>4, <1>5, <2>1 DEF Places
<1>7. PICK from : /\ Decoded(s) = from[1]
                  /\ \A i \in 1..Len(s) + 3 :
                       from[i] = IF i > Len(s) THEN <<>>
                                 ELSE <<UnitAt(s, i)>> \o from[Behind(s, i)]
  BY <1>4, DecodedSteps
<1> HIDE DEF ss
(* One character. *)
<1>8. ASSUME NEW k \in 1..n
      PROVE  /\ at[k - 1] \in Nat /\ at[k] \in Nat /\ at[k - 1] + 1 <= Len(s)
             /\ UnitAt(s, at[k - 1] + 1) = typed[k] /\ Behind(s, at[k - 1] + 1) = at[k] + 1
  <2>1. k - 1 \in 0..n /\ k \in 0..n /\ n \in 0..n
    BY <1>1
  <2> DEFINE p == at[k - 1]
             e == Escaped(typed[k])
  <2>2. p \in Nat /\ at[k] \in Nat /\ Len(s) \in Nat
    BY <1>6, <2>1
  <2>3. at[k] = p + Len(e) /\ at[k] <= Len(s) /\ \A j \in 1..Len(e) : s[p + j] = e[j]
    BY <1>6
  <2> HIDE DEF p
  <2>4. CASE typed[k] = Space
    <3>1. e = <<"+">>
      BY <2>4 DEF Escaped
    <3>2. s[p + 1] = "+" /\ at[k] = p + 1
      BY <2>2, <2>3, <3>1
    <3> QED
      BY <2>2, <2>3, <2>4, <3>2 DEF UnitAt, Behind, p
  <2>5. CASE typed[k] # Space /\ typed[k] \in DOMAIN Escapes
    <3> DEFINE a == Escapes[typed[k]][1]
               b == Escapes[typed[k]][2]
    <3>1. e = <<"%", a, b>>
      BY <2>5 DEF Escaped
    <3> HIDE DEF a, b, e
    <3>2. s[p + 1] = "%" /\ s[p + 2] = a /\ s[p + 3] = b /\ at[k] = p + 3
      <4>1. Len(e) = 3 /\ e[1] = "%" /\ e[2] = a /\ e[3] = b
        BY <3>1
      <4> QED
        BY <2>2, <2>3, <4>1
    <3>3. At(s, p + 1 + 1) = a /\ At(s, p + 1 + 2) = b
      <4>1. p + 1 + 1 = p + 2 /\ p + 1 + 2 = p + 3 /\ p + 2 <= Len(s) /\ p + 3 <= Len(s)
        BY <2>2, <2>3, <3>2
      <4> QED
        BY <3>2, <4>1 DEF At
    <3>4. Code(a, b) = typed[k]
      BY <2>5, CodeStandsFor DEF a, b
    <3>5. UnitAt(s, p + 1) = typed[k]
      BY <3>2, <3>3, <3>4 DEF UnitAt
    <3> QED
      BY <2>2, <2>3, <3>2, <3>5 DEF Behind, p
  <2>6. CASE typed[k] # Space /\ typed[k] \notin DOMAIN Escapes
    <3>1. e = <<typed[k]>> /\ typed[k] # "+" /\ typed[k] # "%"
      BY <1>1, <2>6 DEF Escaped
    <3>2. s[p + 1] = typed[k] /\ at[k] = p + 1
      BY <2>2, <2>3, <3>1
    <3> QED
      BY <2>2, <2>3, <3>1, <3>2 DEF UnitAt, Behind, p
  <2> QED
    BY <2>4, <2>5, <2>6
(* From the last character back. *)
<1> DEFINE I == {k \in 0..n : from[at[n - k] + 1] = SubSeq(typed, n - k + 1, n)}
<1>9. 0 \in I
  <2>1. n - 0 = n /\ at[n] = Len(s) /\ Len(s) \in Nat /\ Len(s) + 1 \in 1..Len(s) + 3
        /\ Len(s) + 1 > Len(s) /\ 0 \in 0..n
    BY <1>1, <1>4, <1>6
  <2>2. from[Len(s) + 1] = <<>>
    BY <1>7, <2>1, Zenon
  <2>3. SubSeq(typed, n + 1, n) = <<>>
    BY <1>1
  <2>4. from[at[n - 0] + 1] = SubSeq(typed, n - 0 + 1, n)
    BY <2>1, <2>2, <2>3, Zenon
  <2> QED
    BY <2>1, <2>4
<1>10. ASSUME NEW k \in 1..n, k - 1 \in I PROVE k \in I
  <2> DEFINE m == n - k + 1
  <2>1. m \in 1..n /\ m - 1 = n - k /\ m = n - (k - 1) /\ k \in 0..n
    BY <1>1
  <2> HIDE DEF m
  <2>2. from[at[m] + 1] = SubSeq(typed, m + 1, n)
    BY <1>10, <2>1
  <2>3. from[at[m - 1] + 1] = <<typed[m]>> \o from[at[m] + 1]
    <3> DEFINE i == at[m - 1] + 1
    <3>1. /\ i \in 1..Len(s) + 3 /\ ~(i > Len(s)) /\ UnitAt(s, i) = typed[m]
          /\ Behind(s, i) = at[m] + 1
      BY <1>4, <1>8, <2>1
    <3> HIDE DEF i
    <3>2. from[i] = <<UnitAt(s, i)>> \o from[Behind(s, i)]
      BY <1>7, <3>1, Zenon
    <3> QED
      BY <3>1, <3>2, Zenon DEF i
  <2>4. SubSeq(typed, m, n) = <<typed[m]>> \o SubSeq(typed, m + 1, n)
    BY <1>1, <2>1
  <2>5. from[at[m - 1] + 1] = SubSeq(typed, m, n)
    BY <2>2, <2>3, <2>4, Zenon
  <2> QED
    BY <2>1, <2>5 DEF m
<1> HIDE DEF I
<1>11. n \in I
  <2>1. \A k \in 0..n : k \in I
    BY <1>1, <1>9, <1>10, Induction
  <2> QED
    BY <1>1, <2>1
<1>12. Decoded(s) = SubSeq(typed, 1, n)
  <2>1. n - n = 0 /\ 0 + 1 = 1
    BY <1>1
  <2> QED
    BY <1>6, <1>7, <1>11, <2>1 DEF I
<1> QED
  BY <1>1, <1>4, <1>12 DEF s, n, S


(* The line that collect makes of a form is what was typed into it.        *)
LEMMA LineIsTyped ==
  ASSUME NEW r \in Requests, WellFormed(r), BodyIsFound(r), IsForm(r.body, r.typed)
  PROVE  Line(r.length, r.body) = r.typed \o <<NewLine>>
<1> DEFINE body == r.body
           typed == r.typed
           n == Len(body)
<1>1. body \in Seq(Alphabet) /\ typed \in Seq(Alphabet)
  BY HttpAssumption
<1>2. Atoi(r.length) = n
  BY DEF WellFormed, BodyIsFound
<1>3. /\ \A i \in DOMAIN typed : typed[i] \in {"+", "%", NewLine} => typed[i] \in DOMAIN Escapes
      /\ Len(body) >= Extra /\ \A i \in 1..Extra : body[i] # NewLine
      /\ Field(body) = Encoded(typed)
      /\ \A i \in DOMAIN typed : typed[i] # NUL
  BY DEF IsForm
<1> HIDE DEF body, typed, n
<1>4. Encoded(typed) \in Seq(LineUnits) /\ Decoded(Encoded(typed)) = typed
  BY <1>1, <1>3, DecodedIsTyped
<1>5. \A i \in 1..n : body[i] # NewLine
  <2>1. Extra \in Nat /\ n \in Nat
    BY <1>1, CollectAssumption DEF n
  <2>2. ASSUME NEW i \in 1..n, i > Extra PROVE body[i] # NewLine
    <3>1. Field(body) = SubSeq(body, Extra + 1, n)
      BY DEF Field, n
    <3>2. i - Extra \in 1..Len(Field(body)) /\ Field(body)[i - Extra] = body[i]
      BY <1>1, <2>1, <2>2, <3>1 DEF n
    <3>3. Field(body)[i - Extra] \in LineUnits
      BY <1>3, <1>4, <3>2
    <3> QED
      BY <3>2, <3>3 DEF LineUnits
  <2>3. \A i \in 1..n : i > Extra \/ i \in 1..Extra
    BY <2>1
  <2> QED
    BY <1>3, <2>2, <2>3
<1>6. Fgets(body, n) = body
  <2>1. SelectInSeq(body, LAMBDA u : u = NewLine) = 0
    <3>1. {i \in 1..Len(body) : body[i] = NewLine} = {}
      BY <1>5 DEF n
    <3> QED
      BY <3>1 DEF SelectInSeq
  <2>2. Cut(body, n) = body
    BY <1>1 DEF Cut, n
  <2>3. Fgets(body, n) = [k \in 1..n |-> IF k <= Len(body) THEN body[k]
                                          ELSE IF k = Len(body) + 1 THEN NUL ELSE Junk]
    BY <2>1, <2>2 DEF Fgets
  <2>4. @ = [k \in 1..n |-> body[k]]
    BY <1>1 DEF n
  <2>5. @ = body
    BY <1>1 DEF n
  <2> QED
    BY <2>3, <2>4, <2>5
<1>7. CString(typed \o <<NewLine>>) = typed \o <<NewLine>>
  <2> DEFINE e == <<NewLine>>
             line == typed \o e
  <2>1. Without(typed, NUL)
    BY <1>1, <1>3 DEF Without
  <2>2. NewLine # NUL
    BY Zenon DEF NewLine, NUL
  <2>3. e \in Seq(Alphabet) /\ Without(e, NUL)
    BY <2>2, HttpRequestAssumption DEF Without
  <2> HIDE DEF e
  <2>4. line \in Seq(Alphabet) /\ Without(line, NUL)
    BY <1>1, <2>1, <2>3, WithoutBoth
  <2> HIDE DEF line
  <2>5. CString(line) = line
    BY <2>4, StringWhole
  <2> QED
    BY <2>5 DEF line, e
<1>8. Line(r.length, body) = CString(Decoded(Field(Fgets(body, n))) \o <<NewLine>>)
  BY <1>2 DEF Line
<1> QED
  BY <1>3, <1>4, <1>6, <1>7, <1>8 DEF body, typed

(***************************************************************************)
(* What collect makes of any input at all is text.                         *)
(***************************************************************************)

(* The value of a row of digits is a number. *)
LEMMA AtoiIsNumber ==
  ASSUME NEW d \in Seq(DOMAIN DigitValue)
  PROVE  Atoi(d) \in Nat
<1> DEFINE N == Len(d)
           step == [i \in 1..N |-> [v \in Nat |-> 10 * v + DigitValue[d[i]]]]
           eq(h) == h = [i \in 0..Len(d) |-> IF i = 0 THEN 0 ELSE 10 * h[i - 1] + DigitValue[d[i]]]
           upto[i \in 0..Len(d)] == IF i = 0 THEN 0 ELSE 10 * upto[i - 1] + DigitValue[d[i]]
           I == {i \in 0..N : upto[i] \in Nat}
<1>1. N \in Nat /\ \A i \in 1..N : d[i] \in DOMAIN DigitValue
  OBVIOUS
<1>2. \A u \in DOMAIN DigitValue : DigitValue[u] \in Nat
  <2> DEFINE digits == <<"0", "1", "2", "3", "4", "5", "6", "7", "8", "9">>
  <2>1. DOMAIN digits = 1..10
    OBVIOUS
  <2> HIDE DEF digits
  <2>2. ASSUME NEW u \in Range(digits) PROVE (CHOOSE i \in DOMAIN digits : digits[i] = u) - 1 \in Nat
    <3>1. \E i \in DOMAIN digits : digits[i] = u
      BY DEF Range
    <3> DEFINE k == CHOOSE i \in DOMAIN digits : digits[i] = u
    <3>2. k \in DOMAIN digits
      BY <3>1
    <3> HIDE DEF k
    <3>3. k - 1 \in Nat
      BY <2>1, <3>2
    <3> QED
      BY <3>3 DEF k
  <2>3. DigitValue = [u \in Range(digits) |-> (CHOOSE i \in DOMAIN digits : digits[i] = u) - 1]
    BY DEF DigitValue, digits
  <2> QED
    BY <2>2, <2>3
<1> HIDE DEF N
<1>3. step \in [1..N -> [Nat -> Nat]]
  <2>1. \A i \in 1..N : DigitValue[d[i]] \in Nat
    BY <1>1, <1>2
  <2> QED
    BY <2>1
<1>4. PICK f \in [0..N -> Nat] : Climbs(f, N, 0, step)
  <2> HIDE DEF step
  <2>1. 0 \in Nat
    OBVIOUS
  <2> QED
    BY <1>1, <1>3, <2>1, RecursionUp
<1>5. eq(f)
  <2>1. ASSUME NEW i \in 0..N PROVE f[i] = IF i = 0 THEN 0 ELSE 10 * f[i - 1] + DigitValue[d[i]]
    <3>1. CASE i = 0
      BY <1>4, <3>1 DEF Climbs
    <3>2. CASE i # 0
      <4>1. i \in 1..N /\ i - 1 \in 0..N
        BY <1>1, <3>2
      <4>2. f[i - 1] \in Nat
        BY <4>1
      <4>3. step[i][f[i - 1]] = 10 * f[i - 1] + DigitValue[d[i]]
        BY <4>1, <4>2
      <4> HIDE DEF step
      <4>4. f[i] = step[i][f[i - 1]]
        BY <1>4, <4>1 DEF Climbs
      <4> QED
        BY <3>2, <4>3, <4>4
    <3> QED
      BY <3>1, <3>2
  <2>2. f = [i \in 0..N |-> IF i = 0 THEN 0 ELSE 10 * f[i - 1] + DigitValue[d[i]]]
    BY <2>1
  <2> QED
    BY <2>2 DEF N
<1>6. eq(upto)
  <2> HIDE DEF N
  <2> QED
    BY <1>5
<1>7. \A i \in 0..N : upto[i] = IF i = 0 THEN 0 ELSE 10 * upto[i - 1] + DigitValue[d[i]]
  <2>1. upto = [i \in 0..N |-> IF i = 0 THEN 0 ELSE 10 * upto[i - 1] + DigitValue[d[i]]]
    <3> HIDE DEF upto
    <3> QED
      BY <1>6 DEF N
  <2> HIDE DEF upto
  <2> QED
    BY <2>1, Zenon
<1>8. Atoi(d) = upto[N]
  BY DEF Atoi, N
<1> HIDE DEF upto
<1>9. 0 \in I
  BY <1>1, <1>7
<1>10. ASSUME NEW i \in 1..N, i - 1 \in I PROVE i \in I
  <2>1. i \in 0..N /\ i # 0 /\ upto[i - 1] \in Nat
    BY <1>1, <1>10
  <2>2. upto[i] = 10 * upto[i - 1] + DigitValue[d[i]]
    BY <1>7, <2>1
  <2>3. DigitValue[d[i]] \in Nat
    BY <1>1, <1>2
  <2> QED
    BY <2>1, <2>2, <2>3
<1> HIDE DEF I
<1>11. N \in I
  <2>1. \A i \in 0..N : i \in I
    BY <1>1, <1>9, <1>10, Induction
  <2> QED
    BY <1>1, <2>1
<1> QED
  BY <1>8, <1>11 DEF I

(* unencode makes text of any text. *)
LEMMA DecodedIsText ==
  ASSUME NEW s \in Seq(Alphabet)
  PROVE  Decoded(s) \in Seq(Alphabet)
<1>1. PICK from : /\ Decoded(s) = from[1]
                  /\ \A i \in 1..Len(s) + 3 :
                       from[i] = IF i > Len(s) THEN <<>>
                                 ELSE <<UnitAt(s, i)>> \o from[Behind(s, i)]
  BY DecodedSteps
<1> DEFINE L == Len(s)
           N == L + 3
           I == {k \in 0..N : \A i \in 1..N : i > N - k => from[i] \in Seq(Alphabet)}
<1>2. L \in Nat /\ N \in Nat
  OBVIOUS
<1>3. \A i \in 1..L : UnitAt(s, i) \in Alphabet
  <2>1. /\ NUL \in Alphabet /\ Space \in Alphabet /\ "?" \in Alphabet /\ "byte" \in Alphabet
        /\ DOMAIN Escapes \subseteq Alphabet
    BY HttpRequestAssumption, CollectAssumption
  <2>2. \A u, v : Code(u, v) \in Alphabet
    <3> TAKE u, v
    <3>1. (\E ch \in DOMAIN Escapes : Escapes[ch] = <<u, v>>)
            => (CHOOSE ch \in DOMAIN Escapes : Escapes[ch] = <<u, v>>) \in DOMAIN Escapes
      OBVIOUS
    <3> QED
      BY <2>1, <3>1 DEF Code
  <2>3. \A i \in 1..L : s[i] \in Alphabet
    OBVIOUS
  <2> QED
    BY <2>1, <2>2, <2>3 DEF UnitAt
<1>4. 0 \in I
  BY <1>2
<1>5. ASSUME NEW k \in 1..N, k - 1 \in I PROVE k \in I
  <2> DEFINE m == N - k + 1
  <2>1. m \in 1..N /\ k \in 0..N
    BY <1>2
  <2>2. \A i \in 1..N : i > m => from[i] \in Seq(Alphabet)
    <3>1. N - (k - 1) = m
      BY <1>2
    <3> QED
      BY <1>5, <3>1
  <2>3. \A i \in 1..N : i > N - k => i = m \/ i > m
    BY <1>2
  <2> HIDE DEF m
  <2>4. from[m] \in Seq(Alphabet)
    <3>1. CASE m > L
      <4>1. from[m] = <<>>
        BY <1>1, <2>1, <3>1
      <4> QED
        BY <4>1
    <3>2. CASE ~(m > L)
      <4>1. m \in 1..L
        BY <1>2, <2>1, <3>2
      <4>2. Behind(s, m) \in 1..N /\ Behind(s, m) > m
        BY <1>2, <4>1 DEF Behind
      <4>3. from[Behind(s, m)] \in Seq(Alphabet)
        BY <2>2, <4>2
      <4>4. <<UnitAt(s, m)>> \in Seq(Alphabet)
        BY <1>3, <4>1
      <4>5. from[m] = <<UnitAt(s, m)>> \o from[Behind(s, m)]
        BY <1>1, <2>1, <3>2
      <4> QED
        BY <4>3, <4>4, <4>5
    <3> QED
      BY <3>1, <3>2
  <2> QED
    BY <2>1, <2>2, <2>3, <2>4
<1>6. N \in I
  <2> HIDE DEF I, N
  <2>1. \A k \in 0..N : k \in I
    BY <1>2, <1>4, <1>5, Induction
  <2> QED
    BY <1>2, <2>1
<1>7. 1 \in 1..N /\ 1 > N - N
  BY <1>2
<1> QED
  BY <1>1, <1>6, <1>7

(* The line that collect appends. *)
LEMMA LineIsText ==
  ASSUME NEW length \in Seq(DOMAIN DigitValue), NEW stdin \in Seq(Alphabet)
  PROVE  Line(length, stdin) \in Seq(Alphabet)
<1> DEFINE n == Atoi(length)
           I == {i \in 1..Len(stdin) : stdin[i] = NewLine}
           at == IF I # {} THEN Min(I) ELSE 0
           read == IF at = 0 THEN Cut(stdin, n) ELSE Cut(stdin, IF at < n THEN at ELSE n)
           input == Fgets(stdin, n)
           decoded == Decoded(Field(input))
           e == <<NewLine>>
<1>1. n \in Nat
  BY AtoiIsNumber
<1> HIDE DEF n
<1>2. at \in Nat
  <2>1. I \in SUBSET Nat
    OBVIOUS
  <2>2. I # {} => Min(I) \in Nat
    BY <2>1, MinExists
  <2> QED
    BY <2>2
<1>3. at = SelectInSeq(stdin, LAMBDA u : u = NewLine)
  BY DEF SelectInSeq
<1> HIDE DEF at
<1>4. read \in Seq(Alphabet)
  BY <1>1, <1>2, CutFits
<1>5. input = [k \in 1..n |-> IF k <= Len(read) THEN read[k]
                             ELSE IF k = Len(read) + 1 THEN NUL ELSE Junk]
  BY <1>3 DEF Fgets
<1> HIDE DEF read, input
<1>6. input \in Seq(Alphabet)
  <2>1. NUL \in Alphabet /\ Junk \in Alphabet
    BY HttpRequestAssumption
  <2>2. input \in [1..n -> Alphabet]
    BY <1>4, <1>5, <2>1
  <2> QED
    BY <1>1, <2>2
<1>7. Field(input) \in Seq(Alphabet)
  BY <1>6, CollectAssumption DEF Field
<1>8. decoded \in Seq(Alphabet)
  BY <1>7, DecodedIsText
<1>9. e \in Seq(Alphabet)
  BY HttpRequestAssumption
<1> HIDE DEF decoded, e
<1>10. decoded \o e \in Seq(Alphabet)
  BY <1>8, <1>9
<1>11. CString(decoded \o e) \in Seq(Alphabet)
  BY <1>10, UntilIsPrefix DEF CString
<1>12. Line(length, stdin) = CString(decoded \o e)
  BY DEF Line, decoded, input, n, e
<1> QED
  BY <1>11, <1>12

(* What a program reads of its input. *)
LEMMA BodyIsText ==
  ASSUME NEW q \in ParsedRequests
  PROVE  Body(q) \in Seq(Alphabet)
<1> DEFINE n == Atoi(q.length)
<1>1. q.length \in Seq(DOMAIN DigitValue) /\ q.content \in Seq(Alphabet)
  BY DEF ParsedRequests
<1>2. n \in Nat
  BY <1>1, AtoiIsNumber
<1>3. Body(q) = [i \in 1..n |-> IF i <= Len(q.content) THEN q.content[i]
                               ELSE IF i <= MaxContent THEN NUL ELSE Junk]
  BY DEF Body
<1>4. NUL \in Alphabet /\ Junk \in Alphabet
  BY HttpRequestAssumption
<1> HIDE DEF n
<1>5. Body(q) \in [1..n -> Alphabet]
  BY <1>1, <1>3, <1>4
<1> QED
  BY <1>2, <1>5

(***************************************************************************)
(* The types of the state, and what keeps them.                            *)
(***************************************************************************)
Longest == IF MaxBuf >= MaxContent THEN MaxBuf ELSE MaxContent
Pages == {s \in Seq(PageUnits) : Len(s) <= Longest}
Answers == [type : Types \cup {"", Junk}, content : Pages]
Stretches == [client : Clients, from : Nat, to : Nat]

NetTyped ==
  /\ asked \in [Clients -> Requests \cup {NULL}]
  /\ conn \in [Clients -> {"none", "queued", "taken", "closed"}]
  /\ got \in [Clients -> Answers]
  /\ \A c \in Clients : conn[c] # "none" => asked[c] \in Requests
  /\ server \in {"up", "dead"}
  /\ faults \subseteq Clients /\ whole \subseteq Clients

WorkTyped ==
  /\ pc \in [Workers -> Labels] /\ job \in [Workers -> Clients \cup {NULL}]
  /\ buf \in [Workers -> Buffers] /\ req \in [Workers -> ParsedRequests]
  /\ path \in [Workers -> Seq(Alphabet)] /\ query \in [Workers -> Seq(Alphabet)]
  /\ prog \in [Workers -> Stages] /\ output \in [Workers -> Seq(PageUnits)]

(* data.txt is what it was, and behind it the stretches of stored. *)
DataTyped ==
  /\ data \in Seq(Alphabet) /\ stored \in Seq(Stretches)
  /\ \A i \in DOMAIN stored :
       /\ stored[i].from = IF i = 1 THEN Len(OldData) ELSE stored[i - 1].to
       /\ stored[i].from <= stored[i].to /\ stored[i].to <= Len(data)
  /\ Len(data) = IF stored = <<>> THEN Len(OldData) ELSE stored[Len(stored)].to

ServedOnce ==
  /\ \A w \in Workers : pc[w] # "idle" => job[w] \in Clients /\ conn[job[w]] = "taken"
  /\ \A w, u \in Workers : pc[w] # "idle" /\ pc[u] # "idle" /\ job[w] = job[u] => w = u

(* The sizes of a worker's own strings. *)
Sizes ==
  \A w \in Workers :
    /\ Len(req[w].uri) < MaxUri /\ Len(req[w].content) <= MaxContent
    /\ Len(req[w].length) < MaxLength \/ faults # {}
    /\ Len(path[w]) < MaxPath \/ faults # {}
    /\ Len(query[w]) < MaxUri

(* What a worker is at exists, and its program runs while it waits for it. *)
Routed(w) ==
  /\ pc[w] \in {"header", "content", "cgi", "body", "output"} => Exists(path[w])
  /\ pc[w] \in {"cgi", "body", "output"} /\ req[w].method = "POST" =>
       path[w] = FilePath(req[w].uri)
  /\ pc[w] = "body" => req[w].method = "POST"
  /\ prog[w] \notin {"none", "ended"} => pc[w] \in {"body", "output"}
  /\ pc[w] \notin {"body", "output", "close"} => prog[w] = "none"
  /\ prog[w] \in {"none", "started"} => output[w] = <<>>
  /\ Tree[path[w]] = "collect" /\ prog[w] \in {"read", "opened", "written"} =>
       ~Refuses(req[w].length)
  /\ /\ pc[w] = "body" /\ Tree[path[w]] = "collect"
     /\ ~Refuses(req[w].length) /\ Atoi(req[w].length) > 0
     => prog[w] = "started"

HttpInv ==
  NetTyped /\ WorkTyped /\ DataTyped /\ ServedOnce /\ Sizes /\ \A w \in Workers : Routed(w)

(* What programs print, and what is in files. *)
LEMMA PagesAreTyped ==
  /\ \A text \in {"refused", "stored", "no file", "no query"} : <<<<text>>>> \in Seq(PageUnits)
  /\ \A q : Product(q) \in Seq(PageUnits)
  /\ <<>> \in Seq(PageUnits)
  /\ \A text \in Seq(Alphabet) : Shown(text) \in Seq(PageUnits) /\ Len(Shown(text)) = Len(text)
  /\ \A p \in DOMAIN FileSize : Units(p) \in Seq(PageUnits) /\ Len(Units(p)) = FileSize[p]
<1>1. \A text \in {"refused", "stored", "no file", "no query", "product", "invalid"} :
        <<text>> \in PageUnits
  BY DEF PageUnits
<1>2. \A x \in PageUnits : <<x>> \in Seq(PageUnits)
  OBVIOUS
<1>3. ASSUME NEW q PROVE Product(q) \in Seq(PageUnits)
  <2>1. Product(q) = <<<<"product">>>> \/ Product(q) = <<<<"invalid">>>>
    BY DEF Product
  <2>2. <<"product">> \in PageUnits /\ <<"invalid">> \in PageUnits
    BY <1>1
  <2> QED
    BY <1>2, <2>1, <2>2, Zenon
<1>4. ASSUME NEW text \in Seq(Alphabet)
      PROVE  Shown(text) \in Seq(PageUnits) /\ Len(Shown(text)) = Len(text)
  <2>1. \A i \in 1..Len(text) : <<"data", text[i]>> \in PageUnits
    <3>1. \A u \in Alphabet : <<"data", u>> \in {"data"} \X Alphabet
      OBVIOUS
    <3>2. {"data"} \X Alphabet \subseteq PageUnits
      BY Zenon DEF PageUnits
    <3>3. \A i \in 1..Len(text) : text[i] \in Alphabet
      OBVIOUS
    <3> QED
      BY <3>1, <3>2, <3>3
  <2> DEFINE n == Len(text)
             at(i) == <<"data", text[i]>>
  <2>2. Shown(text) = [i \in 1..n |-> at(i)] /\ n \in Nat /\ \A i \in 1..n : at(i) \in PageUnits
    BY <2>1 DEF Shown
  <2> HIDE DEF n, at
  <2>3. Shown(text) \in Seq(PageUnits) /\ Len(Shown(text)) = n
    BY <2>2
  <2> QED
    BY <2>3 DEF n
<1>5. ASSUME NEW p \in DOMAIN FileSize
      PROVE  Units(p) \in Seq(PageUnits) /\ Len(Units(p)) = FileSize[p]
  <2> DEFINE unit == <<"a unit of", p>>
             n == FileSize[p]
  <2>1. unit \in PageUnits
    BY DEF PageUnits
  <2>2. Units(p) = [i \in 1..n |-> unit] /\ n \in Nat
    BY HttpAssumption DEF Units
  <2> HIDE DEF unit, n
  <2>3. Units(p) \in Seq(PageUnits) /\ Len(Units(p)) = n
    BY <2>1, <2>2
  <2> QED
    BY <2>3 DEF n
<1>6. \A text \in {"refused", "stored", "no file", "no query"} : <<<<text>>>> \in Seq(PageUnits)
  BY <1>1, <1>2
<1>7. <<>> \in Seq(PageUnits)
  OBVIOUS
<1> QED
  BY <1>3, <1>4, <1>5, <1>6, <1>7, Zenon

(* What a client has received, one field changed. *)
LEMMA AnswerChanged ==
  ASSUME NetTyped, NEW c \in Clients, NEW x
  PROVE  /\ got' = [got EXCEPT ![c].type = x] =>
              got' = [got EXCEPT ![c] = [type |-> x, content |-> got[c].content]]
         /\ got' = [got EXCEPT ![c].content = x] =>
              got' = [got EXCEPT ![c] = [type |-> got[c].type, content |-> x]]
<1> DEFINE g == got[c]
<1>1. g = [type |-> g.type, content |-> g.content]
  BY DEF NetTyped, Answers
<1>2. /\ got' = [got EXCEPT ![c].type = x] => got' = [got EXCEPT ![c] = [g EXCEPT !.type = x]]
      /\ got' = [got EXCEPT ![c].content = x] => got' = [got EXCEPT ![c] = [g EXCEPT !.content = x]]
  OBVIOUS
<1> HIDE DEF g
<1>3. [g EXCEPT !.type = x] = [type |-> x, content |-> g.content]
      /\ [g EXCEPT !.content = x] = [type |-> g.type, content |-> x]
  BY <1>1
<1> QED
  BY <1>2, <1>3 DEF g

(* A page as far as a client receives it. *)
LEMMA CutPage ==
  ASSUME NEW s \in Seq(PageUnits), NEW n \in {MaxBuf, MaxContent}
  PROVE  Cut(s, n) \in Pages
<1>1. n \in Nat /\ n <= Longest /\ Longest \in Nat
  BY HttpAssumption, HttpRequestAssumption DEF Longest
<1>2. Cut(s, n) \in Seq(PageUnits) /\ Len(Cut(s, n)) <= n
  BY <1>1, CutFits
<1> QED
  BY <1>1, <1>2 DEF Pages

(* The state before the first client satisfies the invariant. *)
LEMMA InitHttp == Init => HttpInv
<1> SUFFICES ASSUME Init PROVE HttpInv
  OBVIOUS
<1>1. NetTyped
  <2>1. NoAnswer \in Answers
    <3>1. <<>> \in Pages
      BY HttpAssumption, HttpRequestAssumption DEF Pages, Longest
    <3> QED
      BY <3>1 DEF NoAnswer, Answers
  <2> QED
    BY <2>1 DEF Init, NetTyped
<1>2. [i \in 1..MaxBuf |-> NUL] \in Buffers
  BY HttpRequestAssumption DEF Buffers
<1>3. WorkTyped
  BY <1>2, NoRequestFits DEF Init, WorkTyped, Labels, Stages
<1>4. ServedOnce
  BY DEF Init, ServedOnce
<1>5. DataTyped
  BY HttpAssumption DEF Init, DataTyped
<1>6. Sizes
  BY NoRequestFits, HttpAssumption, HttpRequestAssumption DEF Init, Sizes
<1>7. ASSUME NEW w \in Workers PROVE Routed(w)
  BY DEF Init, Routed
<1> QED
  BY <1>1, <1>3, <1>4, <1>5, <1>6, <1>7 DEF HttpInv

(* Who serves a client has a request of its own to serve. *)
LEMMA OwnRequest ==
  ASSUME NetTyped, ServedOnce, NEW w \in Workers, pc[w] # "idle"
  PROVE  job[w] \in Clients /\ conn[job[w]] = "taken" /\ asked[job[w]] \in Requests
BY DEF NetTyped, ServedOnce

(* What each action changes.  The program of a worker runs beside it. *)
Takes(w) == \E c \in Clients : Take(w, c)
AnyAsk == \E c \in Clients : Ask(c)

Changes ==
  /\ UNCHANGED asked \/ AnyAsk
  /\ UNCHANGED conn \/ AnyAsk \/ \E w \in Workers : Takes(w) \/ Close(w)
  /\ UNCHANGED got \/ \E w \in Workers : SendHeader(w) \/ SendContent(w) \/ Reply(w)
  /\ UNCHANGED job \/ \E w \in Workers : Takes(w) \/ Close(w)
  /\ UNCHANGED buf \/ \E w \in Workers : Read(w)
  /\ UNCHANGED req \/ \E w \in Workers : HttpRequestParse(w) \/ Close(w)
  /\ UNCHANGED <<path, query>> \/ \E w \in Workers : RouteGet(w) \/ RoutePost(w) \/ Close(w)
  /\ UNCHANGED prog \/ \E w \in Workers : StartProgram(w) \/ Close(w) \/ Program(w)
  /\ UNCHANGED output \/ \E w \in Workers : Close(w) \/ Program(w)
  /\ UNCHANGED <<data, stored>> \/ \E w \in Workers : CollectStores(w)
  /\ UNCHANGED server \/ SpillCrashes \/ \E w \in Workers : HttpRequestParseCrashes(w) \/
       SendHeaderCrashes(w) \/ WriteBodyKills(w)
  /\ UNCHANGED faults \/ \E w \in Workers : HttpRequestParse(w) \/
       HttpRequestParseCrashes(w) \/ RouteGet(w) \/ SendHeaderCrashes(w) \/ SendContent(w) \/
       WriteBodyKills(w)
  /\ UNCHANGED whole \/ \E w \in Workers : Read(w)

(* There are no other changes. *)
LEMMA NextChanges ==
  ASSUME [Next]_vars
  PROVE  Changes
<1> USE DEF netVars, localVars, progVars, workVars
<1>1. ASSUME AnyAsk PROVE Changes
  <2>1. UNCHANGED <<got, job, buf, req, path, query, prog, output, data, server, faults, whole, stored>>
    BY <1>1 DEF AnyAsk, Ask
  <2> QED
    BY <1>1, <2>1 DEF Changes
<1>2. ASSUME SpillCrashes PROVE Changes
  <2>1. UNCHANGED <<asked, conn, got, job, buf, req, path, query, prog, output, data, faults, whole, stored>>
    BY <1>2 DEF SpillCrashes, ProcessEnds
  <2> QED
    BY <1>2, <2>1 DEF Changes
<1>3. ASSUME UNCHANGED vars PROVE Changes
  BY <1>3 DEF vars, Changes
<1>4. ASSUME NEW w \in Workers, Takes(w) PROVE Changes
  <2>1. UNCHANGED <<asked, got, buf, req, path, query, prog, output, data, server, faults, whole, stored>>
    BY <1>4 DEF Take, Takes
  <2> QED
    BY <1>4, <2>1 DEF Changes
<1>5. ASSUME NEW w \in Workers, Read(w) PROVE Changes
  <2>1. UNCHANGED <<asked, conn, got, job, req, path, query, prog, output, data, server, faults, stored>>
    BY <1>5 DEF Read
  <2> QED
    BY <1>5, <2>1 DEF Changes
<1>6. ASSUME NEW w \in Workers, HttpRequestParse(w) PROVE Changes
  <2>1. UNCHANGED <<asked, conn, got, job, buf, path, query, prog, output, data, server, whole, stored>>
    BY <1>6 DEF HttpRequestParse
  <2> QED
    BY <1>6, <2>1 DEF Changes
<1>7. ASSUME NEW w \in Workers, HttpRequestParseCrashes(w) PROVE Changes
  <2>1. UNCHANGED <<asked, conn, got, job, buf, req, path, query, prog, output, data, whole, stored>>
    BY <1>7 DEF HttpRequestParseCrashes, ProcessEnds
  <2> QED
    BY <1>7, <2>1 DEF Changes
<1>8. ASSUME NEW w \in Workers, RouteGet(w) PROVE Changes
  <2>1. UNCHANGED <<asked, conn, got, job, buf, req, prog, output, data, server, whole, stored>>
    BY <1>8 DEF RouteGet
  <2> QED
    BY <1>8, <2>1 DEF Changes
<1>9. ASSUME NEW w \in Workers, RoutePost(w) PROVE Changes
  <2>1. UNCHANGED <<asked, conn, got, job, buf, req, prog, output, data, server, faults, whole, stored>>
    BY <1>9 DEF RoutePost
  <2> QED
    BY <1>9, <2>1 DEF Changes
<1>10. ASSUME NEW w \in Workers, RouteNone(w) PROVE Changes
  <2>1. UNCHANGED <<asked, conn, got, job, buf, req, path, query, prog, output, data, server, faults,
                   whole, stored>>
    BY <1>10 DEF RouteNone
  <2> QED
    BY <1>10, <2>1 DEF Changes
<1>11. ASSUME NEW w \in Workers, SendHeader(w) PROVE Changes
  <2>1. UNCHANGED <<asked, conn, job, buf, req, path, query, prog, output, data, server, faults, whole,
                   stored>>
    BY <1>11 DEF SendHeader
  <2> QED
    BY <1>11, <2>1 DEF Changes
<1>12. ASSUME NEW w \in Workers, SendHeaderCrashes(w) PROVE Changes
  <2>1. UNCHANGED <<asked, conn, got, job, buf, req, path, query, prog, output, data, whole, stored>>
    BY <1>12 DEF SendHeaderCrashes, ProcessEnds
  <2> QED
    BY <1>12, <2>1 DEF Changes
<1>13. ASSUME NEW w \in Workers, SendContent(w) PROVE Changes
  <2>1. UNCHANGED <<asked, conn, job, buf, req, path, query, prog, output, data, server, whole, stored>>
    BY <1>13 DEF SendContent
  <2> QED
    BY <1>13, <2>1 DEF Changes
<1>14. ASSUME NEW w \in Workers, StartProgram(w) PROVE Changes
  <2>1. UNCHANGED <<asked, conn, got, job, buf, req, path, query, output, data, server, faults, whole,
                   stored>>
    BY <1>14 DEF StartProgram
  <2> QED
    BY <1>14, <2>1 DEF Changes
<1>15. ASSUME NEW w \in Workers, NoProgram(w) PROVE Changes
  <2>1. UNCHANGED <<asked, conn, got, job, buf, req, path, query, prog, output, data, server, faults,
                   whole, stored>>
    BY <1>15 DEF NoProgram
  <2> QED
    BY <1>15, <2>1 DEF Changes
<1>16. ASSUME NEW w \in Workers, WriteBody(w) PROVE Changes
  <2>1. UNCHANGED <<asked, conn, got, job, buf, req, path, query, prog, output, data, server, faults,
                   whole, stored>>
    BY <1>16 DEF WriteBody
  <2> QED
    BY <1>16, <2>1 DEF Changes
<1>17. ASSUME NEW w \in Workers, WriteBodyKills(w) PROVE Changes
  <2>1. UNCHANGED <<asked, conn, got, job, buf, req, path, query, prog, output, data, whole, stored>>
    BY <1>17 DEF WriteBodyKills, ProcessEnds
  <2> QED
    BY <1>17, <2>1 DEF Changes
<1>18. ASSUME NEW w \in Workers, Reply(w) PROVE Changes
  <2>1. UNCHANGED <<asked, conn, job, buf, req, path, query, prog, output, data, server, faults, whole,
                   stored>>
    BY <1>18 DEF Reply
  <2> QED
    BY <1>18, <2>1 DEF Changes
<1>19. ASSUME NEW w \in Workers, Close(w) PROVE Changes
  <2>1. UNCHANGED <<asked, got, buf, data, server, faults, whole, stored>>
    BY <1>19 DEF Close
  <2> QED
    BY <1>19, <2>1 DEF Changes
<1>20. ASSUME NEW w \in Workers, CollectRefuses(w) PROVE Changes
  <2>1. UNCHANGED <<asked, conn, got, job, buf, req, path, query, data, server, faults, whole, stored>>
    BY <1>20 DEF CollectRefuses, Elsewhere
  <2>2. Program(w)
    BY <1>20 DEF Program
  <2> QED
    BY <1>20, <2>1, <2>2 DEF Changes
<1>21. ASSUME NEW w \in Workers, CollectReads(w) PROVE Changes
  <2>1. UNCHANGED <<asked, conn, got, job, buf, req, path, query, output, data, server, faults, whole,
                   stored>>
    BY <1>21 DEF CollectReads, Elsewhere
  <2>2. Program(w)
    BY <1>21 DEF Program
  <2> QED
    BY <1>21, <2>1, <2>2 DEF Changes
<1>22. ASSUME NEW w \in Workers, CollectOpens(w) PROVE Changes
  <2>1. UNCHANGED <<asked, conn, got, job, buf, req, path, query, output, data, server, faults, whole,
                   stored>>
    BY <1>22 DEF CollectOpens, Elsewhere
  <2>2. Program(w)
    BY <1>22 DEF Program
  <2> QED
    BY <1>22, <2>1, <2>2 DEF Changes
<1>23. ASSUME NEW w \in Workers, CollectStores(w) PROVE Changes
  <2>1. UNCHANGED <<asked, conn, got, job, buf, req, path, query, output, server, faults, whole>>
    BY <1>23 DEF CollectStores, Elsewhere
  <2>2. Program(w)
    BY <1>23 DEF Program
  <2> QED
    BY <1>23, <2>1, <2>2 DEF Changes
<1>24. ASSUME NEW w \in Workers, CollectEnds(w) PROVE Changes
  <2>1. UNCHANGED <<asked, conn, got, job, buf, req, path, query, data, server, faults, whole, stored>>
    BY <1>24 DEF CollectEnds, Elsewhere
  <2>2. Program(w)
    BY <1>24 DEF Program
  <2> QED
    BY <1>24, <2>1, <2>2 DEF Changes
<1>25. ASSUME NEW w \in Workers, ViewdataOpens(w) PROVE Changes
  <2>1. UNCHANGED <<asked, conn, got, job, buf, req, path, query, data, server, faults, whole, stored>>
    BY <1>25 DEF ViewdataOpens, Elsewhere
  <2>2. Program(w)
    BY <1>25 DEF Program
  <2> QED
    BY <1>25, <2>1, <2>2 DEF Changes
<1>26. ASSUME NEW w \in Workers, ViewdataReads(w) PROVE Changes
  <2>1. UNCHANGED <<asked, conn, got, job, buf, req, path, query, prog, data, server, faults, whole,
                   stored>>
    BY <1>26 DEF ViewdataReads, Elsewhere
  <2>2. Program(w)
    BY <1>26 DEF Program
  <2> QED
    BY <1>26, <2>1, <2>2 DEF Changes
<1>27. ASSUME NEW w \in Workers, ViewdataEnds(w) PROVE Changes
  <2>1. UNCHANGED <<asked, conn, got, job, buf, req, path, query, output, data, server, faults, whole,
                   stored>>
    BY <1>27 DEF ViewdataEnds, Elsewhere
  <2>2. Program(w)
    BY <1>27 DEF Program
  <2> QED
    BY <1>27, <2>1, <2>2 DEF Changes
<1>28. ASSUME NEW w \in Workers, Multi(w) PROVE Changes
  <2>1. UNCHANGED <<asked, conn, got, job, buf, req, path, query, data, server, faults, whole, stored>>
    BY <1>28 DEF Multi, Elsewhere
  <2>2. Program(w)
    BY <1>28 DEF Program
  <2> QED
    BY <1>28, <2>1, <2>2 DEF Changes
<1> QED
  BY <1>1, <1>2, <1>3, <1>4, <1>5, <1>6, <1>7, <1>8, <1>9, <1>10, <1>11, <1>12, <1>13, <1>14, <1>15,
     <1>16, <1>17, <1>18, <1>19, <1>20, <1>21, <1>22, <1>23, <1>24, <1>25, <1>26, <1>27, <1>28
     DEF Next, Handle, Program, Done, Takes, AnyAsk
Turn(w) == Handle(w) \/ Program(w) \/ Takes(w)

(* The steps of a worker and of its program, and the others. *)
LEMMA OtherSteps ==
  ASSUME [Next]_vars
  PROVE  (\E w \in Workers : Turn(w)) \/ AnyAsk \/ SpillCrashes \/ UNCHANGED vars
BY DEF Next, Turn, Done, Takes, AnyAsk

(* Where a step leaves the program counters. *)
LEMMA NextPc ==
  ASSUME [Next]_vars
  PROVE  \/ pc' = pc
         \/ \E w \in Workers : Turn(w) /\ \E label \in Labels : pc' = [pc EXCEPT ![w] = label]
<1> USE DEF Goto, Labels
<1>1. CASE AnyAsk \/ SpillCrashes \/ UNCHANGED vars
  BY <1>1 DEF AnyAsk, Ask, SpillCrashes, ProcessEnds, vars, workVars
<1>2. ASSUME NEW w \in Workers, Turn(w)
      PROVE  pc' = pc \/ \E label \in Labels : pc' = [pc EXCEPT ![w] = label]
  <2>1. CASE Takes(w) \/ Read(w) \/ HttpRequestParse(w) \/ RouteGet(w) \/ RoutePost(w) \/ RouteNone(w)
    BY <2>1 DEF Takes, Take, Read, HttpRequestParse, RouteGet, RoutePost, RouteNone
  <2>2. CASE SendHeader(w) \/ SendContent(w) \/ StartProgram(w) \/ NoProgram(w) \/ WriteBody(w)
             \/ Reply(w) \/ Close(w)
    BY <2>2 DEF SendHeader, SendContent, StartProgram, NoProgram, WriteBody, Reply, Close
  <2>3. CASE HttpRequestParseCrashes(w) \/ SendHeaderCrashes(w) \/ WriteBodyKills(w)
    BY <2>3 DEF HttpRequestParseCrashes, SendHeaderCrashes, WriteBodyKills, ProcessEnds, workVars
  <2>4. CASE Program(w)
    BY <2>4 DEF Program, CollectRefuses, CollectReads, CollectOpens, CollectStores, CollectEnds,
                ViewdataOpens, ViewdataReads, ViewdataEnds, Multi, Elsewhere
  <2> QED
    BY <1>2, <2>1, <2>2, <2>3, <2>4 DEF Turn, Handle
<1> QED
  BY <1>1, <1>2, OtherSteps

(* A program goes through its stages, and writes pages. *)
LEMMA ProgramWrites ==
  ASSUME HttpInv, NEW w \in Workers, Program(w)
  PROVE  /\ prog' = prog \/ \E stage \in Stages : prog' = [prog EXCEPT ![w] = stage]
         /\ output' = output \/ \E page \in Seq(PageUnits) : output' = [output EXCEPT ![w] = page]
<1> USE DEF Writes, Advances, Stages
<1>1. CASE CollectRefuses(w) \/ CollectEnds(w) \/ ViewdataOpens(w) \/ Multi(w)
  <2>1. \E stage \in Stages : prog' = [prog EXCEPT ![w] = stage]
    BY <1>1 DEF CollectRefuses, CollectEnds, ViewdataOpens, Multi
  <2>2. output' = output \/ \E page \in Seq(PageUnits) : output' = [output EXCEPT ![w] = page]
    BY <1>1, PagesAreTyped DEF CollectRefuses, CollectEnds, ViewdataOpens, Multi
  <2> QED
    BY <2>1, <2>2
<1>2. CASE CollectReads(w) \/ CollectOpens(w) \/ CollectStores(w) \/ ViewdataEnds(w)
  BY <1>2 DEF CollectReads, CollectOpens, CollectStores, ViewdataEnds
<1>3. CASE ViewdataReads(w)
  <2> DEFINE n == Len(output[w])
             s == Cut(SubSeq(data, n + 1, Len(data)), Block)
  <2>1. output' = [output EXCEPT ![w] = output[w] \o Shown(s)] /\ prog' = prog
    BY <1>3 DEF ViewdataReads
  <2>2. output[w] \in Seq(PageUnits) /\ data \in Seq(Alphabet) /\ Block \in Nat
    BY HttpAssumption DEF HttpInv, WorkTyped, DataTyped
  <2>3. n \in Nat /\ SubSeq(data, n + 1, Len(data)) \in Seq(Alphabet)
    BY <2>2
  <2>4. s \in Seq(Alphabet)
    BY <2>2, <2>3, CutFits
  <2> HIDE DEF s
  <2>5. Shown(s) \in Seq(PageUnits)
    BY <2>4, PagesAreTyped
  <2>6. output[w] \o Shown(s) \in Seq(PageUnits)
    BY <2>2, <2>5
  <2> QED
    BY <2>1, <2>6
<1> QED
  BY <1>1, <1>2, <1>3 DEF Program

(* Clients ask for requests, and connections go through their states. *)
LEMMA NextNet ==
  ASSUME HttpInv, [Next]_vars
  PROVE  NetTyped'
<1>1. NetTyped /\ WorkTyped /\ ServedOnce /\ Changes
  BY NextChanges DEF HttpInv
<1>2. ASSUME NEW w \in Workers, pc[w] # "idle" PROVE job[w] \in Clients /\ asked[job[w]] \in Requests
  BY <1>1, <1>2, OwnRequest
<1>3. asked' \in [Clients -> Requests \cup {NULL}]
  <2>1. CASE AnyAsk
    BY <1>1, <2>1 DEF AnyAsk, Ask, NetTyped
  <2> QED
    BY <1>1, <2>1 DEF NetTyped, Changes
<1>4. conn' \in [Clients -> {"none", "queued", "taken", "closed"}]
  <2>1. CASE AnyAsk
    BY <1>1, <2>1 DEF AnyAsk, Ask, NetTyped
  <2>2. CASE \E w \in Workers : Takes(w)
    BY <1>1, <2>2 DEF Takes, Take, NetTyped
  <2>3. CASE \E w \in Workers : Close(w)
    BY <1>1, <2>3 DEF Close, NetTyped
  <2> QED
    BY <1>1, <2>1, <2>2, <2>3 DEF NetTyped, Changes
<1>5. got' \in [Clients -> Answers]
  <2>1. ASSUME NEW c \in Clients, NEW g \in Answers, got' = [got EXCEPT ![c] = g]
        PROVE  got' \in [Clients -> Answers]
    BY <1>1, <2>1 DEF NetTyped
  <2>2. ASSUME NEW w \in Workers, SendHeader(w) PROVE got' \in [Clients -> Answers]
    <3>1. PICK t \in FileTypes(path[w]) : got' = [got EXCEPT ![job[w]].type = t]
      BY <2>2 DEF SendHeader
    <3>2. t \in Types \cup {"", Junk}
      BY DEF FileTypes, Types, Known
    <3>3. job[w] \in Clients
      BY <1>2, <2>2 DEF SendHeader
    <3>4. got' = [got EXCEPT ![job[w]] = [type |-> t, content |-> got[job[w]].content]]
      BY <1>1, <3>1, <3>3, AnswerChanged
    <3>5. [type |-> t, content |-> got[job[w]].content] \in Answers
      BY <1>1, <3>2, <3>3 DEF NetTyped, Answers
    <3> QED
      BY <2>1, <3>3, <3>4, <3>5
  <2>3. ASSUME NEW w \in Workers, SendContent(w) PROVE got' \in [Clients -> Answers]
    <3> DEFINE s == Cut(Units(path[w]), MaxBuf)
    <3>1. /\ pc[w] = "content"
          /\ got' = IF Readable(path[w]) THEN [got EXCEPT ![job[w]].content = s] ELSE got
      BY <2>3 DEF SendContent
    <3>2. job[w] \in Clients
      BY <1>2, <3>1
    <3>3. CASE Readable(path[w])
      <4>1. path[w] \in DOMAIN FileSize
        BY <3>1, <3>3, HttpAssumption DEF HttpInv, Routed, Exists, Readable
      <4>2. s \in Pages
        BY <4>1, PagesAreTyped, CutPage
      <4> HIDE DEF s
      <4>3. got' = [got EXCEPT ![job[w]] = [type |-> got[job[w]].type, content |-> s]]
        BY <1>1, <3>1, <3>2, <3>3, AnswerChanged
      <4>4. [type |-> got[job[w]].type, content |-> s] \in Answers
        BY <1>1, <3>2, <4>2 DEF NetTyped, Answers
      <4> QED
        BY <2>1, <3>2, <4>3, <4>4
    <3> QED
      BY <1>1, <3>1, <3>3 DEF NetTyped
  <2>4. ASSUME NEW w \in Workers, Reply(w) PROVE got' \in [Clients -> Answers]
    <3> DEFINE s == Cut(output[w], MaxContent)
    <3>1. pc[w] = "output" /\ got' = [got EXCEPT ![job[w]] = [type |-> "text/html", content |-> s]]
      BY <2>4 DEF Reply
    <3>2. s \in Pages
      BY <1>1, CutPage DEF WorkTyped
    <3> HIDE DEF s
    <3>3. "text/html" \in Types
      BY DEF Types, Extensions
    <3>4. [type |-> "text/html", content |-> s] \in Answers
      BY <3>2, <3>3 DEF Answers
    <3> QED
      BY <1>2, <2>1, <3>1, <3>4
  <2> QED
    BY <1>1, <2>2, <2>3, <2>4 DEF NetTyped, Changes
<1>6. \A c \in Clients : conn'[c] # "none" => asked'[c] \in Requests
  <2>1. CASE AnyAsk
    <3>1. PICK c \in Clients, r \in Requests :
            asked' = [asked EXCEPT ![c] = r] /\ conn' = [conn EXCEPT ![c] = "queued"]
      BY <2>1 DEF AnyAsk, Ask
    <3> QED
      BY <1>1, <3>1 DEF NetTyped
  <2>2. ASSUME ~AnyAsk PROVE asked' = asked /\ \A c \in Clients : conn'[c] # "none" => conn[c] # "none"
    <3>1. CASE \E w \in Workers : Takes(w)
      BY <1>1, <2>2, <3>1 DEF Takes, Take, NetTyped, Changes
    <3>2. ASSUME NEW w \in Workers, Close(w)
          PROVE  \A c \in Clients : conn'[c] # "none" => conn[c] # "none"
      <4>1. conn' = [conn EXCEPT ![job[w]] = "closed"] /\ pc[w] = "close"
        BY <3>2 DEF Close
      <4>2. conn[job[w]] = "taken" /\ job[w] \in Clients
        BY <1>1, <4>1, OwnRequest
      <4> QED
        BY <1>1, <4>1, <4>2 DEF NetTyped
    <3> QED
      BY <1>1, <2>2, <3>1, <3>2 DEF Changes
  <2> QED
    BY <1>1, <2>1, <2>2 DEF NetTyped
<1>7. server' \in {"up", "dead"}
  <2>1. ASSUME NEW w \in Workers, HttpRequestParseCrashes(w) \/ SendHeaderCrashes(w) \/ WriteBodyKills(w)
        PROVE  server' = "dead"
    BY <2>1 DEF HttpRequestParseCrashes, SendHeaderCrashes, WriteBodyKills, ProcessEnds
  <2>2. SpillCrashes => server' = "dead"
    BY DEF SpillCrashes, ProcessEnds
  <2> QED
    BY <1>1, <2>1, <2>2 DEF NetTyped, Changes
<1>8. faults' \subseteq Clients
  <2>1. ASSUME NEW w \in Workers, HttpRequestParse(w) \/ HttpRequestParseCrashes(w)
               \/ RouteGet(w) \/ SendHeaderCrashes(w) \/ SendContent(w) \/ WriteBodyKills(w)
        PROVE  pc[w] # "idle" /\ faults' \subseteq faults \cup {job[w]}
    BY <2>1 DEF HttpRequestParse, HttpRequestParseCrashes, RouteGet, SendHeaderCrashes, SendContent,
                WriteBodyKills, Faults
  <2>2. CASE faults' = faults
    BY <1>1, <2>2 DEF NetTyped
  <2>3. CASE faults' # faults
    <3>1. PICK w \in Workers : HttpRequestParse(w) \/ HttpRequestParseCrashes(w)
               \/ RouteGet(w) \/ SendHeaderCrashes(w) \/ SendContent(w) \/ WriteBodyKills(w)
      BY <1>1, <2>3 DEF Changes
    <3> QED
      BY <1>1, <1>2, <2>1, <3>1 DEF NetTyped
  <2> QED
    BY <2>2, <2>3
<1>9. whole' \subseteq Clients
  <2>1. ASSUME NEW w \in Workers, Read(w) PROVE pc[w] # "idle" /\ whole' \subseteq whole \cup {job[w]}
    BY <2>1 DEF Read
  <2> QED
    BY <1>1, <1>2, <2>1 DEF NetTyped, Changes
<1> QED
  BY <1>3, <1>4, <1>5, <1>6, <1>7, <1>8, <1>9 DEF NetTyped


(* Where there is a "?", it and what follows it remain. *)
LEMMA QueryAfter ==
  ASSUME NEW s \in Seq(Alphabet), \E i \in DOMAIN s : IsQuery(s[i])
  PROVE  /\ After(s, IsQuery) \in Seq(Alphabet) /\ Len(After(s, IsQuery)) <= Len(s)
         /\ After(s, IsQuery) # <<>>
<1> DEFINE I == {i \in 1..Len(s) : IsQuery(s[i])}
           k == Min(I)
<1>1. I \in SUBSET Nat /\ I \subseteq 1..Len(s) /\ I # {}
  OBVIOUS
<1>2. k \in I
  BY <1>1, MinExists
<1>3. k \in 1..Len(s) /\ k # 0
  BY <1>1, <1>2
<1>4. Until(s, IsQuery) = SubSeq(s, 1, k - 1)
  <2>1. Until(s, IsQuery) =
          LET i == IF I # {} THEN Min(I) ELSE 0 IN IF i = 0 THEN s ELSE SubSeq(s, 1, i - 1)
    BY DEF Until, SelectInSeq
  <2> QED
    BY <1>1, <1>3, <2>1
<1> HIDE DEF k, I
<1>5. Len(Until(s, IsQuery)) = k - 1
  BY <1>3, <1>4
<1>6. After(s, IsQuery) = SubSeq(s, k, Len(s))
  BY <1>3, <1>5 DEF After
<1>7. SubSeq(s, k, Len(s)) \in Seq(Alphabet) /\ Len(SubSeq(s, k, Len(s))) = Len(s) - k + 1
  BY <1>3
<1>8. After(s, IsQuery) \in Seq(Alphabet) /\ Len(After(s, IsQuery)) = Len(s) - k + 1
  BY <1>6, <1>7
<1>9. Len(After(s, IsQuery)) <= Len(s) /\ Len(After(s, IsQuery)) # 0
  BY <1>3, <1>8
<1> QED
  BY <1>8, <1>9

(* A name for a file is no longer than file_path is. *)
LEMMA PathFits ==
  ASSUME NEW u \in Seq(Alphabet)
  PROVE  FilePath(u) \in Seq(Alphabet) /\ Len(FilePath(u)) < MaxPath
<1>1. Htdocs \o u \in Seq(Alphabet) /\ MaxPath - 1 \in Nat /\ MaxPath \in Nat
  BY HttpAssumption
<1> DEFINE all == Htdocs \o u
<1>2. Cut(all, MaxPath - 1) \in Seq(Alphabet) /\ Len(Cut(all, MaxPath - 1)) <= MaxPath - 1
  <2> HIDE DEF all
  <2> QED
    BY <1>1, CutFits DEF all
<1> DEFINE cut == Cut(all, MaxPath - 1)
<1>3. FilePath(u) = cut
  BY DEF FilePath
<1> HIDE DEF cut
<1>4. cut \in Seq(Alphabet) /\ Len(cut) <= MaxPath - 1
  BY <1>2 DEF cut
<1> QED
  BY <1>1, <1>3, <1>4

(* Where a GET leads to is text, no longer than the uri if it is a query.  *)
LEMMA GetIsText ==
  ASSUME HttpInv, NEW w \in Workers, RouteGet(w)
  PROVE  \E p, q \in Seq(Alphabet) :
           /\ path' = [path EXCEPT ![w] = p] /\ query' = [query EXCEPT ![w] = q]
           /\ Len(q) < MaxUri
           /\ Len(p) < MaxPath \/ job[w] \in faults'
<1> DEFINE uri == req[w].uri
           name == FilePath(Until(uri, IsQuery))
           p == IF Last(name) = "/" THEN name \o Index ELSE name
           found == \E i \in DOMAIN uri : IsQuery(uri[i])
           q == IF found THEN Tail(After(uri, IsQuery)) ELSE <<>>
<1>1. /\ path' = [path EXCEPT ![w] = p] /\ query' = [query EXCEPT ![w] = q]
      /\ Len(p) >= MaxPath => job[w] \in faults'
  BY DEF RouteGet, Faults
<1>2. uri \in Seq(Alphabet) /\ Len(uri) < MaxUri /\ MaxUri \in Nat \ {0}
  BY HttpRequestAssumption DEF HttpInv, WorkTyped, Sizes, ParsedRequests
<1> HIDE DEF uri
<1>3. Until(uri, IsQuery) \in Seq(Alphabet)
  BY <1>2, UntilIsPrefix
<1>4. name \in Seq(Alphabet)
  BY <1>3, PathFits
<1>5. Index \in Seq(Alphabet)
  BY HttpAssumption DEF Index
<1>6. p \in Seq(Alphabet)
  <2> HIDE DEF name
  <2>1. name \o Index \in Seq(Alphabet)
    BY <1>4, <1>5
  <2> QED
    BY <1>4, <2>1
<1>7. q \in Seq(Alphabet) /\ Len(q) < MaxUri
  <2>1. CASE ~found
    BY <1>2, <2>1
  <2>2. CASE found
    <3> DEFINE after == After(uri, IsQuery)
    <3>1. after \in Seq(Alphabet) /\ Len(after) <= Len(uri) /\ after # <<>>
      BY <1>2, <2>2, QueryAfter
    <3> HIDE DEF after
    <3>2. Tail(after) \in Seq(Alphabet) /\ Len(Tail(after)) <= Len(after)
      BY <3>1
    <3>3. q = Tail(after)
      BY <2>2 DEF after
    <3> HIDE DEF q
    <3> QED
      BY <1>2, <3>1, <3>2, <3>3
  <2> QED
    BY <2>1, <2>2
<1>8. Len(p) < MaxPath \/ job[w] \in faults'
  BY <1>1, <1>6, HttpAssumption
<1> QED
  BY <1>1, <1>6, <1>7, <1>8

(* What a worker's own variables hold keeps its type. *)
LEMMA NextWork ==
  ASSUME HttpInv, [Next]_vars
  PROVE  WorkTyped'
<1>1. NetTyped /\ WorkTyped /\ ServedOnce /\ Changes
  BY NextChanges DEF HttpInv
<1>2. pc' \in [Workers -> Labels]
  BY <1>1, NextPc DEF WorkTyped
<1>3. job' \in [Workers -> Clients \cup {NULL}]
  <2>1. ASSUME NEW w \in Workers, Takes(w) PROVE \E c \in Clients : job' = [job EXCEPT ![w] = c]
    BY <2>1 DEF Takes, Take
  <2>2. ASSUME NEW w \in Workers, Close(w) PROVE job' = [job EXCEPT ![w] = NULL]
    BY <2>2 DEF Close
  <2> QED
    BY <1>1, <2>1, <2>2 DEF WorkTyped, Changes
<1>4. buf' \in [Workers -> Buffers]
  <2>1. ASSUME NEW w \in Workers, Read(w) PROVE \E b \in Buffers : buf' = [buf EXCEPT ![w] = b]
    <3> DEFINE t == Text(asked[job[w]])
    <3>1. asked[job[w]] \in Requests
      BY <1>1, <2>1, OwnRequest DEF Read
    <3>2. t \in Seq(Alphabet)
      BY <3>1, RequestIsText
    <3>3. PICK n \in 0..Len(t) : \E b \in Filled(w, SubSeq(t, 1, n)) : buf' = [buf EXCEPT ![w] = b]
      <4>1. PICK n \in {k \in Segments : k < Len(t)} \cup {Len(t)} :
              \E b \in Filled(w, SubSeq(t, 1, n)) : buf' = [buf EXCEPT ![w] = b]
        BY <2>1 DEF Read
      <4> HIDE DEF t
      <4>2. n \in 0..Len(t)
        BY <3>2, HttpAssumption
      <4> QED
        BY <4>1, <4>2
    <3> HIDE DEF t
    <3>4. SubSeq(t, 1, n) \in Seq(Alphabet)
      BY <3>2, <3>3
    <3>5. PICK b \in Filled(w, SubSeq(t, 1, n)) : buf' = [buf EXCEPT ![w] = b]
      BY <3>3
    <3>6. b \in Buffers
      BY <1>1, <3>4, FilledFits DEF WorkTyped
    <3> QED
      BY <3>5, <3>6
  <2> QED
    BY <1>1, <2>1 DEF WorkTyped, Changes
<1>5. req' \in [Workers -> ParsedRequests]
  <2>1. ASSUME NEW w \in Workers, HttpRequestParse(w)
        PROVE  \E q \in ParsedRequests : req' = [req EXCEPT ![w] = q]
    <3>1. req' = [req EXCEPT ![w] = Parse(buf[w])] /\ buf[w] \in Buffers
      BY <1>1, <2>1 DEF HttpRequestParse, WorkTyped
    <3>2. Parse(buf[w]) \in ParsedRequests
      BY <3>1, ParseFits DEF Buffers
    <3> QED
      BY <3>1, <3>2
  <2>2. ASSUME NEW w \in Workers, Close(w) PROVE req' = [req EXCEPT ![w] = NoRequest]
    BY <2>2 DEF Close
  <2> QED
    BY <1>1, <2>1, <2>2, NoRequestFits DEF WorkTyped, Changes
<1>6. /\ path' \in [Workers -> Seq(Alphabet)]
      /\ query' \in [Workers -> Seq(Alphabet)]
  <2>1. ASSUME NEW w \in Workers, RouteGet(w) \/ RoutePost(w) \/ Close(w)
        PROVE  \E p, q \in Seq(Alphabet) :
                 path' = [path EXCEPT ![w] = p] /\ query' = [query EXCEPT ![w] = q]
    <3>1. CASE RouteGet(w)
      BY <3>1, GetIsText
    <3>2. CASE RoutePost(w)
      <4>1. path' = [path EXCEPT ![w] = FilePath(req[w].uri)] /\ query' = [query EXCEPT ![w] = <<>>]
        BY <3>2 DEF RoutePost
      <4>2. req[w].uri \in Seq(Alphabet)
        BY <1>1 DEF WorkTyped, ParsedRequests
      <4>3. FilePath(req[w].uri) \in Seq(Alphabet) /\ <<>> \in Seq(Alphabet)
        BY <4>2, PathFits
      <4> QED
        BY <4>1, <4>3
    <3>3. CASE Close(w)
      <4>1. path' = [path EXCEPT ![w] = <<>>] /\ query' = [query EXCEPT ![w] = <<>>]
        BY <3>3 DEF Close
      <4>2. <<>> \in Seq(Alphabet)
        OBVIOUS
      <4> QED
        BY <4>1, <4>2
    <3> QED
      BY <2>1, <3>1, <3>2, <3>3
  <2>2. UNCHANGED <<path, query>> \/ \E w \in Workers : RouteGet(w) \/ RoutePost(w) \/ Close(w)
    BY <1>1 DEF Changes
  <2>3. path \in [Workers -> Seq(Alphabet)] /\ query \in [Workers -> Seq(Alphabet)]
    BY <1>1 DEF WorkTyped
  <2>4. ASSUME NEW w \in Workers, RouteGet(w) \/ RoutePost(w) \/ Close(w)
        PROVE  path' \in [Workers -> Seq(Alphabet)] /\ query' \in [Workers -> Seq(Alphabet)]
    <3>1. PICK p \in Seq(Alphabet), q \in Seq(Alphabet) :
            path' = [path EXCEPT ![w] = p] /\ query' = [query EXCEPT ![w] = q]
      BY <2>1, <2>4
    <3> QED
      BY <2>3, <3>1
  <2> QED
    BY <2>2, <2>3, <2>4
<1>7. prog' \in [Workers -> Stages] /\ output' \in [Workers -> Seq(PageUnits)]
  <2>1. ASSUME NEW w \in Workers, StartProgram(w)
        PROVE  prog' = [prog EXCEPT ![w] = "started"] /\ output' = output
    BY <2>1 DEF StartProgram, localVars
  <2>2. ASSUME NEW w \in Workers, Close(w)
        PROVE  prog' = [prog EXCEPT ![w] = "none"] /\ output' = [output EXCEPT ![w] = <<>>]
    BY <2>2 DEF Close
  <2>3. "started" \in Stages /\ "none" \in Stages /\ <<>> \in Seq(PageUnits)
    BY DEF Stages
  <2>4. prog' \in [Workers -> Stages]
    BY <1>1, <2>1, <2>2, <2>3, ProgramWrites DEF WorkTyped, Changes
  <2>5. output' \in [Workers -> Seq(PageUnits)]
    BY <1>1, <2>1, <2>2, <2>3, ProgramWrites DEF WorkTyped, Changes
  <2> QED
    BY <2>4, <2>5
<1> QED
  BY <1>2, <1>3, <1>4, <1>5, <1>6, <1>7 DEF WorkTyped

(* A step of a worker leaves the other workers and their clients alone. *)
Alone(w) ==
  /\ \A u \in Workers \ {w} :
       /\ pc'[u] = pc[u] /\ job'[u] = job[u] /\ buf'[u] = buf[u] /\ req'[u] = req[u]
       /\ path'[u] = path[u] /\ query'[u] = query[u]
       /\ prog'[u] = prog[u] /\ output'[u] = output[u]
  /\ \A c \in Clients \ {job[w]} : got'[c] = got[c]
  /\ asked' = asked
  /\ whole \subseteq whole' /\ whole' \subseteq whole \cup {job[w]}
  /\ faults \subseteq faults' /\ faults' \subseteq faults \cup {job[w]}

(* Each of its steps does. *)
LEMMA TurnsAlone ==
  ASSUME HttpInv, NEW w \in Workers, Turn(w)
  PROVE  Alone(w)
<1> USE DEF Goto, netVars, localVars, progVars, workVars
<1>1. /\ DOMAIN pc = Workers /\ DOMAIN job = Workers /\ DOMAIN buf = Workers /\ DOMAIN req = Workers
      /\ DOMAIN path = Workers /\ DOMAIN query = Workers
      /\ DOMAIN prog = Workers /\ DOMAIN output = Workers /\ DOMAIN got = Clients
  BY DEF HttpInv, NetTyped, WorkTyped
<1>2. CASE Takes(w)
  BY <1>1, <1>2 DEF Takes, Take, Alone
<1>3. CASE Read(w)
  <2>1. whole \subseteq whole' /\ whole' \subseteq whole \cup {job[w]}
    BY <1>3 DEF Read
  <2>2. /\ \E b : buf' = [buf EXCEPT ![w] = b]
        /\ \E label : pc' = [pc EXCEPT ![w] = label]
        /\ UNCHANGED <<asked, got, job, req, path, query, prog, output, faults>>
    BY <1>3 DEF Read
  <2> QED
    BY <1>1, <2>1, <2>2 DEF Alone
<1>4. CASE HttpRequestParse(w)
  <2>1. faults \subseteq faults' /\ faults' \subseteq faults \cup {job[w]}
    BY <1>4 DEF HttpRequestParse, Faults
  <2>2. /\ \E q : req' = [req EXCEPT ![w] = q]
        /\ \E label : pc' = [pc EXCEPT ![w] = label]
        /\ UNCHANGED <<asked, got, job, buf, path, query, prog, output, whole>>
    BY <1>4 DEF HttpRequestParse
  <2> QED
    BY <1>1, <2>1, <2>2 DEF Alone
<1>5. CASE HttpRequestParseCrashes(w) \/ SendHeaderCrashes(w) \/ WriteBodyKills(w)
  BY <1>5 DEF HttpRequestParseCrashes, SendHeaderCrashes, WriteBodyKills, Faults, ProcessEnds, Alone
<1>6. CASE RouteGet(w)
  <2>1. faults \subseteq faults' /\ faults' \subseteq faults \cup {job[w]}
    BY <1>6 DEF RouteGet, Faults
  <2>2. /\ \E p : path' = [path EXCEPT ![w] = p]
        /\ \E q : query' = [query EXCEPT ![w] = q]
        /\ \E label : pc' = [pc EXCEPT ![w] = label]
        /\ UNCHANGED <<asked, got, job, buf, req, prog, output, whole>>
    BY <1>6 DEF RouteGet
  <2> QED
    BY <1>1, <2>1, <2>2 DEF Alone
<1>7. CASE RoutePost(w)
  <2>1. /\ \E p : path' = [path EXCEPT ![w] = p]
        /\ \E q : query' = [query EXCEPT ![w] = q]
        /\ \E label : pc' = [pc EXCEPT ![w] = label]
        /\ UNCHANGED <<asked, got, job, buf, req, prog, output, whole, faults>>
    BY <1>7 DEF RoutePost
  <2> QED
    BY <1>1, <2>1 DEF Alone
<1>8. CASE RouteNone(w) \/ NoProgram(w) \/ WriteBody(w)
  BY <1>1, <1>8 DEF RouteNone, NoProgram, WriteBody, Alone
<1>9. CASE StartProgram(w)
  BY <1>1, <1>9 DEF StartProgram, Alone
<1>10. CASE SendHeader(w)
  <2>1. PICK t : got' = [got EXCEPT ![job[w]].type = t]
    BY <1>10 DEF SendHeader
  <2>2. \A c \in Clients \ {job[w]} : got'[c] = got[c]
    BY <1>1, <2>1
  <2>3. /\ \E label : pc' = [pc EXCEPT ![w] = label]
        /\ UNCHANGED <<asked, job, buf, req, path, query, prog, output, whole, faults>>
    BY <1>10 DEF SendHeader
  <2> QED
    BY <1>1, <2>2, <2>3 DEF Alone
<1>11. CASE SendContent(w)
  <2>1. \A c \in Clients \ {job[w]} : got'[c] = got[c]
    BY <1>1, <1>11 DEF SendContent
  <2>2. faults \subseteq faults' /\ faults' \subseteq faults \cup {job[w]}
    BY <1>11 DEF SendContent, Faults
  <2>3. /\ \E label : pc' = [pc EXCEPT ![w] = label]
        /\ UNCHANGED <<asked, job, buf, req, path, query, prog, output, whole>>
    BY <1>11 DEF SendContent
  <2> QED
    BY <1>1, <2>1, <2>2, <2>3 DEF Alone
<1>12. CASE Reply(w)
  <2>1. /\ \E answer : got' = [got EXCEPT ![job[w]] = answer]
        /\ \E label : pc' = [pc EXCEPT ![w] = label]
        /\ UNCHANGED <<asked, job, buf, req, path, query, prog, output, whole, faults>>
    BY <1>12 DEF Reply
  <2> QED
    BY <1>1, <2>1 DEF Alone
<1>13. CASE Close(w)
  <2>1. /\ pc' = [pc EXCEPT ![w] = "idle"] /\ job' = [job EXCEPT ![w] = NULL]
        /\ req' = [req EXCEPT ![w] = NoRequest] /\ path' = [path EXCEPT ![w] = <<>>]
        /\ query' = [query EXCEPT ![w] = <<>>] /\ prog' = [prog EXCEPT ![w] = "none"]
        /\ output' = [output EXCEPT ![w] = <<>>]
        /\ UNCHANGED <<asked, got, buf, whole, faults>>
    BY <1>13 DEF Close
  <2> QED
    BY <1>1, <2>1 DEF Alone
<1>14. CASE Program(w)
  <2>1. UNCHANGED <<asked, got, pc, job, buf, req, path, query, whole, faults>>
    BY <1>14 DEF Program, CollectRefuses, CollectReads, CollectOpens, CollectStores, CollectEnds,
                 ViewdataOpens, ViewdataReads, ViewdataEnds, Multi, Elsewhere
  <2>2. /\ prog' = prog \/ \E stage : prog' = [prog EXCEPT ![w] = stage]
        /\ output' = output \/ \E page : output' = [output EXCEPT ![w] = page]
    BY <1>14, ProgramWrites
  <2> QED
    BY <1>1, <2>1, <2>2 DEF Alone
<1> QED
  BY <1>2, <1>3, <1>4, <1>5, <1>6, <1>7, <1>8, <1>9, <1>10, <1>11, <1>12, <1>13, <1>14
     DEF Turn, Handle

(* Between the start of a request and its end, a worker serves one client. *)
LEMMA TurnsStay ==
  ASSUME HttpInv, NEW w \in Workers, Turn(w), ~Takes(w), ~Close(w)
  PROVE  /\ pc[w] \notin {"idle", "close"} /\ UNCHANGED <<conn, job, asked>>
         /\ \E label \in Labels \ {"idle", "read"} : pc' = [pc EXCEPT ![w] = label]
         /\ pc[w] # "read" => whole' = whole
<1> USE DEF Goto, Labels, netVars, localVars, workVars
<1>1. pc = [pc EXCEPT ![w] = pc[w]]
  BY DEF HttpInv, WorkTyped
<1>2. CASE Read(w) \/ HttpRequestParse(w)
  BY <1>2 DEF Read, HttpRequestParse
<1>3. CASE RouteGet(w)
  <2>1. /\ pc[w] = "route" /\ UNCHANGED <<asked, conn, job, whole>>
        /\ \E label \in {"cgi", "close", "header"} : pc' = [pc EXCEPT ![w] = label]
    BY <1>3 DEF RouteGet
  <2> QED
    BY <2>1
<1>4. CASE RoutePost(w) \/ RouteNone(w)
  BY <1>4 DEF RoutePost, RouteNone
<1>5. CASE SendHeader(w) \/ SendContent(w) \/ Reply(w)
  BY <1>5 DEF SendHeader, SendContent, Reply
<1>6. CASE StartProgram(w) \/ NoProgram(w) \/ WriteBody(w)
  BY <1>6 DEF StartProgram, NoProgram, WriteBody
<1>7. CASE HttpRequestParseCrashes(w) \/ SendHeaderCrashes(w) \/ WriteBodyKills(w)
  <2>1. pc[w] \in {"parse", "header", "body"} /\ UNCHANGED <<asked, conn, job, pc, whole>>
    BY <1>7 DEF HttpRequestParseCrashes, SendHeaderCrashes, WriteBodyKills, ProcessEnds
  <2> QED
    BY <1>1, <2>1
<1>8. CASE Program(w)
  <2>1. /\ UNCHANGED <<asked, conn, job, pc, whole>>
        /\ prog[w] \in {"started", "read", "opened", "written"}
    BY <1>8 DEF Program, CollectRefuses, CollectReads, CollectOpens, CollectStores, CollectEnds,
                ViewdataOpens, ViewdataReads, ViewdataEnds, Multi, Elsewhere, Running
  <2>2. pc[w] \in {"body", "output"}
    BY <2>1 DEF HttpInv, Routed
  <2> QED
    BY <1>1, <2>1, <2>2
<1> QED
  BY <1>2, <1>3, <1>4, <1>5, <1>6, <1>7, <1>8 DEF Turn, Handle

(* A client is served by one worker, and once. *)
LEMMA NextServed ==
  ASSUME HttpInv, [Next]_vars
  PROVE  ServedOnce'
<1>1. /\ NetTyped /\ WorkTyped
      /\ \A w \in Workers : pc[w] # "idle" => job[w] \in Clients /\ conn[job[w]] = "taken"
      /\ \A w, u \in Workers : pc[w] # "idle" /\ pc[u] # "idle" /\ job[w] = job[u] => w = u
  BY DEF HttpInv, ServedOnce
<1>2. /\ DOMAIN pc = Workers /\ DOMAIN job = Workers /\ DOMAIN conn = Clients
  BY <1>1 DEF NetTyped, WorkTyped
<1>3. CASE AnyAsk
  <2>1. PICK c \in Clients : conn' = [conn EXCEPT ![c] = "queued"] /\ conn[c] = "none"
    BY <1>3 DEF AnyAsk, Ask
  <2>2. UNCHANGED <<pc, job>>
    BY <1>3 DEF AnyAsk, Ask, workVars, localVars
  <2> QED
    BY <1>1, <1>2, <2>1, <2>2 DEF ServedOnce
<1>4. CASE SpillCrashes \/ UNCHANGED vars
  <2>1. UNCHANGED <<pc, job, conn>>
    BY <1>4 DEF SpillCrashes, ProcessEnds, vars, netVars, workVars, localVars
  <2> QED
    BY <1>1, <2>1 DEF ServedOnce
<1>5. ASSUME NEW w \in Workers, Turn(w) PROVE ServedOnce'
  <2>1. CASE Takes(w)
    <3>1. PICK c \in Clients : /\ conn[c] = "queued" /\ conn' = [conn EXCEPT ![c] = "taken"]
                               /\ job' = [job EXCEPT ![w] = c] /\ pc' = [pc EXCEPT ![w] = "read"]
      BY <2>1 DEF Takes, Take, Goto
    <3> QED
      BY <1>1, <1>2, <3>1 DEF ServedOnce
  <2>2. CASE Close(w)
    <3>1. /\ pc[w] = "close" /\ conn' = [conn EXCEPT ![job[w]] = "closed"]
          /\ job' = [job EXCEPT ![w] = NULL] /\ pc' = [pc EXCEPT ![w] = "idle"]
      BY <2>2 DEF Close, Goto
    <3> QED
      BY <1>1, <1>2, <3>1 DEF ServedOnce
  <2>3. CASE ~Takes(w) /\ ~Close(w)
    <3>1. PICK label \in Labels \ {"idle", "read"} : pc' = [pc EXCEPT ![w] = label]
      BY <1>5, <2>3, TurnsStay
    <3>2. pc[w] # "idle" /\ UNCHANGED <<conn, job>>
      BY <1>5, <2>3, TurnsStay
    <3> QED
      BY <1>1, <1>2, <3>1, <3>2 DEF ServedOnce
  <2> QED
    BY <2>1, <2>2, <2>3
<1> QED
  BY <1>3, <1>4, <1>5, OtherSteps

(* What collect appends, it notes, and puts behind what was there. *)
LEMMA StoresAppend ==
  ASSUME HttpInv, NEW w \in Workers, CollectStores(w)
  PROVE  \E line \in Seq(Alphabet) :
           /\ line = Line(req[w].length, Body(req[w]))
           /\ data' = data \o line
           /\ stored' = Append(stored, [client |-> job[w], from |-> Len(data), to |-> Len(data) + Len(line)])
           /\ Len(data') = Len(data) + Len(line) /\ Len(data) \in Nat /\ Len(line) \in Nat
           /\ data' \in Seq(Alphabet) /\ stored' \in Seq(Stretches)
           /\ job[w] \in Clients
<1> DEFINE line == Line(req[w].length, Body(req[w]))
<1>1. /\ data' = data \o line
      /\ stored' = Append(stored, [client |-> job[w], from |-> Len(data), to |-> Len(data) + Len(line)])
      /\ prog[w] = "opened"
  BY DEF CollectStores, Running
<1>2. req[w] \in ParsedRequests /\ data \in Seq(Alphabet) /\ stored \in Seq(Stretches)
  BY DEF HttpInv, WorkTyped, DataTyped
<1>3. line \in Seq(Alphabet)
  <2>1. req[w].length \in Seq(DOMAIN DigitValue) /\ Body(req[w]) \in Seq(Alphabet)
    BY <1>2, BodyIsText DEF ParsedRequests
  <2> QED
    BY <2>1, LineIsText
<1>4. job[w] \in Clients
  BY <1>1 DEF HttpInv, Routed, ServedOnce
<1> HIDE DEF line
<1>5. /\ Len(data') = Len(data) + Len(line) /\ Len(data) \in Nat /\ Len(line) \in Nat
      /\ data' \in Seq(Alphabet)
  BY <1>1, <1>2, <1>3
<1>6. [client |-> job[w], from |-> Len(data), to |-> Len(data) + Len(line)] \in Stretches
  BY <1>4, <1>5 DEF Stretches
<1>7. stored' \in Seq(Stretches)
  BY <1>1, <1>2, <1>6
<1>8. line = Line(req[w].length, Body(req[w]))
  BY DEF line
<1> QED
  BY <1>1, <1>3, <1>4, <1>5, <1>7, <1>8

(* What is in data.txt is accounted for. *)
LEMMA NextData ==
  ASSUME HttpInv, [Next]_vars
  PROVE  DataTyped'
<1>1. DataTyped /\ Changes
  BY NextChanges DEF HttpInv
<1>2. CASE UNCHANGED <<data, stored>>
  BY <1>1, <1>2 DEF DataTyped
<1>3. ASSUME NEW w \in Workers, CollectStores(w) PROVE DataTyped'
  <2>1. PICK line \in Seq(Alphabet) :
           /\ stored' = Append(stored, [client |-> job[w], from |-> Len(data), to |-> Len(data) + Len(line)])
           /\ Len(data') = Len(data) + Len(line) /\ Len(data) \in Nat /\ Len(line) \in Nat
           /\ data' \in Seq(Alphabet) /\ stored' \in Seq(Stretches)
    BY <1>3, StoresAppend
  <2> DEFINE new == [client |-> job[w], from |-> Len(data), to |-> Len(data) + Len(line)]
             n == Len(data)
             m == Len(data')
             k == Len(stored)
             old == Len(OldData)
  <2>2. stored \in Seq(Stretches) /\ k \in Nat
    BY <1>1 DEF DataTyped
  <2>3. n \in Nat /\ m \in Nat /\ n <= m /\ new.from = n /\ new.to = m
    BY <2>1
  <2>4. /\ \A i \in 1..k :
             /\ stored[i].from = IF i = 1 THEN old ELSE stored[i - 1].to
             /\ stored[i].from <= stored[i].to /\ stored[i].to <= n
        /\ n = IF k = 0 THEN old ELSE stored[k].to
    BY <1>1, <2>2 DEF DataTyped
  <2>5. stored' = Append(stored, new)
    BY <2>1
  <2> HIDE DEF new
  <2>6. Len(stored') = k + 1 /\ stored'[k + 1] = new /\ \A i \in 1..k : stored'[i] = stored[i]
    <3> DEFINE all == Stretches \cup {new}
    <3>1. stored \in Seq(all) /\ new \in all
      BY <2>2
    <3> HIDE DEF all
    <3> QED
      BY <2>5, <3>1
  <2>7. \A i \in 1..k : stored[i].to \in Nat
    <3>1. \A i \in 1..k : stored[i] \in Stretches
      BY <2>2
    <3> HIDE DEF k
    <3> QED
      BY <3>1 DEF Stretches
  <2> HIDE DEF n, m, k, old
  <2>8. \A i \in 1..k + 1 :
          /\ stored'[i].from = IF i = 1 THEN old ELSE stored'[i - 1].to
          /\ stored'[i].from <= stored'[i].to /\ stored'[i].to <= m
    <3>1. ASSUME NEW i \in 1..k
          PROVE  /\ stored'[i].from = IF i = 1 THEN old ELSE stored'[i - 1].to
                 /\ stored'[i].from <= stored'[i].to /\ stored'[i].to <= m
      <4>1. stored'[i] = stored[i] /\ (i # 1 => stored'[i - 1] = stored[i - 1])
        BY <2>2, <2>6
      <4>2. stored[i].to <= m
        BY <2>3, <2>4, <2>7
      <4> QED
        BY <2>4, <4>1, <4>2
    <3>2. /\ stored'[k + 1].from = IF k + 1 = 1 THEN old ELSE stored'[k + 1 - 1].to
          /\ stored'[k + 1].from <= stored'[k + 1].to /\ stored'[k + 1].to <= m
      <4>1. stored'[k + 1].from = n /\ stored'[k + 1].to = m
        BY <2>3, <2>6
      <4>2. k # 0 => stored'[k + 1 - 1] = stored[k]
        BY <2>2, <2>6
      <4>3. k + 1 = 1 <=> k = 0
        BY <2>2
      <4>4. n = IF k + 1 = 1 THEN old ELSE stored'[k + 1 - 1].to
        BY <2>4, <4>2, <4>3
      <4> QED
        BY <2>3, <4>1, <4>4
    <3> QED
      BY <2>2, <3>1, <3>2
  <2>9. stored' # <<>> /\ stored'[Len(stored')].to = m
    <3>1. Len(stored') # 0 /\ stored'[k + 1].to = m
      BY <2>2, <2>3, <2>6
    <3>2. stored' # <<>>
      BY <3>1
    <3> QED
      BY <2>6, <3>1, <3>2
  <2>10. DOMAIN stored' = 1..k + 1
    BY <2>1, <2>6
  <2> QED
    BY <2>1, <2>8, <2>9, <2>10 DEF DataTyped, m, old
<1> QED
  BY <1>1, <1>2, <1>3 DEF Changes

(* A worker's strings stay within their arrays, or that is noted. *)
LEMMA NextSizes ==
  ASSUME HttpInv, [Next]_vars
  PROVE  Sizes'
<1>1. WorkTyped /\ Sizes /\ Changes
  BY NextChanges DEF HttpInv
<1>2. faults \subseteq faults'
  <2>1. CASE UNCHANGED faults
    BY <2>1
  <2>2. ASSUME NEW w \in Workers, Turn(w) PROVE faults \subseteq faults'
    BY <2>2, TurnsAlone DEF Alone
  <2> QED
    BY <1>1, <2>1, <2>2 DEF Changes, Turn, Handle
<1>3. \A w \in Workers : /\ Len(req'[w].uri) < MaxUri /\ Len(req'[w].content) <= MaxContent
                         /\ Len(req'[w].length) < MaxLength \/ faults' # {}
  <2>1. CASE UNCHANGED req
    BY <1>1, <1>2, <2>1 DEF Sizes
  <2>2. ASSUME NEW w \in Workers, NEW q, req' = [req EXCEPT ![w] = q],
               Len(q.uri) < MaxUri, Len(q.content) <= MaxContent,
               Len(q.length) < MaxLength \/ faults' # {},
               NEW u \in Workers
        PROVE  /\ Len(req'[u].uri) < MaxUri /\ Len(req'[u].content) <= MaxContent
               /\ Len(req'[u].length) < MaxLength \/ faults' # {}
    <3>1. req'[u] = IF u = w THEN q ELSE req[u]
      BY <1>1, <2>2 DEF WorkTyped
    <3> QED
      BY <1>1, <1>2, <2>2, <3>1 DEF Sizes
  <2>3. ASSUME NEW w \in Workers, HttpRequestParse(w)
        PROVE  \E q : /\ req' = [req EXCEPT ![w] = q]
                      /\ Len(q.uri) < MaxUri /\ Len(q.content) <= MaxContent
                      /\ Len(q.length) < MaxLength \/ faults' # {}
    <3> DEFINE q == Parse(buf[w])
    <3>1. req' = [req EXCEPT ![w] = q] /\ (LengthSpills(buf[w]) => job[w] \in faults')
      BY <2>3 DEF HttpRequestParse, Faults
    <3>2. buf[w] \in [1..MaxBuf -> Alphabet]
      BY <1>1 DEF WorkTyped, Buffers
    <3>3. /\ Len(q.uri) < MaxUri /\ Len(q.content) <= MaxContent
          /\ Len(q.length) < MaxLength \/ LengthSpills(buf[w])
      BY <3>2, ParseFits
    <3> HIDE DEF q
    <3> QED
      BY <3>1, <3>3
  <2>4. ASSUME NEW w \in Workers, Close(w)
        PROVE  \E q : /\ req' = [req EXCEPT ![w] = q]
                      /\ Len(q.uri) < MaxUri /\ Len(q.content) <= MaxContent
                      /\ Len(q.length) < MaxLength \/ faults' # {}
    <3>1. req' = [req EXCEPT ![w] = NoRequest]
      BY <2>4 DEF Close
    <3> QED
      BY <3>1, NoRequestFits
  <2> QED
    BY <1>1, <2>1, <2>2, <2>3, <2>4 DEF Changes
<1>4. \A w \in Workers : (Len(path'[w]) < MaxPath \/ faults' # {}) /\ Len(query'[w]) < MaxUri
  <2>1. CASE UNCHANGED <<path, query>>
    BY <1>1, <1>2, <2>1 DEF Sizes
  <2>2. ASSUME NEW w \in Workers, NEW p, NEW q,
               path' = [path EXCEPT ![w] = p], query' = [query EXCEPT ![w] = q],
               Len(p) < MaxPath \/ faults' # {}, Len(q) < MaxUri,
               NEW u \in Workers
        PROVE  (Len(path'[u]) < MaxPath \/ faults' # {}) /\ Len(query'[u]) < MaxUri
    <3>1. path'[u] = (IF u = w THEN p ELSE path[u]) /\ query'[u] = IF u = w THEN q ELSE query[u]
      BY <1>1, <2>2 DEF WorkTyped
    <3> QED
      BY <1>1, <1>2, <2>2, <3>1 DEF Sizes
  <2>3. ASSUME NEW w \in Workers, RouteGet(w) \/ RoutePost(w) \/ Close(w)
        PROVE  \E p, q : /\ path' = [path EXCEPT ![w] = p] /\ query' = [query EXCEPT ![w] = q]
                         /\ Len(p) < MaxPath \/ faults' # {}
                         /\ Len(q) < MaxUri
    <3>1. Len(<<>>) < MaxPath /\ Len(<<>>) < MaxUri
      BY HttpAssumption, HttpRequestAssumption
    <3>2. CASE RouteGet(w)
      BY <3>2, GetIsText
    <3>3. CASE RoutePost(w)
      <4>1. path' = [path EXCEPT ![w] = FilePath(req[w].uri)] /\ query' = [query EXCEPT ![w] = <<>>]
        BY <3>3 DEF RoutePost
      <4>2. req[w].uri \in Seq(Alphabet)
        BY <1>1 DEF WorkTyped, ParsedRequests
      <4>3. Len(FilePath(req[w].uri)) < MaxPath
        BY <4>2, PathFits
      <4> QED
        BY <3>1, <4>1, <4>3
    <3>4. CASE Close(w)
      <4>1. path' = [path EXCEPT ![w] = <<>>] /\ query' = [query EXCEPT ![w] = <<>>]
        BY <3>4 DEF Close
      <4> QED
        BY <3>1, <4>1
    <3> QED
      BY <2>3, <3>2, <3>3, <3>4
  <2> QED
    BY <1>1, <2>1, <2>2, <2>3 DEF Changes
<1> QED
  BY <1>3, <1>4 DEF Sizes

(* What a worker is at, and its program, go together. *)
LEMMA NextRouted ==
  ASSUME HttpInv, [Next]_vars, NEW u \in Workers
  PROVE  Routed(u)'
<1> USE DEF Goto, netVars, localVars, progVars, workVars
<1>1. /\ NetTyped /\ WorkTyped /\ Routed(u)
      /\ DOMAIN pc = Workers /\ DOMAIN req = Workers /\ DOMAIN path = Workers
      /\ DOMAIN prog = Workers /\ DOMAIN output = Workers
  BY DEF HttpInv, NetTyped, WorkTyped
<1>2. ASSUME pc'[u] = pc[u], req'[u] = req[u], path'[u] = path[u], prog'[u] = prog[u],
             output'[u] = output[u]
      PROVE  Routed(u)'
  BY <1>1, <1>2 DEF Routed, Exists
<1>3. CASE AnyAsk \/ SpillCrashes \/ UNCHANGED vars
  <2>1. UNCHANGED <<pc, req, path, prog, output>>
    BY <1>3 DEF AnyAsk, Ask, SpillCrashes, ProcessEnds, vars
  <2> QED
    BY <1>2, <2>1
<1>4. ASSUME NEW w \in Workers, w # u, Turn(w) PROVE Routed(u)'
  <2>1. Alone(w)
    BY <1>4, TurnsAlone
  <2> QED
    BY <1>2, <1>4, <2>1 DEF Alone
<1>5. CASE Takes(u) \/ Read(u) \/ HttpRequestParse(u)
  <2>1. /\ pc[u] \in {"idle", "read", "parse"} /\ pc'[u] \in {"read", "parse", "route"}
        /\ prog' = prog /\ output' = output
    BY <1>1, <1>5 DEF Takes, Take, Read, HttpRequestParse
  <2> QED
    BY <1>1, <2>1 DEF Routed
<1>6. CASE RouteGet(u)
  <2> DEFINE name == FilePath(Until(req[u].uri, IsQuery))
             p == IF Last(name) = "/" THEN name \o Index ELSE name
  <2>1. /\ pc[u] = "route" /\ path'[u] = p /\ req[u].method = "GET"
        /\ pc'[u] \in {"close", "cgi", "header"} /\ (pc'[u] # "close" => Exists(p))
        /\ req' = req /\ prog' = prog /\ output' = output
    BY <1>1, <1>6 DEF RouteGet
  <2> HIDE DEF p, name
  <2>2. prog[u] = "none" /\ output[u] = <<>>
    BY <1>1, <2>1 DEF Routed
  <2> QED
    BY <2>1, <2>2 DEF Routed, Exists
<1>7. CASE RoutePost(u)
  <2>1. /\ pc[u] = "route" /\ path'[u] = FilePath(req[u].uri)
        /\ pc'[u] \in {"close", "cgi"} /\ (pc'[u] # "close" => Exists(path'[u]))
        /\ req' = req /\ prog' = prog /\ output' = output
    BY <1>1, <1>7 DEF RoutePost
  <2>2. prog[u] = "none" /\ output[u] = <<>>
    BY <1>1, <2>1 DEF Routed
  <2> QED
    BY <2>1, <2>2 DEF Routed, Exists
<1>8. CASE RouteNone(u) \/ NoProgram(u)
  <2>1. /\ pc[u] \in {"route", "cgi"} /\ pc'[u] \in {"close", "stuck"}
        /\ prog' = prog /\ output' = output
    BY <1>1, <1>8 DEF RouteNone, NoProgram
  <2>2. prog[u] = "none" /\ output[u] = <<>>
    BY <1>1, <2>1 DEF Routed
  <2> QED
    BY <2>1, <2>2 DEF Routed
<1>9. CASE SendHeader(u) \/ SendContent(u)
  <2>1. /\ \/ pc[u] = "header" /\ pc'[u] = "content"
           \/ pc[u] = "content" /\ pc'[u] = "close"
        /\ prog' = prog /\ output' = output /\ path' = path /\ req' = req
    BY <1>1, <1>9 DEF SendHeader, SendContent
  <2>2. prog[u] = "none" /\ output[u] = <<>> /\ Exists(path[u])
    BY <1>1, <2>1 DEF Routed
  <2> QED
    BY <2>1, <2>2 DEF Routed, Exists
<1>10. CASE StartProgram(u)
  <2>1. /\ pc[u] = "cgi" /\ pc'[u] = (IF req[u].method = "POST" THEN "body" ELSE "output")
        /\ prog'[u] = "started" /\ output' = output /\ path' = path /\ req' = req
    BY <1>1, <1>10 DEF StartProgram
  <2>2. output[u] = <<>> /\ Exists(path[u])
        /\ (req[u].method = "POST" => path[u] = FilePath(req[u].uri))
    BY <1>1, <2>1 DEF Routed
  <2> QED
    BY <2>1, <2>2 DEF Routed, Exists
<1>11. CASE WriteBody(u)
  <2>1. /\ pc[u] = "body" /\ pc'[u] = "output"
        /\ prog' = prog /\ output' = output /\ path' = path /\ req' = req
    BY <1>1, <1>11 DEF WriteBody
  <2> QED
    BY <1>1, <2>1 DEF Routed, Exists
<1>12. CASE Reply(u)
  <2>1. /\ pc'[u] = "close" /\ prog[u] = "ended"
        /\ prog' = prog /\ output' = output /\ path' = path /\ req' = req
    BY <1>1, <1>12 DEF Reply
  <2> QED
    BY <1>1, <2>1 DEF Routed
<1>13. CASE Close(u)
  <2>1. pc'[u] = "idle" /\ prog'[u] = "none" /\ output'[u] = <<>>
    BY <1>1, <1>13 DEF Close
  <2> QED
    BY <2>1 DEF Routed
<1>14. CASE HttpRequestParseCrashes(u) \/ SendHeaderCrashes(u) \/ WriteBodyKills(u)
  <2>1. UNCHANGED <<pc, req, path, prog, output>>
    BY <1>14 DEF HttpRequestParseCrashes, SendHeaderCrashes, WriteBodyKills, ProcessEnds
  <2> QED
    BY <1>2, <2>1
<1>15. ASSUME pc' = pc, req' = req, path' = path, prog[u] \in Stages \ {"none", "ended"},
              prog'[u] \in Stages \ {"none", "started"} \/ (prog'[u] = prog[u] /\ prog[u] # "started"),
              Tree[path[u]] = "collect" => prog'[u] = "ended" \/ ~Refuses(req[u].length),
              Tree[path[u]] = "collect" /\ prog'[u] # "started" =>
                Refuses(req[u].length) \/ ~(Atoi(req[u].length) > 0) \/ pc[u] = "output"
       PROVE  Routed(u)'
  <2>1. pc[u] \in {"body", "output"}
    BY <1>1, <1>15 DEF Routed, Stages
  <2>2. prog'[u] \notin {"none", "started"}
    BY <1>15
  <2>3. /\ Exists(path[u]) /\ (req[u].method = "POST" => path[u] = FilePath(req[u].uri))
        /\ (pc[u] = "body" => req[u].method = "POST")
    BY <1>1, <2>1 DEF Routed
  <2> QED
    BY <1>15, <2>1, <2>2, <2>3 DEF Routed, Exists
<1>16. ASSUME prog[u] \in {"read", "opened", "written"}, Tree[path[u]] = "collect"
       PROVE  /\ ~Refuses(req[u].length)
              /\ ~(Atoi(req[u].length) > 0) \/ pc[u] = "output"
  BY <1>1, <1>16 DEF Routed
<1>17. CASE CollectRefuses(u)
  <2>1. /\ UNCHANGED <<pc, req, path>> /\ prog[u] = "started" /\ prog'[u] = "ended"
        /\ Refuses(req[u].length)
    BY <1>1, <1>17 DEF CollectRefuses, Running, Advances, Elsewhere
  <2> QED
    BY <1>15, <2>1 DEF Stages
<1>18. CASE CollectReads(u)
  <2>1. /\ UNCHANGED <<pc, req, path>> /\ prog[u] = "started" /\ prog'[u] \in {"read", "ended"}
        /\ ~Refuses(req[u].length) /\ (Atoi(req[u].length) > 0 => pc[u] = "output")
    BY <1>1, <1>18 DEF CollectReads, Running, Advances, Elsewhere
  <2> QED
    BY <1>15, <2>1 DEF Stages
<1>19. CASE CollectOpens(u)
  <2>1. /\ UNCHANGED <<pc, req, path>> /\ prog[u] = "read" /\ prog'[u] \in {"opened", "ended"}
        /\ Tree[path[u]] = "collect"
    BY <1>1, <1>19 DEF CollectOpens, Running, Advances, Elsewhere
  <2> QED
    BY <1>15, <1>16, <2>1 DEF Stages
<1>20. CASE CollectStores(u)
  <2>1. /\ UNCHANGED <<pc, req, path>> /\ prog[u] = "opened" /\ prog'[u] = "written"
        /\ Tree[path[u]] = "collect"
    BY <1>1, <1>20 DEF CollectStores, Running, Advances, Elsewhere
  <2> QED
    BY <1>15, <1>16, <2>1 DEF Stages
<1>21. CASE CollectEnds(u)
  <2>1. /\ UNCHANGED <<pc, req, path>> /\ prog[u] = "written" /\ prog'[u] = "ended"
        /\ Tree[path[u]] = "collect"
    BY <1>1, <1>21 DEF CollectEnds, Running, Advances, Elsewhere
  <2> QED
    BY <1>15, <1>16, <2>1 DEF Stages
<1>22. CASE ViewdataOpens(u) \/ ViewdataEnds(u) \/ Multi(u)
  <2>1. /\ UNCHANGED <<pc, req, path>> /\ prog[u] \in {"started", "opened"}
        /\ prog'[u] \in {"opened", "ended"} /\ Tree[path[u]] \in {"viewdata", "multi"}
    BY <1>1, <1>22 DEF ViewdataOpens, ViewdataEnds, Multi, Running, Advances, Elsewhere
  <2> QED
    BY <1>15, <2>1 DEF Stages
<1>23. CASE ViewdataReads(u)
  <2>1. /\ UNCHANGED <<pc, req, path>> /\ prog[u] = "opened" /\ prog'[u] = "opened"
        /\ Tree[path[u]] = "viewdata"
    BY <1>23 DEF ViewdataReads, Running, Elsewhere
  <2> QED
    BY <1>15, <2>1 DEF Stages
<1>24. CASE Turn(u)
  BY <1>5, <1>6, <1>7, <1>8, <1>9, <1>10, <1>11, <1>12, <1>13, <1>14, <1>17, <1>18, <1>19, <1>20,
     <1>21, <1>22, <1>23, <1>24 DEF Turn, Handle, Program
<1> QED
  BY <1>3, <1>4, <1>24, OtherSteps

(* HttpInv holds in every state that is reached. *)
LEMMA HttpInductive == Spec => []HttpInv
<1>1. ASSUME HttpInv, [Next]_vars PROVE HttpInv'
  BY <1>1, NextNet, NextWork, NextData, NextServed, NextSizes, NextRouted DEF HttpInv
<1> QED
  BY InitHttp, <1>1, PTL DEF Spec

(* Every variable has its type, and no step of the parser, of the router   *)
(* or of a program leaves its buffers unnoticed, for requests of any       *)
(* lengths and a rd_buf with anything in it (http.c:35-64, 196-239,        *)
(* http.h:5-11).                                                           *)
THEOREM HttpTypeCorrect == Spec => []TypeOK
<1>1. HttpInv => TypeOK
  <2> SUFFICES ASSUME HttpInv PROVE TypeOK
    OBVIOUS
  <2>1. NetTyped /\ WorkTyped /\ DataTyped /\ ServedOnce /\ Sizes
    BY DEF HttpInv
  <2>2. \A c \in Clients :
          /\ got[c].type \in Types \cup {"", Junk}
          /\ got[c].content \in Seq(PageUnits)
          /\ Len(got[c].content) <= (IF MaxBuf >= MaxContent THEN MaxBuf ELSE MaxContent)
    <3> SUFFICES ASSUME NEW c \in Clients
                 PROVE  /\ got[c].type \in Types \cup {"", Junk}
                        /\ got[c].content \in Seq(PageUnits)
                        /\ Len(got[c].content) <= Longest
      BY DEF Longest
    <3>1. got[c] \in Answers
      BY <2>1 DEF NetTyped
    <3> QED
      BY <3>1 DEF Answers, Pages
  <2>3. ASSUME NEW w \in Workers
        PROVE  /\ pc[w] # "idle" => job[w] # NULL /\ asked[job[w]] # NULL
               /\ buf[w] \in [1..MaxBuf -> Alphabet]
               /\ req[w].method \in Words \cup {""}
               /\ req[w].uri \in Seq(Alphabet) /\ Len(req[w].uri) < MaxUri
               /\ req[w].length \in Seq(DOMAIN DigitValue)
               /\ Len(req[w].length) < MaxLength \/ faults # {}
               /\ req[w].content \in Seq(Alphabet) /\ Len(req[w].content) <= MaxContent
               /\ path[w] \in Seq(Alphabet) /\ (Len(path[w]) < MaxPath \/ faults # {})
               /\ query[w] \in Seq(Alphabet) /\ Len(query[w]) < MaxUri
               /\ output[w] \in Seq(PageUnits)
    <3>1. pc[w] # "idle" => job[w] # NULL /\ asked[job[w]] # NULL
      BY <2>1, OwnRequest, HttpAssumption
    <3>2. req[w] \in ParsedRequests /\ buf[w] \in [1..MaxBuf -> Alphabet]
      BY <2>1 DEF WorkTyped, Buffers
    <3>3. /\ req[w].method \in Words \cup {""} /\ req[w].uri \in Seq(Alphabet)
          /\ req[w].length \in Seq(DOMAIN DigitValue) /\ req[w].content \in Seq(Alphabet)
      BY <3>2 DEF ParsedRequests
    <3>4. path[w] \in Seq(Alphabet) /\ query[w] \in Seq(Alphabet) /\ output[w] \in Seq(PageUnits)
      BY <2>1 DEF WorkTyped
    <3> QED
      BY <2>1, <3>1, <3>2, <3>3, <3>4 DEF Sizes
  <2>4. \A i \in DOMAIN stored : stored[i] \in [client : Clients, from : Nat, to : 0..Len(data)]
    <3> SUFFICES ASSUME NEW i \in DOMAIN stored
                 PROVE  stored[i] \in [client : Clients, from : Nat, to : 0..Len(data)]
      OBVIOUS
    <3> DEFINE n == Len(data)
    <3>1. stored[i] \in Stretches /\ stored[i].to <= n /\ n \in Nat
      BY <2>1 DEF DataTyped
    <3> HIDE DEF n
    <3>2. stored[i] \in [client : Clients, from : Nat, to : 0..n]
      BY <3>1 DEF Stretches
    <3> QED
      BY <3>2 DEF n
  <2> QED
    BY <2>1, <2>2, <2>3, <2>4 DEF TypeOK, NetTyped, WorkTyped, DataTyped
<1> QED
  BY HttpInductive, <1>1, PTL

(***************************************************************************)
(* What a request and its answer say.  A worker is followed from the text  *)
(* in its buffer (ParseUnderstands) through the file or the program that   *)
(* the text names (PathFound, FileFound) to the answer; what it sends      *)
(* belongs to its own client, whose connection no other worker has.        *)
(***************************************************************************)

(* A request is read once, by the worker that has its connection, and what *)
(* it leads to comes after that.                                           *)
HasStored(c) == \E i \in DOMAIN stored : stored[i].client = c
Served(c) == c \in faults \/ c \in whole \/ HasStored(c)

ReadOnce ==
  /\ \A c \in Clients : conn[c] = "none" => asked[c] = NULL
  /\ \A c \in Clients : Served(c) => conn[c] \in {"taken", "closed"}
  /\ \A w \in Workers : pc[w] = "read" => ~Served(job[w])

(* A client receives nothing before its worker sends it. *)
Unanswered ==
  /\ \A c \in Clients : conn[c] \in {"none", "queued"} => got[c].content = <<>>
  /\ \A w \in Workers : pc[w] \notin {"idle", "close"} => got[job[w]].content = <<>>

(* What http_request_parse has understood of r. *)
Parsed(w, r) ==
  /\ req[w].method = r.method
  /\ req[w].uri = Cut(Target(r), MaxUri - 1)
  /\ r.method # "POST" => req[w].length = <<>>
  /\ r.method = "POST" /\ r.length # <<>> => req[w].length = r.length
  /\ r.method = "POST" /\ BodyIsFound(r) => Body(req[w]) = r.body

(* r asks for a file, and c has received it. *)
AsksFile(r) == r.method = "GET" /\ r.query = NoQuery /\ Fits(r)
Answered(c) ==
  LET p == Named(asked[c]) IN
  IF Exists(p) /\ Readable(p)
  THEN /\ got[c].content = Cut(Units(p), MaxBuf)
       /\ Known(p) => got[c].type = Extensions[Last(p)]
  ELSE got[c].content = <<>>

(* What a worker has made of a request that it has read whole. *)
Follows(w) ==
  LET c == job[w]  r == asked[c]  p == path[w] IN
  /\ pc[w] = "parse" => IsPrefix(Text(r), buf[w])
  /\ pc[w] \in {"route", "cgi", "body", "output"} => Parsed(w, r)
  /\ pc[w] \in {"cgi", "body", "output"} => ~AsksFile(r)
  /\ pc[w] \in {"header", "content"} /\ Fits(r) => AsksFile(r) /\ p = Named(r) /\ Exists(p)
  /\ pc[w] \in {"header", "content"} => r.method = "GET"
  /\ pc[w] = "content" /\ Known(p) => got[c].type = Extensions[Last(p)]
  /\ pc[w] = "close" /\ AsksFile(r) => Answered(c)

(* Every worker with a whole, well-formed request follows it. *)
Understood ==
  \A w \in Workers :
    pc[w] # "idle" /\ job[w] \in whole /\ WellFormed(asked[job[w]]) => Follows(w)

(* And its client keeps the answer. *)
AnswersStay ==
  \A c \in whole :
    conn[c] = "closed" /\ WellFormed(asked[c]) /\ AsksFile(asked[c]) => Answered(c)

(* A page that says that a form is stored, or shows data.txt, is right. *)
Thanks(page) == page # <<>> /\ page[1] = <<"stored">>
IsOfData(page) == Len(page) <= Len(data) /\ \A i \in 1..Len(page) : page[i] = <<"data", data[i]>>
Right(page, c) ==
  /\ Thanks(page) => HasStored(c)
  /\ ShowsData(page) => IsOfData(page)

PagesRight ==
  /\ \A w \in Workers :
       /\ Right(output[w], job[w])
       /\ prog[w] = "written" => HasStored(job[w])
       /\ prog[w] = "opened" /\ Tree[path[w]] = "viewdata" => IsOfData(output[w])
  /\ \A c \in Clients : Right(got[c].content, c)

(* What collect has added is what it makes of its own client's form. *)
LinesRight ==
  \A i \in DOMAIN stored :
    LET c == stored[i].client  r == asked[stored[i].client] IN
    c \in whole /\ WellFormed(r) /\ BodyIsFound(r) =>
      LineOf(stored[i]) = Line(r.length, r.body)

(* The inductive invariant behind all of it. *)
AnswerInv ==
  /\ HttpInv /\ ReadOnce /\ Unanswered /\ Understood /\ AnswersStay
  /\ PagesRight /\ LinesRight /\ ServerSurvives

(* Before the first request nobody has been answered. *)
LEMMA InitAnswers == Init => AnswerInv
<1> SUFFICES ASSUME Init PROVE AnswerInv
  OBVIOUS
<1>1. HttpInv
  BY InitHttp
<1>2. /\ \A c \in Clients : asked[c] = NULL /\ conn[c] = "none" /\ got[c] = NoAnswer
      /\ \A w \in Workers : pc[w] = "idle" /\ output[w] = <<>> /\ prog[w] = "none"
      /\ whole = {} /\ faults = {} /\ stored = <<>> /\ server = "up"
  BY DEF Init
<1>3. NoAnswer.content = <<>>
  BY DEF NoAnswer
<1>4. \A c : ~Served(c)
  BY <1>2 DEF Served, HasStored
<1>5. ReadOnce
  BY <1>2, <1>4 DEF ReadOnce
<1>6. Unanswered
  BY <1>2, <1>3 DEF Unanswered
<1>7. Understood /\ AnswersStay /\ LinesRight /\ ServerSurvives
  <2>1. Understood /\ AnswersStay /\ ServerSurvives
    BY <1>2 DEF Understood, AnswersStay, ServerSurvives
  <2>2. DOMAIN stored = {}
    BY <1>2
  <2>3. LinesRight
    BY <2>2 DEF LinesRight
  <2> QED
    BY <2>1, <2>3
<1>8. PagesRight
  <2>1. \A c : Right(<<>>, c)
    BY DEF Right, Thanks, ShowsData
  <2>2. \A c \in Clients : got[c].content = <<>>
    BY <1>2, <1>3
  <2> QED
    BY <1>2, <2>1, <2>2 DEF PagesRight
<1> QED
  BY <1>1, <1>5, <1>6, <1>7, <1>8 DEF AnswerInv

(* A worker that stores, stores for its own client; what is stored stays.  *)
LEMMA TurnsStore ==
  ASSUME HttpInv, NEW w \in Workers, Turn(w)
  PROVE  /\ UNCHANGED <<data, stored>> \/ CollectStores(w)
         /\ \A c : HasStored(c) => HasStored(c)'
         /\ \A c : HasStored(c)' => HasStored(c) \/ (c = job[w] /\ CollectStores(w))
<1>1. UNCHANGED <<data, stored>> \/ CollectStores(w)
  <2>1. CASE Handle(w) \/ Takes(w)
    BY <2>1 DEF Handle, Takes, Take, Read, HttpRequestParse, HttpRequestParseCrashes, RouteGet,
                RoutePost, RouteNone, SendHeader, SendHeaderCrashes, SendContent, StartProgram,
                NoProgram, WriteBody, WriteBodyKills, Reply, Close, ProcessEnds
  <2>2. CASE Program(w)
    BY <2>2 DEF Program, CollectRefuses, CollectReads, CollectOpens, CollectEnds,
                ViewdataOpens, ViewdataReads, ViewdataEnds, Multi
  <2> QED
    BY <2>1, <2>2 DEF Turn
<1>2. CASE UNCHANGED <<data, stored>>
  BY <1>1, <1>2 DEF HasStored
<1>3. CASE CollectStores(w)
  <2>1. PICK line \in Seq(Alphabet) :
          /\ stored' = Append(stored, [client |-> job[w], from |-> Len(data), to |-> Len(data) + Len(line)])
          /\ stored' \in Seq(Stretches)
    BY <1>3, StoresAppend
  <2> DEFINE new == [client |-> job[w], from |-> Len(data), to |-> Len(data) + Len(line)]
             all == Stretches \cup {new}
             k == Len(stored)
  <2>2. new.client = job[w] /\ stored' = Append(stored, new)
    BY <2>1
  <2>3. stored \in Seq(all) /\ new \in all
    BY DEF HttpInv, DataTyped
  <2> HIDE DEF new, all
  <2>4. k \in Nat /\ DOMAIN stored = 1..k /\ DOMAIN stored' = 1..k + 1
        /\ stored'[k + 1] = new /\ \A i \in 1..k : stored'[i] = stored[i]
    BY <2>2, <2>3
  <2> HIDE DEF k
  <2>5. \A i \in 1..k + 1 : i \in 1..k \/ i = k + 1
    BY <2>4
  <2>6. \A i \in 1..k : i \in 1..k + 1
    BY <2>4
  <2>7. k + 1 \in 1..k + 1
    BY <2>4
  <2> QED
    BY <1>3, <2>2, <2>4, <2>5, <2>6 DEF HasStored
<1> QED
  BY <1>1, <1>2, <1>3

(* A step of a worker serves its own client, if any. *)
LEMMA TurnsServe ==
  ASSUME HttpInv, NEW w \in Workers, Turn(w)
  PROVE  /\ \A c : Served(c)' => Served(c) \/ c = job[w]
         /\ Takes(w) \/ Close(w) => \A c : Served(c)' => Served(c)
<1>1. Alone(w) /\ \A c : HasStored(c)' => HasStored(c) \/ (c = job[w] /\ CollectStores(w))
  BY TurnsAlone, TurnsStore
<1>2. \A c : Served(c)' => Served(c) \/ c = job[w]
  BY <1>1 DEF Alone, Served
<1>3. CASE Takes(w) \/ Close(w)
  <2>1. UNCHANGED <<faults, whole, stored>>
    BY <1>3 DEF Takes, Take, Close
  <2> QED
    BY <1>2, <2>1 DEF Served, HasStored
<1> QED
  BY <1>2, <1>3

(* A connection is read by its worker, and by no other. *)
LEMMA NextReadOnce ==
  ASSUME HttpInv, ReadOnce, [Next]_vars
  PROVE  ReadOnce'
<1>1. /\ \A w \in Workers : pc[w] # "idle" => job[w] \in Clients /\ conn[job[w]] = "taken"
      /\ \A w, u \in Workers : pc[w] # "idle" /\ pc[u] # "idle" /\ job[w] = job[u] => w = u
      /\ DOMAIN pc = Workers /\ DOMAIN job = Workers /\ DOMAIN conn = Clients /\ DOMAIN asked = Clients
  BY DEF HttpInv, ServedOnce, NetTyped, WorkTyped
<1>2. /\ \A c \in Clients : conn[c] = "none" => asked[c] = NULL
      /\ \A c \in Clients : Served(c) => conn[c] \in {"taken", "closed"}
      /\ \A w \in Workers : pc[w] = "read" => ~Served(job[w])
  BY DEF ReadOnce
<1>3. CASE AnyAsk
  <2>1. PICK c \in Clients : conn[c] = "none" /\ conn' = [conn EXCEPT ![c] = "queued"]
                             /\ \E r \in Requests : asked' = [asked EXCEPT ![c] = r]
    BY <1>3 DEF AnyAsk, Ask
  <2>2. UNCHANGED <<pc, job, faults, whole, stored>>
    BY <1>3 DEF AnyAsk, Ask, workVars, localVars
  <2>3. \A d : Served(d)' = Served(d)
    BY <2>2 DEF Served, HasStored
  <2> QED
    BY <1>1, <1>2, <2>1, <2>2, <2>3 DEF ReadOnce
<1>4. CASE SpillCrashes \/ UNCHANGED vars
  <2>1. UNCHANGED <<asked, conn, pc, job, faults, whole, stored>>
    BY <1>4 DEF SpillCrashes, ProcessEnds, vars, netVars, workVars, localVars
  <2>2. \A d : Served(d)' = Served(d)
    BY <2>1 DEF Served, HasStored
  <2> QED
    BY <1>2, <2>1, <2>2 DEF ReadOnce
<1>5. ASSUME NEW w \in Workers, Turn(w) PROVE ReadOnce'
  <2>1. Alone(w) /\ \A c : Served(c)' => Served(c) \/ c = job[w]
    BY <1>5, TurnsAlone, TurnsServe
  <2>2. CASE Takes(w)
    <3>1. PICK c \in Clients : /\ conn[c] = "queued" /\ conn' = [conn EXCEPT ![c] = "taken"]
                               /\ job' = [job EXCEPT ![w] = c] /\ pc' = [pc EXCEPT ![w] = "read"]
                               /\ asked' = asked
      BY <2>2 DEF Takes, Take, Goto
    <3>2. \A d : Served(d)' => Served(d)
      BY <1>5, <2>2, TurnsServe
    <3> QED
      BY <1>1, <1>2, <3>1, <3>2 DEF ReadOnce
  <2>3. CASE Close(w)
    <3>1. /\ pc[w] = "close" /\ conn' = [conn EXCEPT ![job[w]] = "closed"]
          /\ job' = [job EXCEPT ![w] = NULL] /\ pc' = [pc EXCEPT ![w] = "idle"]
          /\ asked' = asked
      BY <2>3 DEF Close, Goto
    <3>2. \A d : Served(d)' => Served(d)
      BY <1>5, <2>3, TurnsServe
    <3> QED
      BY <1>1, <1>2, <3>1, <3>2 DEF ReadOnce
  <2>4. CASE ~Takes(w) /\ ~Close(w)
    <3>1. PICK label \in Labels \ {"idle", "read"} : pc' = [pc EXCEPT ![w] = label]
      BY <1>5, <2>4, TurnsStay
    <3>2. pc[w] # "idle" /\ UNCHANGED <<conn, job, asked>>
      BY <1>5, <2>4, TurnsStay
    <3> QED
      BY <1>1, <1>2, <2>1, <3>1, <3>2 DEF ReadOnce
  <2> QED
    BY <2>2, <2>3, <2>4
<1> QED
  BY <1>3, <1>4, <1>5, OtherSteps

(* A header changes the type only. *)
LEMMA SendsType ==
  ASSUME NetTyped, NEW c \in Clients, NEW t, got' = [got EXCEPT ![c].type = t]
  PROVE  got'[c].type = t /\ got'[c].content = got[c].content
<1> DEFINE new == [type |-> t, content |-> got[c].content]
<1>1. got' = [got EXCEPT ![c] = new]
  BY AnswerChanged
<1>2. DOMAIN got = Clients
  BY DEF NetTyped
<1>3. got'[c] = new
  BY <1>1, <1>2
<1>4. new.type = t /\ new.content = got[c].content
  OBVIOUS
<1> QED
  BY <1>3, <1>4

(* What a worker sends, it sends in three steps. *)
LEMMA TurnsSend ==
  ASSUME HttpInv, NEW w \in Workers, Turn(w)
  PROVE  got' = got \/ SendHeader(w) \/ SendContent(w) \/ Reply(w)
<1> USE DEF netVars
<1>1. CASE Handle(w) \/ Takes(w)
  BY <1>1 DEF Handle, Takes, Take, Read, HttpRequestParse, HttpRequestParseCrashes, RouteGet,
              RoutePost, RouteNone, SendHeaderCrashes, StartProgram, NoProgram, WriteBody,
              WriteBodyKills, Close, ProcessEnds
<1>2. CASE Program(w)
  BY <1>2 DEF Program, CollectRefuses, CollectReads, CollectOpens, CollectStores, CollectEnds,
              ViewdataOpens, ViewdataReads, ViewdataEnds, Multi, Elsewhere
<1> QED
  BY <1>1, <1>2 DEF Turn

(* What a client has received comes from its own worker. *)
LEMMA NextUnanswered ==
  ASSUME HttpInv, Unanswered, [Next]_vars
  PROVE  Unanswered'
<1>1. /\ NetTyped /\ WorkTyped /\ ServedOnce
      /\ DOMAIN pc = Workers /\ DOMAIN job = Workers /\ DOMAIN conn = Clients /\ DOMAIN got = Clients
  BY DEF HttpInv, NetTyped, WorkTyped
<1>2. CASE AnyAsk
  <2>1. PICK c \in Clients : conn' = [conn EXCEPT ![c] = "queued"] /\ conn[c] = "none"
    BY <1>2 DEF AnyAsk, Ask
  <2>2. UNCHANGED <<pc, job, got>>
    BY <1>2 DEF AnyAsk, Ask, workVars, localVars
  <2> QED
    BY <1>1, <2>1, <2>2 DEF Unanswered
<1>3. CASE SpillCrashes \/ UNCHANGED vars
  <2>1. UNCHANGED <<conn, pc, job, got>>
    BY <1>3 DEF SpillCrashes, ProcessEnds, vars, netVars, workVars, localVars
  <2> QED
    BY <2>1 DEF Unanswered
<1>4. ASSUME NEW w \in Workers, Turn(w) PROVE Unanswered'
  <2>1. Alone(w)
    BY <1>4, TurnsAlone
  <2>2. CASE Takes(w)
    <3>1. PICK c \in Clients : /\ pc' = [pc EXCEPT ![w] = "read"] /\ job' = [job EXCEPT ![w] = c]
                               /\ conn' = [conn EXCEPT ![c] = "taken"] /\ conn[c] = "queued"
                               /\ UNCHANGED got
      BY <2>2 DEF Takes, Take, Goto
    <3> QED
      BY <1>1, <3>1 DEF Unanswered
  <2>3. CASE Close(w)
    <3>1. /\ pc' = [pc EXCEPT ![w] = "idle"] /\ job' = [job EXCEPT ![w] = NULL]
          /\ conn' = [conn EXCEPT ![job[w]] = "closed"] /\ pc[w] = "close"
          /\ UNCHANGED got
      BY <2>3 DEF Close, Goto
    <3> QED
      BY <1>1, <3>1 DEF Unanswered
  <2>4. ASSUME ~Takes(w), ~Close(w), pc'[w] = "close" \/ got'[job[w]].content = got[job[w]].content
        PROVE  Unanswered'
    <3>1. pc[w] \notin {"idle", "close"} /\ UNCHANGED <<conn, job>>
      BY <1>4, <2>4, TurnsStay
    <3>2. job[w] \in Clients /\ conn[job[w]] = "taken"
      BY <1>1, <3>1 DEF ServedOnce
    <3>3. \A c \in Clients : conn'[c] \in {"none", "queued"} => got'[c].content = <<>>
      BY <2>1, <3>1, <3>2 DEF Alone, Unanswered
    <3>4. ASSUME NEW u \in Workers, pc'[u] \notin {"idle", "close"}
          PROVE  got'[job'[u]].content = <<>>
      <4>1. CASE u = w
        BY <2>4, <3>1, <3>4, <4>1 DEF Unanswered
      <4>2. CASE u # w
        <5>1. pc[u] = pc'[u] /\ job'[u] = job[u]
          BY <2>1, <4>2 DEF Alone
        <5>2. job[u] \in Clients /\ job[u] # job[w]
          BY <1>1, <3>1, <3>4, <4>2, <5>1 DEF ServedOnce
        <5> QED
          BY <2>1, <3>4, <5>1, <5>2 DEF Alone, Unanswered
      <4> QED
        BY <4>1, <4>2
    <3> QED
      BY <3>3, <3>4 DEF Unanswered
  <2>5. CASE SendContent(w) \/ Reply(w)
    <3>1. pc' = [pc EXCEPT ![w] = "close"] /\ pc[w] \in {"content", "output"}
      BY <2>5 DEF SendContent, Reply, Goto
    <3>2. ~Takes(w) /\ ~Close(w)
      BY <3>1 DEF Takes, Take, Close
    <3> QED
      BY <1>1, <2>4, <3>1, <3>2
  <2>6. CASE SendHeader(w)
    <3>1. pc[w] = "header" /\ \E t : got' = [got EXCEPT ![job[w]].type = t]
      BY <2>6 DEF SendHeader
    <3>2. ~Takes(w) /\ ~Close(w) /\ job[w] \in Clients
      BY <1>1, <3>1 DEF Takes, Take, Close, ServedOnce
    <3>3. got'[job[w]].content = got[job[w]].content
      BY <1>1, <3>1, <3>2, SendsType
    <3> QED
      BY <2>4, <3>2, <3>3
  <2>7. CASE got' = got
    BY <2>2, <2>3, <2>4, <2>7
  <2>8. got' = got \/ SendHeader(w) \/ SendContent(w) \/ Reply(w)
    BY <1>4, TurnsSend
  <2> QED
    BY <2>5, <2>6, <2>7, <2>8
<1> QED
  BY <1>2, <1>3, <1>4, OtherSteps

(* A worker that stays where it is knows what it knew. *)
LEMMA SameFollows ==
  ASSUME NEW u \in Workers, pc'[u] = pc[u], job'[u] = job[u], buf'[u] = buf[u], req'[u] = req[u],
         path'[u] = path[u], asked'[job[u]] = asked[job[u]], got'[job[u]] = got[job[u]],
         Follows(u)
  PROVE  Follows(u)'
BY DEF Follows, Parsed, AsksFile, Answered

(* A step of one worker takes nothing from what another knows. *)
LEMMA OthersFollow ==
  ASSUME HttpInv, Understood, NEW w \in Workers, Turn(w), NEW u \in Workers, u # w,
         pc'[u] # "idle", job'[u] \in whole', WellFormed(asked'[job'[u]])
  PROVE  Follows(u)'
<1>1. Alone(w)
  BY TurnsAlone
<1>2. /\ pc'[u] = pc[u] /\ job'[u] = job[u] /\ buf'[u] = buf[u] /\ req'[u] = req[u]
      /\ path'[u] = path[u] /\ asked' = asked
  BY <1>1 DEF Alone
<1>3. job[u] \in Clients
  BY <1>2 DEF HttpInv, ServedOnce
<1>4. got'[job[u]] = got[job[u]] /\ job[u] \in whole
  <2>1. CASE Takes(w)
    <3>1. UNCHANGED <<got, whole>>
      BY <2>1 DEF Takes, Take
    <3> QED
      BY <1>2, <3>1
  <2>2. CASE pc[w] # "idle"
    <3>1. job[u] # job[w]
      BY <1>2, <2>2 DEF HttpInv, ServedOnce
    <3> QED
      BY <1>1, <1>2, <1>3, <3>1 DEF Alone
  <2>3. CASE Close(w)
    BY <2>2, <2>3 DEF Close
  <2> QED
    BY <2>1, <2>2, <2>3, TurnsStay
<1>5. Follows(u)
  BY <1>2, <1>4 DEF Understood
<1> QED
  BY <1>2, <1>4, <1>5, SameFollows

(* What a worker does with a request that it has read whole follows from   *)
(* that request.                                                           *)
LEMMA OwnFollows ==
  ASSUME HttpInv, ReadOnce, Unanswered, Understood, NEW w \in Workers, Turn(w),
         pc'[w] # "idle", job'[w] \in whole', WellFormed(asked'[job'[w]])
  PROVE  Follows(w)'
<1> USE DEF Goto, netVars, localVars, progVars, workVars
<1> DEFINE r == asked[job[w]]
<1>1. /\ DOMAIN pc = Workers /\ DOMAIN job = Workers /\ DOMAIN buf = Workers /\ DOMAIN req = Workers
      /\ DOMAIN path = Workers /\ DOMAIN got = Clients /\ buf[w] \in Buffers
  BY DEF HttpInv, NetTyped, WorkTyped
<1>2. pc[w] # "idle" => job[w] \in Clients /\ asked[job[w]] \in Requests
  BY DEF HttpInv, ServedOnce, NetTyped
<1>3. pc[w] # "idle" /\ job[w] \in whole /\ WellFormed(r) => Follows(w)
  BY DEF Understood
<1>4. CASE Takes(w)
  <2>1. pc'[w] = "read"
    BY <1>1, <1>4 DEF Takes, Take
  <2> QED
    BY <2>1 DEF Follows
<1>5. CASE Read(w)
  <2>1. pc[w] = "read" /\ pc'[w] = "parse" /\ job' = job /\ asked' = asked
    BY <1>1, <1>5 DEF Read
  <2> DEFINE t == Text(r)
  <2>2. t \in Seq(Alphabet)
    BY <1>2, <2>1, RequestIsText
  <2>3. Len(t) <= MaxBuf
    BY <2>1 DEF WellFormed
  <2>4. job[w] \notin whole
    BY <2>1 DEF ReadOnce, Served
  <2> HIDE DEF t
  <2>5. PICK n : /\ \E b \in Filled(w, SubSeq(t, 1, n)) : buf' = [buf EXCEPT ![w] = b]
                 /\ whole' = IF n = Len(t) THEN whole \cup {job[w]} ELSE whole
    BY <1>5 DEF Read, t
  <2>6. n = Len(t)
    BY <2>1, <2>4, <2>5
  <2>7. SubSeq(t, 1, n) = t
    BY <2>2, <2>6
  <2>8. PICK b \in Filled(w, t) : buf' = [buf EXCEPT ![w] = b]
    BY <2>5, <2>7
  <2>9. IsPrefix(t, b)
    BY <1>1, <2>2, <2>3, FilledBegins
  <2>10. IsPrefix(Text(asked'[job'[w]]), buf'[w])
    BY <1>1, <2>1, <2>8, <2>9 DEF t
  <2> QED
    BY <2>1, <2>10 DEF Follows
<1>6. ASSUME pc[w] \notin {"idle", "read"}, job' = job, asked' = asked, whole' = whole
      PROVE  r \in Requests /\ WellFormed(r) /\ Follows(w) /\ job[w] \in Clients
  BY <1>2, <1>3, <1>6
<1>7. CASE HttpRequestParse(w)
  <2>1. pc[w] = "parse" /\ pc'[w] = "route" /\ req'[w] = Parse(buf[w])
        /\ UNCHANGED <<job, asked, whole>>
    BY <1>1, <1>7 DEF HttpRequestParse
  <2>2. r \in Requests /\ WellFormed(r) /\ IsPrefix(Text(r), buf[w])
    BY <1>6, <2>1 DEF Follows
  <2>3. /\ req'[w].method = r.method
        /\ req'[w].uri = Cut(Target(r), MaxUri - 1)
        /\ r.method # "POST" => req'[w].length = <<>>
        /\ r.method = "POST" /\ r.length # <<>> => req'[w].length = r.length
        /\ r.method = "POST" /\ BodyIsFound(r) => Body(req'[w]) = r.body
    BY <1>1, <2>1, <2>2, ParseUnderstands
  <2>4. Parsed(w, r)'
    BY <2>1, <2>3 DEF Parsed
  <2> QED
    BY <2>1, <2>4 DEF Follows
<1>8. CASE RouteGet(w)
  <2> DEFINE uri == req[w].uri
             name == FilePath(Until(uri, IsQuery))
             p == IF Last(name) = "/" THEN name \o Index ELSE name
             cgi == \E i \in DOMAIN uri : IsQuery(uri[i])
  <2>1. /\ pc[w] = "route" /\ path'[w] = p /\ req[w].method = "GET"
        /\ pc'[w] = (IF ~Exists(p) THEN "close" ELSE IF cgi THEN "cgi" ELSE "header")
        /\ UNCHANGED <<job, asked, whole, req, got>>
    BY <1>1, <1>8 DEF RouteGet
  <2> HIDE DEF uri, p, name, cgi
  <2>2. r \in Requests /\ WellFormed(r) /\ Parsed(w, r)
    BY <1>6, <2>1 DEF Follows
  <2>3. Parsed(w, r)' /\ r.method = "GET"
    BY <2>1, <2>2 DEF Parsed
  <2>4. ASSUME Fits(r) PROVE p = Named(r) /\ (cgi <=> r.query # NoQuery)
    <3>1. Len(Target(r)) < MaxUri /\ Len(Htdocs \o r.path) < MaxPath
      BY <2>4 DEF Fits
    <3>2. uri = Target(r) /\ Until(uri, IsQuery) = r.path /\ (cgi <=> r.query # NoQuery)
      BY <2>2, <3>1, PathFound DEF Parsed, uri, cgi
    <3> QED
      BY <2>2, <3>1, <3>2, FileFound DEF p, name
  <2>5. CASE ~Exists(p)
    <3>1. AsksFile(r) => p = Named(r)
      BY <2>4 DEF AsksFile
    <3>2. got[job[w]].content = <<>>
      BY <2>1 DEF Unanswered
    <3>3. (AsksFile(r) => Answered(job[w]))'
      BY <2>1, <2>5, <3>1, <3>2 DEF Answered, AsksFile
    <3> QED
      BY <2>1, <2>5, <3>3 DEF Follows
  <2>6. CASE Exists(p) /\ cgi
    <3>1. ~AsksFile(r)
      BY <2>4, <2>6 DEF AsksFile
    <3> QED
      BY <2>1, <2>3, <2>6, <3>1 DEF Follows, AsksFile
  <2>7. CASE Exists(p) /\ ~cgi
    <3>1. Fits(r) => AsksFile(r) /\ p = Named(r)
      BY <2>3, <2>4, <2>7 DEF AsksFile
    <3> QED
      BY <2>1, <2>3, <2>7, <3>1 DEF Follows, AsksFile
  <2> QED
    BY <2>5, <2>6, <2>7
<1>9. CASE RoutePost(w)
  <2>1. /\ pc[w] = "route" /\ req[w].method = "POST" /\ pc'[w] \in {"cgi", "close"}
        /\ UNCHANGED <<job, asked, whole, req, got>>
    BY <1>1, <1>9 DEF RoutePost
  <2>2. Parsed(w, r)
    BY <1>6, <2>1 DEF Follows
  <2>3. Parsed(w, r)' /\ ~AsksFile(r)
    BY <2>1, <2>2 DEF Parsed, AsksFile
  <2> QED
    BY <2>1, <2>3 DEF Follows, AsksFile
<1>10. CASE RouteNone(w)
  <2>1. /\ pc[w] = "route" /\ req[w].method # "GET" /\ pc'[w] = "close"
        /\ UNCHANGED <<job, asked, whole, req, got>>
    BY <1>1, <1>10 DEF RouteNone
  <2>2. Parsed(w, r)
    BY <1>6, <2>1 DEF Follows
  <2>3. ~AsksFile(r)
    BY <2>1, <2>2 DEF Parsed, AsksFile
  <2> QED
    BY <2>1, <2>3 DEF Follows, AsksFile
<1>11. CASE SendHeader(w)
  <2>1. /\ pc[w] = "header" /\ pc'[w] = "content"
        /\ UNCHANGED <<job, asked, whole, path>>
    BY <1>1, <1>11 DEF SendHeader
  <2>2. PICK type \in FileTypes(path[w]) : got' = [got EXCEPT ![job[w]].type = type]
    BY <1>11 DEF SendHeader
  <2>3. Follows(w) /\ job[w] \in Clients
    BY <1>6, <2>1
  <2>4. got'[job[w]].type = type
    BY <2>2, <2>3, SendsType DEF HttpInv
  <2>5. Known(path[w]) => type = Extensions[Last(path[w])]
    BY <2>2 DEF FileTypes
  <2>6. (Fits(r) => AsksFile(r) /\ path[w] = Named(r) /\ Exists(path[w])) /\ r.method = "GET"
    BY <2>1, <2>3 DEF Follows
  <2>7. (Known(path[w]) => got[job[w]].type = Extensions[Last(path[w])])'
    BY <2>1, <2>4, <2>5 DEF Known
  <2> QED
    BY <2>1, <2>6, <2>7 DEF Follows, AsksFile
<1>12. CASE SendContent(w)
  <2>1. /\ pc[w] = "content" /\ pc'[w] = "close"
        /\ UNCHANGED <<job, asked, whole, path>>
        /\ got' = IF Readable(path[w])
                  THEN [got EXCEPT ![job[w]].content = Cut(Units(path[w]), MaxBuf)] ELSE got
    BY <1>1, <1>12 DEF SendContent
  <2>2. Follows(w) /\ job[w] \in Clients /\ got[job[w]].content = <<>>
    BY <1>6, <2>1 DEF Unanswered
  <2>3. ASSUME AsksFile(r) PROVE Answered(job[w])'
    <3>1. path[w] = Named(r) /\ Exists(Named(r))
          /\ (Known(Named(r)) => got[job[w]].type = Extensions[Last(Named(r))])
      BY <2>1, <2>2, <2>3 DEF Follows, AsksFile
    <3>2. Readable(Named(r)) => /\ got'[job[w]].content = Cut(Units(Named(r)), MaxBuf)
                                /\ got'[job[w]].type = got[job[w]].type
      <4> DEFINE page == Cut(Units(Named(r)), MaxBuf)
                 new == [type |-> got[job[w]].type, content |-> page]
      <4>1. Readable(Named(r)) => got' = [got EXCEPT ![job[w]].content = page]
        BY <2>1, <3>1
      <4> HIDE DEF page
      <4>2. Readable(Named(r)) => got' = [got EXCEPT ![job[w]] = new]
        BY <2>2, <4>1, AnswerChanged DEF HttpInv
      <4>3. new.type = got[job[w]].type /\ new.content = page
        OBVIOUS
      <4>4. Readable(Named(r)) => got'[job[w]] = new
        BY <1>1, <2>2, <4>2
      <4> QED
        BY <4>3, <4>4 DEF page
    <3>3. ~Readable(Named(r)) => got'[job[w]].content = <<>>
      BY <2>1, <2>2, <3>1
    <3> QED
      BY <2>1, <3>1, <3>2, <3>3 DEF Answered
  <2> QED
    BY <2>1, <2>3 DEF Follows, AsksFile
<1>13. ASSUME pc[w] \in {"cgi", "body", "output"}, UNCHANGED <<job, asked, req, whole>>,
              pc'[w] \in {"body", "output", "close"}
       PROVE  Follows(w)'
  <2>1. r \in Requests /\ WellFormed(r) /\ Follows(w) /\ job[w] \in Clients
    BY <1>6, <1>13
  <2>2. Parsed(w, r) /\ ~AsksFile(r)
    BY <1>13, <2>1 DEF Follows
  <2>3. Parsed(w, r)'
    BY <1>13, <2>2 DEF Parsed
  <2> QED
    BY <1>13, <2>2, <2>3 DEF Follows, AsksFile
<1>14. CASE StartProgram(w) \/ WriteBody(w) \/ Reply(w)
  <2>1. /\ pc[w] \in {"cgi", "body", "output"} /\ pc'[w] \in {"body", "output", "close"}
        /\ UNCHANGED <<job, asked, req, whole>>
    BY <1>1, <1>14 DEF StartProgram, WriteBody, Reply
  <2> QED
    BY <1>13, <2>1
<1>15. CASE Program(w)
  <2>1. UNCHANGED <<asked, got, pc, job, buf, req, path, whole>>
    BY <1>15 DEF Program, CollectRefuses, CollectReads, CollectOpens, CollectStores, CollectEnds,
                 ViewdataOpens, ViewdataReads, ViewdataEnds, Multi, Elsewhere
  <2>2. ~Takes(w) /\ ~Close(w)
    <3>1. prog[w] \in {"started", "read", "opened", "written"}
      BY <1>15 DEF Program, CollectRefuses, CollectReads, CollectOpens, CollectStores, CollectEnds,
                   ViewdataOpens, ViewdataReads, ViewdataEnds, Multi, Running
    <3>2. pc[w] \in {"body", "output"}
      BY <3>1 DEF HttpInv, Routed
    <3> QED
      BY <3>2 DEF Takes, Take, Close
  <2>3. Follows(w)
    BY <2>1 DEF Understood
  <2> QED
    BY <2>1, <2>3, SameFollows
<1>16. CASE NoProgram(w)
  <2>1. pc'[w] = "stuck"
    BY <1>1, <1>16 DEF NoProgram
  <2> QED
    BY <2>1 DEF Follows
<1>17. CASE Close(w)
  <2>1. pc'[w] = "idle"
    BY <1>1, <1>17 DEF Close
  <2> QED
    BY <2>1
<1>18. CASE HttpRequestParseCrashes(w) \/ SendHeaderCrashes(w) \/ WriteBodyKills(w)
  <2>1. UNCHANGED <<asked, got, pc, job, buf, req, path, whole>> /\ pc[w] \notin {"idle", "read"}
    BY <1>18 DEF HttpRequestParseCrashes, SendHeaderCrashes, WriteBodyKills, ProcessEnds
  <2> QED
    BY <1>6, <2>1, SameFollows
<1> QED
  BY <1>4, <1>5, <1>7, <1>8, <1>9, <1>10, <1>11, <1>12, <1>14, <1>15, <1>16, <1>17,
     <1>18 DEF Turn, Handle

(* Every worker goes on from what its request says. *)
LEMMA NextUnderstood ==
  ASSUME HttpInv, ReadOnce, Unanswered, Understood, [Next]_vars
  PROVE  Understood'
<1>1. /\ DOMAIN asked = Clients /\ \A w \in Workers : pc[w] # "idle" =>
           job[w] \in Clients /\ conn[job[w]] = "taken"
  BY DEF HttpInv, NetTyped, ServedOnce
<1>2. ASSUME NEW u \in Workers,
             UNCHANGED <<pc, job, buf, req, path, got, whole>>,
             asked'[job[u]] = asked[job[u]] \/ pc[u] = "idle",
             pc'[u] # "idle", job'[u] \in whole', WellFormed(asked'[job'[u]])
      PROVE  Follows(u)'
  <2>1. Follows(u)
    BY <1>2 DEF Understood
  <2> QED
    BY <1>2, <2>1, SameFollows
<1>3. CASE AnyAsk
  <2>1. PICK c \in Clients : conn[c] = "none" /\ \E r : asked' = [asked EXCEPT ![c] = r]
    BY <1>3 DEF AnyAsk, Ask
  <2>2. \A u \in Workers : asked'[job[u]] = asked[job[u]] \/ pc[u] = "idle"
    BY <1>1, <2>1
  <2>3. UNCHANGED <<pc, job, buf, req, path, got, whole>>
    BY <1>3 DEF AnyAsk, Ask, workVars, localVars
  <2> QED
    BY <1>2, <2>2, <2>3 DEF Understood
<1>4. CASE SpillCrashes \/ UNCHANGED vars
  <2>1. UNCHANGED <<pc, job, buf, req, path, got, whole, asked>>
    BY <1>4 DEF SpillCrashes, ProcessEnds, workVars, localVars, netVars, vars
  <2> QED
    BY <1>2, <2>1 DEF Understood
<1>5. ASSUME NEW w \in Workers, Turn(w) PROVE Understood'
  BY <1>5, OwnFollows, OthersFollow DEF Understood
<1> QED
  BY <1>3, <1>4, <1>5, OtherSteps

(* What a closed connection has received stays what it is. *)
LEMMA NextAnswersStay ==
  ASSUME HttpInv, ReadOnce, Understood, AnswersStay, [Next]_vars
  PROVE  AnswersStay'
<1>1. /\ DOMAIN asked = Clients /\ DOMAIN conn = Clients /\ whole \subseteq Clients
      /\ \A w \in Workers : pc[w] # "idle" => job[w] \in Clients /\ conn[job[w]] = "taken"
  BY DEF HttpInv, NetTyped, ServedOnce
<1>2. ASSUME NEW c \in Clients, c \in whole, conn[c] = "closed",
             asked'[c] = asked[c], got'[c] = got[c], WellFormed(asked[c]), AsksFile(asked[c])
      PROVE  Answered(c)'
  BY <1>2 DEF AnswersStay, Answered
<1>3. ASSUME UNCHANGED <<got, whole>>,
             \A c \in Clients : conn'[c] = "closed" => conn[c] = "closed" /\ asked'[c] = asked[c]
      PROVE  AnswersStay'
  BY <1>1, <1>2, <1>3 DEF AnswersStay
<1>4. CASE AnyAsk
  <2>1. PICK c \in Clients : /\ conn[c] = "none" /\ conn' = [conn EXCEPT ![c] = "queued"]
                             /\ \E r : asked' = [asked EXCEPT ![c] = r]
    BY <1>4 DEF AnyAsk, Ask
  <2>2. UNCHANGED <<got, whole>>
    BY <1>4 DEF AnyAsk, Ask
  <2> QED
    BY <1>1, <1>3, <2>1, <2>2
<1>5. CASE SpillCrashes \/ UNCHANGED vars
  <2>1. UNCHANGED <<asked, conn, got, whole>>
    BY <1>5 DEF SpillCrashes, ProcessEnds, netVars, vars
  <2> QED
    BY <1>3, <2>1
<1>6. ASSUME NEW w \in Workers, Turn(w) PROVE AnswersStay'
  <2>1. Alone(w)
    BY <1>6, TurnsAlone
  <2>2. CASE Close(w)
    <3>1. /\ pc[w] = "close" /\ conn' = [conn EXCEPT ![job[w]] = "closed"]
          /\ UNCHANGED <<asked, got, whole>>
      BY <2>2 DEF Close
    <3>2. ASSUME NEW c \in whole, c = job[w], WellFormed(asked[c]), AsksFile(asked[c])
          PROVE  Answered(c)'
      <4>1. Answered(c)
        BY <3>1, <3>2 DEF Understood, Follows
      <4> QED
        BY <3>1, <4>1 DEF Answered
    <3>3. ASSUME NEW c \in whole, conn'[c] = "closed", WellFormed(asked[c]), AsksFile(asked[c])
          PROVE  Answered(c)'
      <4>1. CASE c = job[w]
        BY <3>2, <3>3, <4>1
      <4>2. CASE c # job[w]
        <5>1. conn[c] = "closed" /\ c \in Clients
          BY <1>1, <3>1, <3>3, <4>2
        <5> QED
          BY <1>2, <3>1, <3>3, <5>1
      <4> QED
        BY <4>1, <4>2
    <3> QED
      BY <3>1, <3>3 DEF AnswersStay
  <2>3. CASE Takes(w)
    <3>1. UNCHANGED <<asked, got, whole>> /\ \E c \in Clients : conn' = [conn EXCEPT ![c] = "taken"]
      BY <2>3 DEF Takes, Take
    <3> QED
      BY <1>1, <1>3, <3>1
  <2>4. CASE ~Takes(w) /\ ~Close(w)
    <3>1. pc[w] # "idle" /\ conn' = conn
      BY <1>6, <2>4, TurnsStay
    <3>2. \A c \in Clients : conn[c] = "closed" => c # job[w] /\ got'[c] = got[c]
      BY <1>1, <2>1, <3>1 DEF Alone
    <3>3. \A c \in whole' : conn[c] = "closed" => c \in whole /\ c \in Clients
      BY <1>1, <2>1, <3>1 DEF Alone
    <3>4. asked' = asked
      BY <2>1 DEF Alone
    <3> QED
      BY <1>2, <3>1, <3>2, <3>3, <3>4 DEF AnswersStay
  <2> QED
    BY <2>2, <2>3, <2>4
<1> QED
  BY <1>4, <1>5, <1>6, OtherSteps

(***************************************************************************)
(* Pages.                                                                  *)
(***************************************************************************)

(* Says neither that a form is stored, nor what data.txt holds. *)
Plain(page) == ~Thanks(page) /\ ~ShowsData(page)

(* Which pages do. *)
LEMMA PageKinds ==
  /\ Plain(<<>>)
  /\ \A text \in {"refused", "no file", "no query"} : Plain(<<<<text>>>>)
  /\ \A q : Plain(Product(q))
  /\ \A p \in DOMAIN FileSize : Plain(Units(p))
  /\ ~ShowsData(<<<<"stored">>>>)
<1>1. /\ \A text : text # "stored" => <<text>> # <<"stored">>
      /\ \A a, b : <<a, b>> # <<"stored">>
      /\ \A text : <<text>> \notin {"data"} \X Alphabet
      /\ \A b : <<"a unit of", b>> \notin {"data"} \X Alphabet
  <2>1. /\ \A text : text # "stored" => <<text>> # <<"stored">>
        /\ \A a, b : <<a, b>> # <<"stored">>
    OBVIOUS
  <2>2. \A x \in {"data"} \X Alphabet : x[1] = "data" /\ Len(x) = 2
    OBVIOUS
  <2>3. \A b : <<"a unit of", b>>[1] = "a unit of"
    OBVIOUS
  <2>4. \A text : Len(<<text>>) = 1
    OBVIOUS
  <2>5. "a unit of" # "data"
    OBVIOUS
  <2>6. \A text : <<text>> \notin {"data"} \X Alphabet
    BY <2>2, <2>4
  <2>7. \A b : <<"a unit of", b>> \notin {"data"} \X Alphabet
    BY <2>2, <2>3, <2>5
  <2> QED
    BY <2>1, <2>6, <2>7
<1>2. \A x : <<x>> # <<>> /\ <<x>>[1] = x
  OBVIOUS
<1>3. ASSUME NEW text PROVE ~ShowsData(<<<<text>>>>) /\ (text # "stored" => ~Thanks(<<<<text>>>>))
  <2>1. <<<<text>>>>[1] = <<text>>
    BY <1>2
  <2> QED
    BY <1>1, <2>1 DEF ShowsData, Thanks
<1>4. Plain(<<>>)
  BY DEF Plain, Thanks, ShowsData
<1>5. \A text \in {"refused", "no file", "no query"} : Plain(<<<<text>>>>)
  BY <1>3 DEF Plain
<1>6. ASSUME NEW q PROVE Plain(Product(q))
  <2>1. Product(q) = <<<<"product">>>> \/ Product(q) = <<<<"invalid">>>>
    BY DEF Product
  <2>2. Plain(<<<<"product">>>>) /\ Plain(<<<<"invalid">>>>)
    BY <1>3 DEF Plain
  <2> QED
    BY <2>1, <2>2
<1>7. ASSUME NEW p \in DOMAIN FileSize PROVE Plain(Units(p))
  <2> DEFINE unit == <<"a unit of", p>>
             n == FileSize[p]
  <2>1. Units(p) = [i \in 1..n |-> unit] /\ n \in Nat
    BY HttpAssumption DEF Units
  <2>2. unit # <<"stored">> /\ unit \notin {"data"} \X Alphabet
    BY <1>1
  <2> HIDE DEF unit, n
  <2>3. Units(p) # <<>> => Units(p)[1] = unit
    <3>1. CASE n = 0
      BY <2>1, <3>1
    <3>2. CASE n # 0
      <4>1. 1 \in 1..n
        BY <2>1, <3>2
      <4> QED
        BY <2>1, <4>1
    <3> QED
      BY <3>1, <3>2
  <2> QED
    BY <2>2, <2>3 DEF Plain, Thanks, ShowsData
<1> QED
  BY <1>3, <1>4, <1>5, <1>6, <1>7

(* The beginning of a page is as it is. *)
LEMMA CutKeeps ==
  ASSUME NEW S, NEW s \in Seq(S), NEW n \in Nat
  PROVE  /\ Len(Cut(s, n)) \in Nat /\ Len(Cut(s, n)) <= Len(s)
         /\ \A i \in 1..Len(Cut(s, n)) : Cut(s, n)[i] = s[i]
         /\ Cut(s, n) # <<>> => s # <<>> /\ Cut(s, n)[1] = s[1]
<1> DEFINE t == Cut(s, n)
<1>1. Len(t) \in Nat /\ Len(t) <= Len(s) /\ \A i \in 1..Len(t) : t[i] = s[i]
  <2>1. CASE Len(s) <= n
    BY <2>1 DEF Cut
  <2>2. CASE ~(Len(s) <= n)
    <3>1. t = SubSeq(s, 1, n) /\ n < Len(s)
      BY <2>2 DEF Cut
    <3> QED
      BY <3>1
  <2> QED
    BY <2>1, <2>2
<1>2. t \in Seq(S)
  BY CutFits
<1> HIDE DEF t
<1>3. t # <<>> => 1 \in 1..Len(t) /\ s # <<>>
  BY <1>1, <1>2
<1>4. t # <<>> => s # <<>> /\ t[1] = s[1]
  BY <1>1, <1>3
<1> QED
  BY <1>1, <1>4 DEF t

LEMMA CutIsRight ==
  ASSUME NEW page \in Seq(PageUnits), NEW n \in Nat, NEW c, Right(page, c)
  PROVE  Right(Cut(page, n), c)
<1> DEFINE t == Cut(page, n)
<1>1. /\ Len(t) \in Nat /\ Len(t) <= Len(page)
      /\ \A i \in 1..Len(t) : t[i] = page[i]
      /\ t # <<>> => page # <<>> /\ t[1] = page[1]
  BY CutKeeps
<1> HIDE DEF t
<1>2. Thanks(t) => HasStored(c)
  BY <1>1 DEF Right, Thanks
<1>3. ShowsData(t) => IsOfData(page)
  BY <1>1 DEF Right, ShowsData
<1>4. ASSUME IsOfData(page) PROVE IsOfData(t)
  <2>1. Len(page) \in Nat /\ Len(page) <= Len(data)
    BY <1>4 DEF IsOfData
  <2>2. \A i \in 1..Len(t) : i \in 1..Len(page)
    BY <1>1, <2>1
  <2>3. \A i \in 1..Len(t) : t[i] = <<"data", data[i]>>
    BY <1>1, <1>4, <2>2 DEF IsOfData
  <2>4. Len(data) \in Nat => Len(t) <= Len(data)
    BY <1>1, <2>1
  <2> QED
    BY <2>3, <2>4 DEF IsOfData
<1> QED
  BY <1>2, <1>3, <1>4 DEF Right, t

(* What is in data.txt stays there, and so does who has stored. *)
LEMMA DataGrows ==
  ASSUME HttpInv, [Next]_vars
  PROVE  /\ Len(data) \in Nat /\ Len(data') \in Nat /\ Len(data) <= Len(data')
         /\ \A i \in 1..Len(data) : data'[i] = data[i]
         /\ \A c : HasStored(c) => HasStored(c)'
<1>1. data \in Seq(Alphabet) /\ Len(data) \in Nat
  BY DEF HttpInv, DataTyped
<1>2. CASE UNCHANGED <<data, stored>>
  BY <1>1, <1>2 DEF HasStored
<1>3. ASSUME NEW w \in Workers, CollectStores(w)
      PROVE  /\ Len(data) \in Nat /\ Len(data') \in Nat /\ Len(data) <= Len(data')
             /\ \A i \in 1..Len(data) : data'[i] = data[i]
             /\ \A c : HasStored(c) => HasStored(c)'
  <2>1. PICK line \in Seq(Alphabet) :
          data' = data \o line /\ Len(data') = Len(data) + Len(line) /\ Len(line) \in Nat
    BY <1>3, StoresAppend
  <2>2. \A i \in 1..Len(data) : data'[i] = data[i]
    BY <1>1, <2>1
  <2>3. \A c : HasStored(c) => HasStored(c)'
    BY <1>3, TurnsStore DEF Turn, Program
  <2> QED
    BY <1>1, <2>1, <2>2, <2>3
<1> QED
  BY <1>2, <1>3, NextChanges DEF Changes

(* A page that is right stays right. *)
LEMMA RightStays ==
  ASSUME HttpInv, [Next]_vars
  PROVE  /\ \A page \in Seq(PageUnits) : IsOfData(page) => IsOfData(page)'
         /\ \A page \in Seq(PageUnits) : \A c : Right(page, c) => Right(page, c)'
<1>1. /\ Len(data) \in Nat /\ Len(data') \in Nat /\ Len(data) <= Len(data')
      /\ \A i \in 1..Len(data) : data'[i] = data[i]
      /\ \A c : HasStored(c) => HasStored(c)'
  BY DataGrows
<1>2. ASSUME NEW page \in Seq(PageUnits), IsOfData(page) PROVE IsOfData(page)'
  <2>1. Len(page) \in Nat /\ Len(page) <= Len(data)
    BY <1>2 DEF IsOfData
  <2>2. \A i \in 1..Len(page) : i \in 1..Len(data)
    BY <1>1, <2>1
  <2>3. \A i \in 1..Len(page) : page[i] = <<"data", data'[i]>>
    BY <1>1, <1>2, <2>2 DEF IsOfData
  <2>4. Len(page) <= Len(data')
    BY <1>1, <2>1
  <2> QED
    BY <2>3, <2>4 DEF IsOfData
<1> QED
  BY <1>1, <1>2 DEF Right

(* A block of data.txt behind what has been shown of it. *)
LEMMA BlockIsNext ==
  ASSUME NEW page \in Seq(PageUnits), IsOfData(page), data \in Seq(Alphabet)
  PROVE  LET more == Shown(Cut(SubSeq(data, Len(page) + 1, Len(data)), Block)) IN
         page \o more \in Seq(PageUnits) /\ IsOfData(page \o more)
<1> DEFINE n == Len(page)
           N == Len(data)
           rest == SubSeq(data, n + 1, N)
           s == Cut(rest, Block)
           more == Shown(s)
<1>1. n \in Nat /\ N \in Nat /\ n <= N /\ \A i \in 1..n : page[i] = <<"data", data[i]>>
  BY DEF IsOfData
<1>2. rest \in Seq(Alphabet) /\ Len(rest) = N - n /\ \A i \in 1..N - n : rest[i] = data[n + i]
  <2> HIDE DEF n
  <2> QED
    BY <1>1
<1> HIDE DEF n, N, rest
<1>3. Block \in Nat
  BY HttpAssumption
<1>4. /\ s \in Seq(Alphabet) /\ Len(s) \in Nat /\ Len(s) <= N - n
      /\ \A i \in 1..Len(s) : s[i] = rest[i]
  <2>1. s \in Seq(Alphabet)
    BY <1>2, <1>3, CutFits
  <2>2. /\ Len(s) \in Nat /\ Len(s) <= Len(rest)
        /\ \A i \in 1..Len(s) : s[i] = rest[i]
    BY <1>2, <1>3, CutKeeps
  <2> QED
    BY <1>2, <2>1, <2>2
<1> HIDE DEF s
<1>5. /\ more \in Seq(PageUnits) /\ Len(more) = Len(s)
      /\ \A i \in 1..Len(s) : more[i] = <<"data", s[i]>>
  <2>1. more \in Seq(PageUnits) /\ Len(more) = Len(s)
    BY <1>4, PagesAreTyped
  <2>2. \A i \in 1..Len(s) : more[i] = <<"data", s[i]>>
    BY DEF Shown
  <2> QED
    BY <2>1, <2>2
<1> HIDE DEF more
<1> DEFINE m == Len(s)
<1>6. m \in Nat /\ m <= N - n /\ Len(more) = m
  BY <1>4, <1>5
<1>7. \A i \in 1..m : more[i] = <<"data", data[n + i]>>
  <2> SUFFICES ASSUME NEW i \in 1..m PROVE more[i] = <<"data", data[n + i]>>
    OBVIOUS
  <2>1. i \in 1..N - n
    BY <1>1, <1>6
  <2>2. s[i] = data[n + i]
    BY <1>2, <1>4, <2>1
  <2> QED
    BY <1>5, <2>2
<1> HIDE DEF m
<1>8. page \o more \in Seq(PageUnits)
  BY <1>5
<1>9. Len(page \o more) = n + m
  <2>1. page \in Seq(PageUnits) /\ more \in Seq(PageUnits)
    BY <1>5
  <2>2. Len(page \o more) = Len(page) + Len(more)
    BY <2>1
  <2> QED
    BY <1>6, <2>2 DEF n
<1>10. \A i \in 1..n + m : (page \o more)[i] = <<"data", data[i]>>
  <2> SUFFICES ASSUME NEW i \in 1..n + m PROVE (page \o more)[i] = <<"data", data[i]>>
    OBVIOUS
  <2>1. CASE i <= n
    <3>1. i \in 1..n
      BY <1>1, <1>6, <2>1
    <3>2. (page \o more)[i] = page[i]
      BY <1>5, <3>1 DEF n
    <3> QED
      BY <1>1, <3>1, <3>2
  <2>2. CASE ~(i <= n)
    <3>1. i - n \in 1..m /\ n + (i - n) = i
      BY <1>1, <1>6, <2>2
    <3>2. (page \o more)[i] = more[i - n]
      BY <1>5, <1>6, <2>2, <3>1 DEF n
    <3>3. more[i - n] = <<"data", data[n + (i - n)]>>
      BY <1>7, <3>1
    <3> QED
      BY <3>1, <3>2, <3>3
  <2> QED
    BY <2>1, <2>2
<1>11. n + m <= N
  BY <1>1, <1>6
<1>12. IsOfData(page \o more)
  BY <1>9, <1>10, <1>11 DEF IsOfData, N
<1> QED
  BY <1>8, <1>12 DEF more, s, rest, n, N

(* Who has collect run to its end has stored. *)
LEMMA StoresForIt ==
  ASSUME HttpInv, NEW w \in Workers, CollectStores(w)
  PROVE  HasStored(job[w])'
<1>1. PICK line \in Seq(Alphabet) :
        /\ stored' = Append(stored, [client |-> job[w], from |-> Len(data), to |-> Len(data) + Len(line)])
        /\ stored' \in Seq(Stretches)
  BY StoresAppend
<1> DEFINE new == [client |-> job[w], from |-> Len(data), to |-> Len(data) + Len(line)]
           all == Stretches \cup {new}
           k == Len(stored)
<1>2. new.client = job[w] /\ stored' = Append(stored, new) /\ stored \in Seq(all) /\ new \in all
  BY <1>1 DEF HttpInv, DataTyped
<1>3. job' = job
  BY DEF CollectStores, Elsewhere, localVars
<1> HIDE DEF new, all
<1>4. k + 1 \in DOMAIN stored' /\ stored'[k + 1] = new
  BY <1>2
<1> QED
  BY <1>2, <1>3, <1>4 DEF HasStored

(* Every page is right. *)
LEMMA NextPages ==
  ASSUME HttpInv, PagesRight, [Next]_vars
  PROVE  PagesRight'
<1> USE DEF netVars, localVars, progVars, workVars
<1> DEFINE HasIt(c) == \E i \in DOMAIN stored' : stored'[i].client = c
           OfData(page) == /\ Len(page) <= Len(data')
                           /\ \A i \in 1..Len(page) : page[i] = <<"data", data'[i]>>
           IsRight(page, c) == (Thanks(page) => HasIt(c)) /\ (ShowsData(page) => OfData(page))
           Good(u) == /\ IsRight(output'[u], job'[u])
                      /\ prog'[u] = "written" => HasIt(job'[u])
                      /\ prog'[u] = "opened" /\ Tree[path'[u]] = "viewdata" => OfData(output'[u])
<1>1. /\ DOMAIN output = Workers /\ DOMAIN prog = Workers /\ DOMAIN path = Workers
      /\ DOMAIN job = Workers /\ DOMAIN got = Clients
      /\ \A w \in Workers : output[w] \in Seq(PageUnits)
      /\ \A c \in Clients : got[c].content \in Seq(PageUnits)
      /\ \A w \in Workers : pc[w] # "idle" => job[w] \in Clients
      /\ data \in Seq(Alphabet)
  <2>1. \A c \in Clients : got[c] \in Answers
    BY DEF HttpInv, NetTyped
  <2>2. \A c \in Clients : got[c].content \in Seq(PageUnits)
    BY <2>1 DEF Answers, Pages
  <2> QED
    BY <2>2 DEF HttpInv, NetTyped, WorkTyped, ServedOnce, DataTyped
<1>2. /\ \A page \in Seq(PageUnits) : IsOfData(page) => OfData(page)
      /\ \A page \in Seq(PageUnits) : \A c : Right(page, c) => IsRight(page, c)
      /\ \A c : HasStored(c) => HasIt(c)
  <2>1. \A page \in Seq(PageUnits) : IsOfData(page) => OfData(page)
    BY RightStays, Zenon DEF IsOfData
  <2>2. \A c : HasStored(c) => HasIt(c)
    BY DataGrows, Zenon DEF HasStored
  <2> HIDE DEF OfData, HasIt
  <2> QED
    BY <2>1, <2>2 DEF Right
<1>3. /\ \A page, c : Plain(page) => IsRight(page, c)
      /\ \A page \in Seq(PageUnits) : \A c : OfData(page) => IsRight(page, c)
  <2>1. \A page, c : Plain(page) => IsRight(page, c)
    BY DEF Plain
  <2>2. ASSUME NEW page \in Seq(PageUnits), NEW c, OfData(page) PROVE IsRight(page, c)
    <3>1. page # <<>> => 1 \in 1..Len(page)
      OBVIOUS
    <3>2. page # <<>> => page[1] = <<"data", data'[1]>>
      BY <2>2, <3>1
    <3>3. <<"data", data'[1]>> # <<"stored">>
      OBVIOUS
    <3>4. ~Thanks(page)
      BY <3>2, <3>3 DEF Thanks
    <3> HIDE DEF OfData
    <3> QED
      BY <2>2, <3>4
  <2> QED
    BY <2>1, <2>2
<1>4. /\ \A w \in Workers : /\ Right(output[w], job[w])
                            /\ prog[w] = "written" => HasStored(job[w])
                            /\ prog[w] = "opened" /\ Tree[path[w]] = "viewdata" => IsOfData(output[w])
      /\ \A c \in Clients : Right(got[c].content, c)
  BY DEF PagesRight
<1>5. ASSUME \A u \in Workers : Good(u), \A c \in Clients : IsRight(got'[c].content, c)
      PROVE  PagesRight'
  BY <1>5, Zenon DEF PagesRight, Right, IsOfData, HasStored
<1> HIDE DEF HasIt, OfData
<1>7. ASSUME NEW u \in Workers, output'[u] = output[u], prog'[u] = prog[u], path'[u] = path[u],
             job'[u] = job[u]
      PROVE  Good(u)
  BY <1>1, <1>2, <1>4, <1>7
<1>8. \A c \in Clients : got'[c].content = got[c].content => IsRight(got'[c].content, c)
  BY <1>1, <1>2, <1>4
<1> HIDE DEF IsRight
<1>9. CASE AnyAsk \/ SpillCrashes \/ UNCHANGED vars
  <2>1. UNCHANGED <<output, prog, path, job, got>>
    BY <1>9 DEF AnyAsk, Ask, SpillCrashes, ProcessEnds, vars
  <2>2. \A u \in Workers : Good(u)
    BY <1>7, <2>1
  <2>3. \A c \in Clients : IsRight(got'[c].content, c)
    BY <1>8, <2>1
  <2> QED
    BY <1>5, <2>2, <2>3
<1>10. ASSUME NEW w \in Workers, Turn(w) PROVE \A c \in Clients : IsRight(got'[c].content, c)
  <2>1. Alone(w)
    BY <1>10, TurnsAlone
  <2>2. CASE got' = got
    BY <1>8, <2>2
  <2>3. ASSUME IsRight(got'[job[w]].content, job[w])
        PROVE  \A c \in Clients : IsRight(got'[c].content, c)
    BY <1>8, <2>1, <2>3 DEF Alone
  <2>4. CASE SendHeader(w)
    <3>1. pc[w] = "header" /\ \E t : got' = [got EXCEPT ![job[w]].type = t]
      BY <2>4 DEF SendHeader
    <3>2. job[w] \in Clients
      BY <1>1, <3>1
    <3>3. got'[job[w]].content = got[job[w]].content
      BY <3>1, <3>2, SendsType DEF HttpInv
    <3> QED
      BY <1>8, <2>3, <3>2, <3>3
  <2>5. CASE SendContent(w) /\ got' # got
    <3> DEFINE s == Cut(Units(path[w]), MaxBuf)
               new == [type |-> got[job[w]].type, content |-> s]
    <3>1. /\ pc[w] = "content" /\ Readable(path[w])
          /\ got' = [got EXCEPT ![job[w]].content = s]
      BY <2>5 DEF SendContent
    <3>2. job[w] \in Clients /\ path[w] \in DOMAIN FileSize
      BY <1>1, <3>1, HttpAssumption DEF HttpInv, Routed, Exists, Readable
    <3>3. Plain(s)
      <4>1. Units(path[w]) \in Seq(PageUnits) /\ Plain(Units(path[w])) /\ MaxBuf \in Nat
        BY <3>2, PageKinds, PagesAreTyped, HttpAssumption
      <4>2. s # <<>> => Units(path[w]) # <<>> /\ s[1] = Units(path[w])[1]
        BY <4>1, CutKeeps
      <4> QED
        BY <4>1, <4>2 DEF Plain, Thanks, ShowsData
    <3> HIDE DEF s
    <3>4. got' = [got EXCEPT ![job[w]] = new]
      BY <3>1, <3>2, AnswerChanged DEF HttpInv
    <3>5. new.content = s
      OBVIOUS
    <3>6. got'[job[w]].content = s
      BY <1>1, <3>2, <3>4, <3>5
    <3> QED
      BY <1>3, <2>3, <3>3, <3>6
  <2>6. CASE Reply(w)
    <3> DEFINE s == Cut(output[w], MaxContent)
               new == [type |-> "text/html", content |-> s]
    <3>1. pc[w] = "output" /\ got' = [got EXCEPT ![job[w]] = new]
      BY <2>6 DEF Reply
    <3>2. job[w] \in Clients
      BY <1>1, <3>1
    <3>3. Right(s, job[w])
      BY <1>1, <1>4, CutIsRight, HttpRequestAssumption
    <3>4. s \in Seq(PageUnits)
      BY <1>1, CutFits, HttpRequestAssumption
    <3> HIDE DEF s
    <3>5. new.content = s
      OBVIOUS
    <3>6. got'[job[w]].content = s
      BY <1>1, <3>1, <3>2, <3>5
    <3> QED
      BY <1>2, <2>3, <3>3, <3>4, <3>6
  <2> QED
    BY <1>10, <2>2, <2>4, <2>5, <2>6, TurnsSend
<1>11. ASSUME NEW w \in Workers, Turn(w) PROVE Good(w)
  <2>1. ASSUME output'[w] = <<>>, prog'[w] \in {"none", "started"}
        PROVE  Good(w)
    <3>1. IsRight(output'[w], job'[w])
      BY <1>3, <2>1, PageKinds
    <3> QED
      BY <2>1, <3>1
  <2>2. prog[w] \in {"none", "started"} => output[w] = <<>>
    BY DEF HttpInv, Routed
  <2>3. CASE Takes(w)
    <3>1. pc[w] = "idle" /\ prog' = prog /\ output' = output
      BY <2>3 DEF Takes, Take
    <3>2. prog[w] = "none"
      BY <3>1 DEF HttpInv, Routed
    <3> QED
      BY <2>1, <2>2, <3>1, <3>2
  <2>4. CASE Close(w)
    <3>1. prog'[w] = "none" /\ output'[w] = <<>>
      BY <1>1, <2>4 DEF Close
    <3> QED
      BY <2>1, <3>1
  <2>5. CASE RouteGet(w)
    <3>1. pc[w] = "route" /\ UNCHANGED <<output, prog>>
      BY <2>5 DEF RouteGet
    <3>2. prog[w] = "none"
      BY <3>1 DEF HttpInv, Routed
    <3> QED
      BY <2>1, <2>2, <3>1, <3>2
  <2>6. CASE RoutePost(w)
    <3>1. pc[w] = "route" /\ UNCHANGED <<output, prog>>
      BY <2>6 DEF RoutePost
    <3>2. prog[w] = "none"
      BY <3>1 DEF HttpInv, Routed
    <3> QED
      BY <2>1, <2>2, <3>1, <3>2
  <2>7. CASE StartProgram(w)
    <3>1. pc[w] = "cgi" /\ UNCHANGED output /\ prog'[w] = "started"
      BY <1>1, <2>7 DEF StartProgram
    <3>2. prog[w] = "none"
      BY <3>1 DEF HttpInv, Routed
    <3> QED
      BY <2>1, <2>2, <3>1, <3>2
  <2>8. CASE \/ Read(w) \/ HttpRequestParse(w) \/ HttpRequestParseCrashes(w) \/ RouteNone(w)
             \/ SendHeader(w) \/ SendHeaderCrashes(w) \/ SendContent(w) \/ NoProgram(w)
             \/ WriteBody(w) \/ WriteBodyKills(w) \/ Reply(w)
    <3>1. UNCHANGED <<output, prog, path, job>>
      BY <2>8 DEF Read, HttpRequestParse, HttpRequestParseCrashes, RouteNone, SendHeader,
                  SendHeaderCrashes, SendContent, NoProgram, WriteBody, WriteBodyKills, Reply,
                  ProcessEnds
    <3> QED
      BY <1>7, <3>1
  <2>9. ASSUME NEW page, Plain(page), output'[w] = page, prog'[w] = "ended"
        PROVE  Good(w)
    BY <1>3, <2>9
  <2>10. ASSUME output' = output, job' = job, prog'[w] \notin {"opened", "written"}
        PROVE  Good(w)
    BY <1>1, <1>2, <1>4, <2>10
  <2>11. CASE CollectRefuses(w)
    <3>1. output'[w] = <<<<"refused">>>> /\ prog'[w] = "ended"
      BY <1>1, <2>11 DEF CollectRefuses, Writes, Advances
    <3> QED
      BY <2>9, <3>1, PageKinds
  <2>12. CASE CollectReads(w) \/ ViewdataEnds(w)
    <3>1. UNCHANGED <<output, job>> /\ prog'[w] \in {"ended", "read"}
      BY <1>1, <2>12 DEF CollectReads, ViewdataEnds, Advances, Elsewhere
    <3> QED
      BY <2>10, <3>1
  <2>13. CASE CollectOpens(w)
    <3>1. UNCHANGED <<output, job, path>> /\ prog'[w] # "written" /\ Tree[path[w]] = "collect"
      BY <1>1, <2>13 DEF CollectOpens, Advances, Elsewhere, Running
    <3> QED
      BY <1>1, <1>2, <1>4, <3>1
  <2>14. CASE CollectStores(w)
    <3>1. UNCHANGED <<output, job>> /\ prog'[w] = "written"
      BY <1>1, <2>14 DEF CollectStores, Advances, Elsewhere
    <3>2. HasIt(job[w])
      BY <2>14, <3>1, StoresForIt DEF HasIt, HasStored
    <3> QED
      BY <1>1, <1>2, <1>4, <3>1, <3>2
  <2>15. CASE CollectEnds(w)
    <3>1. output'[w] = <<<<"stored">>>> /\ prog'[w] = "ended" /\ prog[w] = "written" /\ job' = job
      BY <1>1, <2>15 DEF CollectEnds, Writes, Advances, Elsewhere, Running
    <3>2. HasIt(job'[w])
      BY <1>2, <1>4, <3>1
    <3>3. IsRight(output'[w], job'[w])
      BY <3>1, <3>2, PageKinds DEF IsRight
    <3> QED
      BY <3>1, <3>3
  <2>16. CASE Multi(w)
    <3>1. PICK page \in {Product(query[w]), <<<<"no query">>>>} :
            output'[w] = page /\ prog'[w] = "ended"
      BY <1>1, <2>16 DEF Multi, Writes, Advances
    <3>2. Plain(page)
      BY PageKinds
    <3> QED
      BY <2>9, <3>1, <3>2
  <2>17. CASE ViewdataOpens(w)
    <3>1. prog[w] = "started" /\ \/ prog'[w] = "opened" /\ output' = output
                                 \/ prog'[w] = "ended" /\ output'[w] = <<<<"no file">>>>
      BY <1>1, <2>17 DEF ViewdataOpens, Writes, Advances, Running
    <3>2. CASE prog'[w] = "opened" /\ output' = output
      <4>1. output'[w] = <<>> /\ <<>> \in Seq(PageUnits)
        BY <2>2, <3>1, <3>2
      <4>2. IsOfData(<<>>)
        BY <1>1 DEF IsOfData
      <4>3. OfData(output'[w])
        BY <1>2, <4>1, <4>2
      <4> QED
        BY <1>3, <3>2, <4>1, <4>3
    <3>3. CASE prog'[w] = "ended" /\ output'[w] = <<<<"no file">>>>
      BY <2>9, <3>3, PageKinds
    <3> QED
      BY <3>1, <3>2, <3>3
  <2>18. CASE ViewdataReads(w)
    <3> DEFINE more == Shown(Cut(SubSeq(data, Len(output[w]) + 1, Len(data)), Block))
    <3>1. /\ output'[w] = output[w] \o more /\ prog'[w] = "opened" /\ prog[w] = "opened"
          /\ Tree[path[w]] = "viewdata"
      BY <1>1, <2>18 DEF ViewdataReads, Writes, Running
    <3>2. IsOfData(output[w])
      BY <1>4, <3>1
    <3>3. output[w] \o more \in Seq(PageUnits) /\ IsOfData(output[w] \o more)
      BY <1>1, <3>2, BlockIsNext
    <3> HIDE DEF more
    <3>4. OfData(output'[w]) /\ IsRight(output'[w], job'[w])
      BY <1>2, <1>3, <3>1, <3>3
    <3> QED
      BY <3>1, <3>4
  <2> QED
    BY <1>11, <2>3, <2>4, <2>5, <2>6, <2>7, <2>8, <2>11, <2>12, <2>13, <2>14, <2>15, <2>16, <2>17,
       <2>18 DEF Turn, Handle, Program
<1>12. ASSUME NEW w \in Workers, Turn(w) PROVE PagesRight'
  <2>1. Alone(w) /\ Good(w) /\ \A c \in Clients : IsRight(got'[c].content, c)
    BY <1>10, <1>11, <1>12, TurnsAlone
  <2>2. \A u \in Workers : Good(u)
    <3> SUFFICES ASSUME NEW u \in Workers, u # w PROVE Good(u)
      BY <2>1
    <3>1. output'[u] = output[u] /\ prog'[u] = prog[u] /\ path'[u] = path[u] /\ job'[u] = job[u]
      BY <2>1 DEF Alone
    <3> QED
      BY <1>7, <3>1
  <2> QED
    BY <1>5, <2>1, <2>2
<1> QED
  BY <1>9, <1>12, OtherSteps

(* The parts of a text that has been appended to. *)
LEMMA SubSeqKept ==
  ASSUME NEW S, NEW s \in Seq(S), NEW t \in Seq(S), NEW a \in Nat, NEW b \in Nat, b <= Len(s)
  PROVE  SubSeq(s \o t, a + 1, b) = SubSeq(s, a + 1, b)
<1>1. /\ s \o t \in Seq(S) /\ Len(s \o t) = Len(s) + Len(t)
      /\ \A i \in 1..Len(s) : (s \o t)[i] = s[i]
  OBVIOUS
<1> DEFINE u == s \o t
<1>2. u \in Seq(S) /\ b <= Len(u) /\ \A i \in 1..Len(s) : u[i] = s[i]
  BY <1>1
<1> HIDE DEF u
<1>3. SubSeq(u, a + 1, b) = SubSeq(s, a + 1, b)
  BY <1>2
<1> QED
  BY <1>3 DEF u

LEMMA SubSeqNew ==
  ASSUME NEW S, NEW s \in Seq(S), NEW t \in Seq(S)
  PROVE  SubSeq(s \o t, Len(s) + 1, Len(s) + Len(t)) = t
<1> DEFINE u == s \o t
           m == Len(s)
           n == Len(t)
<1>1. /\ u \in Seq(S) /\ Len(u) = m + n /\ m \in Nat /\ n \in Nat
      /\ \A i \in 1..n : u[m + i] = t[i]
  OBVIOUS
<1> HIDE DEF u, m
<1>2. /\ SubSeq(u, m + 1, m + n) \in Seq(S) /\ Len(SubSeq(u, m + 1, m + n)) = n
      /\ \A i \in 1..n : SubSeq(u, m + 1, m + n)[i] = u[m + i]
  BY <1>1
<1>3. SubSeq(u, m + 1, m + n) = t
  BY <1>1, <1>2
<1> QED
  BY <1>3 DEF u, m

(* What collect adds is what it makes of its own client's form. *)
LEMMA NextLinesRight ==
  ASSUME HttpInv, ReadOnce, Understood, LinesRight, [Next]_vars
  PROVE  LinesRight'
<1>1. /\ data \in Seq(Alphabet) /\ stored \in Seq(Stretches)
      /\ \A i \in DOMAIN stored : stored[i] \in Stretches /\ stored[i].to <= Len(data)
      /\ \A w \in Workers : pc[w] # "idle" => job[w] \in Clients
  BY DEF HttpInv, DataTyped, ServedOnce
<1>2. \A i \in DOMAIN stored :
        /\ Served(stored[i].client) /\ stored[i].client \in Clients
        /\ stored[i].from \in Nat /\ stored[i].to \in Nat
  BY <1>1 DEF Served, HasStored, Stretches
<1> DEFINE Holds(s, text) ==
      s.client \in whole' /\ WellFormed(asked'[s.client]) /\ BodyIsFound(asked'[s.client]) =>
        SubSeq(text, s.from + 1, s.to) = Line(asked'[s.client].length, asked'[s.client].body)
<1>3. SUFFICES \A i \in DOMAIN stored' : Holds(stored'[i], data')
  BY DEF LinesRight, LineOf
<1>4. \A i \in DOMAIN stored : asked'[stored[i].client] = asked[stored[i].client]
  <2>1. \A i \in DOMAIN stored : conn[stored[i].client] \in {"taken", "closed"}
    BY <1>2 DEF ReadOnce
  <2>2. CASE AnyAsk
    <3>1. PICK c \in Clients : conn[c] = "none" /\ \E r : asked' = [asked EXCEPT ![c] = r]
      BY <2>2 DEF AnyAsk, Ask
    <3>2. \A d : conn[d] \in {"taken", "closed"} => d # c
      BY <3>1
    <3> QED
      BY <2>1, <3>1, <3>2
  <2>3. CASE asked' = asked
    BY <2>3
  <2> QED
    BY <2>2, <2>3, NextChanges DEF Changes
<1>5. \A i \in DOMAIN stored : stored[i].client \in whole' => stored[i].client \in whole
  <2>1. CASE whole' = whole
    BY <2>1
  <2>2. ASSUME NEW w \in Workers, Read(w)
        PROVE  \A i \in DOMAIN stored : stored[i].client \in whole' => stored[i].client \in whole
    <3>1. whole' \subseteq whole \cup {job[w]} /\ pc[w] = "read"
      BY <2>2 DEF Read
    <3>2. ~Served(job[w])
      BY <3>1 DEF ReadOnce
    <3> QED
      BY <1>2, <3>1, <3>2
  <2> QED
    BY <2>1, <2>2, NextChanges DEF Changes
<1>6. \A i \in DOMAIN stored : Holds(stored[i], data)
  BY <1>4, <1>5 DEF LinesRight, LineOf
<1>7. CASE UNCHANGED <<data, stored>>
  BY <1>6, <1>7
<1>8. ASSUME NEW w \in Workers, CollectStores(w)
      PROVE  \A i \in DOMAIN stored' : Holds(stored'[i], data')
  <2>1. PICK line \in Seq(Alphabet) :
          /\ line = Line(req[w].length, Body(req[w])) /\ data' = data \o line
          /\ stored' = Append(stored, [client |-> job[w], from |-> Len(data), to |-> Len(data) + Len(line)])
    BY <1>8, StoresAppend
  <2> DEFINE n == Len(data)
             new == [client |-> job[w], from |-> n, to |-> n + Len(line)]
             all == Stretches \cup {new}
             k == Len(stored)
             r == asked[job[w]]
  <2>2. /\ prog[w] = "opened" /\ Tree[path[w]] = "collect"
        /\ UNCHANGED <<asked, whole, job>>
    BY <1>8 DEF CollectStores, Running, Elsewhere, netVars, localVars
  <2>3. pc[w] \in {"body", "output"} /\ ~Refuses(req[w].length)
    BY <2>2 DEF HttpInv, Routed
  <2>4. job[w] \in Clients
    BY <1>1, <2>3
  <2>5. ASSUME job[w] \in whole, WellFormed(r), BodyIsFound(r)
        PROVE  line = Line(r.length, r.body)
    <3>1. Parsed(w, r)
      BY <2>3, <2>5 DEF Understood, Follows
    <3>2. Refuses(<<>>)
      BY DEF Refuses
    <3>3. r.method = "POST"
      BY <2>3, <3>1, <3>2 DEF Parsed
    <3>4. req[w].length = r.length /\ Body(req[w]) = r.body
      BY <2>5, <3>1, <3>3 DEF Parsed, BodyIsFound
    <3> QED
      BY <2>1, <3>4
  <2>6. new.client = job[w] /\ new.from = n /\ new.to = n + Len(line)
    OBVIOUS
  <2>7. stored' = Append(stored, new) /\ stored \in Seq(all) /\ new \in all
    BY <1>1, <2>1
  <2> HIDE DEF new, all
  <2>8. k \in Nat /\ DOMAIN stored = 1..k /\ DOMAIN stored' = 1..k + 1
        /\ stored'[k + 1] = new /\ \A i \in 1..k : stored'[i] = stored[i]
    BY <2>7
  <2> HIDE DEF k
  <2>9. \A i \in 1..k + 1 : i \in 1..k \/ i = k + 1
    BY <2>8
  <2>10. ASSUME NEW i \in DOMAIN stored PROVE Holds(stored[i], data')
    <3> DEFINE from == stored[i].from
               to == stored[i].to
    <3>1. from \in Nat /\ to \in Nat /\ to <= n
      BY <1>1, <1>2
    <3> HIDE DEF from, to
    <3>2. SubSeq(data', from + 1, to) = SubSeq(data, from + 1, to)
      BY <1>1, <2>1, <3>1, SubSeqKept
    <3> QED
      BY <1>6, <3>2 DEF from, to
  <2>11. Holds(new, data')
    <3>1. SubSeq(data', n + 1, n + Len(line)) = line
      BY <1>1, <2>1, SubSeqNew
    <3> HIDE DEF n
    <3> QED
      BY <2>2, <2>5, <2>6, <3>1
  <2> HIDE DEF Holds
  <2> QED
    BY <2>8, <2>9, <2>10, <2>11
<1> QED
  BY <1>7, <1>8, NextChanges DEF Changes

(* Nothing that a harmless request leads to brings the server down. *)
LEMMA NextSurvives ==
  ASSUME HttpInv, ReadOnce, Understood, ServerSurvives, [Next]_vars
  PROVE  ServerSurvives'
<1> USE DEF netVars, localVars, progVars, workVars
<1>1. /\ NetTyped /\ WorkTyped /\ ServedOnce /\ Changes
      /\ \A c \in faults \cap whole : ~Harmless(asked[c])
      /\ server = "dead" => faults # {}
  BY NextChanges DEF HttpInv, ServerSurvives
<1>2. \A c \in Clients : Served(c) => asked'[c] = asked[c]
  <2>1. \A c \in Clients : Served(c) => conn[c] # "none"
    BY DEF ReadOnce
  <2>2. CASE AnyAsk
    <3>1. PICK c \in Clients : conn[c] = "none" /\ \E r : asked' = [asked EXCEPT ![c] = r]
      BY <2>2 DEF AnyAsk, Ask
    <3> QED
      BY <1>1, <2>1, <3>1 DEF NetTyped
  <2> QED
    BY <1>1, <2>2 DEF Changes
<1>3. ASSUME server' = "dead" PROVE faults' # {}
  <2>1. CASE UNCHANGED <<server, faults>>
    BY <1>1, <1>3, <2>1
  <2>2. CASE SpillCrashes
    BY <2>2 DEF SpillCrashes
  <2>3. ASSUME NEW w \in Workers, Turn(w) PROVE faults' # {}
    <3>1. CASE server' = server
      <4>1. faults \subseteq faults'
        BY <2>3, TurnsAlone DEF Alone
      <4> QED
        BY <1>1, <1>3, <3>1, <4>1
    <3>2. CASE server' # server
      <4>1. HttpRequestParseCrashes(w) \/ SendHeaderCrashes(w) \/ WriteBodyKills(w)
        BY <2>3, <3>2 DEF Turn, Handle, Takes, Take, Read, HttpRequestParse, RouteGet, RoutePost,
           RouteNone, SendHeader, SendContent, StartProgram, NoProgram, WriteBody, Reply, Close,
           Program, CollectRefuses, CollectReads, CollectOpens, CollectStores, CollectEnds,
           ViewdataOpens, ViewdataReads, ViewdataEnds, Multi, Elsewhere
      <4> QED
        BY <4>1 DEF HttpRequestParseCrashes, SendHeaderCrashes, WriteBodyKills, Faults
    <3> QED
      BY <3>1, <3>2
  <2>4. CASE AnyAsk \/ UNCHANGED vars
    <3>1. UNCHANGED <<server, faults>>
      BY <2>4 DEF AnyAsk, Ask, vars
    <3> QED
      BY <2>1, <3>1
  <2> QED
    BY <2>2, <2>3, <2>4, OtherSteps
<1>4. ASSUME NEW w \in Workers, pc[w] \notin {"idle", "read"}, job[w] \in whole,
             Harmless(asked[job[w]])
      PROVE  /\ asked[job[w]] \in Requests /\ WellFormed(asked[job[w]])
             /\ Follows(w) /\ buf[w] \in Buffers
  <2>1. asked[job[w]] \in Requests
    BY <1>1, <1>4, OwnRequest
  <2> QED
    BY <1>1, <1>4, <2>1 DEF Understood, Harmless, WorkTyped
<1>5. ASSUME NEW r \in Requests, Harmless(r), r.method = "GET"
      PROVE  /\ WellFormed(r) /\ Fits(r) /\ Len(Named(r)) < MaxPath /\ Len(Named(r)) \in Nat
             /\ r.query = NoQuery /\ Exists(Named(r)) =>
                  Readable(Named(r)) /\ Known(Named(r)) /\ FileSize[Named(r)] < MaxBuf
  <2>1. Len(Target(r)) < MaxUri /\ Len(Named(r)) < MaxPath /\ WellFormed(r)
    BY <1>5 DEF Harmless
  <2>2. /\ Len(Named(r)) \in Nat /\ Len(Htdocs \o r.path) <= Len(Named(r))
        /\ Len(Htdocs \o r.path) \in Nat /\ MaxPath \in Nat
    <3>1. Htdocs \in Seq(Alphabet) /\ r.path \in Seq(Alphabet)
      BY PartsAreText, HttpAssumption
    <3> QED
      BY <3>1, NamedIsLonger, HttpAssumption
  <2>3. Len(Htdocs \o r.path) < MaxPath
    BY <2>1, <2>2
  <2> QED
    BY <1>5, <2>1, <2>2, <2>3 DEF Harmless, Fits
<1>6. ASSUME NEW w \in Workers, pc[w] \in {"header", "content"}, job[w] \in whole,
             Harmless(asked[job[w]])
      PROVE  Readable(path[w]) /\ Known(path[w]) /\ FileSize[path[w]] < MaxBuf
  <2> DEFINE r == asked[job[w]]
  <2>1. r \in Requests /\ r.method = "GET" /\ Follows(w)
    BY <1>4, <1>6 DEF Follows
  <2>2. Fits(r)
    BY <1>5, <1>6, <2>1
  <2>3. r.query = NoQuery /\ path[w] = Named(r) /\ Exists(Named(r))
    BY <1>6, <2>1, <2>2 DEF Follows, AsksFile
  <2> QED
    BY <1>5, <1>6, <2>1, <2>3
<1>7. ASSUME NEW w \in Workers, Turn(w), job[w] \in faults', job[w] \notin faults,
             job[w] \in whole, Harmless(asked[job[w]])
      PROVE  FALSE
  <2> DEFINE r == asked[job[w]]
  <2>1. CASE HttpRequestParse(w) \/ HttpRequestParseCrashes(w)
    <3>1. pc[w] = "parse" /\ (ParseCrashes(buf[w]) \/ LengthSpills(buf[w]))
      BY <1>7, <2>1 DEF HttpRequestParse, HttpRequestParseCrashes, Faults
    <3>2. /\ r \in Requests /\ WellFormed(r) /\ buf[w] \in Buffers /\ IsPrefix(Text(r), buf[w])
          /\ r.method = "POST" => r.length # <<>>
      BY <1>4, <1>7, <3>1 DEF Follows, Harmless
    <3> QED
      BY <3>1, <3>2, ParseUnderstands
  <2>2. CASE RouteGet(w)
    <3> DEFINE uri == req[w].uri
               name == FilePath(Until(uri, IsQuery))
               p == IF Last(name) = "/" THEN name \o Index ELSE name
    <3>1. pc[w] = "route" /\ req[w].method = "GET" /\ Len(p) >= MaxPath
      BY <1>7, <2>2 DEF RouteGet, Faults
    <3>2. r \in Requests /\ Parsed(w, r) /\ r.method = "GET"
      BY <1>4, <1>7, <3>1 DEF Follows, Parsed
    <3>3. /\ WellFormed(r) /\ Len(Target(r)) < MaxUri /\ Len(Htdocs \o r.path) < MaxPath
          /\ Len(Named(r)) < MaxPath /\ Len(Named(r)) \in Nat
      BY <1>5, <1>7, <3>2 DEF Fits
    <3> HIDE DEF p, name, uri
    <3>4. uri = Target(r) /\ Until(uri, IsQuery) = r.path
      BY <3>2, <3>3, PathFound DEF Parsed, uri
    <3>5. p = Named(r)
      BY <3>2, <3>3, <3>4, FileFound DEF p, name
    <3> QED
      BY <3>1, <3>3, <3>5, HttpAssumption
  <2>3. CASE SendHeaderCrashes(w)
    BY <1>6, <1>7, <2>3 DEF SendHeaderCrashes
  <2>4. CASE SendContent(w)
    <3>1. pc[w] = "content" /\ (~Readable(path[w]) \/ FileSize[path[w]] >= MaxBuf)
      BY <1>7, <2>4 DEF SendContent, Faults
    <3>2. Readable(path[w]) /\ FileSize[path[w]] < MaxBuf
      BY <1>6, <1>7, <3>1
    <3>3. FileSize[path[w]] \in Nat /\ MaxBuf \in Nat
      BY <3>1, <3>2, HttpAssumption DEF HttpInv, Routed, Exists, Readable
    <3> QED
      BY <3>1, <3>2, <3>3
  <2>5. CASE WriteBodyKills(w)
    <3>1. pc[w] = "body" /\ prog[w] = "ended" /\ Atoi(req[w].length) > 0
      BY <2>5 DEF WriteBodyKills
    <3>2. req[w].method = "POST" /\ path[w] = FilePath(req[w].uri) /\ Exists(path[w])
      BY <3>1 DEF HttpInv, Routed
    <3>3. Parsed(w, r)
      BY <1>4, <1>7, <3>1 DEF Follows
    <3>4. r.method = "POST" /\ path[w] = FilePath(Cut(Target(r), MaxUri - 1))
      BY <3>2, <3>3 DEF Parsed
    <3>5. r.length # <<>> /\ Tree[path[w]] = "collect" /\ ~Refuses(r.length)
      BY <1>7, <3>2, <3>4 DEF Harmless
    <3>6. req[w].length = r.length
      BY <3>3, <3>4, <3>5 DEF Parsed
    <3>7. prog[w] = "started"
      BY <3>1, <3>5, <3>6 DEF HttpInv, Routed
    <3> QED
      BY <3>1, <3>7
  <2>6. CASE UNCHANGED faults
    BY <1>7, <2>6
  <2> QED
    BY <1>7, <2>1, <2>2, <2>3, <2>4, <2>5, <2>6 DEF Turn, Handle, Takes, Take, Read, RoutePost,
       RouteNone, SendHeader, StartProgram, NoProgram, WriteBody, Reply, Close,
       Program, CollectRefuses, CollectReads, CollectOpens, CollectStores, CollectEnds,
       ViewdataOpens, ViewdataReads, ViewdataEnds, Multi, Elsewhere
<1>8. ASSUME NEW c \in faults' \cap whole', Harmless(asked'[c]) PROVE FALSE
  <2>1. CASE UNCHANGED <<faults, whole>>
    <3>1. c \in faults /\ c \in whole
      BY <1>8, <2>1
    <3>2. asked'[c] = asked[c]
      BY <1>1, <1>2, <3>1 DEF NetTyped, Served
    <3> QED
      BY <1>1, <1>8, <3>1, <3>2
  <2>2. CASE AnyAsk \/ SpillCrashes \/ UNCHANGED vars
    <3>1. UNCHANGED <<faults, whole>>
      BY <2>2 DEF AnyAsk, Ask, SpillCrashes, ProcessEnds, vars
    <3> QED
      BY <2>1, <3>1
  <2>3. ASSUME NEW w \in Workers, Turn(w) PROVE FALSE
    <3>1. Alone(w)
      BY <2>3, TurnsAlone
    <3>2. CASE c \in faults /\ c \in whole
      BY <1>1, <1>8, <3>1, <3>2 DEF Alone
    <3>3. CASE c \notin whole
      <4>1. c = job[w] /\ whole' # whole
        BY <1>8, <3>1, <3>3 DEF Alone
      <4>2. ~Takes(w) /\ ~Close(w)
        BY <4>1 DEF Takes, Take, Close
      <4>3. pc[w] = "read"
        BY <2>3, <4>1, <4>2, TurnsStay
      <4>4. ~Served(c)
        BY <4>1, <4>3 DEF ReadOnce
      <4>5. c \notin faults
        BY <4>4 DEF Served
      <4>6. faults' = faults
        <5>1. Read(w) \/ faults' = faults
          BY <2>3, <4>3 DEF Turn, Handle, Takes, Take, HttpRequestParse, HttpRequestParseCrashes,
             RouteGet, RoutePost, RouteNone, SendHeader, SendHeaderCrashes, SendContent,
             StartProgram, NoProgram, WriteBody, WriteBodyKills, Reply, Close,
             Program, CollectRefuses, CollectReads, CollectOpens, CollectStores, CollectEnds,
             ViewdataOpens, ViewdataReads, ViewdataEnds, Multi, Elsewhere
        <5> QED
          BY <5>1 DEF Read
      <4> QED
        BY <1>8, <4>5, <4>6
    <3>4. CASE c \in whole /\ c \notin faults
      <4>1. c = job[w] /\ asked' = asked
        BY <1>8, <3>1, <3>4 DEF Alone
      <4> QED
        BY <1>7, <1>8, <2>3, <3>4, <4>1
    <3> QED
      BY <3>2, <3>3, <3>4
  <2> QED
    BY <2>2, <2>3, OtherSteps
<1> QED
  BY <1>3, <1>8 DEF ServerSurvives

(* AnswerInv holds in every state that is reached. *)
LEMMA AnswerInductive == Spec => []AnswerInv
<1>1. ASSUME AnswerInv, [Next]_vars PROVE AnswerInv'
  <2>1. HttpInv' /\ ReadOnce' /\ Unanswered'
    BY <1>1, NextNet, NextWork, NextData, NextServed, NextSizes, NextRouted, NextReadOnce,
       NextUnanswered DEF AnswerInv, HttpInv
  <2>2. Understood' /\ AnswersStay'
    BY <1>1, NextUnderstood, NextAnswersStay DEF AnswerInv
  <2>3. PagesRight' /\ LinesRight' /\ ServerSurvives'
    BY <1>1, NextPages, NextLinesRight, NextSurvives DEF AnswerInv
  <2> QED
    BY <2>1, <2>2, <2>3 DEF AnswerInv
<1> QED
  BY InitAnswers, <1>1, PTL DEF Spec

(* A well-formed request that one read got whole is understood as it was   *)
(* meant, for any left-over in rd_buf, any other headers and any sizes;    *)
(* a POST's program is given its body and nothing else (http.c:35-64, 177).*)
THEOREM WholeRequestsUnderstood == Spec => []RequestUnderstood
<1>1. AnswerInv => RequestUnderstood
  <2> SUFFICES ASSUME AnswerInv, NEW w \in Workers, pc[w] = "route", job[w] \in whole,
                      WellFormed(asked[job[w]])
               PROVE  Parsed(w, asked[job[w]])
    BY DEF RequestUnderstood, Parsed
  <2> QED
    BY DEF AnswerInv, Understood, Follows
<1> QED
  BY AnswerInductive, <1>1, PTL

(* For every tree of files and every mix of clients, who asks for a file   *)
(* in one piece receives that file, as far as response_content holds it,   *)
(* and no other (http.c:66-109, 196-224).                                  *)
THEOREM FilesAnswered == Spec => []FileAnswered
<1>1. AnswerInv => FileAnswered
  BY DEF AnswerInv, AnswersStay, FileAnswered, AsksFile, Answered
<1> QED
  BY AnswerInductive, <1>1, PTL

(* A harmless request that has come whole writes outside no array, follows *)
(* no pointer that is not set and meets no signal, whichever requests, of  *)
(* any lengths, are served before it and beside it (http.c:51-62, 80, 98,  *)
(* 177, 211-213).                                                          *)
THEOREM HarmlessSurvived == Spec => []ServerSurvives
<1>1. AnswerInv => ServerSurvives
  BY DEF AnswerInv
<1> QED
  BY AnswerInductive, <1>1, PTL

(* A page that shows data.txt shows the beginning of it, however long the  *)
(* text is, however many blocks viewdata reads it in and whichever         *)
(* collects append to it meanwhile (collect.c:46-51, viewdata.c:6-18).     *)
THEOREM PagesAreOfData == Spec => []PageIsOfData
<1>1. AnswerInv => PageIsOfData
  <2> SUFFICES ASSUME AnswerInv PROVE PageIsOfData
    OBVIOUS
  <2>1. ASSUME NEW page \in Seq(PageUnits), IsOfData(page)
        PROVE  IsPrefix(page, Shown(data))
    <3>1. data \in Seq(Alphabet)
      BY DEF AnswerInv, HttpInv, DataTyped
    <3> DEFINE n == Len(page)
               N == Len(data)
               shown == Shown(data)
    <3>2. n \in Nat /\ N \in Nat /\ n <= N
      BY <2>1, <3>1 DEF IsOfData
    <3>3. shown \in Seq({"data"} \X Alphabet) /\ Len(shown) = N
          /\ \A i \in 1..N : shown[i] = <<"data", data[i]>>
      BY <3>1 DEF Shown
    <3>4. \A i \in 1..n : page[i] = <<"data", data[i]>>
      BY <2>1 DEF IsOfData
    <3> HIDE DEF n, N, shown
    <3>5. \A i \in 1..n : page[i] = shown[i]
      BY <3>2, <3>3, <3>4
    <3>6. SubSeq(page, 1, n) = SubSeq(shown, 1, n)
      BY <3>2, <3>3, <3>5
    <3> QED
      BY <3>2, <3>3, <3>6 DEF IsPrefix, n, shown
  <2>2. ASSUME NEW w \in Workers, ShowsData(output[w])
        PROVE  IsPrefix(output[w], Shown(data))
    <3>1. output[w] \in Seq(PageUnits)
      BY DEF AnswerInv, HttpInv, WorkTyped
    <3> QED
      BY <2>1, <2>2, <3>1 DEF AnswerInv, PagesRight, Right
  <2>3. ASSUME NEW c \in Clients, ShowsData(got[c].content)
        PROVE  IsPrefix(got[c].content, Shown(data))
    <3>1. got[c].content \in Seq(PageUnits)
      BY DEF AnswerInv, HttpInv, NetTyped, Answers, Pages
    <3> QED
      BY <2>1, <2>3, <3>1 DEF AnswerInv, PagesRight, Right
  <2> QED
    BY <2>2, <2>3 DEF PageIsOfData
<1> QED
  BY AnswerInductive, <1>1, PTL

(* What collects append stands whole in data.txt, one behind the other;    *)
(* for every text that a user types and a browser sends in one piece it is *)
(* that text and a line end, with escapes of every kind, and who is told   *)
(* so has a line there.  No worker takes the form of another's client, or  *)
(* one that an earlier client has left (http.c:143-193, collect.c:10-53).  *)
THEOREM TypedIsStored == Spec => []StoredIsTyped
<1>1. AnswerInv => StoredIsTyped
  <2> SUFFICES ASSUME AnswerInv PROVE StoredIsTyped
    OBVIOUS
  <2>1. NetTyped /\ DataTyped /\ ReadOnce /\ LinesRight /\ PagesRight
    BY DEF AnswerInv, HttpInv
  <2>2. ASSUME NEW i \in DOMAIN stored, GoodForm(stored[i].client)
        PROVE  LineOf(stored[i]) = asked[stored[i].client].typed \o <<NewLine>>
    <3> DEFINE c == stored[i].client
               r == asked[c]
    <3>1. c \in Clients /\ Served(c)
      <4>1. stored[i] \in Stretches
        BY <2>1 DEF DataTyped
      <4>2. HasStored(c)
        BY DEF HasStored
      <4> QED
        BY <4>1, <4>2 DEF Stretches, Served
    <3>2. r \in Requests
      BY <2>1, <3>1 DEF ReadOnce, NetTyped
    <3>3. c \in whole /\ WellFormed(r) /\ BodyIsFound(r) /\ IsForm(r.body, r.typed)
      BY <2>2 DEF GoodForm
    <3>4. LineOf(stored[i]) = Line(r.length, r.body)
      BY <2>1, <3>3 DEF LinesRight
    <3> QED
      BY <3>2, <3>3, <3>4, LineIsTyped
  <2>3. \A i \in DOMAIN stored :
          stored[i].from = IF i = 1 THEN Len(OldData) ELSE stored[i - 1].to
    BY <2>1 DEF DataTyped
  <2>4. Len(data) = IF stored = <<>> THEN Len(OldData) ELSE Last(stored).to
    BY <2>1 DEF DataTyped, Last
  <2>5. ASSUME NEW c \in Clients, Told(c)
        PROVE  \E i \in DOMAIN stored : stored[i].client = c
    <3>1. Thanks(got[c].content)
      BY <2>5 DEF Told, Thanks
    <3> QED
      BY <2>1, <3>1 DEF PagesRight, Right, HasStored
  <2> QED
    BY <2>2, <2>3, <2>4, <2>5 DEF StoredIsTyped
<1> QED
  BY AnswerInductive, <1>1, PTL

=============================================================================
