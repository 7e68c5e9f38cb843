---------------------------- MODULE DataInduction ----------------------------
(***************************************************************************)
(* Induction and recursion on data.  The library states these with an      *)
(* operator as a parameter; here sets and functions take its place: a      *)
(* property of numbers is the set that has it, a step of a recursion is a  *)
(* function.                                                               *)
(***************************************************************************)
EXTENDS Integers, Sequences, SequencesExt, TLAPS, WellFoundedInduction, SequenceTheorems

(* A set of numbers that is not empty has a least one. *)
LEMMA LeastOne ==
  ASSUME NEW I \in SUBSET Nat, I # {}
  PROVE  \E k \in I : \A i \in I : k <= i
<1> DEFINE less == {ss \in Nat \X Nat : ss[1] < ss[2]}
<1>1. IsWellFoundedOn(less, Nat)
  BY NatLessThanWellFounded DEF OpToRel
<1>2. PICK x \in I : \A y \in I : <<y, x>> \notin less
  <2> HIDE DEF less
  <2> QED
    BY <1>1, WFMin
<1>3. ASSUME NEW y \in I PROVE x <= y
  <2>1. ~(y < x)
    BY <1>2, <1>3
  <2> QED
    BY <2>1
<1> QED
  BY <1>3

(* Min finds it. *)
LEMMA MinIs ==
  ASSUME NEW I \in SUBSET Nat, NEW k \in I, \A i \in I : k <= i
  PROVE  Min(I) = k
<1> DEFINE Least(x) == \A y \in I : x <= y
<1>1. \A x \in I : Least(x) <=> x = k
  <2> TAKE x \in I
  <2>1. x \in Nat /\ k \in Nat
    OBVIOUS
  <2>2. ASSUME Least(x) PROVE x = k
    <3>1. x <= k /\ k <= x
      BY <2>2
    <3> QED
      BY <2>1, <3>1
  <2> QED
    BY <2>2
<1>2. Min(I) = CHOOSE x \in I : Least(x)
  BY DEF Min
<1>3. (CHOOSE x \in I : Least(x)) = CHOOSE x \in I : x = k
  BY <1>1
<1> QED
  BY <1>2, <1>3

(* It is one of them. *)
LEMMA MinExists ==
  ASSUME NEW I \in SUBSET Nat, I # {}
  PROVE  Min(I) \in I
<1>1. PICK k \in I : \A i \in I : k <= i
  BY LeastOne
<1> QED
  BY <1>1, MinIs

(* A set that has 0, and behind each number up to n the next, has all of them. *)
LEMMA Induction ==
  ASSUME NEW n \in Nat, NEW I, 0 \in I, \A k \in 1..n : k - 1 \in I => k \in I
  PROVE  \A k \in 0..n : k \in I
<1> DEFINE J == (0..n) \ I
<1>1. SUFFICES ASSUME J # {} PROVE FALSE
  OBVIOUS
<1>2. PICK k \in J : \A i \in J : k <= i
  <2>1. J \in SUBSET Nat
    OBVIOUS
  <2> QED
    BY <1>1, <2>1, LeastOne
<1>3. k \in 1..n /\ k - 1 \in 0..n /\ k - 1 \notin J /\ k \in 0..n /\ k \notin I
  BY <1>2
<1> QED
  BY <1>3

(***************************************************************************)
(* A recursion over 1..N with values in V: up to L the value at i is made  *)
(* by a step from the value at a later place next[i], behind L it is       *)
(* given.  A function with these values exists.                            *)
(***************************************************************************)
Steps(V, N, L, base, next, step) ==
  /\ base \in [1..N -> V] /\ step \in [1..N -> [V -> V]]
  /\ next \in [1..N -> Nat] /\ \A i \in 1..L : i < next[i] /\ next[i] <= N

Solves(f, N, L, base, next, step) ==
  \A i \in 1..N : f[i] = IF i > L THEN base[i] ELSE step[i][f[next[i]]]

LEMMA Recursion ==
  ASSUME NEW V, NEW N \in Nat, NEW L \in 0..N, NEW base, NEW next, NEW step,
         Steps(V, N, L, base, next, step)
  PROVE  \E f \in [1..N -> V] : Solves(f, N, L, base, next, step)
<1> USE DEF Steps
<1> DEFINE Right(f, i) == f[i] = IF i > L THEN base[i] ELSE step[i][f[next[i]]]
           I == {k \in Nat : \E f \in [1..N -> V] : \A i \in (N - k + 1)..N : i >= 1 => Right(f, i)}
<1>1. 0 \in I
  <2>1. \A i \in (N - 0 + 1)..N : FALSE
    OBVIOUS
  <2> QED
    BY <2>1
<1>2. ASSUME NEW k \in 1..N, k - 1 \in I PROVE k \in I
  <2>1. PICK f \in [1..N -> V] : \A i \in (N - (k - 1) + 1)..N : i >= 1 => Right(f, i)
    BY <1>2
  <2> DEFINE m == N - k + 1
             v == IF m > L THEN base[m] ELSE step[m][f[next[m]]]
             g == [f EXCEPT ![m] = v]
  <2>2. m \in 1..N
    OBVIOUS
  <2>3. v \in V
    <3>1. CASE m > L
      BY <2>2, <3>1
    <3>2. CASE ~(m > L)
      <4>1. m \in 1..L /\ next[m] \in 1..N
        BY <2>2, <3>2
      <4>2. f[next[m]] \in V /\ step[m] \in [V -> V]
        BY <2>2, <4>1
      <4> QED
        BY <3>2, <4>2
    <3> QED
      BY <3>1, <3>2
  <2>4. g \in [1..N -> V] /\ g[m] = v /\ \A i \in 1..N : i # m => g[i] = f[i]
    <3> HIDE DEF v, m
    <3> QED
      BY <2>2, <2>3
  <2>5. \A i \in 1..L : next[i] \in 1..N /\ i < next[i]
    OBVIOUS
  <2>6. ASSUME NEW i \in m..N PROVE Right(g, i)
    <3>1. i \in 1..N /\ (i <= L => next[i] # m /\ next[i] \in 1..N)
      BY <2>2, <2>5
    <3>2. i <= L => g[next[i]] = f[next[i]]
      BY <2>4, <3>1
    <3>3. CASE i = m
      <4> HIDE DEF g
      <4> QED
        BY <2>4, <3>1, <3>2, <3>3
    <3>4. CASE i # m
      <4>1. i \in (N - (k - 1) + 1)..N /\ i >= 1
        BY <2>2, <3>4
      <4>2. Right(f, i) /\ g[i] = f[i]
        BY <2>1, <2>4, <3>1, <3>4, <4>1
      <4> HIDE DEF g
      <4> QED
        BY <3>1, <3>2, <4>2
    <3> QED
      BY <3>3, <3>4
  <2>7. \A i \in (N - k + 1)..N : i >= 1 => Right(g, i)
    BY <2>6
  <2>8. g \in [1..N -> V] /\ k \in Nat
    BY <2>4
  <2> HIDE DEF g, Right
  <2> QED
    BY <2>7, <2>8
<1>3. N \in I
  <2> HIDE DEF I
  <2>1. \A k \in 0..N : k \in I
    BY <1>1, <1>2, Induction
  <2> QED
    BY <2>1
<1>4. PICK f \in [1..N -> V] : \A i \in (N - N + 1)..N : i >= 1 => Right(f, i)
  BY <1>3
<1>5. \A i \in 1..N : Right(f, i)
  BY <1>4
<1> QED
  BY <1>5 DEF Solves

(* A recursion over 0..N whose value at i is made of that at i - 1. *)
Climbs(f, N, base, step) == f[0] = base /\ \A i \in 1..N : f[i] = step[i][f[i - 1]]

(* There is one from each value at 0. *)
LEMMA RecursionUp ==
  ASSUME NEW V, NEW N \in Nat, NEW base \in V, NEW step, step \in [1..N -> [V -> V]]
  PROVE  \E f \in [0..N -> V] : Climbs(f, N, base, step)
<1> DEFINE M == N + 1
           bases == [i \in 1..M |-> base]
           next == [i \in 1..M |-> i + 1]
           steps == [i \in 1..M |-> IF i <= N THEN step[M - i] ELSE [v \in V |-> v]]
<1>1. M \in Nat /\ N \in 0..M
  OBVIOUS
<1>2. bases \in [1..M -> V] /\ next \in [1..M -> Nat]
      /\ \A i \in 1..N : i < next[i] /\ next[i] <= M
  OBVIOUS
<1>3. steps \in [1..M -> [V -> V]]
  <2>1. \A i \in 1..N : M - i \in 1..N
    OBVIOUS
  <2> QED
    BY <2>1
<1>4. PICK g \in [1..M -> V] : Solves(g, M, N, bases, next, steps)
  <2> HIDE DEF M, bases, next, steps
  <2>1. Steps(V, M, N, bases, next, steps)
    BY <1>2, <1>3 DEF Steps
  <2> QED
    BY <1>1, <2>1, Recursion
<1> DEFINE f == [i \in 0..N |-> g[M - i]]
<1>5. f \in [0..N -> V]
  OBVIOUS
<1>6. f[0] = base
  <2>1. M \in 1..M /\ M > N /\ f[0] = g[M]
    OBVIOUS
  <2>2. g[M] = bases[M] /\ bases[M] = base
    <3> HIDE DEF steps, next, M
    <3> QED
      BY <1>4, <2>1 DEF Solves
  <2> QED
    BY <2>1, <2>2
<1>7. ASSUME NEW i \in 1..N PROVE f[i] = step[i][f[i - 1]]
  <2>1. M - i \in 1..M /\ M - i <= N /\ M - (M - i) = i /\ M - i + 1 = M - (i - 1) /\ i - 1 \in 0..N
    OBVIOUS
  <2>2. g[M - i] = steps[M - i][g[next[M - i]]]
    <3> HIDE DEF bases, steps, next, M
    <3> QED
      BY <1>4, <2>1 DEF Solves
  <2>3. steps[M - i] = step[i] /\ next[M - i] = M - (i - 1)
    BY <2>1
  <2> QED
    BY <2>1, <2>2, <2>3
<1> QED
  BY <1>5, <1>6, <1>7 DEF Climbs

(* The elements of two sequences in a row. *)
LEMMA Joined ==
  ASSUME NEW S, NEW s \in Seq(S), NEW t \in Seq(S)
  PROVE  /\ s \o t \in Seq(S) /\ Len(s \o t) = Len(s) + Len(t)
         /\ Len(s) \in Nat /\ Len(t) \in Nat /\ Len(s) <= Len(s \o t)
         /\ \A i \in 1..Len(s) : (s \o t)[i] = s[i]
         /\ \A j \in 1..Len(t) : Len(s) + j \in 1..Len(s \o t) /\ (s \o t)[Len(s) + j] = t[j]
OBVIOUS

(* A flattened sequence is its parts, added one after the other. *)
LEMMA Unflattens ==
  ASSUME NEW S, NEW ss \in Seq(Seq(S))
  PROVE  \E f \in [0..Len(ss) -> Seq(S)] :
           /\ f[0] = <<>> /\ FlattenSeq(ss) = f[Len(ss)]
           /\ \A i \in 1..Len(ss) : f[i] = f[i - 1] \o ss[i]
<1> DEFINE n == Len(ss)
           step == [i \in 1..n |-> [v \in Seq(S) |-> v \o ss[i]]]
<1>1. n \in Nat /\ \A i \in 1..n : ss[i] \in Seq(S)
  OBVIOUS
<1>2. step \in [1..n -> [Seq(S) -> Seq(S)]]
  <2>1. \A i \in 1..n : \A v \in Seq(S) : v \o ss[i] \in Seq(S)
    BY <1>1
  <2> QED
    BY <2>1
<1>3. PICK f \in [0..n -> Seq(S)] : f[0] = <<>> /\ \A i \in 1..n : f[i] = step[i][f[i - 1]]
  <2> DEFINE V == Seq(S)
  <2>1. <<>> \in V /\ step \in [1..n -> [V -> V]]
    BY <1>2
  <2> HIDE DEF n, step, V
  <2>2. \E f \in [0..n -> V] : Climbs(f, n, <<>>, step)
    BY <1>1, <2>1, RecursionUp
  <2> QED
    BY <2>2 DEF V, Climbs
<1>4. \A i \in 1..n : f[i] = f[i - 1] \o ss[i] /\ f[i] \in Seq(S) /\ f[i - 1] \in Seq(S)
  <2>1. \A i \in 1..n : i - 1 \in 0..n /\ i \in 0..n
    OBVIOUS
  <2> QED
    BY <1>3, <2>1
<1> HIDE DEF n, step
<1>5. FlattenSeq(ss) = f[n]
  <2>1. CASE n = 0
    BY <1>3, <2>1 DEF FlattenSeq, n
  <2>2. CASE n # 0
    <3> DEFINE flatten[i \in 1..Len(ss)] == IF i = 1 THEN ss[i] ELSE flatten[i - 1] \o ss[i]
               eq(h) == h = [i \in 1..Len(ss) |-> IF i = 1 THEN ss[i] ELSE h[i - 1] \o ss[i]]
               g == [i \in 1..n |-> f[i]]
    <3>1. eq(g)
      <4>1. ASSUME NEW i \in 1..n PROVE f[i] = IF i = 1 THEN ss[i] ELSE g[i - 1] \o ss[i]
        <5>1. i # 1 => i - 1 \in 1..n
          BY <1>1
        <5>2. i = 1 => f[i - 1] = <<>>
          BY <1>3
        <5>3. f[i] = f[i - 1] \o ss[i] /\ ss[i] \in Seq(S)
          BY <1>1, <1>4
        <5>4. <<>> \o ss[i] = ss[i]
          BY <5>3
        <5>5. i # 1 => g[i - 1] = f[i - 1]
          BY <5>1
        <5> HIDE DEF g
        <5> QED
          BY <5>2, <5>3, <5>4, <5>5
      <4> QED
        BY <4>1 DEF n
    <3>2. eq(flatten)
      <4> HIDE DEF g
      <4> QED
        BY <3>1
    <3>3. FlattenSeq(ss) = flatten[n]
      BY <2>2 DEF FlattenSeq, n
    <3> HIDE DEF flatten
    <3>4. \A i \in 1..n : flatten[i] = IF i = 1 THEN ss[i] ELSE flatten[i - 1] \o ss[i]
      BY <3>2 DEF n
    <3> DEFINE I == {k \in 0..n : k >= 1 => flatten[k] = f[k]}
    <3>5. 0 \in I
      BY <1>1
    <3>6. ASSUME NEW k \in 1..n, k - 1 \in I PROVE k \in I
      <4>1. k \in 0..n /\ k - 1 \in 0..n /\ ss[k] \in Seq(S)
        BY <1>1
      <4>2. f[k] = f[k - 1] \o ss[k]
        BY <1>4, Zenon
      <4>3. CASE k = 1
        <5>1. f[k - 1] = <<>>
          BY <1>3, <4>3
        <5>2. <<>> \o ss[k] = ss[k]
          BY <4>1
        <5>3. flatten[k] = ss[k]
          BY <3>4, <4>3
        <5>4. flatten[k] = f[k]
          BY <4>2, <5>1, <5>2, <5>3, Zenon
        <5> QED
          BY <4>1, <5>4
      <4>4. CASE k # 1
        <5>1. flatten[k - 1] = f[k - 1]
          BY <1>1, <3>6, <4>4
        <5>2. flatten[k] = flatten[k - 1] \o ss[k]
          BY <3>4, <4>4, Zenon
        <5>3. flatten[k] = f[k]
          BY <4>2, <5>1, <5>2, Zenon
        <5> QED
          BY <4>1, <5>3
      <4> QED
        BY <4>3, <4>4
    <3> HIDE DEF I
    <3>7. \A k \in 0..n : k \in I
      BY <1>1, <3>5, <3>6, Induction
    <3> QED
      BY <1>1, <2>2, <3>3, <3>7 DEF I
  <2> QED
    BY <2>1, <2>2
<1> QED
  BY <1>3, <1>4, <1>5 DEF n

(* Without parts it is empty. *)
LEMMA FlattenedNone == FlattenSeq(<<>>) = <<>>
BY DEF FlattenSeq

(* With one part more, it has that part at its end. *)
LEMMA FlattenedMore ==
  ASSUME NEW S, NEW ss \in Seq(Seq(S)), NEW x \in Seq(S)
  PROVE  /\ FlattenSeq(ss) \in Seq(S)
         /\ FlattenSeq(Append(ss, x)) = FlattenSeq(ss) \o x
<1> DEFINE n == Len(ss)
           tt == Append(ss, x)
<1>1. /\ n \in Nat /\ tt \in Seq(Seq(S)) /\ Len(tt) = n + 1 /\ tt[n + 1] = x
      /\ \A i \in 1..n : tt[i] = ss[i]
  OBVIOUS
<1> HIDE DEF tt
<1>2. PICK f \in [0..n -> Seq(S)] : /\ f[0] = <<>> /\ FlattenSeq(ss) = f[n]
                                   /\ \A i \in 1..n : f[i] = f[i - 1] \o ss[i]
  BY Unflattens
<1> HIDE DEF n
<1>3. PICK g \in [0..n + 1 -> Seq(S)] : /\ g[0] = <<>> /\ FlattenSeq(tt) = g[n + 1]
                                       /\ \A i \in 1..n + 1 : g[i] = g[i - 1] \o tt[i]
  <2>1. \E g \in [0..Len(tt) -> Seq(S)] :
          /\ g[0] = <<>> /\ FlattenSeq(tt) = g[Len(tt)]
          /\ \A i \in 1..Len(tt) : g[i] = g[i - 1] \o tt[i]
    BY <1>1, Unflattens
  <2> QED
    BY <1>1, <2>1
<1> DEFINE I == {k \in 0..n : f[k] = g[k]}
<1>4. 0 \in I
  BY <1>1, <1>2, <1>3
<1>5. ASSUME NEW k \in 1..n, k - 1 \in I PROVE k \in I
  <2>1. k \in 1..n + 1 /\ tt[k] = ss[k] /\ f[k - 1] = g[k - 1] /\ k \in 0..n
    <3>1. k \in 1..n + 1 /\ k \in 0..n
      BY <1>1
    <3> QED
      BY <1>1, <1>5, <3>1
  <2>2. f[k] = f[k - 1] \o ss[k]
    BY <1>2
  <2>3. g[k] = g[k - 1] \o tt[k]
    BY <1>3, <2>1
  <2>4. f[k] = g[k]
    BY <2>1, <2>2, <2>3, Zenon
  <2> QED
    BY <2>1, <2>4
<1> HIDE DEF I
<1>6. n \in I
  <2>1. \A k \in 0..n : k \in I
    BY <1>1, <1>4, <1>5, Induction
  <2> QED
    BY <1>1, <2>1
<1>7. f[n] = g[n] /\ n \in 0..n /\ n + 1 \in 1..n + 1 /\ n + 1 - 1 = n
  BY <1>1, <1>6 DEF I
<1>8. g[n + 1] = g[n] \o x
  <2>1. PICK m \in 1..n + 1 : m = n + 1
    BY <1>7
  <2>2. g[m] = g[m - 1] \o tt[m]
    BY <1>3
  <2> QED
    BY <1>1, <1>7, <2>1, <2>2
<1> QED
  BY <1>2, <1>3, <1>7, <1>8 DEF tt

(***************************************************************************)
(* Where the parts of a sequence of sequences lie when it is flattened:    *)
(* part k behind at[k - 1] elements.                                       *)
(***************************************************************************)
Places(ss, at) ==
  /\ at \in [0..Len(ss) -> Nat] /\ at[0] = 0
  /\ Len(FlattenSeq(ss)) = at[Len(ss)]
  /\ \A k \in 1..Len(ss) :
       /\ at[k] = at[k - 1] + Len(ss[k]) /\ at[k] <= at[Len(ss)]
       /\ \A j \in 1..Len(ss[k]) : FlattenSeq(ss)[at[k - 1] + j] = ss[k][j]

LEMMA Flattened ==
  ASSUME NEW S, NEW ss \in Seq(Seq(S))
  PROVE  FlattenSeq(ss) \in Seq(S) /\ \E at : Places(ss, at)
<1> DEFINE n == Len(ss)
<1>1. n \in Nat /\ \A i \in 1..n : ss[i] \in Seq(S)
  OBVIOUS
<1>3. PICK f \in [0..n -> Seq(S)] : /\ f[0] = <<>> /\ FlattenSeq(ss) = f[n]
                                   /\ \A i \in 1..n : f[i] = f[i - 1] \o ss[i]
  BY Unflattens
<1>4. \A i \in 1..n : f[i] = f[i - 1] \o ss[i] /\ f[i] \in Seq(S) /\ f[i - 1] \in Seq(S)
  <2>1. \A i \in 1..n : i - 1 \in 0..n /\ i \in 0..n
    OBVIOUS
  <2> QED
    BY <1>3, <2>1
<1> HIDE DEF n
<1>5. FlattenSeq(ss) = f[n]
  BY <1>3
<1> DEFINE at == [k \in 0..n |-> Len(f[k])]
           Begins(k, m) == /\ Len(f[k]) <= Len(f[m])
                           /\ \A j \in 1..Len(f[k]) : f[m][j] = f[k][j]
           I == {m \in 0..n : \A k \in 0..m : Begins(k, m)}
<1>6. 0 \in I
  <2>1. \A k \in 0..0 : Begins(k, 0)
    BY <1>3
  <2> QED
    BY <1>1, <2>1
<1>7. ASSUME NEW m \in 1..n, m - 1 \in I PROVE m \in I
  <2>1. m \in 0..n /\ m - 1 \in 0..n /\ ss[m] \in Seq(S) /\ f[m - 1] \in Seq(S) /\ f[m] \in Seq(S)
    BY <1>1, <1>3
  <2>2. f[m] = f[m - 1] \o ss[m]
    BY <1>4, Zenon
  <2>3. Begins(m - 1, m)
    <3> DEFINE a == f[m - 1]
               b == ss[m]
    <3>1. a \in Seq(S) /\ b \in Seq(S) /\ f[m] = a \o b
      BY <2>1, <2>2
    <3> HIDE DEF a, b
    <3>2. Len(a) <= Len(a \o b) /\ \A j \in 1..Len(a) : (a \o b)[j] = a[j]
      BY <3>1, Joined
    <3> QED
      BY <3>1, <3>2, Zenon DEF a
  <2>4. ASSUME NEW k \in 0..m - 1 PROVE Begins(k, m)
    <3>1. Begins(k, m - 1)
      BY <1>7
    <3>2. Len(f[k]) \in Nat /\ Len(f[m - 1]) \in Nat /\ Len(f[m]) \in Nat
      <4>1. k \in 0..n
        BY <1>1
      <4> QED
        BY <1>3, <2>1, <4>1
    <3> QED
      BY <2>3, <3>1, <3>2
  <2>5. Begins(m, m)
    BY <2>1
  <2>6. \A k \in 0..m : k = m \/ k \in 0..m - 1
    OBVIOUS
  <2> HIDE DEF Begins
  <2> QED
    BY <2>1, <2>4, <2>5, <2>6
<1> HIDE DEF I
<1>8. \A m \in 0..n : m \in I
  BY <1>1, <1>6, <1>7, Induction
<1>9. \A k \in 0..n : Begins(k, n)
  BY <1>1, <1>8 DEF I
<1>10. at \in [0..n -> Nat] /\ at[0] = 0 /\ Len(f[n]) = at[n]
  BY <1>1, <1>3
<1>11. ASSUME NEW k \in 1..n
       PROVE  /\ at[k] = at[k - 1] + Len(ss[k]) /\ at[k] <= at[n]
              /\ \A j \in 1..Len(ss[k]) : f[n][at[k - 1] + j] = ss[k][j]
  <2>1. k \in 0..n /\ k - 1 \in 0..n
    BY <1>1
  <2>2. f[k] = f[k - 1] \o ss[k] /\ f[k - 1] \in Seq(S) /\ ss[k] \in Seq(S)
    BY <1>1, <1>4
  <2>3. at[k] = Len(f[k]) /\ at[k - 1] = Len(f[k - 1]) /\ at[n] = Len(f[n])
    BY <1>1, <2>1
  <2>4. Begins(k, n)
    BY <1>9, <2>1
  <2>5. Len(f[k]) = Len(f[k - 1]) + Len(ss[k])
        /\ \A j \in 1..Len(ss[k]) :
             Len(f[k - 1]) + j \in 1..Len(f[k]) /\ f[k][Len(f[k - 1]) + j] = ss[k][j]
    <3> DEFINE a == f[k - 1]
               b == ss[k]
    <3>1. a \in Seq(S) /\ b \in Seq(S) /\ f[k] = a \o b
      BY <2>2
    <3> HIDE DEF a, b
    <3>2. Len(a \o b) = Len(a) + Len(b)
          /\ \A j \in 1..Len(b) : Len(a) + j \in 1..Len(a \o b) /\ (a \o b)[Len(a) + j] = b[j]
      BY <3>1, Joined
    <3> QED
      BY <3>1, <3>2, Zenon DEF a, b
  <2> HIDE DEF at
  <2> QED
    BY <2>3, <2>4, <2>5
<1> HIDE DEF at
<1>12. Places(ss, at)
  BY <1>5, <1>10, <1>11 DEF Places, n
<1> QED
  BY <1>1, <1>3, <1>5, <1>12

=============================================================================
