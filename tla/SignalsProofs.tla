---------------------------- MODULE SignalsProofs ----------------------------
(***************************************************************************)
(* Proofs about Commands with LowerLogic: every descriptor has exactly the *)
(* notes it was given room for, and the signal it makes is the one asked   *)
(* for.                                                                    *)
(*                                                                         *)
(* The notes of a list are the notes of its states one after another, and  *)
(* the notes of a state end together when the state does.  So the state    *)
(* that is played at a moment is the last whose time has come, and what is *)
(* left is one lemma for each command: what its profiles, its image and    *)
(* its ramp give at each moment of each of its states.                     *)
(***************************************************************************)
EXTENDS CommandsProofs

(***************************************************************************)
(* Induction, on a set instead of a predicate.                             *)
(***************************************************************************)

LEMMA Induction ==
  ASSUME NEW S, NEW n \in Nat, 0 \in S,
         \A k \in 0 .. n - 1 : k \in S => k + 1 \in S
  PROVE  \A k \in 0 .. n : k \in S
<1> DEFINE Bad == {k \in 0 .. n : k \notin S}
<1>1. CASE Bad = {}
  BY <1>1
<1>2. CASE Bad # {}
  <2>1. Bad \subseteq Nat
    OBVIOUS
  <2> HIDE DEF Bad
  <2>2. PICK m \in Bad : \A k \in Bad : <<k, m>> \notin OpToRel(<, Nat)
    BY <1>2, <2>1, WFMin, NatLessThanWellFounded, Zenon
  <2>3. m \in 0 .. n /\ m \notin S /\ m # 0
    BY <2>2 DEF Bad
  <2>4. m - 1 \in 0 .. n - 1 /\ m - 1 \in 0 .. n /\ m - 1 < m /\ m - 1 \in Nat /\ m \in Nat
        /\ (m - 1) + 1 = m
    BY <2>3
  <2>5. <<m - 1, m>> \in OpToRel(<, Nat)
    BY <2>4 DEF OpToRel
  <2>6. m - 1 \notin Bad
    BY <2>2, <2>5
  <2>7. m - 1 \in S
    BY <2>4, <2>6 DEF Bad
  <2> QED BY <2>3, <2>4, <2>7
<1> QED BY <1>1, <1>2

(***************************************************************************)
(* Sums.                                                                   *)
(***************************************************************************)

SumsTo(f, g, n) == g = [k \in 0 .. n |-> IF k = 0 THEN 0 ELSE g[k - 1] + f[k]]

\* What is defined by recursion exists.
LEMMA SumsExist ==
  ASSUME NEW f, NEW n \in Nat
  PROVE  \E g : SumsTo(f, g, n)
<1> DEFINE S == {k \in Nat : \E g : SumsTo(f, g, k)}
<1>1. 0 \in S
  <2> DEFINE g == [k \in 0 .. 0 |-> 0]
  <2>1. SumsTo(f, g, 0)
    BY DEF SumsTo
  <2> QED BY <2>1
<1>2. ASSUME NEW m \in 0 .. n - 1, m \in S PROVE m + 1 \in S
  <2>1. PICK h : SumsTo(f, h, m)
    BY <1>2
  <2>2. m \in Nat /\ m + 1 \in Nat /\ (m + 1) - 1 = m
    OBVIOUS
  <2> DEFINE g == [k \in 0 .. m + 1 |-> IF k = m + 1 THEN h[m] + f[m + 1] ELSE h[k]]
  <2>3. ASSUME NEW k \in 0 .. m + 1 PROVE g[k] = IF k = 0 THEN 0 ELSE g[k - 1] + f[k]
    <3>1. CASE k = m + 1
      <4>1. g[k] = h[m] + f[m + 1] /\ k - 1 = m /\ m \in 0 .. m + 1 /\ m # m + 1 /\ k # 0
        BY <2>2, <3>1
      <4>2. g[k - 1] = h[m]
        BY <4>1
      <4> QED BY <3>1, <4>1, <4>2
    <3>2. CASE k # m + 1
      <4>1. k \in 0 .. m /\ g[k] = h[k]
        BY <2>2, <3>2
      <4>2. h[k] = IF k = 0 THEN 0 ELSE h[k - 1] + f[k]
        BY <2>1, <4>1 DEF SumsTo
      <4>3. k # 0 => k - 1 \in 0 .. m + 1 /\ k - 1 # m + 1
        BY <2>2, <4>1
      <4>4. k # 0 => g[k - 1] = h[k - 1]
        BY <4>3
      <4> QED BY <4>1, <4>2, <4>4
    <3> QED BY <3>1, <3>2
  <2>4. DOMAIN g = 0 .. m + 1 /\ g = [k \in 0 .. m + 1 |-> g[k]]
    OBVIOUS
  <2> HIDE DEF g
  <2>5. SumsTo(f, g, m + 1)
    BY <2>3, <2>4 DEF SumsTo
  <2> QED BY <2>2, <2>5
<1> HIDE DEF S
<1>3. n \in S
  <2>1. \A k \in 0 .. n : k \in S
    BY <1>1, <1>2, Induction
  <2> QED BY <2>1
<1> QED BY <1>3 DEF S

LEMMA SumsAre ==
  ASSUME NEW V, NEW f \in Seq(V)
  PROVE  /\ Sums(f)[0] = 0
         /\ \A k \in 1 .. Len(f) : Sums(f)[k] = Sums(f)[k - 1] + f[k]
<1>1. Len(f) \in Nat
  OBVIOUS
<1>2. \E g : g = [k \in 0 .. Len(f) |-> IF k = 0 THEN 0 ELSE g[k - 1] + f[k]]
  BY <1>1, SumsExist DEF SumsTo
<1> DEFINE g == Sums(f)
<1>3. g = [k \in 0 .. Len(f) |-> IF k = 0 THEN 0 ELSE g[k - 1] + f[k]]
  BY <1>2, Zenon DEF Sums
<1> HIDE DEF g
<1>4. g[0] = 0 /\ \A k \in 1 .. Len(f) : g[k] = g[k - 1] + f[k]
  <2>1. 0 \in 0 .. Len(f) /\ \A k \in 1 .. Len(f) : k \in 0 .. Len(f) /\ k # 0
    BY <1>1
  <2>2. \A k \in 0 .. Len(f) : g[k] = IF k = 0 THEN 0 ELSE g[k - 1] + f[k]
    BY <1>3
  <2> QED BY <2>1, <2>2
<1> QED BY <1>4 DEF g

LEMMA SumsGrow ==
  ASSUME NEW f \in Seq(Nat)
  PROVE  /\ \A k \in 0 .. Len(f) : Sums(f)[k] \in Nat
         /\ \A j \in 0 .. Len(f) : \A k \in 0 .. j : Sums(f)[k] <= Sums(f)[j]
<1> DEFINE g == Sums(f)
           n == Len(f)
<1>1. n \in Nat /\ \A k \in 1 .. n : f[k] \in Nat
  OBVIOUS
<1>2. g[0] = 0 /\ \A k \in 1 .. n : g[k] = g[k - 1] + f[k]
  BY SumsAre
<1> HIDE DEF g, n
<1> DEFINE S == {j \in Nat : g[j] \in Nat /\ \A k \in 0 .. j : g[k] \in Nat /\ g[k] <= g[j]}
<1>3. 0 \in S
  BY <1>2
<1>4. ASSUME NEW j \in 0 .. n - 1, j \in S PROVE j + 1 \in S
  <2>1. j \in Nat /\ j + 1 \in 1 .. n /\ (j + 1) - 1 = j
    BY <1>1
  <2>2. g[j + 1] = g[j] + f[j + 1] /\ f[j + 1] \in Nat /\ g[j] \in Nat
    BY <1>1, <1>2, <1>4, <2>1
  <2>3. g[j + 1] \in Nat /\ g[j] <= g[j + 1]
    BY <2>2
  <2>4. ASSUME NEW k \in 0 .. j + 1 PROVE g[k] \in Nat /\ g[k] <= g[j + 1]
    <3>1. CASE k = j + 1
      BY <2>3, <3>1
    <3>2. CASE k # j + 1
      <4>1. k \in 0 .. j
        BY <2>1, <3>2
      <4>2. g[k] \in Nat /\ g[k] <= g[j]
        BY <1>4, <4>1
      <4> QED BY <2>2, <2>3, <4>2
    <3> QED BY <3>1, <3>2
  <2> QED BY <2>1, <2>3, <2>4
<1> HIDE DEF S
<1>5. \A j \in 0 .. n : j \in S
  BY <1>1, <1>3, <1>4, Induction
<1>6. \A j \in 0 .. n : g[j] \in Nat /\ \A k \in 0 .. j : g[k] <= g[j]
  BY <1>5 DEF S
<1> QED BY <1>6 DEF g, n

LEMMA SumsRise ==
  ASSUME NEW f \in Seq(Nat), \A i \in 1 .. Len(f) : f[i] > 0,
         NEW j \in 0 .. Len(f), NEW k \in 0 .. Len(f), k < j
  PROVE  Sums(f)[k] < Sums(f)[j]
<1>1. Len(f) \in Nat /\ k + 1 \in 1 .. Len(f) /\ k + 1 \in 0 .. j /\ (k + 1) - 1 = k
  OBVIOUS
<1>2. Sums(f)[k + 1] = Sums(f)[k] + f[k + 1] /\ f[k + 1] \in Nat /\ f[k + 1] > 0
  BY <1>1, SumsAre
<1>3. Sums(f)[k] \in Nat /\ Sums(f)[j] \in Nat /\ Sums(f)[k + 1] <= Sums(f)[j]
  BY <1>1, SumsGrow
<1> QED BY <1>2, <1>3

\* Positions in the range of a sum lie in one summand.
LEMMA SumsCover ==
  ASSUME NEW f \in Seq(Nat), NEW x \in Nat, x < Sums(f)[Len(f)]
  PROVE  \E k \in 1 .. Len(f) : Sums(f)[k - 1] <= x /\ x < Sums(f)[k]
<1> DEFINE g == Sums(f)
           n == Len(f)
<1>1. n \in Nat /\ g[0] = 0 /\ \A k \in 0 .. n : g[k] \in Nat
  BY SumsAre, SumsGrow
<1>2. x < g[n]
  OBVIOUS
<1> HIDE DEF g, n
<1> SUFFICES ASSUME ~ \E k \in 1 .. n : g[k - 1] <= x /\ x < g[k] PROVE FALSE
  BY DEF g, n
<1> DEFINE S == {k \in Nat : g[k] <= x}
<1>3. 0 \in S
  BY <1>1
<1>4. ASSUME NEW k \in 0 .. n - 1, k \in S PROVE k + 1 \in S
  <2>1. k + 1 \in 1 .. n /\ (k + 1) - 1 = k /\ k + 1 \in 0 .. n /\ k + 1 \in Nat
    BY <1>1
  <2>2. g[k] <= x /\ g[k + 1] \in Nat
    BY <1>1, <1>4, <2>1
  <2>3. ~(x < g[k + 1])
    BY <2>1, <2>2
  <2> QED BY <2>1, <2>2, <2>3
<1> HIDE DEF S
<1>5. \A k \in 0 .. n : k \in S
  BY <1>1, <1>3, <1>4, Induction
<1>6. n \in 0 .. n /\ g[n] \in Nat
  BY <1>1
<1> QED BY <1>2, <1>5, <1>6 DEF S

\* Equal summands, equal sums.
LEMMA SumsSame ==
  ASSUME NEW V, NEW f \in Seq(V), NEW h \in Seq(V), NEW n \in 0 .. Len(f), n <= Len(h),
         \A i \in 1 .. n : f[i] = h[i]
  PROVE  Sums(f)[n] = Sums(h)[n]
<1>1. n \in Nat /\ Len(f) \in Nat /\ Len(h) \in Nat
  OBVIOUS
<1>2. /\ Sums(f)[0] = 0 /\ \A k \in 1 .. Len(f) : Sums(f)[k] = Sums(f)[k - 1] + f[k]
      /\ Sums(h)[0] = 0 /\ \A k \in 1 .. Len(h) : Sums(h)[k] = Sums(h)[k - 1] + h[k]
  BY SumsAre
<1> DEFINE S == {k \in Nat : Sums(f)[k] = Sums(h)[k]}
<1>3. 0 \in S
  BY <1>2
<1>4. ASSUME NEW k \in 0 .. n - 1, k \in S PROVE k + 1 \in S
  <2>1. /\ k \in Nat /\ k + 1 \in Nat /\ (k + 1) - 1 = k
        /\ k + 1 \in 1 .. n /\ k + 1 \in 1 .. Len(f) /\ k + 1 \in 1 .. Len(h)
    BY <1>1
  <2>2. Sums(f)[k + 1] = Sums(f)[k] + f[k + 1] /\ Sums(h)[k + 1] = Sums(h)[k] + h[k + 1]
    BY <1>2, <2>1
  <2> QED BY <1>4, <2>1, <2>2
<1> HIDE DEF S
<1>5. \A k \in 0 .. n : k \in S
  BY <1>1, <1>3, <1>4, Induction
<1> QED BY <1>1, <1>5 DEF S

(***************************************************************************)
(* Sequences of sequences.                                                 *)
(***************************************************************************)

FlatTo(p, g, n) == g = [i \in 1 .. n |-> IF i = 1 THEN p[i] ELSE g[i - 1] \o p[i]]

LEMMA FlatExists ==
  ASSUME NEW p, NEW n \in Nat
  PROVE  \E g : FlatTo(p, g, n)
<1> DEFINE S == {k \in Nat : \E g : FlatTo(p, g, k)}
<1>1. 0 \in S
  <2> DEFINE g == [k \in 1 .. 0 |-> 0]
  <2>1. FlatTo(p, g, 0)
    BY DEF FlatTo
  <2> QED BY <2>1
<1>2. ASSUME NEW m \in 0 .. n - 1, m \in S PROVE m + 1 \in S
  <2>1. PICK h : FlatTo(p, h, m)
    BY <1>2
  <2>2. m \in Nat /\ m + 1 \in Nat /\ (m + 1) - 1 = m
    OBVIOUS
  <2> DEFINE last == IF m + 1 = 1 THEN p[m + 1] ELSE h[m] \o p[m + 1]
  <2> HIDE DEF last
  <2> DEFINE g == [k \in 1 .. m + 1 |-> IF k = m + 1 THEN last ELSE h[k]]
  <2>3. ASSUME NEW k \in 1 .. m + 1 PROVE g[k] = IF k = 1 THEN p[k] ELSE g[k - 1] \o p[k]
    <3>1. CASE k = m + 1
      <4>1. g[k] = last
        BY <3>1
      <4>2. k # 1 => k - 1 = m /\ m \in 1 .. m + 1 /\ m # m + 1
        BY <2>2, <3>1
      <4>3. k # 1 => g[k - 1] = h[m]
        BY <4>2
      <4> QED BY <3>1, <4>1, <4>3 DEF last
    <3>2. CASE k # m + 1
      <4>1. k \in 1 .. m /\ g[k] = h[k]
        BY <2>2, <3>2
      <4>2. h[k] = IF k = 1 THEN p[k] ELSE h[k - 1] \o p[k]
        BY <2>1, <4>1 DEF FlatTo
      <4>3. k # 1 => k - 1 \in 1 .. m + 1 /\ k - 1 # m + 1
        BY <2>2, <4>1
      <4>4. k # 1 => g[k - 1] = h[k - 1]
        BY <4>3
      <4> QED BY <4>1, <4>2, <4>4
    <3> QED BY <3>1, <3>2
  <2>4. DOMAIN g = 1 .. m + 1 /\ g = [k \in 1 .. m + 1 |-> g[k]]
    OBVIOUS
  <2> HIDE DEF g
  <2>5. FlatTo(p, g, m + 1)
    BY <2>3, <2>4 DEF FlatTo
  <2> QED BY <2>2, <2>5
<1> HIDE DEF S
<1>3. n \in S
  <2>1. \A k \in 0 .. n : k \in S
    BY <1>1, <1>2, Induction
  <2> QED BY <2>1
<1> QED BY <1>3 DEF S

LEMMA Enumerates ==
  ASSUME NEW V, NEW f, NEW n \in Nat, DOMAIN f = 1 .. n, f = [k \in 1 .. n |-> f[k]],
         \A k \in 1 .. n : f[k] \in V
  PROVE  f \in Seq(V) /\ Len(f) = n
OBVIOUS

LEMMA Within ==
  \A a, b, c \in Nat : \A j \in 1 .. b : a + b <= c => a + j \in 1 .. c
OBVIOUS

\* Sequence c consists of a and b.
Consists(c, a, b) ==
  /\ Len(c) = Len(a) + Len(b)
  /\ \A j \in 1 .. Len(a) : c[j] = a[j]
  /\ \A j \in 1 .. Len(b) : c[Len(a) + j] = b[j]

LEMMA Joining ==
  ASSUME NEW V, NEW a \in Seq(V), NEW b \in Seq(V)
  PROVE  a \o b \in Seq(V) /\ Consists(a \o b, a, b)
<1> DEFINE m == Len(a)
<1>1. a \o b \in Seq(V) /\ Len(a \o b) = m + Len(b) /\ m \in Nat /\ Len(b) \in Nat
  OBVIOUS
<1>2. ASSUME NEW j \in 1 .. m PROVE (a \o b)[j] = a[j]
  OBVIOUS
<1>3. ASSUME NEW j \in 1 .. Len(b) PROVE (a \o b)[m + j] = b[j]
  <2>1. m + j \in 1 .. m + Len(b) /\ ~(m + j <= m) /\ (m + j) - m = j
    BY <1>1
  <2>2. (a \o b)[m + j] = IF m + j <= m THEN a[m + j] ELSE b[(m + j) - m]
    BY <2>1, ConcatProperties
  <2> QED BY <2>1, <2>2
<1> QED BY <1>1, <1>2, <1>3 DEF Consists

\* The parts follow each other.
LEMMA Flattened ==
  ASSUME NEW V, NEW p \in Seq(Seq(V)), NEW lens \in Seq(Nat), Len(lens) = Len(p),
         \A k \in 1 .. Len(p) : lens[k] = Len(p[k])
  PROVE  /\ FlattenSeq(p) \in Seq(V) /\ Len(FlattenSeq(p)) = Sums(lens)[Len(p)]
         /\ \A k \in 1 .. Len(p) : \A j \in 1 .. Len(p[k]) :
              FlattenSeq(p)[Sums(lens)[k - 1] + j] = p[k][j]
<1> DEFINE n == Len(p)
           s == Sums(lens)
<1>1. n \in Nat /\ \A k \in 1 .. n : p[k] \in Seq(V) /\ Len(p[k]) \in Nat
  OBVIOUS
<1>2. /\ s[0] = 0 /\ \A k \in 1 .. n : s[k] = s[k - 1] + Len(p[k])
      /\ \A k \in 0 .. n : s[k] \in Nat
      /\ \A j \in 0 .. n : \A k \in 0 .. j : s[k] <= s[j]
  BY SumsAre, SumsGrow
<1>3. CASE n = 0
  <2>1. FlattenSeq(p) = p
    BY <1>3 DEF FlattenSeq
  <2>2. p = <<>>
    BY <1>3
  <2> QED BY <1>2, <1>3, <2>1, <2>2
<1>4. CASE n # 0
  <2>1. \E g : g = [i \in 1 .. n |-> IF i = 1 THEN p[i] ELSE g[i - 1] \o p[i]]
    BY <1>1, FlatExists DEF FlatTo
  <2> DEFINE g == CHOOSE g : g = [i \in 1 .. n |-> IF i = 1 THEN p[i] ELSE g[i - 1] \o p[i]]
  <2>2. g = [i \in 1 .. n |-> IF i = 1 THEN p[i] ELSE g[i - 1] \o p[i]]
    BY <2>1, Zenon
  <2>3. FlattenSeq(p) = g[n]
    BY <1>4, Zenon DEF FlattenSeq
  <2> HIDE DEF g, n, s
  <2>4. \A i \in 1 .. n : g[i] = IF i = 1 THEN p[i] ELSE g[i - 1] \o p[i]
    BY <2>2
  <2> DEFINE Joins(i) == /\ g[i] \in Seq(V) /\ Len(g[i]) = s[i]
                         /\ \A k \in 1 .. i : \A j \in 1 .. Len(p[k]) : g[i][s[k - 1] + j] = p[k][j]
  <2> DEFINE S == {i \in Nat : i = 0 \/ Joins(i)}
  <2>5. 0 \in S
    OBVIOUS
  <2>6. ASSUME NEW i \in 0 .. n - 1, i \in S PROVE i + 1 \in S
    <3>1. /\ i \in Nat /\ i + 1 \in 1 .. n /\ (i + 1) - 1 = i /\ i + 1 \in Nat
          /\ p[i + 1] \in Seq(V) /\ Len(p[i + 1]) \in Nat /\ i \in 0 .. n
          /\ s[i] \in Nat /\ s[i + 1] = s[i] + Len(p[i + 1])
      BY <1>1, <1>2
    <3>2. CASE i = 0
      <4>1. g[i + 1] = p[i + 1] /\ s[i] = 0
        BY <1>2, <2>4, <3>1, <3>2
      <4>2. Len(g[i + 1]) = s[i + 1]
        BY <3>1, <4>1
      <4>3. ASSUME NEW k \in 1 .. i + 1, NEW j \in 1 .. Len(p[k])
            PROVE  g[i + 1][s[k - 1] + j] = p[k][j]
        <5>1. k = i + 1 /\ k - 1 = i /\ s[k - 1] + j = j
          BY <1>1, <3>1, <3>2, <4>1
        <5> QED BY <4>1, <5>1
      <4> QED BY <3>1, <4>1, <4>2, <4>3
    <3>3. CASE i # 0
      <4>0. Joins(i)
        <5> HIDE DEF Joins
        <5> QED BY <2>6, <3>3
      <4> HIDE DEF S, Joins
      <4>10. g[i + 1] = g[i] \o p[i + 1]
        <5>1. g[i + 1] = IF i + 1 = 1 THEN p[i + 1] ELSE g[(i + 1) - 1] \o p[i + 1]
          BY <2>4, <3>1, Zenon
        <5>2. i + 1 # 1 /\ (i + 1) - 1 = i
          BY <3>1, <3>3
        <5> QED BY <5>1, <5>2, Zenon
      <4>1. g[i] \in Seq(V) /\ Len(g[i]) = s[i] /\ g[i + 1] = g[i] \o p[i + 1]
            /\ \A k \in 1 .. i : \A j \in 1 .. Len(p[k]) : g[i][s[k - 1] + j] = p[k][j]
        BY <4>0, <4>10, Zenon DEF Joins
      <4>2. /\ g[i + 1] \in Seq(V) /\ Len(g[i + 1]) = s[i] + Len(p[i + 1])
            /\ \A j \in 1 .. s[i] : g[i + 1][j] = g[i][j]
            /\ \A j \in 1 .. Len(p[i + 1]) : g[i + 1][s[i] + j] = p[i + 1][j]
        <5> DEFINE a == g[i]
                   b == p[i + 1]
        <5>1. a \in Seq(V) /\ b \in Seq(V) /\ Len(a) = s[i] /\ s[i] \in Nat /\ Len(b) \in Nat
          BY <3>1, <4>1
        <5> HIDE DEF a, b
        <5>2. a \o b \in Seq(V) /\ Consists(a \o b, a, b)
          <6>1. a \in Seq(V) /\ b \in Seq(V)
            BY <5>1
          <6> QED BY <6>1, Joining, Zenon
        <5> QED BY <4>1, <5>1, <5>2, Zenon DEF a, b, Consists
      <4>3. ASSUME NEW k \in 1 .. i + 1, NEW j \in 1 .. Len(p[k])
            PROVE  g[i + 1][s[k - 1] + j] = p[k][j]
        <5>1. CASE k = i + 1
          <6>1. k - 1 = i /\ j \in 1 .. Len(p[i + 1])
            BY <3>1, <5>1
          <6> QED BY <4>2, <5>1, <6>1
        <5>2. CASE k # i + 1
          <6>1. k \in 1 .. i /\ k \in 1 .. n /\ k \in 0 .. i /\ k - 1 \in 0 .. n
            BY <1>1, <3>1, <5>2
          <6>2. s[k] = s[k - 1] + Len(p[k]) /\ s[k] <= s[i] /\ s[k - 1] \in Nat /\ Len(p[k]) \in Nat
            BY <1>1, <1>2, <3>1, <6>1
          <6>3. s[k - 1] + j \in 1 .. s[i]
            BY <3>1, <6>2, Within
          <6>4. g[i][s[k - 1] + j] = p[k][j]
            BY <4>1, <6>1
          <6> QED BY <4>2, <6>3, <6>4
        <5> QED BY <5>1, <5>2
      <4>4. Joins(i + 1)
        BY <3>1, <4>2, <4>3, Zenon DEF Joins
      <4> HIDE DEF Joins
      <4> QED BY <3>1, <4>4 DEF S
    <3> QED BY <3>2, <3>3
  <2> HIDE DEF S
  <2>7. \A i \in 0 .. n : i \in S
    BY <1>1, <2>5, <2>6, Induction
  <2>8. n \in 0 .. n
    BY <1>1
  <2>9. Joins(n)
    BY <1>4, <2>7, <2>8 DEF S
  <2> QED BY <2>3, <2>9 DEF n, s
<1> QED BY <1>3, <1>4

\* Sequence a is s with e at its end.
Longer(a, s, e) ==
  /\ \E S : a \in Seq(S)
  /\ Len(s) \in Nat /\ Len(a) = Len(s) + 1
  /\ \A i \in 1 .. Len(s) : a[i] = s[i]
  /\ a[Len(s) + 1] = e

LEMMA Appended ==
  ASSUME NEW s, \E S : s \in Seq(S), NEW e
  PROVE  Longer(Append(s, e), s, e)
<1>1. PICK S : s \in Seq(S)
  OBVIOUS
<1>2. Append(s, e) \in Seq(S \cup {e})
  BY <1>1, AppendProperties, SeqMonotonic
<1>3. Len(s) \in Nat /\ Len(Append(s, e)) = Len(s) + 1
      /\ (\A i \in 1 .. Len(s) : Append(s, e)[i] = s[i])
      /\ Append(s, e)[Len(s) + 1] = e
  BY <1>1, AppendProperties, SeqMonotonic
<1> QED BY <1>2, <1>3, Zenon DEF Longer

(***************************************************************************)
(* The notes of a state.                                                   *)
(***************************************************************************)

LEMMA Division ==
  ASSUME NEW x \in Nat, NEW m \in Nat \ {0}
  PROVE  /\ x \div m \in Nat
         /\ (x \div m) * m <= x /\ x < (x \div m) * m + m
OBVIOUS

LEMMA Quotient ==
  ASSUME NEW x \in Nat, NEW m \in Nat \ {0}, NEW q \in Nat, q * m <= x, x < q * m + m
  PROVE  x \div m = q
OBVIOUS

LEMMA SlotsAre ==
  ASSUME NEW t \in Nat
  PROVE  /\ Slots(t) \in Nat
         /\ t = 0 => Slots(t) = 0
         /\ t > 0 /\ t <= SlotMax => Slots(t) = 1
         /\ t > SlotMax => Slots(t) = Slots(t - SlotMax) + 1 /\ Slots(t - SlotMax) > 0
BY SizesAssumption DEF Slots

\* All notes of a state are full but for the last one.
Full(t) == [k \in 1 .. Slots(t) |-> IF k < Slots(t) THEN SlotMax ELSE t - (Slots(t) - 1) * SlotMax]

LEMMA FullStarts ==
  ASSUME NEW t \in Nat, t > 0, NEW n, n = IF t > SlotMax THEN SlotMax ELSE t
  PROVE  t - n \in Nat /\ t - n < t /\ Full(t) = <<n>> \o Full(t - n)
<1> DEFINE s == Slots(t)
           u == Slots(t - n)
<1>1. /\ SlotMax \in Nat /\ SlotMax > 0 /\ n \in Nat /\ n > 0 /\ t - n \in Nat /\ t - n < t
      /\ s \in Nat /\ u \in Nat /\ s = u + 1
      /\ t <= SlotMax => u = 0 /\ n = t
      /\ t > SlotMax => u > 0 /\ n = SlotMax
  BY SizesAssumption, SlotsAre
<1> DEFINE f == Full(t)
           g == Full(t - n)
<1>2. f = [k \in 1 .. s |-> IF k < s THEN SlotMax ELSE t - (s - 1) * SlotMax]
  BY DEF Full
<1>3. g = [k \in 1 .. u |-> IF k < u THEN SlotMax ELSE (t - n) - (u - 1) * SlotMax]
  BY DEF Full
<1> HIDE DEF s, u, f, g
<1>4. DOMAIN (<<n>> \o g) = 1 .. s /\ <<n>> \o g = [k \in 1 .. s |-> IF k = 1 THEN n ELSE g[k - 1]]
  BY <1>1, <1>3
<1>5. ASSUME NEW k \in 1 .. s PROVE f[k] = IF k = 1 THEN n ELSE g[k - 1]
  <2>1. f[k] = IF k < s THEN SlotMax ELSE t - (s - 1) * SlotMax
    BY <1>2
  <2>2. CASE k = 1
    <3>1. CASE s = 1
      <4>1. (s - 1) * SlotMax = 0 /\ ~(k < s) /\ n = t
        BY <1>1, <2>2, <3>1
      <4> QED BY <1>1, <2>1, <2>2, <4>1
    <3>2. CASE s # 1
      <4>1. k < s /\ n = SlotMax
        BY <1>1, <2>2, <3>2
      <4> QED BY <2>1, <2>2, <4>1
    <3> QED BY <3>1, <3>2
  <2>3. CASE k # 1
    <3>1. k - 1 \in 1 .. u /\ n = SlotMax /\ (k - 1 < u <=> k < s) /\ s - 1 = u
      BY <1>1, <2>3
    <3>2. g[k - 1] = IF k - 1 < u THEN SlotMax ELSE (t - n) - (u - 1) * SlotMax
      BY <1>3, <3>1
    <3>3. (t - n) - (u - 1) * SlotMax = t - u * SlotMax
      BY <1>1, <3>1
    <3> QED BY <2>1, <2>3, <3>1, <3>2, <3>3
  <2> QED BY <2>2, <2>3
<1>6. f = <<n>> \o g
  BY <1>2, <1>4, <1>5
<1> QED BY <1>1, <1>6 DEF f, g

\* Strong induction.
LEMMA Descent ==
  ASSUME NEW S, \A k \in Nat : (\A j \in Nat : j < k => j \in S) => k \in S
  PROVE  \A k \in Nat : k \in S
<1> SUFFICES ASSUME NEW n \in Nat PROVE n \in S
  OBVIOUS
<1> DEFINE Bad == {k \in Nat : k \notin S}
<1>1. CASE Bad = {}
  BY <1>1
<1>2. CASE Bad # {}
  <2>1. Bad \subseteq Nat
    OBVIOUS
  <2> HIDE DEF Bad
  <2>2. PICK m \in Bad : \A k \in Bad : <<k, m>> \notin OpToRel(<, Nat)
    BY <1>2, <2>1, WFMin, NatLessThanWellFounded, Zenon
  <2>3. m \in Nat /\ m \notin S
    BY <2>2 DEF Bad
  <2>4. PICK j \in Nat : j < m /\ j \notin S
    BY <2>3
  <2>5. <<j, m>> \in OpToRel(<, Nat) /\ j \in Bad
    BY <2>3, <2>4 DEF OpToRel, Bad
  <2> QED BY <2>2, <2>5
<1> QED BY <1>1, <1>2

LEMMA NotesAre ==
  ASSUME NEW t \in Nat
  PROVE  Notes[t] = Full(t)
<1> DEFINE Unfolded(N) ==
             N = [ticks \in Nat |->
                    IF ticks = 0 THEN <<>>
                    ELSE LET n == IF ticks > SlotMax THEN SlotMax ELSE ticks
                         IN <<n>> \o N[ticks - n]]
<1>1. Full(0) = <<>>
  <2>1. Slots(0) = 0
    BY SlotsAre
  <2> QED BY <2>1 DEF Full
<1>2. \E N : Unfolded(N)
  <2> DEFINE N == [ticks \in Nat |-> Full(ticks)]
  <2>1. ASSUME NEW ticks \in Nat
        PROVE  N[ticks] = IF ticks = 0 THEN <<>>
                          ELSE LET n == IF ticks > SlotMax THEN SlotMax ELSE ticks
                               IN <<n>> \o N[ticks - n]
    <3>1. CASE ticks = 0
      BY <1>1, <3>1
    <3>2. CASE ticks # 0
      <4> DEFINE n == IF ticks > SlotMax THEN SlotMax ELSE ticks
      <4>1. ticks > 0
        BY <3>2
      <4>2. ticks - n \in Nat /\ Full(ticks) = <<n>> \o Full(ticks - n)
        BY <4>1, FullStarts, Zenon
      <4> QED BY <3>2, <4>2
    <3> QED BY <3>1, <3>2
  <2>2. Unfolded(N)
    BY <2>1, Zenon
  <2> QED BY <2>2
<1>3. Unfolded(Notes)
  BY <1>2, Zenon DEF Notes
<1> DEFINE S == {k \in Nat : Notes[k] = Full(k)}
<1>4. ASSUME NEW k \in Nat, \A j \in Nat : j < k => j \in S PROVE k \in S
  <2>1. Notes[k] = IF k = 0 THEN <<>>
                   ELSE LET n == IF k > SlotMax THEN SlotMax ELSE k
                        IN <<n>> \o Notes[k - n]
    BY <1>3, Zenon
  <2>2. CASE k = 0
    BY <1>1, <2>1, <2>2
  <2>3. CASE k # 0
    <3> DEFINE n == IF k > SlotMax THEN SlotMax ELSE k
    <3>1. k > 0
      BY <2>3
    <3>2. k - n \in Nat /\ k - n < k /\ Full(k) = <<n>> \o Full(k - n)
      BY <3>1, FullStarts, Zenon
    <3>3. Notes[k - n] = Full(k - n)
      BY <1>4, <3>2
    <3>4. Notes[k] = <<n>> \o Notes[k - n]
      BY <2>1, <2>3
    <3> QED BY <3>2, <3>3, <3>4
  <2> QED BY <2>2, <2>3
<1> HIDE DEF S
<1>5. \A k \in Nat : k \in S
  BY <1>4, Descent
<1> QED BY <1>5 DEF S

(***************************************************************************)
(* Lowering a list of states.                                              *)
(***************************************************************************)

LEMMA MinOf ==
  ASSUME NEW S \in SUBSET Nat, S # {}
  PROVE  Min(S) \in S /\ \A y \in S : Min(S) <= y
<1>0. S \subseteq Nat
  OBVIOUS
<1>1. PICK m \in S : \A y \in S : <<y, m>> \notin OpToRel(<, Nat)
  BY <1>0, WFMin, NatLessThanWellFounded, Zenon
<1>2. ASSUME NEW y \in S PROVE m <= y
  <2>1. y \in Nat /\ m \in Nat
    BY <1>0
  <2>2. <<y, m>> \notin OpToRel(<, Nat)
    BY <1>1, Zenon
  <2>3. ~(y < m)
    BY <2>1, <2>2 DEF OpToRel
  <2> QED BY <2>1, <2>3
<1>3. \E x \in S : \A y \in S : x <= y
  BY <1>2
<1> QED BY <1>3, Zenon DEF Min

LEMMA MaxOf ==
  ASSUME NEW n \in Nat, NEW S \in SUBSET (0 .. n), S # {}
  PROVE  Max(S) \in S /\ \A y \in S : Max(S) >= y
<1> DEFINE T == {n - x : x \in S}
<1>1. T \in SUBSET Nat /\ T # {}
  <2>1. \A x \in S : n - x \in Nat
    OBVIOUS
  <2> QED BY <2>1
<1> HIDE DEF T
<1>2. Min(T) \in T /\ \A y \in T : Min(T) <= y
  BY <1>1, MinOf
<1>3. PICK m \in S : Min(T) = n - m
  BY <1>2 DEF T
<1>4. ASSUME NEW y \in S PROVE m >= y
  <2>1. n - y \in T
    BY DEF T
  <2>2. n - m <= n - y
    BY <1>2, <1>3, <2>1
  <2> QED BY <2>2
<1>5. \E x \in S : \A y \in S : x >= y
  BY <1>4
<1> QED BY <1>5, Zenon DEF Max

States == [hold : Nat, state : Nat]

LEMMA ListedIs ==
  ASSUME NEW states \in Seq(States)
  PROVE  LET s == Listed(states)
         IN /\ s \in Seq(States) /\ Len(s) <= Len(states)
            /\ \A k \in 1 .. Len(s) : s[k] = states[k] /\ s[k].hold > 0
            /\ Len(s) < Len(states) => states[Len(s) + 1].hold = 0
<1> DEFINE ends == {i \in DOMAIN states : states[i].hold = 0}
           s == Listed(states)
<1>1. s = IF ends = {} THEN states ELSE SubSeq(states, 1, Min(ends) - 1)
  BY DEF Listed
<1>2. Len(states) \in Nat /\ \A i \in 1 .. Len(states) : states[i].hold \in Nat
  <2>1. \A i \in 1 .. Len(states) : states[i] \in States
    OBVIOUS
  <2>2. \A e \in States : e.hold \in Nat
    BY DEF States
  <2> QED BY <2>1, <2>2
<1>3. CASE ends = {}
  <2>1. s = states
    BY <1>1, <1>3
  <2>2. \A k \in 1 .. Len(states) : states[k].hold > 0
    BY <1>2, <1>3
  <2> HIDE DEF s
  <2>3. s \in Seq(States) /\ Len(s) = Len(states)
    BY <2>1
  <2> QED BY <1>2, <2>1, <2>2, <2>3 DEF s
<1>4. CASE ends # {}
  <2> DEFINE m == Min(ends)
             k == m - 1
  <2>1. ends \in SUBSET Nat
    OBVIOUS
  <2>2. m \in ends /\ \A y \in ends : m <= y
    BY <1>4, <2>1, MinOf
  <2> HIDE DEF m
  <2>3. m \in 1 .. Len(states) /\ states[m].hold = 0
    BY <2>2
  <2>4. s = SubSeq(states, 1, k)
    BY <1>1, <1>4 DEF m
  <2>5. k \in Nat /\ k < Len(states) /\ k + 1 = m /\ k <= Len(states)
    BY <1>2, <2>3
  <2>6. ASSUME NEW j \in 1 .. k PROVE states[j].hold > 0
    <3>1. j \in 1 .. Len(states) /\ j < m
      BY <1>2, <2>5
    <3>2. j \notin ends
      BY <2>2, <2>3, <3>1
    <3> QED BY <1>2, <3>1, <3>2
  <2> HIDE DEF k, ends, s
  <2>7. s \in Seq(States) /\ Len(s) = k /\ \A j \in 1 .. k : s[j] = states[j]
    BY <1>2, <2>4, <2>5, SubSeqProperties
  <2> QED BY <2>3, <2>5, <2>6, <2>7 DEF s
<1> QED BY <1>3, <1>4

LEMMA Positive ==
  \A a, b \in Nat \ {0} : a * b \in Nat /\ a * b > 0
OBVIOUS

\* A multiple of m is so many times m.
LEMMA Multiple ==
  ASSUME NEW x \in Nat, NEW m \in Nat \ {0}, x % m = 0
  PROVE  /\ x \div m \in Nat
         /\ (x \div m) * m = x
         /\ x > 0 => x \div m > 0
OBVIOUS

LEMMA TimesAre ==
  ASSUME NEW s \in Seq(States), Exact(s), \A k \in 1 .. Len(s) : s[k].hold > 0
  PROVE  /\ Len(s) \in Nat /\ Len(s) > 0
         /\ Times(s) \in Seq(Nat) /\ Len(Times(s)) = Len(s)
         /\ \A k \in 1 .. Len(s) : Times(s)[k] \in Nat /\ Times(s)[k] > 0
                                   /\ Times(s)[k] * Milli = s[k].hold * Mhz
<1> DEFINE n == Len(s)
           t == Times(s)
<1>1. n \in Nat /\ n > 0 /\ DOMAIN s = 1 .. n
  BY DEF Exact
<1>2. \A k \in 1 .. n : s[k].hold \in Nat \ {0}
  <2>1. \A k \in 1 .. n : s[k] \in States
    OBVIOUS
  <2>2. \A e \in States : e.hold \in Nat
    BY DEF States
  <2> QED BY <2>1, <2>2
<1>3. t = [k \in 1 .. n |-> (s[k].hold * Mhz) \div Milli]
  BY <1>1 DEF Times
<1>4. ASSUME NEW k \in 1 .. n
      PROVE  t[k] \in Nat /\ t[k] > 0 /\ t[k] * Milli = s[k].hold * Mhz
  <2> DEFINE x == s[k].hold * Mhz
  <2>1. x \in Nat /\ x > 0
    BY <1>2, SizesAssumption, Positive
  <2>2. x % Milli = 0
    BY <1>1 DEF Exact
  <2>3. t[k] = x \div Milli
    BY <1>3
  <2> HIDE DEF x, t
  <2>4. x \div Milli \in Nat /\ (x \div Milli) * Milli = x /\ x \div Milli > 0
    BY <2>1, <2>2, SizesAssumption, Multiple
  <2> QED BY <2>3, <2>4 DEF x
<1> HIDE DEF t, n
<1>5. t \in Seq(Nat) /\ Len(t) = n
  <2>1. DOMAIN t = 1 .. n /\ t = [k \in 1 .. n |-> t[k]]
    BY <1>3
  <2> QED BY <1>1, <1>4, <2>1
<1> QED BY <1>1, <1>4, <1>5 DEF t, n

LEMMA DividerIs ==
  ASSUME NEW t \in Seq(Nat), \A k \in 1 .. Len(t) : t[k] > 0
  PROVE  /\ Divider(t) \in 1 .. DividerMax
         /\ \A k \in 1 .. Len(t) : /\ t[k] \div Divider(t) \in Nat
                                   /\ t[k] \div Divider(t) > 0
                                   /\ (t[k] \div Divider(t)) * Divider(t) = t[k]
<1> DEFINE S == {DividerMax} \cup ToSet(t)
           c == Cap(t)
           D == {d \in 1 .. c : Divides(d, t)}
<1>1. Len(t) \in Nat /\ DOMAIN t = 1 .. Len(t) /\ \A k \in 1 .. Len(t) : t[k] \in Nat
  OBVIOUS
<1>2. S \in SUBSET Nat /\ S # {} /\ DividerMax \in S /\ \A x \in S : x > 0
  BY <1>1, SizesAssumption DEF ToSet
<1>3. c = Min(S)
  BY DEF Cap
<1> HIDE DEF S, c
<1>4. c \in S /\ \A y \in S : c <= y
  BY <1>2, <1>3, MinOf
<1>5. c \in Nat /\ c > 0 /\ c <= DividerMax
  BY <1>2, <1>4
<1>6. Divides(1, t)
  BY <1>1 DEF Divides
<1>7. D \in SUBSET (0 .. c) /\ D # {}
  BY <1>5, <1>6
<1>8. Divider(t) = Max(D)
  BY DEF Divider, c
<1>9. Divider(t) \in D
  BY <1>5, <1>7, <1>8, MaxOf
<1>10. Divider(t) \in 1 .. c /\ Divides(Divider(t), t)
  BY <1>9
<1>11. Divider(t) \in 1 .. DividerMax /\ Divider(t) \in Nat \ {0}
  BY <1>5, <1>10, SizesAssumption
<1>12. ASSUME NEW k \in 1 .. Len(t)
       PROVE  /\ t[k] \div Divider(t) \in Nat
              /\ t[k] \div Divider(t) > 0
              /\ (t[k] \div Divider(t)) * Divider(t) = t[k]
  <2>1. t[k] % Divider(t) = 0 /\ t[k] \in Nat /\ t[k] > 0
    BY <1>1, <1>10 DEF Divides
  <2> QED BY <1>11, <2>1, Multiple
<1> QED BY <1>11, <1>12

LEMMA FullFits ==
  ASSUME NEW t \in Nat, t > 0
  PROVE  /\ Slots(t) \in Nat /\ Slots(t) > 0
         /\ (Slots(t) - 1) * SlotMax < t /\ t <= Slots(t) * SlotMax
         /\ DOMAIN Full(t) = 1 .. Slots(t)
         /\ \A k \in 1 .. Slots(t) : Full(t)[k] \in 1 .. SlotMax
<1> DEFINE s == Slots(t)
<1>1. SlotMax \in Nat \ {0}
  BY SizesAssumption
<1>2. s = (t + SlotMax - 1) \div SlotMax
  BY DEF Slots
<1>3. s \in Nat /\ s * SlotMax <= t + SlotMax - 1 /\ t + SlotMax - 1 < s * SlotMax + SlotMax
  <2>1. t + SlotMax - 1 \in Nat
    BY <1>1
  <2> QED BY <1>1, <1>2, <2>1, Division
<1> HIDE DEF s
<1>4. s > 0
  BY <1>1, <1>3
<1>5. (s - 1) * SlotMax = s * SlotMax - SlotMax
  BY <1>1, <1>3
<1>6. (s - 1) * SlotMax \in Int /\ s * SlotMax \in Int
  BY <1>1, <1>3
<1>7. (s - 1) * SlotMax < t /\ t <= s * SlotMax
  BY <1>1, <1>3, <1>5, <1>6
<1>8. t - (s - 1) * SlotMax \in 1 .. SlotMax
  BY <1>1, <1>5, <1>6, <1>7
<1>9. ASSUME NEW k \in 1 .. s PROVE Full(t)[k] \in 1 .. SlotMax
  <2>1. Full(t)[k] = IF k < s THEN SlotMax ELSE t - (s - 1) * SlotMax
    BY DEF Full, s
  <2> QED BY <1>1, <1>8, <2>1
<1>10. DOMAIN Full(t) = 1 .. s
  BY DEF Full, s
<1> QED BY <1>3, <1>4, <1>7, <1>9, <1>10 DEF s

\* The tick of a list, and its states in ticks and in notes.
Ratio(states) == Divider(Times(Listed(states)))
InTicks(states) ==
  [k \in DOMAIN Listed(states) |-> Times(Listed(states))[k] \div Ratio(states)]
InSlots(states) == [k \in DOMAIN Listed(states) |-> Slots(InTicks(states)[k])]

LEMMA TicksAre ==
  ASSUME NEW states \in Seq(States), Lowers(states)
  PROVE  /\ Listed(states) \in Seq(States)
         /\ Len(Listed(states)) \in Nat /\ Len(Listed(states)) > 0
         /\ Ratio(states) \in 1 .. DividerMax
         /\ \A k \in 1 .. Len(Listed(states)) :
              /\ Listed(states)[k].hold \in Nat /\ Listed(states)[k].hold > 0
              /\ Listed(states)[k].state \in Nat
              /\ InTicks(states)[k] \in Nat /\ InTicks(states)[k] > 0
              /\ InTicks(states)[k] * Ratio(states) * Milli = Listed(states)[k].hold * Mhz
              /\ InSlots(states)[k] = Slots(InTicks(states)[k])
              /\ InSlots(states)[k] \in Nat /\ InSlots(states)[k] > 0
         /\ InSlots(states) \in Seq(Nat)
         /\ Len(InSlots(states)) = Len(Listed(states))
         /\ Sums(InSlots(states))[Len(Listed(states))] <= NotesMax
<1> DEFINE s == Listed(states)
           n == Len(s)
           t == Times(s)
           d == Ratio(states)
           tau == InTicks(states)
           l == InSlots(states)
<1>1. s \in Seq(States) /\ \A k \in 1 .. n : s[k].hold > 0
  BY ListedIs
<1>2. Exact(s) /\ Allocated(t, d) <= NotesMax
  BY DEF Lowers, Ratio
<1>3. d = Divider(t)
  BY DEF Ratio
<1>4. tau = [k \in DOMAIN s |-> t[k] \div d]
  BY DEF InTicks
<1>5. l = [k \in DOMAIN s |-> Slots(tau[k])]
  BY DEF InSlots
<1> HIDE DEF s, d, tau, l
<1>6. /\ n \in Nat /\ n > 0 /\ t \in Seq(Nat) /\ Len(t) = n
      /\ \A k \in 1 .. n : t[k] \in Nat /\ t[k] > 0 /\ t[k] * Milli = s[k].hold * Mhz
  BY <1>1, <1>2, TimesAre
<1>7. DOMAIN s = 1 .. n /\ \A k \in 1 .. n : s[k].hold \in Nat /\ s[k].state \in Nat
  <2>1. \A k \in 1 .. n : s[k] \in States
    BY <1>1
  <2>2. \A e \in States : e.hold \in Nat /\ e.state \in Nat
    BY DEF States
  <2> QED BY <1>1, <2>1, <2>2
<1> HIDE DEF n, t
<1>8. /\ d \in 1 .. DividerMax
      /\ \A k \in 1 .. n : t[k] \div d \in Nat /\ t[k] \div d > 0 /\ (t[k] \div d) * d = t[k]
  BY <1>3, <1>6, DividerIs
<1>9. ASSUME NEW k \in 1 .. n
      PROVE  /\ tau[k] \in Nat /\ tau[k] > 0 /\ tau[k] * d * Milli = s[k].hold * Mhz
             /\ l[k] = Slots(tau[k]) /\ l[k] \in Nat /\ l[k] > 0
  <2>1. tau[k] = t[k] \div d /\ l[k] = Slots(tau[k])
    BY <1>4, <1>5, <1>7
  <2>2. tau[k] \in Nat /\ tau[k] > 0 /\ tau[k] * d = t[k]
    BY <1>8, <2>1
  <2>3. Slots(tau[k]) \in Nat /\ Slots(tau[k]) > 0
    BY <2>2, FullFits
  <2>4. tau[k] * d * Milli = s[k].hold * Mhz
    BY <1>6, <2>2, Zenon
  <2> QED BY <2>1, <2>2, <2>3, <2>4, Zenon
<1>10. l \in Seq(Nat) /\ Len(l) = n
  <2>1. DOMAIN l = 1 .. n /\ l = [k \in 1 .. n |-> l[k]]
    BY <1>5, <1>7
  <2>2. \A k \in 1 .. n : l[k] \in Nat
    BY <1>9
  <2>3. n \in Nat
    BY <1>6
  <2> QED BY <2>1, <2>2, <2>3, Enumerates, Zenon
<1>11. Sums(l)[n] <= NotesMax
  <2>1. DOMAIN t = 1 .. n /\ DOMAIN s = 1 .. n
    BY <1>6, <1>7
  <2>2. [i \in DOMAIN t |-> Slots(t[i] \div d)] = l
    BY <1>4, <1>5, <2>1
  <2>3. Allocated(t, d) = Sums(l)[n]
    BY <1>6, <2>2 DEF Allocated
  <2> QED BY <1>2, <2>3
<1> QED BY <1>1, <1>6, <1>7, <1>8, <1>9, <1>10, <1>11 DEF s, n, d, tau, l

Notation == [hold : 1 .. SlotMax, state : Nat]

\* What lower_logic_sequence() returns for a list that it accepts.
LEMMA LowerIs ==
  ASSUME NEW states \in Seq(States), Lowers(states)
  PROVE  /\ Lower(states).prescaler = Ratio(states) - 1
         /\ Lower(states).count = Sums(InSlots(states))[Len(Listed(states))]
         /\ Lower(states).notes \in Seq(Notation)
         /\ Len(Lower(states).notes) = Sums(InSlots(states))[Len(Listed(states))]
         /\ \A k \in 1 .. Len(Listed(states)) : \A j \in 1 .. InSlots(states)[k] :
              Lower(states).notes[Sums(InSlots(states))[k - 1] + j]
                = [hold |-> Full(InTicks(states)[k])[j], state |-> Listed(states)[k].state]
<1> DEFINE s == Listed(states)
           n == Len(s)
           t == Times(s)
           d == Ratio(states)
           tau == InTicks(states)
           l == InSlots(states)
           e == Lower(states)
           p == [i \in DOMAIN s |-> [k \in DOMAIN Notes[t[i] \div d] |->
                                       [hold |-> Notes[t[i] \div d][k], state |-> s[i].state]]]
<1>1. /\ e.prescaler = d - 1 /\ e.count = Allocated(t, d) /\ e.notes = FlattenSeq(p)
  BY Zenon DEF Lower, Ratio
<1>2. /\ s \in Seq(States) /\ n \in Nat /\ n > 0 /\ l \in Seq(Nat) /\ Len(l) = n
      /\ \A k \in 1 .. n : /\ s[k].state \in Nat /\ tau[k] \in Nat /\ tau[k] > 0
                           /\ l[k] = Slots(tau[k]) /\ l[k] \in Nat
  BY TicksAre
<1>3. DOMAIN s = 1 .. n /\ DOMAIN t = 1 .. n
  BY <1>2 DEF Times
<1>4. \A k \in 1 .. n : tau[k] = t[k] \div d
  BY <1>3 DEF InTicks
<1>5. Allocated(t, d) = Sums(l)[n]
  <2>1. [i \in DOMAIN t |-> Slots(t[i] \div d)] = l
    <3>1. l = [k \in 1 .. n |-> Slots(tau[k])]
      BY <1>3 DEF InSlots
    <3> HIDE DEF l, tau, t, d, n
    <3> QED BY <1>3, <1>4, <3>1
  <2>2. Len(t) = n
    <3> HIDE DEF n
    <3> QED BY <1>2, <1>3 DEF Times
  <2> QED BY <2>1, <2>2 DEF Allocated
<1> DEFINE part(k) == [j \in 1 .. l[k] |-> [hold |-> Full(tau[k])[j], state |-> s[k].state]]
<1> HIDE DEF s, n, t, d, tau, l, e
<1>6. ASSUME NEW k \in 1 .. n
      PROVE  /\ p[k] = part(k) /\ p[k] \in Seq(Notation) /\ Len(p[k]) = l[k]
  <2>1. Notes[tau[k]] = Full(tau[k]) /\ DOMAIN Full(tau[k]) = 1 .. l[k]
    BY <1>2, NotesAre, FullFits
  <2>2. \A j \in 1 .. l[k] : Full(tau[k])[j] \in 1 .. SlotMax
    BY <1>2, FullFits
  <2>3. p[k] = [j \in DOMAIN Notes[t[k] \div d] |->
                  [hold |-> Notes[t[k] \div d][j], state |-> s[k].state]]
    BY <1>3
  <2>4. p[k] = part(k)
    BY <1>4, <2>1, <2>3, Zenon
  <2>5. \A j \in 1 .. l[k] : part(k)[j] \in Notation
    BY <1>2, <2>2 DEF Notation
  <2>6. DOMAIN part(k) = 1 .. l[k] /\ part(k) = [j \in 1 .. l[k] |-> part(k)[j]]
    OBVIOUS
  <2>7. l[k] \in Nat
    BY <1>2
  <2>8. part(k) \in Seq(Notation) /\ Len(part(k)) = l[k]
    <3> HIDE DEF part
    <3> QED BY <2>5, <2>6, <2>7, Enumerates, Zenon
  <2> HIDE DEF p, part
  <2> QED BY <2>4, <2>8, Zenon
<1>7. DOMAIN p = 1 .. n
  BY <1>3
<1> HIDE DEF p
<1>8. p \in Seq(Seq(Notation)) /\ Len(p) = n
  <2>1. p = [k \in 1 .. n |-> p[k]]
    <3>1. p = [k \in DOMAIN s |-> p[k]]
      BY <1>3 DEF p
    <3> QED BY <1>3, <3>1, Zenon
  <2>2. \A k \in 1 .. n : p[k] \in Seq(Notation)
    BY <1>6, Zenon
  <2>3. n \in Nat
    BY <1>2, Zenon
  <2> QED BY <1>7, <2>1, <2>2, <2>3, Enumerates, Zenon
<1>9. /\ FlattenSeq(p) \in Seq(Notation) /\ Len(FlattenSeq(p)) = Sums(l)[n]
      /\ \A k \in 1 .. n : \A j \in 1 .. l[k] : FlattenSeq(p)[Sums(l)[k - 1] + j] = p[k][j]
  <2>1. p \in Seq(Seq(Notation)) /\ l \in Seq(Nat) /\ Len(l) = Len(p)
        /\ \A k \in 1 .. Len(p) : l[k] = Len(p[k])
    BY <1>2, <1>6, <1>8
  <2>2. /\ FlattenSeq(p) \in Seq(Notation) /\ Len(FlattenSeq(p)) = Sums(l)[Len(p)]
        /\ \A k \in 1 .. Len(p) : \A j \in 1 .. Len(p[k]) :
             FlattenSeq(p)[Sums(l)[k - 1] + j] = p[k][j]
    BY <2>1, Flattened, Zenon
  <2> QED BY <1>6, <1>8, <2>2, Zenon
<1>10. ASSUME NEW k \in 1 .. n, NEW j \in 1 .. l[k]
       PROVE  e.notes[Sums(l)[k - 1] + j] = [hold |-> Full(tau[k])[j], state |-> s[k].state]
  <2>1. p[k] = part(k)
    BY <1>6
  <2> HIDE DEF p
  <2>2. FlattenSeq(p)[Sums(l)[k - 1] + j] = part(k)[j] /\ e.notes = FlattenSeq(p)
    BY <1>1, <1>9, <2>1, Zenon
  <2>3. part(k)[j] = [hold |-> Full(tau[k])[j], state |-> s[k].state]
    OBVIOUS
  <2> QED BY <2>2, <2>3, Zenon
<1> QED BY <1>1, <1>5, <1>9, <1>10, Zenon DEF s, n, t, d, tau, l, e

LEMMA LowerFits ==
  ASSUME NEW states \in Seq(States), Lowers(states)
  PROVE  LET logic == Lower(states)
         IN /\ Len(logic.notes) = logic.count /\ logic.count <= NotesMax
            /\ \A i \in DOMAIN logic.notes : logic.notes[i].hold \in 1 .. SlotMax
            /\ logic.prescaler \in 0 .. DividerMax - 1
<1> DEFINE logic == Lower(states)
           n == Sums(InSlots(states))[Len(Listed(states))]
<1>1. /\ logic.prescaler = Ratio(states) - 1 /\ logic.count = n
      /\ logic.notes \in Seq(Notation) /\ Len(logic.notes) = n
  BY LowerIs, Zenon
<1>2. Ratio(states) \in 1 .. DividerMax /\ n <= NotesMax
  BY TicksAre, Zenon
<1>3. logic.prescaler \in 0 .. DividerMax - 1
  BY <1>1, <1>2, SizesAssumption
<1>4. ASSUME NEW i \in DOMAIN logic.notes PROVE logic.notes[i].hold \in 1 .. SlotMax
  <2>1. logic.notes[i] \in Notation
    BY <1>1
  <2>2. \A e \in Notation : e.hold \in 1 .. SlotMax
    BY DEF Notation
  <2> QED BY <2>1, <2>2, Zenon
<1> QED BY <1>1, <1>2, <1>3, <1>4, Zenon

(***************************************************************************)
(* The numbers that a list in JSON is made of.                             *)
(***************************************************************************)

\* A container that is left, if one is, has a number of items.
Leaves(x) == x.left = <<>> \/ \E p : \E n \in Nat : x.left = <<p, n>>

LEMMA ValueLeaves ==
  ASSUME NEW x, NEW f \in Seq(Frames), Len(f) > 0, At(x, f, TRUE), Quiet(x), NEW c
  PROVE  Leaves(Value(x, c))
<1> DEFINE y == Leave(x, "VALUE")
<1>1. Automaton(x) /\ "VALUE" \notin {"OBJECT", "ARRAY"}
  BY DEF At
<1>2. Automaton(y) /\ Quiet(y) /\ y.acc = x.acc
  BY <1>1, LeaveFields, QuietFields, Zenon
<1>3. Tail_(y.acc) \in Nat
  <2>1. Tail_(x.acc) = f[Len(f)].items
    BY Innermost DEF At, Counted, Tail_
  <2>2. f[Len(f)] \in Frames
    BY Innermost
  <2>3. f[Len(f)].items \in Nat
    BY <2>2 DEF Frames
  <2> QED BY <1>2, <2>1, <2>3, Zenon
<1>4. Automaton(Tick(x)) /\ Quiet(Tick(x))
  BY <1>1, TickFields, QuietFields, Zenon
<1>5. \A scope : Automaton(Enter(Tick(x), scope))
  BY <1>4, EnterFields, Zenon
<1>6. \A z : Automaton(z) /\ Quiet(z) => \A scope : Enter(z, scope).left = <<>>
  <2>1. ASSUME NEW z, Automaton(z), Quiet(z), NEW scope PROVE Enter(z, scope).left = <<>>
    BY <2>1, QuietFields, Zenon DEF Quiet
  <2> QED BY <2>1
<1>7. "ARRAY" # "VALUE" /\ "OBJECT" # "VALUE"
  OBVIOUS
<1>8. Quiet(Enter(Tick(x), "ARRAY"))
  BY <1>4, <1>7, QuietFields, Zenon
<1>9. \A scope \in {"OBJECT", "ARRAY"} : Leave(y, scope).left = <<y.path, Tail_(y.acc)>>
  BY <1>2, QuietFields, Zenon
<1>10. /\ \A scope : Leaves(Enter(Tick(x), scope)) /\ Leaves(Enter(y, scope))
       /\ Leaves(Enter(Enter(Tick(x), "ARRAY"), "VALUE"))
       /\ Leaves(x) /\ Leaves(y)
       /\ Leaves(Leave(y, "OBJECT")) /\ Leaves(Leave(y, "ARRAY"))
  BY <1>2, <1>3, <1>4, <1>5, <1>6, <1>8, <1>9, Zenon DEF Leaves, Quiet
<1> HIDE DEF y
<1>11. \/ \E scope : Value(x, c) = Enter(Tick(x), scope)
       \/ Value(x, c) = Enter(Enter(Tick(x), "ARRAY"), "VALUE")
       \/ Value(x, c) = y \/ Value(x, c) = Enter(y, "VALUE") \/ Value(x, c) = x
       \/ Value(x, c) = Leave(y, "OBJECT") \/ Value(x, c) = Leave(y, "ARRAY")
  BY DEF Value, y
<1> QED BY <1>10, <1>11, Zenon

LEMMA TextLeaves ==
  ASSUME IInv, NEW c, NEW w
  PROVE  Leaves(Dispatch(self, c, w))
<1>1. open \in Seq(Frames) /\ phase \in Phases
  BY DEF IInv, Here
<1>2. CASE phase \in {"root", "end"}
  <2>1. At(self, <<>>, TRUE)
    BY <1>2 DEF IInv, Here
  <2>2. Dispatch(self, c, w) = Root(Fresh(self), c) /\ Automaton(Fresh(self)) /\ Quiet(Fresh(self))
    BY <2>1, ReadsRoot, Rests, Zenon
  <2> DEFINE x == Fresh(self)
  <2> HIDE DEF x
  <2>3. /\ x.left = <<>> /\ Fail(x).left = <<>> /\ Enter(x, "OBJECT").left = <<>>
        /\ Enter(Enter(x, "ARRAY"), "VALUE").left = <<>>
    BY <2>2 DEF x, Fail, Enter, Quiet, Automaton, Fields
  <2>4. Root(x, c) \in {x, Fail(x), Enter(x, "OBJECT"), Enter(Enter(x, "ARRAY"), "VALUE")}
    BY DEF Root
  <2> QED BY <2>2, <2>3, <2>4 DEF Leaves, x
<1>3. ASSUME Len(open) > 0, At(self, open, TRUE) PROVE Leaves(Dispatch(self, c, w))
  <2>1. Dispatch(self, c, w) = Value(Fresh(self), c) /\ At(Fresh(self), open, TRUE)
    BY <1>1, <1>3, ReadsItem, Zenon
  <2>2. Quiet(Fresh(self))
    BY <1>3, Rests, Zenon
  <2> QED BY <1>1, <1>3, <2>1, <2>2, ValueLeaves, Zenon
<1>4. ASSUME Len(open) > 0, Kind(open) = "object", At(self, open, FALSE)
      PROVE  Leaves(Dispatch(self, c, w))
  <2>1. Dispatch(self, c, w) = Object(Fresh(self), c) /\ At(Fresh(self), open, FALSE)
    BY <1>1, <1>4, ReadsObject, Zenon DEF Kind
  <2> DEFINE x == Fresh(self)
  <2>2. Quiet(x) /\ Automaton(x)
    BY <1>4, Rests, Zenon
  <2>3. Leaves(Leave(x, "OBJECT"))
    <3>1. \E p : ContainerEnds(Leave(x, ScopeOf(open[Len(open)].kind)), p, open[Len(open)].items)
      BY <1>1, <1>4, <2>1, <2>2, NoticesClosing, Zenon
    <3>2. ScopeOf(open[Len(open)].kind) = "OBJECT"
      BY <1>4 DEF Kind, ScopeOf
    <3>3. open[Len(open)] \in Frames
      BY <1>1, <1>4, Innermost
    <3>4. open[Len(open)].items \in Nat
      BY <3>3 DEF Frames
    <3> QED BY <3>1, <3>2, <3>4, Zenon DEF Leaves, ContainerEnds
  <2> HIDE DEF x
  <2>4. /\ x.left = <<>> /\ Fail(x).left = <<>> /\ Enter(x, "KEY").left = <<>>
        /\ Enter(x, "VALUE").left = <<>>
    BY <2>2 DEF Fail, Enter, Quiet, Automaton, Fields
  <2>5. Object(x, c) \in {x, Fail(x), Enter(x, "KEY"), Enter(x, "VALUE"), Leave(x, "OBJECT")}
    BY DEF Object
  <2> QED BY <2>1, <2>3, <2>4, <2>5, Zenon DEF Leaves, x
<1>5. ASSUME NEW inv, NEW tok \in {"STR", "KEY"}, AtToken(self, open, inv, tok)
      PROVE  Leaves(Dispatch(self, c, w))
  BY <1>5, NoticesString, NoticesName, Zenon DEF Leaves, Quiet
<1>6. ASSUME Len(open) > 0, AtToken(self, open, TRUE, "PRIMITIVE")
      PROVE  Leaves(Dispatch(self, c, w))
  <2>1. CASE c # "number"
    <3>1. Ended(self, open)
      BY <1>6 DEF Ended
    <3>2. PICK y : At(y, open, TRUE) /\ Quiet(y) /\ Dispatch(self, c, w) = Value(y, c)
      BY <1>1, <1>6, <2>1, <3>1, ReadsEnd, Zenon
    <3> QED BY <1>1, <1>6, <3>2, ValueLeaves, Zenon
  <2>2. CASE c = "number"
    <3>1. Tail_(Fresh(self).stack) = "PRIMITIVE"
      BY <1>6, ReadsToken, Zenon
    <3>2. Dispatch(self, c, w) = Primitive(Fresh(self), c)
      BY <3>1, Dispatches
    <3>3. Dispatch(self, c, w) = Fresh(self)
      BY <2>2, <3>2 DEF Primitive
    <3>4. Quiet(Fresh(self))
      BY <1>6, FreshFields, Zenon DEF AtToken
    <3> QED BY <3>3, <3>4, Zenon DEF Leaves, Quiet
  <2> QED BY <2>1, <2>2
<1>7. \/ phase \in {"root", "end"}
      \/ Len(open) > 0 /\ At(self, open, TRUE)
      \/ Len(open) > 0 /\ Kind(open) = "object" /\ At(self, open, FALSE)
      \/ AtToken(self, open, TRUE, "STR")
      \/ AtToken(self, open, FALSE, "KEY")
      \/ Len(open) > 0 /\ AtToken(self, open, TRUE, "PRIMITIVE")
  BY DEF IInv, Here, Phases
<1> QED BY <1>2, <1>3, <1>4, <1>5, <1>6, <1>7

Answer == Nat \cup {-1}
Numbered == value \in [Queries -> Answer] /\ count \in [Queries -> Answer]

LEMMA ReadNumbers ==
  ASSUME IInv, Numbered, NEW c, NEW w, NEW n \in Answer, Read(c, w, n)
  PROVE  Numbered'
<1>1. self' = Dispatch(self, c, w)
  BY DEF Read
<1>2. Leaves(self')
  BY <1>1, TextLeaves, Zenon
<1>3. value' = [q \in Queries |-> IF loc[q] = "here" /\ c = "number" THEN n ELSE value[q]]
  BY DEF Read
<1>4. count' = [q \in Queries |->
         IF count[q] = -1 /\ self'.left # <<>> /\ Matches(self'.left[1], q)
         THEN self'.left[2] ELSE count[q]]
  BY DEF Read
<1>5. self'.left # <<>> => self'.left[2] \in Answer
  BY <1>2 DEF Leaves, Answer
<1>6. value' \in [Queries -> Answer]
  BY <1>3 DEF Numbered
<1>7. count' \in [Queries -> Answer]
  BY <1>4, <1>5 DEF Numbered
<1> QED BY <1>6, <1>7 DEF Numbered

LEMMA WriteReads ==
  ASSUME Write
  PROVE  \E c, w : \E n \in Answer : Read(c, w, n)
<1>1. -1 \in Answer /\ Values \subseteq Answer
  BY ValuesAssumption DEF Answer
<1>2. ASSUME NEW c, NEW w, NEW n \in Answer, Read(c, w, n)
      PROVE  \E d, v : \E m \in Answer : Read(d, v, m)
  BY <1>2
<1>3. ASSUME NEW n \in Values, Atom(n) PROVE Read("number", NoWord, n)
  BY <1>3 DEF Atom
<1>4. ASSUME OpenObject \/ OpenArray \/ CloseObject \/ CloseArray
      PROVE  \E c : Read(c, NoWord, -1)
  BY <1>4 DEF OpenObject, OpenArray, CloseObject, CloseArray, Open, Close
<1>5. ASSUME StringBegins \/ StringEnds \/ NameBegins \/ NameEnds \/ Colon \/ Comma \/ Space
      PROVE  \E c : Read(c, NoWord, -1)
  BY <1>5, Zenon DEF StringBegins, StringEnds, NameBegins, NameEnds, Colon, Comma, Space
<1>6. ASSUME NEW c, InString(c) PROVE Read(c, NoWord, -1)
  BY <1>6 DEF InString
<1>7. ASSUME NEW w, Name(w) PROVE Read("word", w, -1)
  BY <1>7 DEF Name
<1> QED BY <1>1, <1>2, <1>3, <1>4, <1>5, <1>6, <1>7, Zenon DEF Write

LEMMA NumberedStep == IInv /\ Numbered /\ [Next]_cvars => Numbered'
<1> SUFFICES ASSUME IInv, Numbered, [Next]_cvars PROVE Numbered'
  OBVIOUS
<1>1. CASE WriteList
  <2>1. Write
    BY <1>1 DEF WriteList
  <2> QED BY <2>1, WriteReads, ReadNumbers, Zenon
<1>2. CASE SeqJson
  <2>1. value' = Unanswered /\ count' = Unanswered
    BY <1>2 DEF SeqJson
  <2>2. Unanswered \in [Queries -> Answer]
    BY DEF Unanswered, Answer
  <2> QED BY <2>1, <2>2 DEF Numbered
<1>3. CASE UNCHANGED vars
  BY <1>3 DEF vars, results, Numbered
<1>4. UNCHANGED cvars => UNCHANGED vars
  BY DEF cvars
<1> QED BY <1>1, <1>2, <1>3, <1>4, CommandReads, Zenon DEF Next

LEMMA NumberedBase == Init => Numbered
BY DEF Init, JsonInit, Unanswered, Numbered, Answer

(***************************************************************************)
(* The lists of the commands.                                              *)
(***************************************************************************)

LEMMA OptionalTyped ==
  ASSUME NEW o \in Nat
  PROVE  /\ Optional(o) \in Seq(States) /\ Len(Optional(o)) = IF o = 0 THEN 0 ELSE 1
         /\ o # 0 => Optional(o)[1] = State(o, 0)
<1>1. <<State(o, 0)>> \in Seq(States) /\ <<>> \in Seq(States)
  BY DEF State, States
<1>2. /\ Len(<<State(o, 0)>>) = 1 /\ <<State(o, 0)>>[1] = State(o, 0)
      /\ Len(<<>>) = 0
  OBVIOUS
<1>3. Optional(o) = IF o # 0 THEN <<State(o, 0)>> ELSE <<>>
  BY DEF Optional
<1> QED BY <1>1, <1>2, <1>3, Zenon

LEMMA TerminatorTyped ==
  /\ TERMINATOR \in Seq(States) /\ Len(TERMINATOR) = 3
  /\ TERMINATOR[1] = State(Parking, 0) /\ TERMINATOR[2] = State(Parking, 0)
  /\ TERMINATOR[3] = State(0, 0)
BY UnitsAssumption DEF TERMINATOR, State, States

LEMMA OnePulseTyped ==
  ASSUME NEW o \in Nat, NEW d \in Nat, NEW s \in Nat
  PROVE  OnePulse(o, d, s) \in Seq(States)
<1>1. <<State(d, s)>> \in Seq(States)
  BY DEF State, States
<1>2. Optional(o) \o <<State(d, s)>> \in Seq(States)
  BY <1>1, OptionalTyped, ConcatProperties
<1> QED BY <1>2, TerminatorTyped, ConcatProperties DEF OnePulse

LEMMA SymbolsTyped ==
  ASSUME NEW o \in Nat, NEW t \in Nat, NEW data \in Seq({0, 1})
  PROVE  Symbols(o, t, data) \in Seq(States)
<1> DEFINE m == [i \in DOMAIN data |-> State(t, IF data[i] # 0 THEN 2 ELSE 3)]
<1>1. m \in Seq(States)
  <2>1. DOMAIN m = 1 .. Len(data) /\ m = [i \in 1 .. Len(data) |-> m[i]] /\ Len(data) \in Nat
    OBVIOUS
  <2>2. \A i \in 1 .. Len(data) : m[i] \in States
    BY DEF State, States
  <2> HIDE DEF m
  <2> QED BY <2>1, <2>2, Enumerates, Zenon
<1>2. <<State(Short, 0), State(0, 0)>> \in Seq(States)
  BY UnitsAssumption DEF State, States
<1> HIDE DEF m
<1>3. Optional(o) \o m \in Seq(States)
  BY <1>1, OptionalTyped, ConcatProperties
<1>4. Optional(o) \o m \o <<State(Short, 0), State(0, 0)>> \in Seq(States)
  BY <1>2, <1>3, ConcatProperties
<1> QED BY <1>4 DEF Symbols, m

LEMMA DataTyped == Data \subseteq Seq({0, 1})
<1> SUFFICES ASSUME NEW data \in Data PROVE data \in Seq({0, 1})
  OBVIOUS
<1>1. PICK n \in 0 .. MaxData : data \in [1 .. n -> {0, 1}]
  BY DEF Data
<1>2. n \in Nat
  BY ArgumentsAssumption
<1> QED BY <1>1, <1>2

\* A command that changes the sequence empties it, or e comes in for it.
Stays == UNCHANGED <<sequence, asked>> \/ (sequence' = <<>> /\ asked' = <<>>)
Enters(e, c) ==
  \/ sequence' = Append(sequence, e) /\ asked' = Append(asked, c)
  \/ sequence' = <<e>> /\ asked' = <<c>>

LEMMA Entering ==
  /\ Halt \/ Return \/ (\E n : GiveUp(n)) => Stays
  /\ \A e, c : Add(e, c) \/ Only(e, c) => Enters(e, c)
BY DEF Halt, Return, GiveUp, Add, Only, Stays, Enters

LEMMA EntryLogic ==
  \A profiles, ram, ftw, sweep, states :
    Entry(profiles, ram, ftw, sweep, states).logic = Lower(states)
BY DEF Entry

\* The descriptor of a list of states.
Lowered(e) == \E states \in Seq(States) : Lowers(states) /\ e.logic = Lower(states)
Supplied == Stays \/ \E e, c : Lowered(e) /\ Enters(e, c)

LEMMA Supplying ==
  ASSUME NEW states \in Seq(States), NEW profiles, NEW ram, NEW ftw, NEW sweep, NEW what,
         \/ Halt \/ Return \/ (\E n : GiveUp(n))
         \/ Lowers(states) /\ \/ Add(Entry(profiles, ram, ftw, sweep, states), what)
                              \/ Only(Entry(profiles, ram, ftw, sweep, states), what)
  PROVE  Supplied
BY Entering, EntryLogic, Zenon DEF Lowered, Supplied

LEMMA ListTyped ==
  ASSUME NEW n \in Nat, NEW answers,
         \A i \in 1 .. n : \A name \in {"hold_ns", "state"} : answers[Idx(i - 1, name)] \in Nat
  PROVE  /\ List(n, answers) \in Seq(States) /\ Len(List(n, answers)) = n
         /\ Parked \in Seq(States) /\ Len(Parked) = 3
         /\ List(n, answers) \o Parked \in Seq(States)
<1> DEFINE l == List(n, answers)
<1>1. DOMAIN l = 1 .. n /\ l = [i \in 1 .. n |-> l[i]]
  BY DEF List
<1>2. \A i \in 1 .. n : l[i] \in States
  BY DEF List, State, States
<1> HIDE DEF l
<1>3. l \in Seq(States) /\ Len(l) = n
  BY <1>1, <1>2, Enumerates, Zenon
<1>4. Parked \in Seq(States) /\ Len(Parked) = 3
  BY UnitsAssumption DEF Parked, State, States
<1>5. l \o Parked \in Seq(States)
  BY <1>3, <1>4, ConcatProperties
<1> QED BY <1>3, <1>4, <1>5 DEF l

\* What the queries of an accepted text have answered.
LEMMA AnswersTyped ==
  ASSUME Numbered, NEW n, n = count[<<>>], ~(n <= 0 \/ n >= LoadMax),
         ~ \E i \in 1 .. n : \E name \in {"hold_ns", "state"} : value[Idx(i - 1, name)] = -1
  PROVE  /\ n \in Nat
         /\ \A i \in 1 .. n : \A name \in {"hold_ns", "state"} : value[Idx(i - 1, name)] \in Nat
<1>1. n \in Nat /\ n > 0 /\ n < LoadMax
  BY LoadAssumption, UnitsAssumption DEF Numbered, Answer
<1>2. ASSUME NEW i \in 1 .. n, NEW name \in {"hold_ns", "state"}
      PROVE  value[Idx(i - 1, name)] \in Nat
  <2>1. i - 1 \in 0 .. LoadMax - 2
    BY <1>1, UnitsAssumption
  <2>2. Idx(i - 1, name) \in Queries
    BY <2>1, LoadAssumption, Zenon
  <2>3. value[Idx(i - 1, name)] \in Answer
    BY <2>2, Zenon DEF Numbered
  <2>4. value[Idx(i - 1, name)] # -1
    BY Zenon
  <2> QED BY <2>3, <2>4 DEF Answer
<1> QED BY <1>1, <1>2

LEMMA CommandSupplies ==
  ASSUME Numbered, Command
  PROVE  Supplied
<1>0. /\ Offsets \subseteq Nat /\ Durations \subseteq Nat /\ Steps \subseteq Nat
      /\ Data \subseteq Seq({0, 1})
  BY ArgumentsAssumption, DataTyped
<1>1. CASE Reset
  BY <1>1 DEF Reset, Supplied, Stays
<1>2. ASSUME NEW o \in Offsets, NEW d \in Durations, NEW f, SeqPulse(o, d, f) PROVE Supplied
  <2>1. OnePulse(o, d, 1) \in Seq(States)
    BY <1>0, OnePulseTyped
  <2> QED BY <1>2, <2>1, Supplying, Zenon DEF SeqPulse
<1>3. ASSUME NEW o \in Offsets, NEW d \in Durations, NEW f, BasicPulse(o, d, f) PROVE Supplied
  <2>1. OnePulse(o, d, 1) \in Seq(States)
    BY <1>0, OnePulseTyped
  <2> QED BY <1>3, <2>1, Supplying, Zenon DEF BasicPulse
<1>4. ASSUME NEW o \in Offsets, NEW d \in Durations, NEW f, NEW a, NEW b, NEW run,
             Sweep(o, d, f, a, b, run)
      PROVE  Supplied
  <2>1. OnePulse(o, d, 1 + DR_CTL) \in Seq(States)
    BY <1>0, OnePulseTyped DEF DR_CTL
  <2> QED BY <1>4, <2>1, Supplying, Zenon DEF Sweep
<1>5. ASSUME NEW o \in Offsets, NEW fs, NEW t \in Steps, NEW data \in Data,
             NEW profiles, NEW ram, NEW ftw, NEW what,
             Xmit(o, fs, t, data, profiles, ram, ftw, what)
      PROVE  Supplied
  <2>1. Symbols(o, t, data) \in Seq(States)
    BY <1>0, SymbolsTyped
  <2> QED BY <1>5, <2>1, Supplying, Zenon DEF Xmit
<1>6. ASSUME NEW o \in Offsets, NEW f, NEW t \in Steps, NEW data \in Data, XmitRamPsk(o, f, t, data)
      PROVE  Supplied
  <2>1. t * Len(data) \in Nat
    <3>1. t \in Nat /\ Len(data) \in Nat
      BY <1>0
    <3> QED BY <3>1
  <2>2. OnePulse(o, t * Len(data), 1) \in Seq(States)
    BY <1>0, <2>1, OnePulseTyped
  <2> QED BY <1>6, <2>2, Supplying, Zenon DEF XmitRamPsk
<1>7. ASSUME NEW o \in Offsets, NEW t \in Steps, NEW data \in Data, NEW f, NEW g,
             XmitFsk(o, f, g, t, data) \/ XmitPsk(o, f, t, data) \/ XmitZcPsk(o, f, t, data)
      PROVE  Supplied
  BY <1>5, <1>7, Zenon DEF XmitFsk, XmitPsk, XmitZcPsk
<1>8. CASE SeqJson
  <2> DEFINE n == count[<<>>]
  <2>1. CASE Halt
    BY <2>1, Entering, Zenon DEF Supplied
  <2>2. CASE ~Halt
    <3>1. /\ ~(n <= 0 \/ n >= LoadMax)
          /\ ~ \E i \in 1 .. n : \E name \in {"hold_ns", "state"} : value[Idx(i - 1, name)] = -1
      BY <1>8, <2>2, Zenon DEF SeqJson
    <3>2. List(n, value) \o Parked \in Seq(States)
      BY <3>1, AnswersTyped, ListTyped, Zenon
    <3>3. /\ Lowers(List(n, value) \o Parked)
          /\ Add(Entry(JsonProfiles, <<>>, 0, NoSweep, List(n, value) \o Parked),
                 [kind |-> "list", items |-> List(n, meant)])
      BY <1>8, <2>2, Zenon DEF SeqJson
    <3> QED BY <3>2, <3>3, Supplying, Zenon
  <2> QED BY <2>1, <2>2
<1> QED BY <1>1, <1>2, <1>3, <1>4, <1>6, <1>7, <1>8, Zenon DEF Command

(***************************************************************************)
(* The arrays of every descriptor.                                         *)
(***************************************************************************)

Filled(e) ==
  /\ Len(e.logic.notes) = e.logic.count /\ e.logic.count <= NotesMax
  /\ \A i \in DOMAIN e.logic.notes : e.logic.notes[i].hold \in 1 .. SlotMax
  /\ e.logic.prescaler \in 0 .. DividerMax - 1
AllFilled == (\E S : sequence \in Seq(S)) /\ \A k \in 1 .. Len(sequence) : Filled(sequence[k])

LEMMA LoweredFits == \A e : Lowered(e) => Filled(e)
BY LowerFits, Zenon DEF Lowered, Filled

LEMMA AllFilledStep == IInv /\ Numbered /\ AllFilled /\ [Next]_cvars => AllFilled'
<1> SUFFICES ASSUME Numbered, AllFilled, [Next]_cvars PROVE AllFilled'
  OBVIOUS
<1>1. CASE sequence' = sequence
  BY <1>1 DEF AllFilled
<1>2. CASE sequence' = <<>>
  <2>1. <<>> \in Seq({}) /\ Len(<<>>) = 0
    OBVIOUS
  <2>2. \A k \in 1 .. 0 : Filled(sequence'[k])
    OBVIOUS
  <2> QED BY <1>2, <2>1, <2>2 DEF AllFilled
<1>3. ASSUME NEW e, Filled(e), NEW c, Enters(e, c) PROVE AllFilled'
  <2>1. PICK S : sequence \in Seq(S)
    BY DEF AllFilled
  <2> DEFINE n == Len(sequence)
  <2>2. n \in Nat /\ \A k \in 1 .. n : Filled(sequence[k])
    BY <2>1 DEF AllFilled
  <2>3. CASE sequence' = Append(sequence, e)
    <3>1. /\ Append(sequence, e) \in Seq(S \cup {e}) /\ Len(Append(sequence, e)) = n + 1
          /\ (\A i \in 1 .. n : Append(sequence, e)[i] = sequence[i])
          /\ Append(sequence, e)[n + 1] = e
      BY <2>1, AppendProperties, SeqMonotonic
    <3>2. \A k \in 1 .. n + 1 : k \in 1 .. n \/ k = n + 1
      BY <2>2
    <3> HIDE DEF n
    <3>3. \A k \in 1 .. n + 1 : Filled(Append(sequence, e)[k])
      BY <1>3, <2>2, <3>1, <3>2, Zenon
    <3> QED BY <2>3, <3>1, <3>3, Zenon DEF AllFilled
  <2>4. CASE sequence' = <<e>>
    <3>1. <<e>> \in Seq({e}) /\ Len(<<e>>) = 1 /\ \A k \in 1 .. 1 : <<e>>[k] = e
      OBVIOUS
    <3>2. \A k \in 1 .. 1 : Filled(<<e>>[k])
      BY <1>3, <3>1, Zenon
    <3> QED BY <2>4, <3>1, <3>2, Zenon DEF AllFilled
  <2> QED BY <1>3, <2>3, <2>4 DEF Enters
<1>4. CASE WriteList \/ UNCHANGED cvars
  BY <1>1, <1>4 DEF WriteList, cvars
<1>5. CASE Command
  <2>1. Supplied
    BY <1>5, CommandSupplies
  <2>2. ASSUME Stays PROVE AllFilled'
    BY <1>1, <1>2, <2>2 DEF Stays
  <2> QED BY <1>3, <2>1, <2>2, LoweredFits, Zenon DEF Supplied
<1> QED BY <1>4, <1>5 DEF Next

\* Whatever the commands, their arguments and the texts, the notes that are
\* written are as many as were allocated, the DMA can transfer them, and every
\* note and the prescaler fit their fields (lower_logic_sequence(), the second
\* pass of which counts and the third of which writes).
THEOREM Fills == Spec => []ArraysFilled
<1>1. Init => IInv /\ Numbered /\ AllFilled
  <2>1. Init => AllFilled
    <3>1. <<>> \in Seq({}) /\ Len(<<>>) = 0
      OBVIOUS
    <3>2. \A k \in 1 .. 0 : Filled(<<>>[k])
      OBVIOUS
    <3> QED BY <3>1, <3>2 DEF Init, AllFilled
  <2> QED BY <2>1, Base, NumberedBase DEF Init
<1>2. IInv /\ [Next]_cvars => IInv'
  <2>1. ASSUME IInv, WriteList PROVE IInv'
    BY <2>1, Step DEF WriteList
  <2>2. ASSUME IInv, UNCHANGED cvars PROVE IInv'
    BY <2>2, Step DEF cvars
  <2> QED BY <2>1, <2>2, CommandKeeps DEF Next
<1>3. AllFilled => ArraysFilled
  <2>1. ASSUME AllFilled PROVE DOMAIN sequence = 1 .. Len(sequence)
    BY <2>1 DEF AllFilled
  <2> QED BY <2>1, Zenon DEF AllFilled, Filled, ArraysFilled
<1> QED BY <1>1, <1>2, <1>3, NumberedStep, AllFilledStep, PTL DEF Spec

(***************************************************************************)
(* When the notes end.                                                     *)
(***************************************************************************)

LEMMA Together == \A y, a, t, u \in Nat : y + a * u + (t - a) * u = y + t * u
OBVIOUS

\* Behind note x, the notes of t ticks of u each are played.
Behind(E, x, t, u) ==
  /\ E[x] \in Nat
  /\ \A j \in 1 .. Slots(t) : E[x + j] = E[(x + j) - 1] + Ticks(Full(t)[j]) * u

\* They last t ticks, and one for each of them.
LEMMA Fragment ==
  ASSUME NEW t \in Nat, t > 0, NEW u \in Nat, NEW x \in Nat, NEW E, Behind(E, x, t, u)
  PROVE  E[x + Slots(t)] = E[x] + (t + Slots(t)) * u
<1> DEFINE s == Slots(t)
           y == E[x]
<1>1. /\ s \in Nat /\ s > 0 /\ SlotMax \in Nat
      /\ \A j \in 1 .. s : Full(t)[j] = IF j < s THEN SlotMax ELSE t - (s - 1) * SlotMax
  BY FullFits, SizesAssumption DEF Full
<1>2. \A j \in 1 .. s : E[x + j] = E[(x + j) - 1] + Ticks(Full(t)[j]) * u
  BY DEF Behind
<1>3. y \in Nat
  BY DEF Behind
<1> HIDE DEF s, y
<1> DEFINE w == SlotMax + 1
           z == t + s
           At_(j) == IF j < s THEN j * w ELSE z
           S == {j \in Nat : E[x + j] = y + At_(j) * u}
<1>4. 0 \in S
  <2>1. x + 0 = x /\ At_(0) = 0 /\ 0 * u = 0
    BY <1>1
  <2> HIDE DEF At_
  <2> QED BY <1>3, <2>1 DEF y
<1>5. ASSUME NEW j \in 0 .. s - 1, j \in S PROVE j + 1 \in S
  <2>1. /\ j \in Nat /\ j + 1 \in 1 .. s /\ (x + (j + 1)) - 1 = x + j /\ j < s
        /\ j * w \in Nat
    BY <1>1
  <2>2. E[x + j] = y + (j * w) * u
    BY <1>5, <2>1
  <2>3. E[x + (j + 1)] = E[x + j] + Ticks(Full(t)[j + 1]) * u
    BY <1>2, <2>1
  <2>4. CASE j + 1 < s
    <3>1. Ticks(Full(t)[j + 1]) = w /\ At_(j + 1) = (j + 1) * w
      BY <1>1, <2>1, <2>4 DEF Ticks
    <3>0. w \in Nat
      BY <1>1
    <3> HIDE DEF w
    <3>2. y + (j * w) * u + w * u = y + ((j + 1) * w) * u
      BY <1>3, <2>1, <3>0
    <3> HIDE DEF At_
    <3>3. E[x + (j + 1)] = y + At_(j + 1) * u
      BY <2>2, <2>3, <3>1, <3>2
    <3> QED BY <2>1, <3>3
  <2>5. CASE ~(j + 1 < s)
    <3>1. j + 1 = s
      BY <1>1, <2>1, <2>5
    <3>2. Ticks(Full(t)[j + 1]) = z - j * w /\ At_(j + 1) = z /\ z \in Nat
      BY <1>1, <2>1, <3>1 DEF Ticks
    <3> DEFINE v == j * w
    <3>0. v \in Nat
      BY <2>1
    <3> HIDE DEF z, v
    <3>3. y + v * u + (z - v) * u = y + z * u
      BY <1>3, <3>0, <3>2, Together
    <3> HIDE DEF At_
    <3>4. E[x + (j + 1)] = y + At_(j + 1) * u
      BY <2>2, <2>3, <3>2, <3>3 DEF v
    <3> QED BY <2>1, <3>4
  <2> QED BY <2>4, <2>5
<1> HIDE DEF S
<1>6. \A j \in 0 .. s : j \in S
  BY <1>1, <1>4, <1>5, Induction
<1>7. s \in 0 .. s /\ At_(s) = z
  BY <1>1
<1> HIDE DEF At_
<1>8. E[x + s] = y + z * u
  BY <1>6, <1>7 DEF S
<1> QED BY <1>8 DEF s, y, z

LEMMA Association == \A a, b, c \in Nat : a * b * c \in Nat /\ a * b * c = a * (b * c) /\ b * c \in Nat
OBVIOUS

LEMMA Multiplied == \A q \in Nat, m \in Nat \ {0} : (q * m) \div m = q
<1> SUFFICES ASSUME NEW q \in Nat, NEW m \in Nat \ {0} PROVE (q * m) \div m = q
  OBVIOUS
<1>1. q * m \in Nat /\ q * m <= q * m /\ q * m < q * m + m
  OBVIOUS
<1> QED BY <1>1, Quotient

\* A state is never held for less than it was to be.
LEMMA LastsAre ==
  ASSUME NEW h \in Nat, NEW tick \in Nat \ {0}
  PROVE  /\ Lasts(h, tick) \in Nat /\ h * Mhz \in Nat /\ h * Mhz <= Lasts(h, tick)
         /\ h = 0 => Lasts(h, tick) = 0
         /\ h # 0 => Lasts(h, tick) # 0
<1> DEFINE x == h * Mhz
           q == (x \div Milli) \div tick
           r == Slots(q) * tick * Milli
<1>1. Mhz \in Nat \ {0} /\ Milli \in Nat \ {0} /\ tick \in Nat
  BY SizesAssumption
<1>2. x \in Nat /\ (h = 0 => x = 0) /\ (h # 0 => x > 0)
  <2>1. CASE h = 0
    BY <1>1, <2>1
  <2>2. CASE h # 0
    BY <1>1, <2>2, Positive
  <2> QED BY <2>1, <2>2
<1>3. Lasts(h, tick) = x + r
  BY DEF Lasts, Ns
<1> HIDE DEF x
<1>4. x \div Milli \in Nat /\ (x = 0 => x \div Milli = 0)
  BY <1>1, <1>2
<1>5. q \in Nat /\ (x = 0 => q = 0)
  BY <1>1, <1>4
<1> HIDE DEF q
<1>6. Slots(q) \in Nat /\ (q = 0 => Slots(q) = 0)
  BY <1>5, SlotsAre
<1>7. r \in Nat /\ (Slots(q) = 0 => r = 0)
  BY <1>1, <1>6
<1> HIDE DEF r
<1> QED BY <1>2, <1>3, <1>5, <1>6, <1>7 DEF x

\* A state of a list lasts its ticks, and one for each of its notes.
LEMMA LastsIs ==
  ASSUME NEW states \in Seq(States), Lowers(states), NEW k \in 1 .. Len(Listed(states))
  PROVE  Lasts(Listed(states)[k].hold, Ratio(states))
           = (InTicks(states)[k] + InSlots(states)[k]) * (Ratio(states) * Milli)
<1> DEFINE h == Listed(states)[k].hold
           d == Ratio(states)
           t == InTicks(states)[k]
           l == InSlots(states)[k]
<1>1. /\ d \in Nat \ {0} /\ t \in Nat /\ l \in Nat /\ l = Slots(t)
      /\ t * d * Milli = h * Mhz
  <2>1. /\ d \in 1 .. DividerMax /\ t \in Nat /\ l \in Nat /\ l = Slots(t)
        /\ t * d * Milli = h * Mhz
    BY TicksAre, Zenon
  <2> QED BY <2>1, SizesAssumption
<1>2. Lasts(h, d) = h * Mhz + Slots(((h * Mhz) \div Milli) \div d) * d * Milli
  BY <1>1 DEF Lasts, Ns
<1> HIDE DEF h, d, t, l
<1>3. Milli \in Nat \ {0} /\ t * d \in Nat
  BY <1>1, SizesAssumption
<1>4. (h * Mhz) \div Milli = t * d
  <2>1. ((t * d) * Milli) \div Milli = t * d
    BY <1>3, Multiplied
  <2> QED BY <1>1, <2>1
<1>5. (t * d) \div d = t
  BY <1>1, Multiplied
<1>6. Lasts(h, d) = t * d * Milli + l * d * Milli
  BY <1>1, <1>2, <1>4, <1>5
<1>7. t * d * Milli + l * d * Milli = (t + l) * (d * Milli)
  <2> DEFINE u == d * Milli
  <2>1. /\ u \in Nat /\ t * d * Milli = t * u /\ l * d * Milli = l * u
    BY <1>1, <1>3, Association
  <2> HIDE DEF u
  <2>2. t * u + l * u = (t + l) * u
    BY <1>1, <2>1
  <2> QED BY <2>1, <2>2 DEF u
<1> QED BY <1>6, <1>7 DEF h, d, t, l

\* How long states are held; how long the notes that are played for them are.
Lasting(list, tick) == [i \in DOMAIN list |-> Lasts(list[i].hold, tick)]
Playing(logic) ==
  [k \in DOMAIN logic.notes |-> Ticks(logic.notes[k].hold) * (logic.prescaler + 1) * Milli]

LEMMA LastingIs ==
  ASSUME NEW states \in Seq(States), NEW tick \in Nat \ {0}
  PROVE  /\ Lasting(states, tick) \in Seq(Nat) /\ Len(Lasting(states, tick)) = Len(states)
         /\ \A k \in 1 .. Len(states) : Lasting(states, tick)[k] = Lasts(states[k].hold, tick)
<1> DEFINE b == Lasting(states, tick)
<1>1. Len(states) \in Nat /\ DOMAIN states = 1 .. Len(states)
      /\ \A k \in 1 .. Len(states) : states[k].hold \in Nat
  <2>1. \A k \in 1 .. Len(states) : states[k] \in States
    OBVIOUS
  <2>2. \A e \in States : e.hold \in Nat
    BY DEF States
  <2> QED BY <2>1, <2>2
<1>2. /\ DOMAIN b = 1 .. Len(states) /\ b = [k \in 1 .. Len(states) |-> b[k]]
      /\ \A k \in 1 .. Len(states) : b[k] = Lasts(states[k].hold, tick)
  BY <1>1 DEF Lasting
<1> HIDE DEF b
<1>3. \A k \in 1 .. Len(states) : b[k] \in Nat
  BY <1>1, <1>2, LastsAre
<1>4. b \in Seq(Nat) /\ Len(b) = Len(states)
  BY <1>1, <1>2, <1>3, Enumerates, Zenon
<1> QED BY <1>2, <1>4 DEF b

\* The tick of a list.
LEMMA RatioIs ==
  ASSUME NEW states \in Seq(States), Lowers(states)
  PROVE  Ratio(states) \in Nat \ {0} /\ Lower(states).prescaler + 1 = Ratio(states)
<1>1. Ratio(states) \in 1 .. DividerMax /\ Lower(states).prescaler = Ratio(states) - 1
  BY TicksAre, LowerIs, Zenon
<1> QED BY <1>1, SizesAssumption

\* The notes of a state end when it does.
LEMMA EndsAt ==
  ASSUME NEW states \in Seq(States), Lowers(states)
  PROVE  LET n == Len(Listed(states))
             N == Sums(InSlots(states))
             B == Sums(Lasting(Listed(states), Ratio(states)))
             E == Sums(Playing(Lower(states)))
         IN /\ Playing(Lower(states)) \in Seq(Nat)
            /\ Len(Playing(Lower(states))) = N[n]
            /\ \A k \in 0 .. n : /\ N[k] \in 0 .. N[n] /\ B[k] \in Nat
                                 /\ E[N[k]] = B[k]
<1> DEFINE L == Listed(states)
           n == Len(L)
           d == Ratio(states)
           tau == InTicks(states)
           l == InSlots(states)
           N == Sums(l)
           b == Lasting(L, d)
           B == Sums(b)
           logic == Lower(states)
           p == Playing(logic)
           E == Sums(p)
           u == d * Milli
<1>1. /\ L \in Seq(States) /\ n \in Nat /\ n > 0 /\ d \in 1 .. DividerMax
      /\ l \in Seq(Nat) /\ Len(l) = n
      /\ \A k \in 1 .. n : /\ tau[k] \in Nat /\ tau[k] > 0
                           /\ l[k] = Slots(tau[k]) /\ l[k] \in Nat /\ l[k] > 0
  BY TicksAre, Zenon
<1>2. /\ logic.prescaler = d - 1 /\ logic.notes \in Seq(Notation) /\ Len(logic.notes) = N[n]
      /\ \A k \in 1 .. n : \A j \in 1 .. l[k] :
           logic.notes[N[k - 1] + j] = [hold |-> Full(tau[k])[j], state |-> L[k].state]
  BY LowerIs, Zenon
<1>3. b \in Seq(Nat) /\ Len(b) = n /\ \A k \in 1 .. n : b[k] = (tau[k] + l[k]) * (d * Milli)
  <2>1. d \in Nat \ {0} /\ \A k \in 1 .. n : Lasts(L[k].hold, d) = (tau[k] + l[k]) * (d * Milli)
    BY RatioIs, LastsIs, Zenon
  <2> QED BY <1>1, <2>1, LastingIs, Zenon
<1>4. p = [k \in DOMAIN logic.notes |-> Ticks(logic.notes[k].hold) * (logic.prescaler + 1) * Milli]
  BY DEF Playing
<1> HIDE DEF L, n, d, tau, l, b, logic, p
<1>5. /\ N[0] = 0 /\ (\A k \in 1 .. n : N[k] = N[k - 1] + l[k])
      /\ (\A k \in 0 .. n : N[k] \in Nat)
      /\ \A j \in 0 .. n : \A k \in 0 .. j : N[k] <= N[j]
  BY <1>1, SumsAre, SumsGrow
<1>6. B[0] = 0 /\ (\A k \in 1 .. n : B[k] = B[k - 1] + b[k]) /\ \A k \in 0 .. n : B[k] \in Nat
  BY <1>3, SumsAre, SumsGrow
<1> HIDE DEF N, B
<1>7. u \in Nat /\ d \in Nat /\ Milli \in Nat
  BY <1>1, SizesAssumption
<1>8. N[n] \in Nat
  BY <1>1, <1>5
<1>9. ASSUME NEW i \in 1 .. N[n]
      PROVE  p[i] \in Nat /\ p[i] = Ticks(logic.notes[i].hold) * u
  <2>1. p[i] = Ticks(logic.notes[i].hold) * (logic.prescaler + 1) * Milli
    BY <1>2, <1>4, <1>8
  <2>2. logic.notes[i] \in Notation
    BY <1>2, <1>8
  <2> DEFINE h == Ticks(logic.notes[i].hold)
  <2>3. h \in Nat
    BY <2>2, SizesAssumption DEF Notation, Ticks
  <2>4. logic.prescaler + 1 = d
    BY <1>2, <1>7
  <2>5. p[i] = h * d * Milli
    BY <2>1, <2>4
  <2> HIDE DEF h
  <2>6. p[i] = h * u /\ p[i] \in Nat
    BY <1>7, <2>3, <2>5, Association
  <2> QED BY <2>6 DEF h
<1> HIDE DEF u
<1>10. p \in Seq(Nat) /\ Len(p) = N[n]
  <2>1. DOMAIN logic.notes = 1 .. N[n]
    BY <1>2, <1>8
  <2>2. DOMAIN p = 1 .. N[n] /\ p = [k \in 1 .. N[n] |-> p[k]]
    BY <1>4, <2>1
  <2>3. \A k \in 1 .. N[n] : p[k] \in Nat
    BY <1>9
  <2> QED BY <1>8, <2>2, <2>3, Enumerates, Zenon
<1>11. E[0] = 0 /\ \A i \in 1 .. N[n] : E[i] = E[i - 1] + p[i]
  BY <1>10, SumsAre
<1> HIDE DEF E
<1> DEFINE S == {k \in Nat : E[N[k]] = B[k]}
<1>12. 0 \in S
  BY <1>5, <1>6, <1>11
<1>13. ASSUME NEW k \in 0 .. n - 1, k \in S PROVE k + 1 \in S
  <2>1. k \in Nat /\ k \in 0 .. n /\ k + 1 \in 0 .. n /\ k + 1 \in 1 .. n /\ (k + 1) - 1 = k /\ n \in 0 .. n
    BY <1>1
  <2> DEFINE t == tau[k + 1]
             x == N[k]
             m == l[k + 1]
  <2>2. /\ t \in Nat /\ t > 0 /\ m = Slots(t) /\ m \in Nat /\ x \in Nat
        /\ N[k + 1] = x + m /\ x + m <= N[n] /\ E[x] = B[k] /\ E[x] \in Nat
        /\ B[k + 1] = B[k] + b[k + 1] /\ B[k] \in Nat
    <3>1. N[k + 1] = N[k] + l[k + 1] /\ N[k + 1] <= N[n] /\ N[k] \in Nat
      BY <1>5, <2>1
    <3>2. E[N[k]] = B[k] /\ B[k] \in Nat /\ B[k + 1] = B[k] + b[k + 1]
      BY <1>6, <1>13, <2>1
    <3> QED BY <1>1, <2>1, <3>1, <3>2
  <2>3. (t + m) * u = b[k + 1]
    BY <1>3, <2>1 DEF u
  <2>4. ASSUME NEW j \in 1 .. m PROVE E[x + j] = E[(x + j) - 1] + Ticks(Full(t)[j]) * u
    <3>1. logic.notes[x + j].hold = Full(t)[j]
      <4>1. logic.notes[N[(k + 1) - 1] + j] = [hold |-> Full(tau[k + 1])[j], state |-> L[k + 1].state]
        BY <1>2, <2>1
      <4> QED BY <2>1, <4>1
    <3>2. x + j \in 1 .. N[n]
      BY <1>8, <2>2, Within
    <3> HIDE DEF x
    <3>3. p[x + j] = Ticks(Full(t)[j]) * u /\ E[x + j] = E[(x + j) - 1] + p[x + j]
      BY <1>9, <1>11, <3>1, <3>2
    <3> QED BY <3>3
  <2> HIDE DEF t, x, m
  <2>5. E[x + Slots(t)] = E[x] + (t + Slots(t)) * u
    <3>1. u \in Nat
      BY <1>7 DEF u
    <3>2. Behind(E, x, t, u)
      BY <2>2, <2>4, Zenon DEF Behind
    <3> QED BY <2>2, <3>1, <3>2, Fragment
  <2>6. E[N[k + 1]] = B[k + 1]
    BY <2>2, <2>3, <2>5
  <2> QED BY <2>1, <2>6
<1> HIDE DEF S
<1>14. \A k \in 0 .. n : k \in S
  BY <1>1, <1>12, <1>13, Induction
<1>15. ASSUME NEW k \in 0 .. n PROVE N[k] \in 0 .. N[n] /\ B[k] \in Nat /\ E[N[k]] = B[k]
  <2>1. n \in 0 .. n
    BY <1>1
  <2>2. N[k] \in 0 .. N[n]
    BY <1>5, <1>8, <2>1
  <2> QED BY <1>6, <1>14, <2>2 DEF S
<1> QED BY <1>10, <1>15, Zenon DEF L, n, d, l, N, b, B, logic, p, E

(***************************************************************************)
(* Which state is played at a moment, and since when.                      *)
(***************************************************************************)

StateAt(logic, t) == logic.notes[NoteAt(logic, t)].state
SinceAt(logic, t) == t - Ends(logic, FirstOf(logic, NoteAt(logic, t)) - 1)

LEMMA Plays ==
  ASSUME NEW states \in Seq(States), Lowers(states), NEW t \in Nat,
         NEW k \in 1 .. Len(Listed(states)),
         Sums(Lasting(Listed(states), Ratio(states)))[k - 1] <= t,
         t < Sums(Lasting(Listed(states), Ratio(states)))[k] \/ k = Len(Listed(states))
  PROVE  /\ StateAt(Lower(states), t) = Listed(states)[k].state
         /\ k = 1 \/ Listed(states)[k - 1].state # Listed(states)[k].state
              => SinceAt(Lower(states), t) = t - Sums(Lasting(Listed(states), Ratio(states)))[k - 1]
<1> DEFINE L == Listed(states)
           n == Len(L)
           tau == InTicks(states)
           l == InSlots(states)
           N == Sums(l)
           B == Sums(Lasting(L, Ratio(states)))
           logic == Lower(states)
           p == Playing(logic)
           E == Sums(p)
           i == NoteAt(logic, t)
<1>1. /\ n \in Nat /\ n > 0 /\ l \in Seq(Nat) /\ Len(l) = n
      /\ \A c \in 1 .. n : l[c] \in Nat /\ l[c] > 0
  BY TicksAre, Zenon
<1>2. /\ Len(logic.notes) = N[n] /\ logic.notes \in Seq(Notation)
      /\ \A c \in 1 .. n : \A j \in 1 .. l[c] :
           logic.notes[N[c - 1] + j] = [hold |-> Full(tau[c])[j], state |-> L[c].state]
  BY LowerIs, Zenon
<1>3. /\ p \in Seq(Nat) /\ Len(p) = N[n]
      /\ \A c \in 0 .. n : N[c] \in 0 .. N[n] /\ B[c] \in Nat /\ E[N[c]] = B[c]
  BY EndsAt, Zenon
<1>4. \A j : Ends(logic, j) = E[j]
  BY DEF Ends, Playing
<1>5. DOMAIN logic.notes = 1 .. Len(logic.notes)
  BY <1>2
<1>6. i = Min({j \in 1 .. N[n] : E[j] > t} \cup {N[n]})
  BY <1>2, <1>4, <1>5 DEF NoteAt
<1>7. B[k - 1] <= t /\ (t < B[k] \/ k = n) /\ k \in 1 .. n
  OBVIOUS
<1> HIDE DEF L, n, tau, l, B, logic, p, i
<1>8. /\ N[0] = 0 /\ (\A c \in 1 .. n : N[c] = N[c - 1] + l[c])
      /\ (\A c \in 0 .. n : N[c] \in Nat)
      /\ \A c \in 0 .. n : \A j \in 0 .. c : N[j] <= N[c]
  BY <1>1, SumsAre, SumsGrow
<1>9. (\A j \in 0 .. N[n] : E[j] \in Nat) /\ \A j \in 0 .. N[n] : \A c \in 0 .. j : E[c] <= E[j]
  BY <1>3, SumsGrow
<1> HIDE DEF N, E
<1>10. /\ k \in 0 .. n /\ k - 1 \in 0 .. n /\ n \in 0 .. n /\ k \in Nat /\ k - 1 \in Nat
  BY <1>1, <1>7
<1>11. /\ N[k - 1] \in Nat /\ N[k] \in Nat /\ N[n] \in Nat /\ N[k] = N[k - 1] + l[k]
       /\ l[k] \in Nat /\ l[k] > 0 /\ N[k] <= N[n] /\ N[k - 1] < N[k]
  <2>1. /\ N[k - 1] \in Nat /\ N[k] \in Nat /\ N[n] \in Nat /\ N[k] = N[k - 1] + l[k]
        /\ l[k] \in Nat /\ l[k] > 0 /\ N[k] <= N[n]
    BY <1>1, <1>7, <1>8, <1>10
  <2> QED BY <2>1
<1>12. /\ i \in {j \in 1 .. N[n] : E[j] > t} \cup {N[n]}
       /\ \A y \in {j \in 1 .. N[n] : E[j] > t} \cup {N[n]} : i <= y
  <2> DEFINE Q == {j \in 1 .. N[n] : E[j] > t} \cup {N[n]}
  <2>1. Q \in SUBSET Nat /\ Q # {}
    BY <1>11
  <2> HIDE DEF Q
  <2>2. Min(Q) \in Q /\ \A y \in Q : Min(Q) <= y
    BY <2>1, MinOf
  <2> QED BY <1>6, <2>2 DEF Q
<1>13. i \in 1 .. N[n] /\ (i = N[n] \/ E[i] > t)
  BY <1>11, <1>12
<1>14. N[k - 1] < i
  <2>1. CASE i = N[n]
    BY <1>11, <2>1
  <2>2. CASE E[i] > t
    <3> SUFFICES ASSUME i <= N[k - 1] PROVE FALSE
      BY <1>11, <1>13
    <3>1. i \in 0 .. N[k - 1] /\ N[k - 1] \in 0 .. N[n] /\ i \in 0 .. N[n]
      BY <1>11, <1>13
    <3>2. E[i] <= E[N[k - 1]] /\ E[i] \in Nat
      BY <1>9, <3>1
    <3>3. E[N[k - 1]] = B[k - 1] /\ B[k - 1] \in Nat
      BY <1>3, <1>10
    <3> QED BY <1>7, <2>2, <3>2, <3>3
  <2> QED BY <1>13, <2>1, <2>2
<1>15. i <= N[k]
  <2>1. CASE k = n
    BY <1>13, <2>1
  <2>2. CASE t < B[k]
    <3>1. E[N[k]] = B[k] /\ B[k] \in Nat
      BY <1>3, <1>10
    <3>2. N[k] \in 1 .. N[n] /\ E[N[k]] > t
      BY <1>11, <2>2, <3>1
    <3> QED BY <1>12, <3>2
  <2> QED BY <1>7, <2>1, <2>2
<1>16. ASSUME NEW m \in 1 .. N[n], N[k - 1] < m, m <= N[k]
       PROVE  logic.notes[m].state = L[k].state
  <2> DEFINE j == m - N[k - 1]
  <2>1. j \in 1 .. l[k] /\ N[k - 1] + j = m
    BY <1>11, <1>16
  <2> HIDE DEF j
  <2>2. logic.notes[N[k - 1] + j] = [hold |-> Full(tau[k])[j], state |-> L[k].state]
    BY <1>2, <1>7, <2>1, Zenon
  <2> QED BY <2>1, <2>2
<1>17. logic.notes[i].state = L[k].state
  BY <1>13, <1>14, <1>15, <1>16
<1>18. ASSUME k = 1 \/ L[k - 1].state # L[k].state
       PROVE  FirstOf(logic, i) = N[k - 1] + 1
  <2> DEFINE F == {j \in 1 .. i : \A m \in j .. i : logic.notes[m].state = logic.notes[i].state}
             first == N[k - 1] + 1
  <2>1. first \in F
    <3>1. first \in 1 .. i
      BY <1>11, <1>13, <1>14
    <3>2. ASSUME NEW m \in first .. i PROVE logic.notes[m].state = logic.notes[i].state
      <4>1. m \in 1 .. N[n] /\ N[k - 1] < m /\ m <= N[k]
        BY <1>11, <1>13, <1>14, <1>15
      <4> QED BY <1>16, <1>17, <4>1
    <3> QED BY <3>1, <3>2
  <2>2. ASSUME NEW j \in F PROVE first <= j
    <3>1. j \in 1 .. i /\ \A m \in j .. i : logic.notes[m].state = logic.notes[i].state
      OBVIOUS
    <3> HIDE DEF F
    <3>2. CASE k = 1
      BY <1>8, <1>13, <3>1, <3>2
    <3>3. CASE k # 1
      <4> SUFFICES ASSUME j <= N[k - 1] PROVE FALSE
        BY <1>11, <1>13, <3>1
      <4>1. N[k - 1] \in j .. i
        BY <1>11, <1>13, <1>14, <3>1
      <4>2. k - 1 \in 1 .. n /\ (k - 1) - 1 \in 0 .. n
        BY <1>7, <1>10, <3>3
      <4>3. N[k - 1] = N[(k - 1) - 1] + l[k - 1] /\ l[k - 1] \in Nat /\ l[k - 1] > 0
        BY <1>1, <1>8, <4>2
      <4>4. l[k - 1] \in 1 .. l[k - 1]
        BY <4>3
      <4>5. logic.notes[N[(k - 1) - 1] + l[k - 1]]
              = [hold |-> Full(tau[k - 1])[l[k - 1]], state |-> L[k - 1].state]
        BY <1>2, <4>2, <4>4, Zenon
      <4>6. logic.notes[N[k - 1]].state = L[k - 1].state
        BY <4>3, <4>5
      <4> QED BY <1>17, <1>18, <3>1, <3>3, <4>1, <4>6
    <3> QED BY <3>2, <3>3
  <2>3. F \in SUBSET Nat /\ F # {}
    BY <1>13, <2>1
  <2>4. FirstOf(logic, i) = Min(F)
    BY DEF FirstOf
  <2> HIDE DEF F
  <2>5. Min(F) \in F /\ \A y \in F : Min(F) <= y
    BY <2>3, MinOf
  <2>6. Min(F) <= first /\ first <= Min(F) /\ Min(F) \in Nat /\ first \in Nat
    BY <1>11, <2>1, <2>2, <2>3, <2>5
  <2> QED BY <2>4, <2>6
<1>19. ASSUME k = 1 \/ L[k - 1].state # L[k].state
       PROVE  SinceAt(logic, t) = t - B[k - 1]
  <2>1. FirstOf(logic, i) - 1 = N[k - 1]
    BY <1>11, <1>18, <1>19
  <2>2. Ends(logic, FirstOf(logic, i) - 1) = B[k - 1]
    BY <1>3, <1>4, <1>10, <2>1
  <2> QED BY <2>2 DEF SinceAt, i
<1>20. StateAt(logic, t) = L[k].state
  BY <1>17 DEF StateAt, i
<1> QED BY <1>19, <1>20, Zenon DEF L, B, logic

LEMMA HorizonIs ==
  ASSUME NEW states \in Seq(States), Lowers(states)
  PROVE  /\ Ends(Lower(states), Len(Lower(states).notes))
              = Sums(Lasting(Listed(states), Ratio(states)))[Len(Listed(states))]
         /\ Sums(Lasting(Listed(states), Ratio(states)))[Len(Listed(states))] \in Nat
<1> DEFINE n == Len(Listed(states))
           N == Sums(InSlots(states))
           B == Sums(Lasting(Listed(states), Ratio(states)))
           logic == Lower(states)
<1>1. Len(logic.notes) = N[n]
  BY LowerIs, Zenon
<1>2. n \in Nat
  BY TicksAre, Zenon
<1>3. \A k \in 0 .. n : B[k] \in Nat /\ Sums(Playing(logic))[N[k]] = B[k]
  BY EndsAt, Zenon
<1>4. Ends(logic, N[n]) = Sums(Playing(logic))[N[n]]
  BY DEF Ends, Playing
<1> HIDE DEF n, N, B, logic
<1>5. n \in 0 .. n
  BY <1>2
<1>6. Ends(logic, Len(logic.notes)) = B[n] /\ B[n] \in Nat
  BY <1>1, <1>3, <1>4, <1>5
<1> QED BY <1>6 DEF n, B, logic

\* The state, and since when, at every moment but behind the last.
LEMMA Moments ==
  ASSUME NEW states \in Seq(States), Lowers(states),
         NEW t \in 0 .. Ends(Lower(states), Len(Lower(states).notes))
  PROVE  \E k \in 1 .. Len(Listed(states)) :
           /\ Sums(Lasting(Listed(states), Ratio(states)))[k - 1] <= t
           /\ t < Sums(Lasting(Listed(states), Ratio(states)))[k] \/ k = Len(Listed(states))
<1> DEFINE L == Listed(states)
           n == Len(L)
           b == Lasting(L, Ratio(states))
           B == Sums(b)
<1>1. n \in Nat /\ n > 0 /\ L \in Seq(States)
  BY TicksAre, Zenon
<1>2. b \in Seq(Nat) /\ Len(b) = n
  BY <1>1, RatioIs, LastingIs, Zenon
<1>3. t \in 0 .. B[n] /\ B[n] \in Nat
  BY HorizonIs, Zenon
<1> HIDE DEF L, b, n
<1>4. /\ \A k \in 0 .. n : B[k] \in Nat
      /\ \A j \in 0 .. n : \A k \in 0 .. j : B[k] <= B[j]
  BY <1>2, SumsGrow
<1>5. CASE t < B[n]
  <2>1. t \in Nat /\ t < B[Len(b)]
    BY <1>2, <1>3, <1>5
  <2>2. \E k \in 1 .. Len(b) : B[k - 1] <= t /\ t < B[k]
    BY <1>2, <2>1, SumsCover
  <2> QED BY <1>2, <2>2 DEF L, b, n
<1>6. CASE t = B[n]
  <2> HIDE DEF B
  <2>1. n \in 1 .. n /\ n - 1 \in 0 .. n /\ n \in 0 .. n
    BY <1>1
  <2>2. B[n - 1] <= t
    BY <1>4, <1>6, <2>1
  <2> QED BY <2>1, <2>2, Zenon DEF L, b, n, B
<1> QED BY <1>3, <1>5, <1>6

\* States before the first that is not parking.
Lead(o) == IF o = 0 THEN 0 ELSE 1

LEMMA OnePulseIs ==
  ASSUME NEW o \in Nat, NEW d \in Nat, NEW s \in Nat
  PROVE  LET states == OnePulse(o, d, s)
             m == Lead(o)
         IN /\ states \in Seq(States) /\ Len(states) = m + 4
            /\ o # 0 => states[1] = State(o, 0)
            /\ states[m + 1] = State(d, s)
            /\ states[m + 2] = State(Parking, 0) /\ states[m + 3] = State(Parking, 0)
            /\ states[m + 4] = State(0, 0)
<1> DEFINE a == Optional(o)
           x == <<State(d, s)>>
           c == TERMINATOR
           m == Lead(o)
<1>1. a \in Seq(States) /\ Len(a) = m /\ (m = IF o = 0 THEN 0 ELSE 1) /\ (o # 0 => a[1] = State(o, 0))
  BY OptionalTyped DEF Lead
<1>2. x \in Seq(States) /\ Len(x) = 1 /\ x[1] = State(d, s)
  BY DEF State, States
<1>3. c \in Seq(States) /\ Len(c) = 3 /\ c[1] = State(Parking, 0) /\ c[2] = State(Parking, 0)
      /\ c[3] = State(0, 0)
  BY TerminatorTyped
<1>4. OnePulse(o, d, s) = (a \o x) \o c
  BY DEF OnePulse
<1> HIDE DEF a, x, c, m
<1> DEFINE y == a \o x
<1>5. y \in Seq(States) /\ Consists(y, a, x)
  BY <1>1, <1>2, Joining, Zenon
<1> DEFINE z == y \o c
<1>6. z \in Seq(States) /\ Consists(z, y, c)
  BY <1>3, <1>5, Joining, Zenon
<1> HIDE DEF y, z
<1>7. Len(y) = m + 1 /\ (o # 0 => y[1] = State(o, 0)) /\ y[m + 1] = State(d, s)
  <2>1. /\ Len(y) = Len(a) + Len(x) /\ (\A j \in 1 .. Len(a) : y[j] = a[j])
        /\ \A j \in 1 .. Len(x) : y[Len(a) + j] = x[j]
    BY <1>5 DEF Consists
  <2>2. (o # 0 => 1 \in 1 .. Len(a)) /\ 1 \in 1 .. 1
    BY <1>1
  <2> QED BY <1>1, <1>2, <2>1, <2>2
<1>8. /\ Len(z) = (m + 1) + 3 /\ (o # 0 => z[1] = State(o, 0)) /\ z[m + 1] = State(d, s)
      /\ z[(m + 1) + 1] = State(Parking, 0) /\ z[(m + 1) + 2] = State(Parking, 0)
      /\ z[(m + 1) + 3] = State(0, 0)
  <2>1. /\ Len(z) = Len(y) + Len(c) /\ (\A j \in 1 .. Len(y) : z[j] = y[j])
        /\ \A j \in 1 .. Len(c) : z[Len(y) + j] = c[j]
    BY <1>6 DEF Consists
  <2>2. m + 1 \in 1 .. Len(y) /\ 1 \in 1 .. Len(y) /\ 1 \in 1 .. 3 /\ 2 \in 1 .. 3 /\ 3 \in 1 .. 3
    BY <1>1, <1>7
  <2> QED BY <1>3, <1>7, <2>1, <2>2
<1>9. /\ (m + 1) + 1 = m + 2 /\ (m + 1) + 2 = m + 3 /\ (m + 1) + 3 = m + 4
  BY <1>1
<1> QED BY <1>1, <1>4, <1>6, <1>8, <1>9 DEF y, z, m

LEMMA OnePulseListed ==
  ASSUME NEW o \in Nat, NEW d \in Nat, NEW s \in Nat, Lowers(OnePulse(o, d, s)),
         NEW tick \in Nat \ {0}
  PROVE  LET L == Listed(OnePulse(o, d, s))
             B == Sums(Lasting(L, tick))
             m == Lead(o)
         IN /\ m \in {0, 1}
            /\ m = 1 => L[1].state = 0
            /\ d = 0 => Len(L) = 1 /\ m = 1
            /\ d > 0 => /\ Len(L) = m + 3
                        /\ L[m + 1].state = s /\ L[m + 2].state = 0 /\ L[m + 3].state = 0
                        /\ B[m] = Lasts(o, tick)
                        /\ B[m + 1] = Lasts(o, tick) + Lasts(d, tick)
<1> DEFINE states == OnePulse(o, d, s)
           L == Listed(states)
           n == Len(L)
           b == Lasting(L, tick)
           B == Sums(b)
           m == Lead(o)
<1>1. /\ states \in Seq(States) /\ Len(states) = m + 4
      /\ o # 0 => states[1] = State(o, 0)
      /\ states[m + 1] = State(d, s)
      /\ states[m + 2] = State(Parking, 0) /\ states[m + 3] = State(Parking, 0)
      /\ states[m + 4] = State(0, 0)
  BY OnePulseIs, Zenon
<1>0. m = IF o = 0 THEN 0 ELSE 1
  BY DEF Lead
<1>2. /\ L \in Seq(States) /\ n <= m + 4
      /\ \A k \in 1 .. n : L[k] = states[k] /\ L[k].hold > 0
      /\ n < m + 4 => states[n + 1].hold = 0
  BY <1>1, ListedIs
<1>3. n \in Nat /\ n > 0
  BY <1>1, TicksAre, Zenon
<1>4. b \in Seq(Nat) /\ Len(b) = n /\ \A k \in 1 .. n : b[k] = Lasts(L[k].hold, tick)
  BY <1>2, LastingIs, Zenon
<1> HIDE DEF states, L, n, b, m
<1>5. B[0] = 0 /\ \A k \in 1 .. n : B[k] = B[k - 1] + b[k]
  BY <1>4, SumsAre
<1> HIDE DEF B
<1>6. /\ o # 0 => states[1].hold = o /\ states[1].state = 0
      /\ states[m + 1].hold = d /\ states[m + 1].state = s
      /\ states[m + 2].hold = Parking /\ states[m + 2].state = 0
      /\ states[m + 3].hold = Parking /\ states[m + 3].state = 0
      /\ states[m + 4].hold = 0
      /\ m \in {0, 1} /\ (m = 1 <=> o # 0) /\ Parking # 0
  BY <1>0, <1>1, UnitsAssumption DEF State
<1>7. n < m + 4 /\ states[n + 1].hold = 0
  <2>1. n # m + 4
    <3> SUFFICES ASSUME n = m + 4 PROVE FALSE
      OBVIOUS
    <3>1. m + 4 \in 1 .. n
      BY <1>3, <1>6
    <3> QED BY <1>2, <1>6, <3>1
  <2> QED BY <1>2, <1>3, <1>6, <2>1
<1>8. m = 1 => L[1].state = 0
  <2>1. 1 \in 1 .. n
    BY <1>3
  <2> QED BY <1>2, <1>6, <2>1
<1>9. ASSUME d = 0 PROVE n = 1 /\ m = 1
  <2>1. n < m + 1
    <3> SUFFICES ASSUME ~(n < m + 1) PROVE FALSE
      OBVIOUS
    <3>1. m + 1 \in 1 .. n
      BY <1>3, <1>6
    <3> QED BY <1>2, <1>6, <1>9, <3>1
  <2> QED BY <1>3, <1>6, <2>1
<1>10. ASSUME d > 0
       PROVE  /\ n = m + 3
              /\ L[m + 1].state = s /\ L[m + 2].state = 0 /\ L[m + 3].state = 0
              /\ B[m] = Lasts(o, tick)
              /\ B[m + 1] = Lasts(o, tick) + Lasts(d, tick)
  <2>1. n + 1 # m + 1 /\ n + 1 # m + 2 /\ n + 1 # m + 3
    BY <1>6, <1>7, <1>10
  <2>2. m = 1 => n + 1 # 1
    BY <1>3
  <2>3. n = m + 3
    <3>1. m \in {0, 1} /\ n < m + 4
      BY <1>6, <1>7
    <3> QED BY <1>3, <2>1, <2>2, <3>1
  <2>4. m + 1 \in 1 .. n /\ m + 2 \in 1 .. n /\ m + 3 \in 1 .. n /\ (m = 1 => 1 \in 1 .. n)
    BY <1>6, <2>3
  <2>5. L[m + 1].state = s /\ L[m + 2].state = 0 /\ L[m + 3].state = 0 /\ L[m + 1].hold = d
        /\ (m = 1 => L[1].hold = o)
    BY <1>2, <1>6, <2>4
  <2>6. Lasts(o, tick) \in Nat /\ Lasts(d, tick) \in Nat /\ (o = 0 => Lasts(o, tick) = 0)
    BY LastsAre
  <2>7. B[m] = Lasts(o, tick)
    <3>1. CASE m = 0
      BY <1>5, <1>6, <2>6, <3>1
    <3>2. CASE m = 1
      <4>1. B[1] = B[1 - 1] + b[1] /\ b[1] = Lasts(o, tick)
        BY <1>4, <1>5, <2>4, <2>5, <3>2
      <4>2. B[1 - 1] = 0
        BY <1>5
      <4> QED BY <2>6, <3>2, <4>1, <4>2
    <3> QED BY <1>6, <3>1, <3>2
  <2>8. B[m + 1] = Lasts(o, tick) + Lasts(d, tick)
    <3>1. B[m + 1] = B[(m + 1) - 1] + b[m + 1] /\ b[m + 1] = Lasts(d, tick)
      BY <1>4, <1>5, <2>4, <2>5
    <3>2. (m + 1) - 1 = m
      BY <1>6
    <3> QED BY <2>7, <3>1, <3>2
  <2> QED BY <2>3, <2>5, <2>7, <2>8
<1> QED BY <1>6, <1>8, <1>9, <1>10 DEF states, L, n, b, B, m

\* A single pulse that begins at x and lasts y: state s in it, 0 before and after.
InPulse(logic, x, y, s, t) ==
  \/ (t < x \/ t >= x + y) /\ StateAt(logic, t) = 0
  \/ t >= x /\ t < x + y /\ StateAt(logic, t) = s /\ SinceAt(logic, t) = t - x

LEMMA PulseStates ==
  ASSUME NEW o \in Nat, NEW d \in Nat, NEW s \in Nat, s # 0,
         NEW logic, logic = Lower(OnePulse(o, d, s)), Lowers(OnePulse(o, d, s)),
         NEW t \in 0 .. Ends(logic, Len(logic.notes))
  PROVE  InPulse(logic, Lasts(o, logic.prescaler + 1), Lasts(d, logic.prescaler + 1), s, t)
<1> DEFINE states == OnePulse(o, d, s)
           L == Listed(states)
           n == Len(L)
           tick == logic.prescaler + 1
           B == Sums(Lasting(L, tick))
           m == Lead(o)
           x == Lasts(o, tick)
           y == Lasts(d, tick)
<1>1. states \in Seq(States)
  BY OnePulseTyped
<1>0. tick \in Nat \ {0} /\ tick = Ratio(states)
  BY <1>1, RatioIs, Zenon
<1> HIDE DEF tick
<1>2. PICK k \in 1 .. n : B[k - 1] <= t /\ (t < B[k] \/ k = n)
  BY <1>0, <1>1, Moments, Zenon
<1>3. /\ m \in {0, 1}
      /\ m = 1 => L[1].state = 0
      /\ d = 0 => n = 1 /\ m = 1
      /\ d > 0 => /\ n = m + 3
                  /\ L[m + 1].state = s /\ L[m + 2].state = 0 /\ L[m + 3].state = 0
                  /\ B[m] = x /\ B[m + 1] = x + y
  <2>1. tick \in Nat \ {0}
    BY <1>0
  <2>2. /\ m \in {0, 1}
        /\ m = 1 => L[1].state = 0
        /\ d = 0 => n = 1 /\ m = 1
        /\ d > 0 => /\ n = m + 3
                    /\ L[m + 1].state = s /\ L[m + 2].state = 0 /\ L[m + 3].state = 0
                    /\ B[m] = x
                    /\ B[m + 1] = x + y
    BY <2>1, OnePulseListed
  <2> QED BY <2>2, Zenon
<1>4. t \in Nat
  <2>1. Ends(logic, Len(logic.notes)) \in Nat
    BY <1>1, HorizonIs
  <2> QED BY <2>1
<1>5. /\ StateAt(logic, t) = L[k].state
      /\ k = 1 \/ L[k - 1].state # L[k].state => SinceAt(logic, t) = t - B[k - 1]
  <2>1. k \in 1 .. n /\ B[k - 1] <= t /\ (t < B[k] \/ k = n)
    BY <1>2
  <2> QED BY <1>0, <1>1, <1>4, <2>1, Plays, Zenon
<1>6. /\ \A j \in 0 .. n : B[j] \in Nat
      /\ \A j \in 0 .. n : \A i \in 0 .. j : B[i] <= B[j]
  <2>1. L \in Seq(States)
    BY <1>1, ListedIs
  <2>2. Lasting(L, tick) \in Seq(Nat) /\ Len(Lasting(L, tick)) = n
    BY <1>0, <2>1, LastingIs, Zenon
  <2> QED BY <2>2, SumsGrow
<1>7. x \in Nat /\ y \in Nat /\ (d = 0 => y = 0)
  BY <1>0, LastsAre
<1> SUFFICES InPulse(logic, x, y, s, t)
  BY DEF tick
<1> HIDE DEF states, L, n, B, m, x, y
<1>8. CASE d = 0
  <2>1. k = 1 /\ L[1].state = 0
    BY <1>2, <1>3, <1>8
  <2> QED BY <1>4, <1>5, <1>7, <1>8, <2>1 DEF InPulse
<1>9. CASE d > 0
  <2>1. /\ k \in 1 .. m + 3 /\ n = m + 3 /\ m \in 0 .. n /\ m + 1 \in 0 .. n
        /\ B[m] = x /\ B[m + 1] = x + y
    BY <1>2, <1>3, <1>9
  <2>2. CASE k = m + 1
    <3>1. k # n /\ k - 1 = m /\ (m + 1) - 1 = m
      BY <1>3, <2>1, <2>2
    <3>2. t >= x /\ t < x + y
      BY <1>2, <1>7, <2>1, <2>2, <3>1
    <3>3. k = 1 \/ L[k - 1].state # L[k].state
      <4>1. CASE m = 0
        BY <2>2, <4>1
      <4>2. CASE m = 1
        <5>1. L[k - 1].state = 0 /\ L[k].state = s
          BY <1>3, <1>9, <2>2, <4>2
        <5> QED BY <5>1
      <4> QED BY <1>3, <4>1, <4>2
    <3>4. SinceAt(logic, t) = t - x /\ StateAt(logic, t) = s
      BY <1>3, <1>5, <1>9, <2>1, <2>2, <3>1, <3>3
    <3> QED BY <3>2, <3>4 DEF InPulse
  <2>3. CASE k < m + 1
    <3>1. k = 1 /\ m = 1 /\ k # n
      BY <1>3, <2>1, <2>3
    <3>2. t < x /\ StateAt(logic, t) = 0
      BY <1>2, <1>3, <1>5, <2>1, <3>1
    <3> QED BY <3>2 DEF InPulse
  <2>4. CASE k > m + 1
    <3>1. m + 1 \in 0 .. k - 1 /\ k - 1 \in 0 .. n /\ (k = m + 2 \/ k = m + 3)
      BY <1>3, <2>1, <2>4
    <3>2. B[m + 1] <= B[k - 1] /\ B[k - 1] \in Nat
      BY <1>6, <3>1
    <3>3. t >= x + y
      BY <1>2, <1>4, <1>7, <2>1, <3>2
    <3>4. StateAt(logic, t) = 0
      BY <1>3, <1>5, <1>9, <3>1
    <3> QED BY <3>3, <3>4 DEF InPulse
  <2> QED BY <1>3, <2>1, <2>2, <2>3, <2>4
<1> QED BY <1>8, <1>9

(***************************************************************************)
(* The signal of a state.                                                  *)
(***************************************************************************)

SignalOf(e, state, since) ==
  IF e.ram # <<>>
  THEN Sound(e.ftw, WordAt(e, Profile(state), since).pow, WordAt(e, Profile(state), since).asf)
  ELSE Sound(IF e.sweep.fstep > 0 THEN RampAt(e.sweep, state, since)
             ELSE e.profiles[Profile(state)].ftw,
             e.profiles[Profile(state)].pow, e.profiles[Profile(state)].asf)

LEMMA SignalIs ==
  ASSUME NEW e, NEW t
  PROVE  SignalAt(e, t) = SignalOf(e, StateAt(e.logic, t), SinceAt(e.logic, t))
BY Zenon DEF SignalAt, SignalOf, StateAt, SinceAt

LEMMA SoundIs ==
  /\ \A ftw, pow : Sound(ftw, pow, 0) = Off
  /\ \A ftw \in Nat : \A pow : 2 * ftw <= FtwSize => Sound(ftw, pow, 1) = <<ftw, pow>>
BY UnitsAssumption DEF Sound, Heard

LEMMA FreqsAre == \A f \in Freqs : f \in Nat /\ 2 * f <= FtwSize
<1> SUFFICES ASSUME NEW f \in Freqs PROVE f \in Nat /\ 2 * f <= FtwSize
  OBVIOUS
<1>1. f \in 0 .. FtwSize \div 2 - 1 /\ FtwSize \in Nat
  BY ArgumentsAssumption, UnitsAssumption
<1>2. FtwSize \div 2 \in Nat /\ 2 * (FtwSize \div 2) <= FtwSize
  BY <1>1
<1> QED BY <1>1, <1>2

LEMMA Profiles == /\ Profile(0) = 0 /\ Profile(1) = 1 /\ Profile(2) = 2 /\ Profile(3) = 3
                  /\ Profile(1 + DR_CTL) = 1
BY DEF Profile, DR_CTL

\* A descriptor does what its command asked for, with the tick of its timer.
Period(e) == e.logic.prescaler + 1
Right(e, c) ==
  Loads(e) /\ \A t \in 0 .. Horizon(e) : Meets(SignalAt(e, t), c, AskedAt(c, Period(e), t))

LEMMA MeetsIs ==
  ASSUME NEW s, NEW c, s[1] \in Int
  PROVE  Meets(s, c, s)
<1>1. Grain - 1 \in Nat
  BY UnitsAssumption
<1>2. s[1] - s[1] = 0
  OBVIOUS
<1> QED BY <1>1, <1>2 DEF Meets

\* A pulse that begins at x and lasts y: the signal is off in state 0 and right
\* in state s.
RightIn(e, c, x, y, s) ==
  /\ \A since : SignalOf(e, 0, since) = Off
  /\ \A t \in Nat : t < x => AskedAt(c, Period(e), t) = Off
  /\ \A z \in Nat : z >= y => AskedAt(c, Period(e), x + z) = Off
  /\ \A z \in Nat : z < y => /\ SignalOf(e, s, z) = AskedAt(c, Period(e), x + z)
                            /\ SignalOf(e, s, z)[1] \in Int

LEMMA PulseRight ==
  ASSUME NEW o \in Nat, NEW d \in Nat, NEW s \in Nat, s # 0, NEW e, NEW c,
         Lowers(OnePulse(o, d, s)), e.logic = Lower(OnePulse(o, d, s)), Loads(e),
         RightIn(e, c, Lasts(o, Period(e)), Lasts(d, Period(e)), s)
  PROVE  Right(e, c)
<1> SUFFICES ASSUME NEW t \in 0 .. Horizon(e)
             PROVE  Meets(SignalAt(e, t), c, AskedAt(c, Period(e), t))
  BY DEF Right
<1> DEFINE logic == Lower(OnePulse(o, d, s))
           x == Lasts(o, Period(e))
           y == Lasts(d, Period(e))
<1>1. OnePulse(o, d, s) \in Seq(States)
  BY OnePulseTyped
<1>2. Horizon(e) = Ends(logic, Len(logic.notes)) /\ Ends(logic, Len(logic.notes)) \in Nat
  BY <1>1, HorizonIs DEF Horizon
<1>3. t \in Nat /\ t \in 0 .. Ends(logic, Len(logic.notes))
  BY <1>2
<1>4. InPulse(logic, x, y, s, t)
  <2>1. Period(e) = logic.prescaler + 1
    BY DEF Period
  <2> QED BY <1>3, <2>1, PulseStates, Zenon
<1>5. SignalAt(e, t) = SignalOf(e, StateAt(logic, t), SinceAt(logic, t))
  BY SignalIs, Zenon
<1>6. x \in Nat /\ y \in Nat
  <2>1. Period(e) \in Nat \ {0}
    BY <1>1, RatioIs DEF Period
  <2> QED BY <2>1, LastsAre
<1> HIDE DEF logic, x, y
<1>7. CASE (t < x \/ t >= x + y) /\ StateAt(logic, t) = 0
  <2>1. SignalAt(e, t) = Off
    BY <1>5, <1>7, Zenon DEF RightIn
  <2>3. AskedAt(c, Period(e), t) = Off
    <3>1. CASE t < x
      BY <1>3, <3>1, Zenon DEF RightIn, x, y
    <3>2. CASE t >= x + y
      <4> DEFINE z == t - x
      <4>1. z \in Nat /\ z >= y /\ x + z = t
        BY <1>3, <1>6, <3>2
      <4> HIDE DEF z
      <4>2. AskedAt(c, Period(e), x + z) = Off
        BY <4>1, Zenon DEF RightIn, x, y
      <4> QED BY <4>1, <4>2
    <3> QED BY <1>7, <3>1, <3>2
  <2>2. Off[1] \in Int
    BY DEF Off
  <2> QED BY <2>1, <2>2, <2>3, MeetsIs
<1>8. CASE t >= x /\ t < x + y /\ StateAt(logic, t) = s /\ SinceAt(logic, t) = t - x
  <2> DEFINE z == t - x
  <2>1. z \in Nat /\ z < y /\ x + z = t
    BY <1>3, <1>6, <1>8
  <2>2. SignalAt(e, t) = SignalOf(e, s, z)
    BY <1>5, <1>8, Zenon
  <2> HIDE DEF z
  <2>3. SignalOf(e, s, z) = AskedAt(c, Period(e), x + z) /\ SignalOf(e, s, z)[1] \in Int
    BY <2>1, Zenon DEF RightIn, x, y
  <2> QED BY <2>1, <2>2, <2>3, MeetsIs
<1> QED BY <1>4, <1>7, <1>8 DEF InPulse

\* The signal of a command that sends one pulse.
IsPulse(c, o, d, f) ==
  c.kind \in {"pulse", "basic_pulse"} /\ c.offset = o /\ c.duration = d /\ c.freq = f

LEMMA PulseAsked ==
  ASSUME NEW o \in Nat, NEW d \in Nat, NEW f, NEW c, IsPulse(c, o, d, f),
         NEW tick \in Nat \ {0}
  PROVE  /\ \A t \in Nat : t < Lasts(o, tick) => AskedAt(c, tick, t) = Off
         /\ \A z \in Nat : AskedAt(c, tick, Lasts(o, tick) + z)
                           = IF z < Given(c, d, tick) THEN <<f, 0>> ELSE Off
<1> DEFINE x == Lasts(o, tick)
<1>1. /\ c.kind # "list" /\ c.kind \in {"pulse", "basic_pulse"}
      /\ c.offset = o /\ c.duration = d /\ c.freq = f
  BY DEF IsPulse
<1>2. x \in Nat
  BY LastsAre
<1>3. \A t : AskedAt(c, tick, t) = IF t < x THEN Off ELSE After(c, tick, t - x)
  BY <1>1, Zenon DEF AskedAt
<1>4. \A z : After(c, tick, z) = IF z < Given(c, d, tick) THEN <<f, 0>> ELSE Off
  BY <1>1 DEF After
<1> HIDE DEF x
<1>5. \A z \in Nat : ~(x + z < x) /\ (x + z) - x = z
  BY <1>2
<1> QED BY <1>3, <1>4, <1>5 DEF x

\* "seq pulse".
LEMMA SeqPulseRight ==
  ASSUME NEW o \in Nat, NEW d \in Nat, NEW f \in Freqs, Lowers(OnePulse(o, d, 1))
  PROVE  Right(Entry([Silent EXCEPT ![1] = Tone(f, 0)], <<>>, 0, NoSweep, OnePulse(o, d, 1)),
               [kind |-> "pulse", offset |-> o, duration |-> d, freq |-> f])
<1> DEFINE profiles == [Silent EXCEPT ![1] = Tone(f, 0)]
           e == Entry(profiles, <<>>, 0, NoSweep, OnePulse(o, d, 1))
           c == [kind |-> "pulse", offset |-> o, duration |-> d, freq |-> f]
           x == Lasts(o, Period(e))
           y == Lasts(d, Period(e))
<1>1. /\ e.profiles = profiles /\ e.ram = <<>> /\ e.sweep = NoSweep
      /\ e.logic = Lower(OnePulse(o, d, 1))
  BY DEF Entry
<1>2. /\ profiles[0] = Silence /\ profiles[1] = Tone(f, 0)
  BY DEF Silent
<1>3. e.sweep.fstep = 0 /\ ~(e.sweep.fstep > 0) /\ Len(e.ram) = 0
  BY <1>1 DEF NoSweep
<1>4. profiles[0].asf = 0 /\ profiles[1].ftw = f /\ profiles[1].pow = 0 /\ profiles[1].asf = 1
  BY <1>2 DEF Silence, Tone
<1>0. IsPulse(c, o, d, f) /\ c.kind = "pulse"
  BY DEF IsPulse
<1> HIDE DEF profiles, e, c
<1>5. Loads(e)
  BY <1>3, UnitsAssumption DEF Loads
<1>6. \A since : SignalOf(e, 0, since) = Off
  BY <1>1, <1>3, <1>4, Profiles, SoundIs, Zenon DEF SignalOf
<1>7. \A since : SignalOf(e, 1, since) = <<f, 0>>
  <2>1. Sound(f, 0, 1) = <<f, 0>>
    BY FreqsAre, SoundIs
  <2> QED BY <1>1, <1>3, <1>4, <2>1, Profiles, Zenon DEF SignalOf
<1>8. Period(e) \in Nat \ {0} /\ x \in Nat /\ y \in Nat
  <2>1. Period(e) \in Nat \ {0}
    BY <1>1, OnePulseTyped, RatioIs DEF Period
  <2> QED BY <2>1, LastsAre
<1>9. /\ \A t \in Nat : t < x => AskedAt(c, Period(e), t) = Off
      /\ \A z \in Nat : AskedAt(c, Period(e), x + z) = IF z < y THEN <<f, 0>> ELSE Off
  <2>1. Given(c, d, Period(e)) = y
    BY <1>0 DEF Given
  <2> DEFINE k == Period(e)
  <2>2. k \in Nat \ {0} /\ IsPulse(c, o, d, f) /\ x = Lasts(o, k)
    BY <1>0, <1>8
  <2> HIDE DEF k, x
  <2>3. /\ \A t \in Nat : t < x => AskedAt(c, k, t) = Off
        /\ \A z \in Nat : AskedAt(c, k, x + z) = IF z < Given(c, d, k) THEN <<f, 0>> ELSE Off
    BY <2>2, PulseAsked
  <2> QED BY <2>1, <2>3, Zenon DEF k
<1> HIDE DEF x, y
<1>10. RightIn(e, c, x, y, 1)
  <2>1. \A z \in Nat : z < y => /\ SignalOf(e, 1, z) = AskedAt(c, Period(e), x + z)
                                /\ SignalOf(e, 1, z)[1] \in Int
    BY <1>7, <1>9, FreqsAre
  <2>2. \A z \in Nat : z >= y => AskedAt(c, Period(e), x + z) = Off
    BY <1>8, <1>9
  <2> QED BY <1>6, <1>9, <2>1, <2>2, Zenon DEF RightIn
<1>11. 1 \in Nat /\ 1 # 0
  OBVIOUS
<1>12. Right(e, c)
  BY <1>1, <1>5, <1>10, <1>11, PulseRight, Zenon DEF x, y
<1> QED BY <1>12 DEF e, profiles, c

\* A pulse is played from the RAM: words w, then a blank one.
Image(n, rate) ==
  [Unplayed EXCEPT ![0] = Playback(n, n, 0, "switch"), ![1] = Playback(0, n, rate, "rampup")]

LEMMA NoGreater == \A q, n \in Nat : q <= n => Min({n, q}) = q /\ Min({q, n}) = q
<1> SUFFICES ASSUME NEW q \in Nat, NEW n \in Nat, q <= n PROVE Min({n, q}) = q
  <2>1. \A q, n : {n, q} = {q, n}
    OBVIOUS
  <2> QED BY <2>1
<1> DEFINE S == {n, q}
           k == Min(S)
<1>1. S \in SUBSET Nat /\ S # {}
  OBVIOUS
<1>2. k \in S /\ \A y \in S : k <= y
  BY <1>1, MinOf, Zenon
<1> HIDE DEF k
<1>3. k = q
  BY <1>2
<1> QED BY <1>3 DEF k

\* The descriptor sounds so.
SoundsLike(e, w, rate) ==
  /\ Loads(e)
  /\ \A since : SignalOf(e, 0, since) = Off
  /\ \A x, q \in Nat :
       rate # 0 /\ x \div Ns(rate * Quad) = q
       => SignalOf(e, 1, x)
            = IF q < Len(w) THEN Sound(e.ftw, w[1 + q].pow, w[1 + q].asf) ELSE Off

LEMMA Played ==
  ASSUME NEW V, NEW w \in Seq(V), NEW rate \in 0 .. FieldMax, Len(w) < RamSize,
         NEW e, e.ram = Append(w, Blank), e.profiles = Image(Len(w), rate), e.sweep = NoSweep
  PROVE  SoundsLike(e, w, rate)
<1> DEFINE n == Len(w)
           r == e.ram
           p == e.profiles
<1>1. n \in Nat /\ n < RamSize /\ RamSize \in Nat /\ rate \in Nat /\ FieldMax \in Nat
  BY UnitsAssumption
<1>2. /\ Len(r) = n + 1 /\ r[n + 1] = Blank /\ \A k \in 1 .. n : r[k] = w[k]
  <2>1. Longer(r, w, Blank)
    <3>1. \E S : w \in Seq(S)
      OBVIOUS
    <3>2. r = Append(w, Blank)
      OBVIOUS
    <3> HIDE DEF r
    <3> QED BY <3>1, <3>2, Appended, Zenon
  <2> HIDE DEF r
  <2> QED BY <2>1, Zenon DEF Longer
<1>3. p[0] = Playback(n, n, 0, "switch") /\ p[1] = Playback(0, n, rate, "rampup")
  BY DEF Image, Unplayed
<1>4. rate % (FieldMax + 1) = rate
  BY <1>1
<1>5. /\ p[0].start = n /\ p[0].mode = "switch"
      /\ p[1].start = 0 /\ p[1].end = n /\ p[1].mode = "rampup" /\ p[1].rate = rate
  BY <1>3, <1>4 DEF Playback
<1>6. e.sweep.fstep = 0 /\ r # <<>>
  BY <1>1, <1>2 DEF NoSweep
<1>7. 1 + n = n + 1
  BY <1>1
<1> HIDE DEF n, r, p
<1>8. Loads(e)
  BY <1>1, <1>2, <1>6 DEF Loads, r
<1>9. \A since : SignalOf(e, 0, since) = Off
  <2>1. ASSUME NEW since PROVE WordAt(e, 0, since) = Blank
    <3>1. ~(p[0].mode = "rampup")
      BY <1>5
    <3> QED BY <1>2, <1>5, <1>7, <3>1, Zenon DEF WordAt, p, r
  <2>2. Blank.asf = 0
    BY DEF Blank
  <2> QED BY <1>6, <2>1, <2>2, Profiles, SoundIs, Zenon DEF SignalOf, r
<1>10. ASSUME NEW x \in Nat, NEW q \in Nat, rate # 0, x \div Ns(rate * Quad) = q
       PROVE  SignalOf(e, 1, x) = IF q < n THEN Sound(e.ftw, w[1 + q].pow, w[1 + q].asf) ELSE Off
  <2> DEFINE i == Min({n, 0 + q})
  <2>1. i = IF q < n THEN q ELSE n
    <3>1. 0 + q = q /\ (q <= n \/ n <= q) /\ (q < n <=> q <= n /\ q # n)
      BY <1>1
    <3> QED BY <1>1, <3>1, NoGreater
  <2>2. WordAt(e, 1, x) = r[1 + i]
    BY <1>5, <1>10, Zenon DEF WordAt, p, r
  <2> HIDE DEF i
  <2>3. SignalOf(e, 1, x) = Sound(e.ftw, r[1 + i].pow, r[1 + i].asf)
    BY <1>6, <2>2, Profiles, Zenon DEF SignalOf, r
  <2>4. CASE q < n
    <3>1. 1 + q \in 1 .. n /\ i = q
      BY <1>1, <2>1, <2>4
    <3>2. r[1 + i] = w[1 + q]
      BY <1>2, <3>1, Zenon
    <3> QED BY <2>3, <2>4, <3>2, Zenon
  <2>5. CASE ~(q < n)
    <3>1. r[1 + i] = Blank
      BY <1>2, <1>7, <2>1, <2>5, Zenon
    <3>2. Blank.asf = 0
      BY DEF Blank
    <3>3. SignalOf(e, 1, x) = Off
      BY <2>3, <3>1, <3>2, SoundIs, Zenon
    <3> QED BY <2>5, <3>3, Zenon
  <2> QED BY <2>4, <2>5
<1> QED BY <1>8, <1>9, <1>10, Zenon DEF n, SoundsLike

\* fit_time(): so many steps of the rate fill the time.
LEMMA FitIs ==
  ASSUME NEW d \in Nat, Fit_time(d) # 0
  PROVE  LET rate == Fit_time(d)
             n == (d \div Quad) \div rate
         IN /\ rate \in 1 .. FieldMax /\ n \in 1 .. RamSize - 1
            /\ d = (rate * Quad) * n
<1> DEFINE clocks == d \div Quad
           fits == {n \in 1 .. RamSize - 1 : clocks \div n <= FieldMax /\ d % (Quad * n) = 0}
           rate == Fit_time(d)
           m == Min(fits)
<1>1. Quad \in Nat \ {0} /\ RamSize \in Nat /\ FieldMax \in Nat
  BY UnitsAssumption
<1>2. fits # {} /\ rate = clocks \div m
  BY DEF Fit_time
<1>3. fits \in SUBSET Nat
  OBVIOUS
<1> HIDE DEF rate
<1>4. m \in fits
  BY <1>2, <1>3, MinOf, Zenon
<1> HIDE DEF m
<1>5. /\ m \in 1 .. RamSize - 1 /\ m \in Nat \ {0}
      /\ clocks \div m <= FieldMax /\ d % (Quad * m) = 0
  BY <1>4
<1> HIDE DEF fits
<1> DEFINE q == d \div (Quad * m)
<1>6. q \in Nat /\ q * (Quad * m) = d
  <2>1. Quad * m \in Nat \ {0}
    BY <1>1, <1>5, Positive
  <2> QED BY <1>5, <2>1, Multiple
<1> HIDE DEF q
<1>7. clocks = q * m
  <2>1. (q * m) * Quad = d /\ q * m \in Nat
    BY <1>1, <1>5, <1>6
  <2> DEFINE y == q * m
  <2> HIDE DEF y
  <2>2. y \in Nat /\ y * Quad <= d /\ d < y * Quad + Quad
    BY <1>1, <2>1 DEF y
  <2>3. clocks = y
    BY <1>1, <2>2, Quotient
  <2> QED BY <2>3 DEF y
<1>8. rate = q
  <2>1. q * m \in Nat /\ q * m <= q * m /\ q * m < q * m + m
    BY <1>5, <1>6
  <2>2. (q * m) \div m = q
    BY <1>5, <1>6, <2>1, Quotient
  <2> QED BY <1>2, <1>7, <2>2
<1>9. q \in Nat \ {0} /\ q <= FieldMax
  BY <1>2, <1>5, <1>6, <1>8 DEF rate
<1>10. clocks \div q = m
  <2>1. m * q \in Nat /\ m * q <= m * q /\ m * q < m * q + q
    BY <1>5, <1>9
  <2>2. (m * q) \div q = m
    BY <1>5, <1>9, <2>1, Quotient
  <2>3. q * m = m * q
    BY <1>5, <1>9
  <2> QED BY <1>7, <2>2, <2>3
<1>11. d = (q * Quad) * m
  BY <1>1, <1>5, <1>6
<1> HIDE DEF clocks
<1>12. rate \in 1 .. FieldMax /\ clocks \div rate = m /\ d = (rate * Quad) * m
  BY <1>1, <1>8, <1>9, <1>10, <1>11
<1> QED BY <1>5, <1>12 DEF rate, clocks

\* The step, of n that last v each, that a moment falls in.
LEMMA StepAt ==
  ASSUME NEW v \in Nat \ {0}, NEW n \in Nat, NEW x \in Nat
  PROVE  x \div v \in Nat /\ (x < n * v <=> x \div v < n)
<1> DEFINE q == x \div v
<1>1. q \in Nat /\ q * v <= x /\ x < q * v + v
  BY Division
<1> HIDE DEF q
<1>2. ASSUME q >= n PROVE n * v <= x
  <2>1. PICK a \in Nat : q = n + a
    <3>1. q - n \in Nat /\ q = n + (q - n)
      BY <1>1, <1>2
    <3> QED BY <3>1
  <2>2. q * v = n * v + a * v /\ a * v \in Nat /\ n * v \in Nat
    BY <2>1
  <2> QED BY <1>1, <2>2
<1>3. ASSUME q < n PROVE x < n * v
  <2>1. PICK a \in Nat : n = (q + 1) + a
    <3>1. n - (q + 1) \in Nat /\ n = (q + 1) + (n - (q + 1))
      BY <1>1, <1>3
    <3> QED BY <3>1
  <2>2. n * v = q * v + v + a * v /\ a * v \in Nat /\ q * v \in Nat
    BY <1>1, <2>1
  <2> QED BY <1>1, <2>2
<1>4. n * v \in Nat
  OBVIOUS
<1> QED BY <1>1, <1>2, <1>3, <1>4 DEF q

\* n steps of rate * Quad ns.
LEMMA StepsAre ==
  ASSUME NEW u \in Nat \ {0}, NEW n \in Nat, NEW d \in Nat, d = u * n
  PROVE  /\ Ns(u) \in Nat \ {0} /\ Ns(d) \in Nat /\ Ns(d) = n * Ns(u)
<1>1. Mhz \in Nat \ {0} /\ u * Mhz \in Nat \ {0}
  BY SizesAssumption, Positive
<1>2. (u * n) * Mhz = n * (u * Mhz) /\ n * (u * Mhz) \in Nat
  BY <1>1
<1> QED BY <1>1, <1>2 DEF Ns

\* "basic_pulse".
LEMMA BasicPulseRight ==
  ASSUME NEW o \in Nat, NEW d \in Nat, NEW f \in Freqs, Lowers(OnePulse(o, d, 1)),
         NEW rate, rate = Fit_time(d), rate # 0, NEW n, n = (d \div Quad) \div rate
  PROVE  Right(Entry([Unplayed EXCEPT ![0] = Playback(n, n, 0, "switch"),
                                      ![1] = Playback(0, n, rate, "rampup")],
                     Append([i \in 1 .. n |-> Word(0)], Blank), f, NoSweep, OnePulse(o, d, 1)),
               [kind |-> "basic_pulse", offset |-> o, duration |-> d, freq |-> f])
<1> DEFINE w == [i \in 1 .. n |-> Word(0)]
           e == Entry(Image(n, rate), Append(w, Blank), f, NoSweep, OnePulse(o, d, 1))
           c == [kind |-> "basic_pulse", offset |-> o, duration |-> d, freq |-> f]
           k == Period(e)
           x == Lasts(o, k)
           y == Lasts(d, k)
<1>1. /\ e.profiles = Image(n, rate) /\ e.ram = Append(w, Blank) /\ e.sweep = NoSweep
      /\ e.ftw = f /\ e.logic = Lower(OnePulse(o, d, 1))
  BY DEF Entry
<1>2. rate \in 1 .. FieldMax /\ n \in 1 .. RamSize - 1 /\ d = (rate * Quad) * n
  BY FitIs, Zenon
<1>3. /\ n \in Nat /\ n < RamSize /\ rate \in Nat \ {0} /\ rate \in 0 .. FieldMax
      /\ Quad \in Nat \ {0}
  BY <1>2, UnitsAssumption
<1>4. w = [i \in 1 .. n |-> w[i]] /\ \A i \in 1 .. n : w[i] = Word(0) /\ w[i] \in {Word(0)}
  OBVIOUS
<1>5. IsPulse(c, o, d, f) /\ c.kind = "basic_pulse"
  BY DEF IsPulse
<1> HIDE DEF w, e, c
<1>6. w \in Seq({Word(0)}) /\ Len(w) = n
  BY <1>3, <1>4, Enumerates, Zenon
<1>7. SoundsLike(e, w, rate)
  <2>1. e.profiles = Image(Len(w), rate) /\ Len(w) < RamSize
    BY <1>1, <1>3, <1>6
  <2> QED BY <1>1, <1>3, <1>6, <2>1, Played, Zenon
<1>8. k \in Nat \ {0}
  BY <1>1, OnePulseTyped, RatioIs DEF Period
<1> HIDE DEF k
<1>9. Ns(d) \in Nat /\ x \in Nat /\ y \in Nat /\ Ns(d) <= y
  BY <1>8, LastsAre DEF Ns
<1>10. /\ \A t \in Nat : t < x => AskedAt(c, k, t) = Off
       /\ \A z \in Nat : AskedAt(c, k, x + z) = IF z < Ns(d) THEN <<f, 0>> ELSE Off
  <2>1. Given(c, d, k) = Ns(d)
    BY <1>5 DEF Given
  <2>2. /\ \A t \in Nat : t < x => AskedAt(c, k, t) = Off
        /\ \A z \in Nat : AskedAt(c, k, x + z) = IF z < Given(c, d, k) THEN <<f, 0>> ELSE Off
    BY <1>5, <1>8, PulseAsked
  <2> QED BY <2>1, <2>2, Zenon
<1> HIDE DEF x, y
<1>11. ASSUME NEW z \in Nat
       PROVE  SignalOf(e, 1, z) = IF z < Ns(d) THEN <<f, 0>> ELSE Off
  <2> DEFINE u == rate * Quad
             q == z \div Ns(u)
  <2>1. u \in Nat \ {0}
    BY <1>3, Positive
  <2>2. Ns(u) \in Nat \ {0} /\ Ns(d) = n * Ns(u)
    BY <1>2, <1>3, <2>1, StepsAre
  <2>3. q \in Nat /\ (z < Ns(d) <=> q < n)
    BY <1>3, <2>2, StepAt
  <2>4. z \div Ns(rate * Quad) = q
    OBVIOUS
  <2> HIDE DEF q, u
  <2>5. SignalOf(e, 1, z) = IF q < n THEN Sound(e.ftw, w[1 + q].pow, w[1 + q].asf) ELSE Off
    BY <1>3, <1>6, <1>7, <2>3, <2>4 DEF SoundsLike
  <2>6. CASE q < n
    <3>1. w[1 + q] = Word(0)
      <4>1. 1 + q \in 1 .. n
        BY <1>3, <2>3, <2>6
      <4> QED BY <1>4, <4>1, Zenon
    <3>2. Word(0).pow = 0 /\ Word(0).asf = 1
      BY DEF Word
    <3>3. Sound(f, 0, 1) = <<f, 0>>
      BY FreqsAre, SoundIs
    <3> QED BY <1>1, <2>3, <2>5, <2>6, <3>1, <3>2, <3>3, Zenon
  <2>7. CASE ~(q < n)
    BY <2>3, <2>5, <2>7, Zenon
  <2> QED BY <2>6, <2>7
<1>12. 1 \in Nat /\ 1 # 0
  OBVIOUS
<1>13. RightIn(e, c, x, y, 1)
  <2>1. \A z \in Nat : z < y => /\ SignalOf(e, 1, z) = AskedAt(c, k, x + z)
                                /\ SignalOf(e, 1, z)[1] \in Int
    BY <1>10, <1>11, FreqsAre DEF Off
  <2>2. \A z \in Nat : z >= y => AskedAt(c, k, x + z) = Off
    <3>1. \A z \in Nat : z >= y => ~(z < Ns(d))
      BY <1>9
    <3> QED BY <1>10, <3>1, Zenon
  <2>3. \A since : SignalOf(e, 0, since) = Off
    BY <1>7, Zenon DEF SoundsLike
  <2> QED BY <1>10, <2>1, <2>2, <2>3, Zenon DEF RightIn, k
<1>14. Right(e, c)
  <2>1. Loads(e)
    BY <1>7, Zenon DEF SoundsLike
  <2> QED BY <1>1, <1>12, <1>13, <2>1, PulseRight, Zenon DEF x, y, k
<1> QED BY <1>14 DEF e, c, w, Image

\* What a transmission is to give for symbol s.
Symbol(c, s) ==
  IF c.kind = "fsk" THEN <<c.freq[1 + c.data[s]], 0>>
  ELSE <<c.freq, IF c.data[s] = 1 THEN c.one ELSE 1 - c.one>>

Transmits(c, o, tstep, data) ==
  /\ c.kind \in {"fsk", "psk", "zc_psk", "ram_psk"}
  /\ c.offset = o /\ c.tstep = tstep /\ c.data = data

LEMMA SymbolAsked ==
  ASSUME NEW o \in Nat, NEW tstep \in Nat, NEW data \in Seq({0, 1}),
         NEW c, Transmits(c, o, tstep, data), NEW tick \in Nat \ {0}
  PROVE  LET x == Lasts(o, tick)
             v == Given(c, tstep, tick)
         IN /\ v \in Nat /\ (v = 0 <=> tstep = 0)
            /\ \A t \in Nat : t < x => AskedAt(c, tick, t) = Off
            /\ \A z \in Nat : AskedAt(c, tick, x + z)
                                = IF z < Len(data) * v THEN Symbol(c, 1 + z \div v) ELSE Off
<1> DEFINE x == Lasts(o, tick)
           v == Given(c, tstep, tick)
           n == Len(data)
<1>1. /\ c.kind # "list" /\ ~(c.kind \in {"pulse", "basic_pulse"}) /\ c.kind # "sweep"
      /\ c.offset = o /\ c.tstep = tstep /\ c.data = data
  BY DEF Transmits
<1>2. n \in Nat /\ x \in Nat
  <2>1. n \in Nat
    OBVIOUS
  <2>2. x \in Nat
    BY LastsAre
  <2> QED BY <2>1, <2>2
<1>3. v \in Nat /\ (v = 0 <=> tstep = 0)
  <2>1. Ns(tstep) \in Nat /\ (Ns(tstep) = 0 <=> tstep = 0)
    <3>1. Mhz \in Nat \ {0} /\ 0 * Mhz = 0
      BY SizesAssumption
    <3>2. CASE tstep = 0
      BY <3>1, <3>2 DEF Ns
    <3>3. CASE tstep # 0
      <4>1. tstep * Mhz \in Nat /\ tstep * Mhz > 0
        BY <3>1, <3>3, Positive
      <4> QED BY <3>3, <4>1 DEF Ns
    <3> QED BY <3>2, <3>3
  <2>2. Lasts(tstep, tick) \in Nat /\ (Lasts(tstep, tick) = 0 <=> tstep = 0)
    BY LastsAre
  <2> QED BY <2>1, <2>2, Zenon DEF Given
<1>4. \A t : AskedAt(c, tick, t) = IF t < x THEN Off ELSE After(c, tick, t - x)
  BY <1>1, Zenon DEF AskedAt
<1>5. \A z : After(c, tick, z) = IF tstep = 0 \/ 1 + z \div v > n THEN Off
                                ELSE Symbol(c, 1 + z \div v)
  BY <1>1, Zenon DEF After, Symbol
<1> HIDE DEF x, v, n
<1>6. \A z \in Nat : ~(x + z < x) /\ (x + z) - x = z
  BY <1>2
<1>7. ASSUME NEW z \in Nat
      PROVE  After(c, tick, z) = IF z < n * v THEN Symbol(c, 1 + z \div v) ELSE Off
  <2>1. CASE tstep = 0
    <3>1. ~(z < n * v)
      <4>1. n * 0 = 0
        BY <1>2
      <4> QED BY <1>3, <2>1, <4>1
    <3> QED BY <1>5, <2>1, <3>1, Zenon
  <2>2. CASE tstep # 0
    <3>1. v \in Nat \ {0}
      BY <1>3, <2>2
    <3>2. z \div v \in Nat /\ (z < n * v <=> z \div v < n)
      BY <1>2, <3>1, StepAt
    <3> DEFINE q == z \div v
               lt == z < n * v
    <3>3. q \in Nat /\ (lt <=> q < n)
      BY <3>2
    <3>4. After(c, tick, z) = IF tstep = 0 \/ 1 + q > n THEN Off ELSE Symbol(c, 1 + q)
      BY <1>5, Zenon
    <3> HIDE DEF q, lt
    <3>5. 1 + q > n <=> ~(q < n)
      BY <1>2, <3>3
    <3>6. After(c, tick, z) = IF lt THEN Symbol(c, 1 + q) ELSE Off
      BY <2>2, <3>3, <3>4, <3>5, Zenon
    <3> QED BY <3>6 DEF q, lt
  <2> QED BY <2>1, <2>2
<1>8. \A z \in Nat : AskedAt(c, tick, x + z) = IF z < n * v THEN Symbol(c, 1 + z \div v) ELSE Off
  BY <1>4, <1>6, <1>7, Zenon
<1>9. \A t \in Nat : t < x => AskedAt(c, tick, t) = Off
  BY <1>4, Zenon
<1> QED BY <1>3, <1>8, <1>9, Zenon DEF x, v, n

\* "basic_xmitdata ram_psk".
LEMMA RamPskRight ==
  ASSUME NEW o \in Nat, NEW f \in Freqs, NEW tstep \in Nat, NEW data \in Seq({0, 1}),
         tstep % Quad = 0, tstep \div Quad <= FieldMax, Len(data) < RamSize,
         Lowers(OnePulse(o, tstep * Len(data), 1))
  PROVE  Right(Entry([Unplayed EXCEPT ![0] = Playback(Len(data), Len(data), 0, "switch"),
                                      ![1] = Playback(0, Len(data), tstep \div Quad, "rampup")],
                     Append([i \in 1 .. Len(data) |-> Word(IF data[i] = 0 THEN 0 ELSE 1)], Blank),
                     f, NoSweep, OnePulse(o, tstep * Len(data), 1)),
               Shifted("ram_psk", o, f, tstep, data, 1))
<1> DEFINE n == Len(data)
           d == tstep * n
           rate == tstep \div Quad
           w == [i \in 1 .. n |-> Word(IF data[i] = 0 THEN 0 ELSE 1)]
           e == Entry(Image(n, rate), Append(w, Blank), f, NoSweep, OnePulse(o, d, 1))
           c == Shifted("ram_psk", o, f, tstep, data, 1)
           k == Period(e)
           x == Lasts(o, k)
           y == Lasts(d, k)
<1>1. /\ e.profiles = Image(n, rate) /\ e.ram = Append(w, Blank) /\ e.sweep = NoSweep
      /\ e.ftw = f /\ e.logic = Lower(OnePulse(o, d, 1))
  BY DEF Entry
<1>2. n \in Nat /\ n < RamSize /\ d \in Nat /\ Quad \in Nat \ {0} /\ FieldMax \in Nat
  BY UnitsAssumption
<1>3. rate \in Nat /\ rate * Quad = tstep
  BY <1>2, Multiple
<1>4. /\ w = [i \in 1 .. n |-> w[i]]
      /\ \A i \in 1 .. n : w[i] = Word(IF data[i] = 0 THEN 0 ELSE 1)
  OBVIOUS
<1>5. /\ Transmits(c, o, tstep, data)
      /\ c.kind = "ram_psk" /\ c.freq = f /\ c.one = 1 /\ c.data = data
  BY DEF Shifted, Transmits
<1>6. \A i \in 1 .. n : data[i] \in {0, 1}
  OBVIOUS
<1>7. rate \in 0 .. FieldMax
  BY <1>2, <1>3
<1>8. Lowers(OnePulse(o, d, 1))
  OBVIOUS
<1> HIDE DEF n, d, w, e, c, rate
<1>9. w \in Seq({Word(0), Word(1)}) /\ Len(w) = n
  <2>1. \A i \in 1 .. n : w[i] \in {Word(0), Word(1)}
    BY <1>4, Zenon
  <2> QED BY <1>2, <1>4, <2>1, Enumerates, Zenon
<1>10. SoundsLike(e, w, rate)
  <2>1. e.profiles = Image(Len(w), rate) /\ Len(w) < RamSize
    BY <1>1, <1>2, <1>9
  <2> QED BY <1>1, <1>7, <1>9, <2>1, Played, Zenon
<1>11. k \in Nat \ {0}
  BY <1>1, <1>2, <1>8, OnePulseTyped, RatioIs DEF Period
<1> HIDE DEF k
<1>12. x \in Nat /\ y \in Nat /\ Ns(d) \in Nat /\ Ns(d) <= y /\ (d = 0 => y = 0)
  BY <1>2, <1>11, LastsAre DEF Ns
<1> DEFINE v == Ns(tstep)
<1>13. n * v = Ns(d) /\ v \in Nat /\ (tstep = 0 => d = 0)
  <2>1. Mhz \in Nat /\ (tstep * n) * Mhz = n * (tstep * Mhz) /\ tstep * Mhz \in Nat /\ 0 * n = 0
    BY <1>2, SizesAssumption
  <2> QED BY <2>1 DEF Ns, d
<1>14. /\ \A t \in Nat : t < x => AskedAt(c, k, t) = Off
       /\ \A z \in Nat : AskedAt(c, k, x + z) = IF z < n * v THEN Symbol(c, 1 + z \div v) ELSE Off
  <2>1. Given(c, tstep, k) = v
    BY <1>5 DEF Given
  <2>2. x = Lasts(o, k)
    OBVIOUS
  <2> DEFINE g == Given(c, tstep, k)
  <2> HIDE DEF x
  <2>3. /\ \A t \in Nat : t < x => AskedAt(c, k, t) = Off
        /\ \A z \in Nat : AskedAt(c, k, x + z) = IF z < n * g THEN Symbol(c, 1 + z \div g) ELSE Off
    BY <1>5, <1>11, <2>2, SymbolAsked DEF n
  <2> HIDE DEF v, g
  <2> QED BY <2>1, <2>3, Zenon DEF g
<1> HIDE DEF x, y
<1>15. ASSUME NEW z \in Nat, z < y
       PROVE  /\ SignalOf(e, 1, z) = AskedAt(c, k, x + z)
              /\ SignalOf(e, 1, z)[1] \in Int
  <2> DEFINE q == z \div v
  <2>1. tstep # 0 /\ rate # 0 /\ v \in Nat \ {0}
    <3>1. tstep # 0
      BY <1>12, <1>13, <1>15
    <3>2. 0 * Quad = 0 /\ Mhz \in Nat \ {0}
      BY <1>2, SizesAssumption
    <3>3. tstep * Mhz \in Nat \ {0}
      BY <3>1, <3>2, Positive
    <3> QED BY <1>3, <3>1, <3>2, <3>3 DEF Ns
  <2>2. q \in Nat /\ (z < n * v <=> q < n)
    BY <1>2, <2>1, StepAt
  <2>3. z \div Ns(rate * Quad) = q
    BY <1>3
  <2>4. AskedAt(c, k, x + z) = IF z < n * v THEN Symbol(c, 1 + q) ELSE Off
    BY <1>14, Zenon
  <2> HIDE DEF q, v
  <2>5. SignalOf(e, 1, z) = IF q < n THEN Sound(e.ftw, w[1 + q].pow, w[1 + q].asf) ELSE Off
    BY <1>9, <1>10, <2>1, <2>2, <2>3 DEF SoundsLike
  <2>6. CASE q < n
    <3>1. 1 + q \in 1 .. n
      BY <1>2, <2>2, <2>6
    <3>2. w[1 + q] = Word(IF data[1 + q] = 0 THEN 0 ELSE 1) /\ data[1 + q] \in {0, 1}
      BY <1>4, <1>6, <3>1, Zenon
    <3> DEFINE p == IF data[1 + q] = 1 THEN 1 ELSE 0
    <3>3. w[1 + q].pow = p /\ w[1 + q].asf = 1
      BY <3>2 DEF Word
    <3>4. Symbol(c, 1 + q) = <<f, p>>
      BY <1>5 DEF Symbol
    <3> HIDE DEF p
    <3>6. Sound(f, p, 1) = <<f, p>> /\ f \in Int
      BY FreqsAre, SoundIs
    <3>5. SignalOf(e, 1, z) = <<f, p>>
      BY <1>1, <2>5, <2>6, <3>3, <3>6, Zenon
    <3>7. SignalOf(e, 1, z) = Symbol(c, 1 + q) /\ SignalOf(e, 1, z)[1] = f
      BY <3>4, <3>5
    <3> QED BY <2>2, <2>4, <2>6, <3>6, <3>7, Zenon
  <2>7. CASE ~(q < n)
    <3>1. SignalOf(e, 1, z) = Off /\ AskedAt(c, k, x + z) = Off
      BY <2>2, <2>4, <2>5, <2>7, Zenon
    <3> QED BY <3>1 DEF Off
  <2> QED BY <2>6, <2>7
<1>16. 1 \in Nat /\ 1 # 0
  OBVIOUS
<1>17. RightIn(e, c, x, y, 1)
  <2>1. \A z \in Nat : z >= y => AskedAt(c, k, x + z) = Off
    <3>1. \A z \in Nat : z >= y => ~(z < n * v)
      BY <1>12, <1>13
    <3> QED BY <1>14, <3>1, Zenon
  <2>2. \A since : SignalOf(e, 0, since) = Off
    BY <1>10, Zenon DEF SoundsLike
  <2> QED BY <1>14, <1>15, <2>1, <2>2, Zenon DEF RightIn, k
<1>18. Right(e, c)
  <2>1. Loads(e)
    BY <1>10, Zenon DEF SoundsLike
  <2> QED BY <1>1, <1>2, <1>8, <1>16, <1>17, <2>1, PulseRight, Zenon DEF x, y, k
<1> QED BY <1>18 DEF e, c, w, d, n, rate, Image

\* What a sweep is to give.
LEMMA SweepAsked ==
  ASSUME NEW o \in Nat, NEW d \in Nat, NEW f, NEW a, NEW b, NEW c,
         c = [kind |-> "sweep", offset |-> o, duration |-> d, freq |-> f, a |-> a, b |-> b],
         NEW tick \in Nat \ {0}, NEW steps, steps = d \div (Quad * b)
  PROVE  /\ \A t \in Nat : t < Lasts(o, tick) => AskedAt(c, tick, t) = Off
         /\ \A z \in Nat : AskedAt(c, tick, Lasts(o, tick) + z)
              = IF z < Lasts(d, tick)
                THEN <<Begins(f, a, steps) + a * Min({steps - 1, z \div Ns(Quad * b)}), 0>> ELSE Off
<1> DEFINE x == Lasts(o, tick)
<1>1. /\ c.kind # "list" /\ ~(c.kind \in {"pulse", "basic_pulse"}) /\ c.kind = "sweep"
      /\ ~(c.kind \in {"basic_pulse", "ram_psk"})
      /\ c.offset = o /\ c.duration = d /\ c.freq = f /\ c.a = a /\ c.b = b
  OBVIOUS
<1>2. x \in Nat
  BY LastsAre
<1>3. \A t : AskedAt(c, tick, t) = IF t < x THEN Off ELSE After(c, tick, t - x)
  BY <1>1, Zenon DEF AskedAt
<1>4. Given(c, d, tick) = Lasts(d, tick)
  BY <1>1, Zenon DEF Given
<1>5. \A z : After(c, tick, z)
        = IF z < Lasts(d, tick)
          THEN <<Begins(f, a, steps) + a * Min({steps - 1, z \div Ns(Quad * b)}), 0>> ELSE Off
  BY <1>1, <1>4, Zenon DEF After
<1> HIDE DEF x
<1>6. \A z \in Nat : ~(x + z < x) /\ (x + z) - x = z
  BY <1>2
<1>7. \A t \in Nat : t < x => AskedAt(c, tick, t) = Off
  BY <1>3, Zenon
<1>8. \A z \in Nat : AskedAt(c, tick, x + z)
        = IF z < Lasts(d, tick)
          THEN <<Begins(f, a, steps) + a * Min({steps - 1, z \div Ns(Quad * b)}), 0>> ELSE Off
  BY <1>3, <1>5, <1>6, Zenon
<1> QED BY <1>7, <1>8, Zenon DEF x

\* Its frequencies are below half the clock.
LEMMA BandIs ==
  ASSUME NEW x \in Int, NEW m \in Int, NEW F \in Nat,
         x \in 1 .. F - 3, x + 2 * m \in 1 .. F - 3
  PROVE  LET g == (x + 1) \div 2
         IN g \in Nat /\ g > 0 /\ 2 * g <= F - 2 /\ g + m > 0 /\ 2 * (g + m) <= F - 2
OBVIOUS

LEMMA Between ==
  ASSUME NEW a \in Int, NEW q \in Nat, NEW m \in Nat, q <= m, m > 0
  PROVE  /\ a * q \in Int /\ a * m \in Int
         /\ a > 0 => 0 <= a * q /\ a * q <= a * m /\ 0 < a * m
         /\ a < 0 => a * m <= a * q /\ a * q <= 0 /\ a * m < 0
<1> DEFINE r == m - q
<1>1. r \in Nat /\ m = q + r
  OBVIOUS
<1> HIDE DEF r
<1>2. a * m = a * q + a * r /\ a * q \in Int /\ a * r \in Int
  BY <1>1
<1>3. ASSUME a > 0 PROVE 0 <= a * q /\ 0 <= a * r /\ 0 < a * m
  BY <1>1, <1>3
<1>4. ASSUME a < 0 PROVE a * q <= 0 /\ a * r <= 0 /\ a * m < 0
  <2> DEFINE z == -a
  <2>1. z \in Nat /\ z > 0 /\ a = -z
    BY <1>4
  <2> HIDE DEF z
  <2>2. z * q >= 0 /\ z * r >= 0 /\ z * m > 0
    BY <1>1, <2>1
  <2>3. a * q = -(z * q) /\ a * r = -(z * r) /\ a * m = -(z * m)
    BY <1>1, <2>1
  <2>4. z * q \in Int /\ z * r \in Int /\ z * m \in Int
    BY <1>1, <2>1
  <2> QED BY <2>2, <2>3, <2>4
<1> QED BY <1>2, <1>3, <1>4

LEMMA Residue == \A x, m \in Nat : x < m => x % m = x
OBVIOUS

\* "seq sweep" and "basic_sweep": the ramp that is programmed.
Ramp(f1, f2, a, b) ==
  [fstep |-> IF a < 0 THEN -a ELSE a,
   tstep |-> b % (FieldMax + 1),
   lower |-> IF a < 0 THEN Negated(f1) ELSE f1,
   upper |-> IF a < 0 THEN Negated(f2) ELSE f2]

\* The frequency heard is f1 + a * q in step q, up or down, until it is that
\* of step m.
Rising(r, f1, a, m, u) ==
  /\ r.fstep > 0 /\ r.lower < r.upper
  /\ \A x, q \in Nat : x \div Ns(u) = q
       => Sound(RampAt(r, 1 + DR_CTL, x), 0, 1) = <<f1 + a * Min({m, q}), 0>>

CappedAt(p, l, m, q) ==
  /\ Min({m, q}) \in Nat /\ Min({m, q}) <= m
  /\ Min({l + p * m, l + p * q}) = l + p * Min({m, q})

LEMMA Capped ==
  ASSUME NEW p \in Nat, NEW l \in Nat, NEW m \in Nat, NEW q \in Nat
  PROVE  CappedAt(p, l, m, q)
<1>1. \A i, j \in Nat : i <= j => l + p * i \in Nat /\ l + p * j \in Nat /\ l + p * i <= l + p * j
  <2> SUFFICES ASSUME NEW i \in Nat, NEW j \in Nat, i <= j
               PROVE  l + p * i \in Nat /\ l + p * j \in Nat /\ l + p * i <= l + p * j
    OBVIOUS
  <2>1. PICK k \in Nat : j = i + k
    <3>1. j - i \in Nat /\ j = i + (j - i)
      OBVIOUS
    <3> QED BY <3>1
  <2>2. p * j = p * i + p * k /\ p * i \in Nat /\ p * k \in Nat
    BY <2>1
  <2> QED BY <2>2
<1>2. CASE q <= m
  <2>1. Min({m, q}) = q
    BY <1>2, NoGreater
  <2>2. Min({l + p * m, l + p * q}) = l + p * q
    BY <1>1, <1>2, NoGreater
  <2> QED BY <1>2, <2>1, <2>2 DEF CappedAt
<1>3. CASE m <= q
  <2>1. Min({m, q}) = m
    BY <1>3, NoGreater
  <2>2. Min({l + p * m, l + p * q}) = l + p * m
    BY <1>1, <1>3, NoGreater
  <2> QED BY <1>3, <2>1, <2>2 DEF CappedAt
<1> QED BY <1>2, <1>3

LEMMA RampSounds ==
  ASSUME NEW a \in Int, a # 0, NEW b \in Nat \ {0}, b <= FieldMax, NEW m \in Nat, m > 0,
         NEW f1 \in Nat, f1 > 0, 2 * f1 <= FtwSize - 2,
         f1 + a * m > 0, 2 * (f1 + a * m) <= FtwSize - 2,
         NEW f2, f2 = f1 + a * m
  PROVE  Rising(Ramp(f1, f2, a, b), f1, a, m, Quad * b)
<1> DEFINE z == a * m
           r == Ramp(f1, f2, a, b)
<1>1. FtwSize \in Nat /\ FieldMax \in Nat /\ Quad \in Nat \ {0} /\ b \in Nat
  BY UnitsAssumption
<1>2. z \in Int /\ (a > 0 => z > 0) /\ (a < 0 => z < 0)
  <2>1. m <= m
    OBVIOUS
  <2> QED BY <2>1, Between
<1>3. f2 = f1 + z /\ f2 \in Nat /\ f2 > 0 /\ 2 * f2 <= FtwSize - 2
  BY <1>1, <1>2
<1> HIDE DEF z
<1>4. Negated(f1) = FtwSize - f1 /\ Negated(f2) = FtwSize - f2
  <2>1. /\ FtwSize - f1 \in Nat /\ FtwSize - f1 < FtwSize
        /\ FtwSize - f2 \in Nat /\ FtwSize - f2 < FtwSize
    BY <1>1, <1>3
  <2> QED BY <1>1, <2>1, Residue DEF Negated
<1>5. /\ r.fstep = (IF a < 0 THEN -a ELSE a) /\ r.tstep = b
      /\ r.lower = (IF a < 0 THEN FtwSize - f1 ELSE f1)
      /\ r.upper = (IF a < 0 THEN FtwSize - f2 ELSE f2)
  <2>1. b % (FieldMax + 1) = b
    BY <1>1, Residue
  <2> QED BY <1>4, <2>1 DEF Ramp
<1> HIDE DEF r
<1>6. r.fstep > 0 /\ r.lower < r.upper
  BY <1>1, <1>2, <1>3, <1>5
<1>8. r.upper = r.lower + r.fstep * m /\ r.lower \in Nat /\ r.fstep \in Nat
  <2>1. (-a) * m = -z
    BY DEF z
  <2>2. CASE a > 0
    BY <1>3, <1>5, <2>2 DEF z
  <2>3. CASE a < 0
    <3>1. r.fstep * m = -z
      BY <1>5, <2>1, <2>3
    <3> QED BY <1>1, <1>2, <1>3, <1>5, <2>3, <3>1
  <2> QED BY <2>2, <2>3
<1>7. ASSUME NEW x \in Nat, NEW q \in Nat, x \div Ns(Quad * b) = q
      PROVE  Sound(RampAt(r, 1 + DR_CTL, x), 0, 1) = <<f1 + a * Min({m, q}), 0>>
  <2> DEFINE k == Min({m, q})
             y == a * k
             g == f1 + y
  <2>0. /\ k \in Nat /\ k <= m
        /\ Min({r.lower + r.fstep * m, r.lower + r.fstep * q}) = r.lower + r.fstep * k
    <3>1. \A l, p \in Nat : /\ k \in Nat /\ k <= m
                          /\ Min({l + p * m, l + p * q}) = l + p * k
      <4>1. \A l, p \in Nat : CappedAt(p, l, m, q)
        BY Capped
      <4> QED BY <4>1, Zenon DEF CappedAt
    <3> HIDE DEF k
    <3> QED BY <1>8, <3>1
  <2> HIDE DEF k
  <2>1. /\ y \in Int
        /\ a > 0 => 0 <= y /\ y <= z
        /\ a < 0 => z <= y /\ y <= 0
    BY <2>0, Between DEF z
  <2>2. r.tstep * Quad = Quad * b
    BY <1>1, <1>5
  <2>3. RampAt(r, 1 + DR_CTL, x) = r.lower + r.fstep * k
    <3>1. ~(1 + DR_CTL < DR_CTL) /\ r.tstep # 0
      BY <1>1, <1>5 DEF DR_CTL
    <3>2. RampAt(r, 1 + DR_CTL, x) = Min({r.upper, r.lower + r.fstep * q})
      BY <1>7, <2>2, <3>1, Zenon DEF RampAt
    <3> QED BY <1>8, <2>0, <3>2
  <2>4. (-a) * k = -y
    BY <2>0
  <2> HIDE DEF y
  <2>5. g \in Nat /\ g > 0 /\ 2 * g <= FtwSize - 2
    BY <1>1, <1>2, <1>3, <2>1
  <2>6. CASE a > 0
    <3>0. r.fstep = a /\ r.lower = f1
      BY <1>5, <2>6
    <3>1. r.fstep * k = y
      BY <3>0 DEF y
    <3>2. RampAt(r, 1 + DR_CTL, x) = g
      BY <2>3, <3>0, <3>1
    <3> HIDE DEF g
    <3>3. 2 * g <= FtwSize
      BY <1>1, <2>5
    <3>4. Sound(g, 0, 1) = <<g, 0>>
      BY <2>5, <3>3, SoundIs
    <3> QED BY <3>2, <3>4 DEF g, y, k
  <2>7. CASE a < 0
    <3>0. r.fstep = -a /\ r.lower = FtwSize - f1
      BY <1>5, <2>7
    <3>1. r.fstep * k = -y
      BY <2>4, <3>0
    <3>4. RampAt(r, 1 + DR_CTL, x) = FtwSize - g
      BY <1>1, <2>1, <2>3, <3>0, <3>1
    <3> HIDE DEF g
    <3>5. 2 * (FtwSize - g) > FtwSize /\ FtwSize - (FtwSize - g) = g
      BY <1>1, <2>5
    <3>6. Sound(FtwSize - g, 0, 1) = <<g, 0>>
      BY <3>5 DEF Sound, Heard
    <3> QED BY <3>4, <3>6 DEF g, y, k
  <2> QED BY <2>6, <2>7
<1> QED BY <1>6, <1>7, Zenon DEF Rising, r

LEMMA SweepRight ==
  ASSUME NEW o \in Nat, NEW d \in Nat, NEW f \in Freqs, NEW a \in Int, a # 0,
         NEW b \in Nat \ {0}, b <= FieldMax, d % (Quad * b) = 0,
         NEW steps, steps = d \div (Quad * b), steps > 1, InBand(f, a, steps),
         NEW f1, f1 = Begins(f, a, steps), NEW f2, f2 = (f1 + a * (steps - 1)) % FtwSize,
         Lowers(OnePulse(o, d, 1 + DR_CTL))
  PROVE  Right(Entry([Silent EXCEPT ![1] = Tone(0, 0)], <<>>, 0, Ramp(f1, f2, a, b),
                     OnePulse(o, d, 1 + DR_CTL)),
               [kind |-> "sweep", offset |-> o, duration |-> d, freq |-> f, a |-> a, b |-> b])
<1> DEFINE profiles == [Silent EXCEPT ![1] = Tone(0, 0)]
           r == Ramp(f1, f2, a, b)
           e == Entry(profiles, <<>>, 0, r, OnePulse(o, d, 1 + DR_CTL))
           c == [kind |-> "sweep", offset |-> o, duration |-> d, freq |-> f, a |-> a, b |-> b]
           m == steps - 1
           k == Period(e)
           x == Lasts(o, k)
           y == Lasts(d, k)
           u == Quad * b
<1>1. /\ e.profiles = profiles /\ e.ram = <<>> /\ e.sweep = r
      /\ e.logic = Lower(OnePulse(o, d, 1 + DR_CTL))
  BY DEF Entry
<1>2. /\ profiles[0].asf = 0 /\ profiles[1].pow = 0 /\ profiles[1].asf = 1
  BY DEF Silent, Silence, Tone
<1>3. FtwSize \in Nat /\ Quad \in Nat \ {0} /\ u \in Nat \ {0} /\ f \in Nat /\ RamSize \in Nat
  BY UnitsAssumption, FreqsAre, Positive
<1> HIDE DEF profiles, r, e, c
<1>4. steps \in Nat /\ d = u * steps
  <2>1. (d \div u) \in Nat /\ (d \div u) * u = d
    BY <1>3, Multiple
  <2>2. steps \in Nat /\ steps * u = d
    BY <2>1
  <2> HIDE DEF u
  <2> QED BY <1>3, <2>2
<1>5. m \in Nat /\ m > 0 /\ steps = m + 1
  BY <1>4
<1> DEFINE z == a * m
<1>6. z \in Int
  BY <1>5
<1>7. 2 * f - z \in 1 .. FtwSize - 3 /\ (2 * f - z) + 2 * z \in 1 .. FtwSize - 3
  <2>1. \A i \in {0, m} : (2 * f - a * m) + 2 * a * i \in 1 .. FtwSize - 3
    BY DEF InBand
  <2>2. (2 * f - a * m) + 2 * a * 0 = 2 * f - z
    BY <1>3, <1>5
  <2>3. (2 * f - a * m) + 2 * a * m = (2 * f - z) + 2 * z
    BY <1>3, <1>5
  <2> HIDE DEF m
  <2> QED BY <2>1, <2>2, <2>3
<1> HIDE DEF z
<1> DEFINE g == ((2 * f - z) + 1) \div 2
<1>8. g \in Nat /\ g > 0 /\ 2 * g <= FtwSize - 2 /\ g + z > 0 /\ 2 * (g + z) <= FtwSize - 2
  <2>1. 2 * f - z \in Int
    BY <1>3, <1>6
  <2> QED BY <1>3, <1>6, <1>7, <2>1, BandIs
<1>9. f1 = g
  <2>1. f1 = IF (2 * f - z) + 1 < 0 THEN 0 ELSE g % FtwSize
    BY DEF Begins, z
  <2>2. ~((2 * f - z) + 1 < 0)
    BY <1>3, <1>6, <1>7
  <2> HIDE DEF g
  <2>3. g < FtwSize
    BY <1>3, <1>8
  <2>4. g % FtwSize = g
    BY <1>3, <1>8, <2>3, Residue
  <2> QED BY <2>1, <2>2, <2>4
<1> HIDE DEF g
<1>10. f2 = f1 + z
  <2>1. f1 + z \in Nat /\ f1 + z < FtwSize
    BY <1>3, <1>6, <1>8, <1>9
  <2>2. (f1 + z) % FtwSize = f1 + z
    BY <1>3, <2>1, Residue
  <2> QED BY <2>2 DEF z
<1>11. Rising(r, f1, a, m, u)
  <2>1. /\ f1 \in Nat /\ f1 > 0 /\ 2 * f1 <= FtwSize - 2
        /\ f1 + a * m > 0 /\ 2 * (f1 + a * m) <= FtwSize - 2
        /\ f2 = f1 + a * m
    BY <1>8, <1>9, <1>10 DEF z
  <2> HIDE DEF m
  <2>2. m \in Nat /\ m > 0
    BY <1>5
  <2> QED BY <2>1, <2>2, RampSounds, Zenon DEF r
<1>20. k \in Nat \ {0}
  <2>1. 1 + DR_CTL \in Nat
    BY DEF DR_CTL
  <2>2. OnePulse(o, d, 1 + DR_CTL) \in Seq(States)
    BY <2>1, OnePulseTyped, Zenon
  <2>3. k = Lower(OnePulse(o, d, 1 + DR_CTL)).prescaler + 1
    BY <1>1 DEF Period
  <2> QED BY <2>2, <2>3, RatioIs
<1> HIDE DEF k
<1>12. /\ \A t \in Nat : t < x => AskedAt(c, k, t) = Off
       /\ \A w \in Nat : AskedAt(c, k, x + w)
            = IF w < y THEN <<f1 + a * Min({m, w \div Ns(u)}), 0>> ELSE Off
  <2>1. c = [kind |-> "sweep", offset |-> o, duration |-> d, freq |-> f, a |-> a, b |-> b]
    BY DEF c
  <2>2. /\ \A t \in Nat : t < x => AskedAt(c, k, t) = Off
        /\ \A w \in Nat : AskedAt(c, k, x + w)
             = IF w < y THEN <<Begins(f, a, steps) + a * Min({m, w \div Ns(u)}), 0>> ELSE Off
    BY <1>20, <2>1, SweepAsked
  <2> HIDE DEF m, u, x, y
  <2> QED BY <2>2, Zenon
<1>13. Loads(e)
  BY <1>1, <1>3, <1>11 DEF Loads, Rising
<1>14. \A since : SignalOf(e, 0, since) = Off
  BY <1>1, <1>2, Profiles, SoundIs, Zenon DEF SignalOf
<1>15. x \in Nat /\ y \in Nat
  BY <1>20, LastsAre
<1> HIDE DEF x, y
<1>16. ASSUME NEW w \in Nat, w < y
       PROVE  /\ SignalOf(e, 1 + DR_CTL, w) = AskedAt(c, k, x + w)
              /\ SignalOf(e, 1 + DR_CTL, w)[1] \in Int
  <2> DEFINE q == w \div Ns(u)
             i == Min({m, q})
  <2>1. Ns(u) \in Nat \ {0}
    BY <1>3, <1>4, StepsAre
  <2>2. q \in Nat
    BY <2>1, Division
  <2>3. w \div Ns(u) = q
    OBVIOUS
  <2> HIDE DEF q
  <2>4. i \in Nat
    <3>1. 0 \in Nat
      OBVIOUS
    <3> QED BY <1>5, <2>2, <3>1, Capped DEF CappedAt
  <2>5. Sound(RampAt(r, 1 + DR_CTL, w), 0, 1) = <<f1 + a * i, 0>>
    BY <1>11, <2>2, <2>3 DEF Rising
  <2>6. SignalOf(e, 1 + DR_CTL, w) = Sound(RampAt(r, 1 + DR_CTL, w), 0, 1)
    BY <1>1, <1>2, <1>11, Profiles, Zenon DEF SignalOf, Rising
  <2>7. AskedAt(c, k, x + w) = <<f1 + a * i, 0>>
    BY <1>12, <1>16, <2>3, Zenon
  <2> HIDE DEF i
  <2>8. f1 + a * i \in Int
    BY <1>8, <1>9, <2>4
  <2> QED BY <2>5, <2>6, <2>7, <2>8
<1>17. RightIn(e, c, x, y, 1 + DR_CTL)
  <2>1. \A w \in Nat : w >= y => AskedAt(c, k, x + w) = Off
    <3>1. \A w \in Nat : w >= y => ~(w < y)
      BY <1>15
    <3> QED BY <1>12, <3>1, Zenon
  <2> QED BY <1>12, <1>14, <1>16, <2>1, Zenon DEF RightIn, k
<1>18. 1 + DR_CTL \in Nat /\ 1 + DR_CTL # 0
  BY DEF DR_CTL
<1>19. Right(e, c)
  BY <1>1, <1>13, <1>17, <1>18, PulseRight, Zenon DEF x, y, k
<1> QED BY <1>19 DEF e, profiles, c, r

(***************************************************************************)
(* The states of symbols.                                                  *)
(***************************************************************************)

\* The state of a symbol.
Shows(symbol) == IF symbol # 0 THEN 2 ELSE 3

LEMMA SymbolsIs ==
  ASSUME NEW o \in Nat, NEW t \in Nat, NEW data \in Seq({0, 1})
  PROVE  LET states == Symbols(o, t, data)
             m == Lead(o)
             n == Len(data)
         IN /\ states \in Seq(States) /\ Len(states) = m + n + 2
            /\ o # 0 => states[1] = State(o, 0)
            /\ \A i \in 1 .. n : states[m + i] = State(t, Shows(data[i]))
            /\ states[m + n + 1] = State(Short, 0) /\ states[m + n + 2] = State(0, 0)
<1> DEFINE a == Optional(o)
           x == [i \in DOMAIN data |-> State(t, IF data[i] # 0 THEN 2 ELSE 3)]
           c == <<State(Short, 0), State(0, 0)>>
           m == Lead(o)
           n == Len(data)
<1>1. a \in Seq(States) /\ Len(a) = m /\ (m = IF o = 0 THEN 0 ELSE 1) /\ (o # 0 => a[1] = State(o, 0))
  BY OptionalTyped DEF Lead
<1>2. x \in Seq(States) /\ Len(x) = n /\ \A i \in 1 .. n : x[i] = State(t, Shows(data[i]))
  <2>1. DOMAIN x = 1 .. n /\ x = [i \in 1 .. n |-> x[i]] /\ n \in Nat
    OBVIOUS
  <2>2. \A i \in 1 .. n : x[i] \in States
    BY DEF State, States
  <2>3. \A i \in 1 .. n : x[i] = State(t, Shows(data[i]))
    BY DEF Shows
  <2> HIDE DEF x
  <2> QED BY <2>1, <2>2, <2>3, Enumerates, Zenon
<1>3. c \in Seq(States) /\ Len(c) = 2 /\ c[1] = State(Short, 0) /\ c[2] = State(0, 0)
  BY UnitsAssumption DEF State, States
<1>4. Symbols(o, t, data) = (a \o x) \o c
  BY DEF Symbols
<1>5. n \in Nat
  OBVIOUS
<1> HIDE DEF a, x, c, m, n
<1> DEFINE y == a \o x
<1>6. y \in Seq(States) /\ Consists(y, a, x)
  BY <1>1, <1>2, Joining, Zenon
<1> DEFINE z == y \o c
<1>7. z \in Seq(States) /\ Consists(z, y, c)
  BY <1>3, <1>6, Joining, Zenon
<1> HIDE DEF y, z
<1>8. /\ Len(y) = m + n /\ (o # 0 => y[1] = State(o, 0))
      /\ \A i \in 1 .. n : y[m + i] = State(t, Shows(data[i]))
  <2>1. /\ Len(y) = Len(a) + Len(x) /\ (\A j \in 1 .. Len(a) : y[j] = a[j])
        /\ \A j \in 1 .. Len(x) : y[Len(a) + j] = x[j]
    BY <1>6 DEF Consists
  <2>2. (o # 0 => 1 \in 1 .. Len(a))
    BY <1>1
  <2> QED BY <1>1, <1>2, <2>1, <2>2
<1>9. /\ Len(z) = (m + n) + 2 /\ (o # 0 => z[1] = State(o, 0))
      /\ \A i \in 1 .. n : z[m + i] = State(t, Shows(data[i]))
      /\ z[(m + n) + 1] = State(Short, 0) /\ z[(m + n) + 2] = State(0, 0)
  <2>1. /\ Len(z) = Len(y) + Len(c) /\ (\A j \in 1 .. Len(y) : z[j] = y[j])
        /\ \A j \in 1 .. Len(c) : z[Len(y) + j] = c[j]
    BY <1>7 DEF Consists
  <2>2. /\ \A i \in 1 .. n : m + i \in 1 .. Len(y)
        /\ o # 0 => 1 \in 1 .. Len(y)
        /\ 1 \in 1 .. 2 /\ 2 \in 1 .. 2
    BY <1>1, <1>5, <1>8
  <2> QED BY <1>3, <1>8, <2>1, <2>2
<1> QED BY <1>4, <1>7, <1>9 DEF y, z, m, n

LEMMA SymbolsListed ==
  ASSUME NEW o \in Nat, NEW t \in Nat, NEW data \in Seq({0, 1}), Lowers(Symbols(o, t, data)),
         NEW tick \in Nat \ {0}
  PROVE  LET L == Listed(Symbols(o, t, data))
             B == Sums(Lasting(L, tick))
             m == Lead(o)
             n == Len(data)
         IN /\ m \in {0, 1}
            /\ m = 1 => L[1].state = 0
            /\ t = 0 /\ n > 0 => Len(L) = 1 /\ m = 1
            /\ t > 0 \/ n = 0 =>
                 /\ Len(L) = m + n + 1 /\ L[m + n + 1].state = 0
                 /\ \A i \in 1 .. n : L[m + i].state = Shows(data[i])
                 /\ \A i \in 0 .. n : B[m + i] = Lasts(o, tick) + i * Lasts(t, tick)
<1> DEFINE states == Symbols(o, t, data)
           L == Listed(states)
           l == Len(L)
           b == Lasting(L, tick)
           B == Sums(b)
           m == Lead(o)
           n == Len(data)
           x == Lasts(o, tick)
           v == Lasts(t, tick)
<1>1. /\ states \in Seq(States) /\ Len(states) = m + n + 2
      /\ o # 0 => states[1] = State(o, 0)
      /\ \A i \in 1 .. n : states[m + i] = State(t, Shows(data[i]))
      /\ states[m + n + 1] = State(Short, 0) /\ states[m + n + 2] = State(0, 0)
  BY SymbolsIs, Zenon
<1>0. (m = IF o = 0 THEN 0 ELSE 1) /\ n \in Nat
  BY DEF Lead
<1>2. /\ L \in Seq(States) /\ l <= m + n + 2
      /\ \A k \in 1 .. l : L[k] = states[k] /\ L[k].hold > 0
      /\ l < m + n + 2 => states[l + 1].hold = 0
  BY <1>1, ListedIs
<1>3. l \in Nat /\ l > 0
  BY <1>1, TicksAre, Zenon
<1>4. b \in Seq(Nat) /\ Len(b) = l /\ \A k \in 1 .. l : b[k] = Lasts(L[k].hold, tick)
  BY <1>2, LastingIs, Zenon
<1>11. x \in Nat /\ v \in Nat /\ (o = 0 => x = 0)
  BY LastsAre
<1> HIDE DEF states, L, l, b, m, n, x, v
<1>5. B[0] = 0 /\ \A k \in 1 .. l : B[k] = B[k - 1] + b[k]
  BY <1>4, SumsAre
<1> HIDE DEF B
<1>6. /\ o # 0 => states[1].hold = o /\ states[1].state = 0
      /\ \A i \in 1 .. n : states[m + i].hold = t /\ states[m + i].state = Shows(data[i])
      /\ states[m + n + 1].hold = Short /\ states[m + n + 1].state = 0
      /\ states[m + n + 2].hold = 0
      /\ m \in {0, 1} /\ (m = 1 <=> o # 0) /\ Short # 0
  <2>1. \A h, s : State(h, s).hold = h /\ State(h, s).state = s
    BY DEF State
  <2>2. m \in {0, 1} /\ (m = 1 <=> o # 0) /\ Short # 0
    BY <1>0, UnitsAssumption
  <2>3. o # 0 => states[1].hold = o /\ states[1].state = 0
    BY <1>1, <2>1
  <2>4. \A i \in 1 .. n : states[m + i].hold = t /\ states[m + i].state = Shows(data[i])
    BY <1>1, <2>1
  <2>5. /\ states[m + n + 1].hold = Short /\ states[m + n + 1].state = 0
        /\ states[m + n + 2].hold = 0
    BY <1>1, <2>1
  <2> QED BY <2>2, <2>3, <2>4, <2>5, Zenon
<1>7. l < m + n + 2 /\ states[l + 1].hold = 0
  <2>1. l # m + n + 2
    <3> SUFFICES ASSUME l = m + n + 2 PROVE FALSE
      OBVIOUS
    <3>1. m + n + 2 \in 1 .. l
      BY <1>0, <1>3, <1>6
    <3> QED BY <1>2, <1>6, <3>1
  <2> QED BY <1>0, <1>2, <1>3, <1>6, <2>1
<1>8. m = 1 => L[1].state = 0
  <2>1. 1 \in 1 .. l
    BY <1>3
  <2> QED BY <1>2, <1>6, <2>1
<1>9. ASSUME t = 0, n > 0 PROVE l = 1 /\ m = 1
  <2>1. l < m + 1
    <3> SUFFICES ASSUME ~(l < m + 1) PROVE FALSE
      OBVIOUS
    <3>1. m + 1 \in 1 .. l /\ 1 \in 1 .. n
      BY <1>0, <1>3, <1>6, <1>9
    <3> QED BY <1>2, <1>6, <1>9, <3>1
  <2> QED BY <1>3, <1>6, <2>1
<1>10. ASSUME t > 0 \/ n = 0
       PROVE  /\ l = m + n + 1 /\ L[m + n + 1].state = 0
              /\ \A i \in 1 .. n : L[m + i].state = Shows(data[i])
              /\ \A i \in 0 .. n : B[m + i] = x + i * v
  <2>1. l + 1 # m + n + 1
    BY <1>6, <1>7
  <2>2. ~(l + 1 \in m + 1 .. m + n)
    <3> SUFFICES ASSUME l + 1 \in m + 1 .. m + n PROVE FALSE
      OBVIOUS
    <3> DEFINE i == (l + 1) - m
    <3>1. i \in 1 .. n /\ m + i = l + 1 /\ t > 0
      BY <1>0, <1>3, <1>6, <1>10
    <3> HIDE DEF i
    <3>2. states[l + 1].hold = t
      BY <1>6, <3>1
    <3> QED BY <1>7, <3>1, <3>2
  <2>3. m = 1 => l + 1 # 1
    BY <1>3
  <2>4. l = m + n + 1
    BY <1>0, <1>3, <1>6, <1>7, <2>1, <2>2, <2>3
  <2>5. /\ m + n + 1 \in 1 .. l /\ \A i \in 1 .. n : m + i \in 1 .. l
        /\ m = 1 => 1 \in 1 .. l
    BY <1>0, <1>6, <2>4
  <2>6. /\ L[m + n + 1].state = 0
        /\ \A i \in 1 .. n : L[m + i].state = Shows(data[i]) /\ L[m + i].hold = t
        /\ m = 1 => L[1].hold = o
    BY <1>2, <1>6, <2>5
  <2>7. B[m] = x
    <3>1. CASE m = 0
      BY <1>5, <1>6, <1>11, <3>1
    <3>2. CASE m = 1
      <4>1. B[1] = B[1 - 1] + b[1] /\ b[1] = x
        BY <1>4, <1>5, <2>5, <2>6, <3>2 DEF x
      <4>2. B[1 - 1] = 0
        BY <1>5
      <4> QED BY <1>11, <3>2, <4>1, <4>2
    <3> QED BY <1>6, <3>1, <3>2
  <2> DEFINE S == {i \in Nat : B[m + i] = x + i * v}
  <2>8. 0 \in S
    <3>1. m + 0 = m /\ x + 0 * v = x
      BY <1>6, <1>11
    <3> QED BY <2>7, <3>1
  <2>9. ASSUME NEW i \in 0 .. n - 1, i \in S PROVE i + 1 \in S
    <3>1. i \in Nat /\ i + 1 \in 1 .. n /\ m + (i + 1) \in 1 .. l /\ (m + (i + 1)) - 1 = m + i
      BY <1>0, <1>6, <2>4
    <3>2. B[m + (i + 1)] = B[m + i] + b[m + (i + 1)]
      BY <1>5, <3>1
    <3>3. b[m + (i + 1)] = v
      BY <1>4, <2>6, <3>1 DEF v
    <3>4. (x + i * v) + v = x + (i + 1) * v
      BY <1>11, <3>1
    <3>5. B[m + i] = x + i * v
      BY <2>9
    <3> QED BY <3>1, <3>2, <3>3, <3>4, <3>5
  <2> HIDE DEF S
  <2>10. \A i \in 0 .. n : i \in S
    BY <1>0, <2>8, <2>9, Induction
  <2>11. \A i \in 0 .. n : B[m + i] = x + i * v
    BY <2>10 DEF S
  <2> QED BY <2>4, <2>6, <2>11
<1> QED BY <1>6, <1>8, <1>9, <1>10 DEF states, L, l, b, B, m, n, x, v

\* A transmission that begins at x with symbols that last v: the state of every
\* symbol, 0 before and after them.
InSymbols(logic, x, v, data, at) ==
  \/ (at < x \/ at >= x + Len(data) * v) /\ StateAt(logic, at) = 0
  \/ \E z \in Nat :
       /\ at = x + z /\ z < Len(data) * v
       /\ StateAt(logic, at) = Shows(data[1 + z \div v])

LEMMA SymbolsStates ==
  ASSUME NEW o \in Nat, NEW t \in Nat, NEW data \in Seq({0, 1}),
         Lowers(Symbols(o, t, data)), NEW logic, logic = Lower(Symbols(o, t, data)),
         NEW at \in 0 .. Ends(logic, Len(logic.notes))
  PROVE  InSymbols(logic, Lasts(o, logic.prescaler + 1), Lasts(t, logic.prescaler + 1), data, at)
<1> DEFINE states == Symbols(o, t, data)
           L == Listed(states)
           l == Len(L)
           tick == logic.prescaler + 1
           B == Sums(Lasting(L, tick))
           m == Lead(o)
           n == Len(data)
           x == Lasts(o, tick)
           v == Lasts(t, tick)
<1>1. states \in Seq(States) /\ n \in Nat
  BY SymbolsTyped
<1>0. tick \in Nat \ {0} /\ tick = Ratio(states)
  BY <1>1, RatioIs, Zenon
<1> HIDE DEF tick
<1>2. PICK k \in 1 .. l : B[k - 1] <= at /\ (at < B[k] \/ k = l)
  BY <1>0, <1>1, Moments, Zenon
<1>3. /\ m \in {0, 1}
      /\ m = 1 => L[1].state = 0
      /\ t = 0 /\ n > 0 => l = 1 /\ m = 1
      /\ t > 0 \/ n = 0 =>
           /\ l = m + n + 1 /\ L[m + n + 1].state = 0
           /\ \A i \in 1 .. n : L[m + i].state = Shows(data[i])
           /\ \A i \in 0 .. n : B[m + i] = x + i * v
  <2>1. tick \in Nat \ {0}
    BY <1>0
  <2> QED BY <2>1, SymbolsListed
<1>4. at \in Nat
  <2>1. Ends(logic, Len(logic.notes)) \in Nat
    BY <1>1, HorizonIs
  <2> QED BY <2>1
<1>5. StateAt(logic, at) = L[k].state
  <2>1. k \in 1 .. l /\ B[k - 1] <= at /\ (at < B[k] \/ k = l)
    BY <1>2
  <2> QED BY <1>0, <1>1, <1>4, <2>1, Plays, Zenon
<1>6. /\ x \in Nat /\ v \in Nat /\ (t = 0 => v = 0) /\ (t > 0 => v > 0)
      /\ n * v \in Nat
  <2>1. x \in Nat /\ v \in Nat /\ (t = 0 => v = 0) /\ (t # 0 => v # 0)
    BY <1>0, LastsAre
  <2> HIDE DEF x, v, n
  <2> QED BY <1>1, <2>1
<1> SUFFICES InSymbols(logic, x, v, data, at)
  BY DEF tick
<1> HIDE DEF states, L, l, B, m, n, x, v
<1>7. CASE t = 0 /\ n > 0
  <2>1. k = 1 /\ L[1].state = 0
    BY <1>2, <1>3, <1>7
  <2>2. n * v = 0
    <3>1. n * 0 = 0
      BY <1>1
    <3> QED BY <1>6, <1>7, <3>1
  <2>3. at < x \/ at >= x + n * v
    BY <1>4, <1>6, <2>2
  <2> QED BY <1>5, <2>1, <2>3, Zenon DEF InSymbols, n
<1>8. CASE t > 0 \/ n = 0
  <2>1. /\ l = m + n + 1 /\ L[m + n + 1].state = 0
        /\ \A i \in 1 .. n : L[m + i].state = Shows(data[i])
        /\ \A i \in 0 .. n : B[m + i] = x + i * v
    BY <1>3, <1>8, Zenon
  <2>2. B[m] = x /\ B[m + n] = x + n * v
    <3>1. 0 \in 0 .. n /\ n \in 0 .. n /\ m + 0 = m /\ x + 0 * v = x
      BY <1>1, <1>3, <1>6
    <3>2. B[m + 0] = x + 0 * v
      BY <2>1, <3>1, Zenon
    <3>3. B[m + n] = x + n * v
      BY <2>1, <3>1, Zenon
    <3> QED BY <3>1, <3>2, <3>3
  <2>3. CASE k = m + n + 1
    <3>1. k - 1 = m + n
      BY <1>1, <1>3, <2>3
    <3>2. at >= x + n * v /\ L[k].state = 0
      BY <1>2, <1>4, <1>6, <2>1, <2>2, <2>3, <3>1
    <3> QED BY <1>5, <3>2, Zenon DEF InSymbols, n
  <2>4. CASE k < m + 1
    <3>1. k = 1 /\ m = 1 /\ k # l
      BY <1>1, <1>2, <1>3, <2>1, <2>4
    <3>2. at < x /\ L[k].state = 0
      BY <1>2, <1>3, <2>2, <3>1
    <3> QED BY <1>5, <3>2, Zenon DEF InSymbols, n
  <2>5. CASE k \in m + 1 .. m + n
    <3> DEFINE i == k - m
    <3>1. /\ i \in 1 .. n /\ m + i = k /\ i - 1 \in 0 .. n /\ i \in 0 .. n
          /\ m + (i - 1) = k - 1 /\ k # l /\ i \in Nat /\ i - 1 \in Nat
      <4>1. l = m + n + 1 /\ m \in {0, 1} /\ k \in Nat
        BY <1>2, <1>3, <2>1
      <4> QED BY <1>1, <2>5, <4>1
    <3> HIDE DEF i
    <3> DEFINE q == i - 1
    <3>2. B[k - 1] = x + q * v /\ B[k] = x + i * v
      <4>1. B[m + (i - 1)] = x + (i - 1) * v /\ B[m + i] = x + i * v
        BY <2>1, <3>1, Zenon
      <4> QED BY <3>1, <4>1
    <3>3. t > 0
      BY <1>1, <1>8, <3>1
    <3>4. v \in Nat \ {0} /\ q \in Nat /\ i = q + 1 /\ n = i + (n - i) /\ n - i \in Nat
      BY <1>1, <1>6, <3>1, <3>3
    <3> DEFINE z == at - x
    <3> HIDE DEF q
    <3>5. i * v = q * v + v
      BY <3>4
    <3>6. n * v = q * v + v + (n - i) * v /\ q * v \in Nat /\ (n - i) * v \in Nat
      <4> DEFINE w == n - i
      <4>1. w \in Nat /\ n = q + 1 + w
        BY <3>4
      <4> HIDE DEF w
      <4>2. n * v = q * v + v + w * v /\ q * v \in Nat /\ w * v \in Nat
        BY <3>4, <4>1
      <4> QED BY <4>2 DEF w
    <3>8. q * v <= z /\ z < q * v + v /\ z \in Nat /\ at = x + z
      <4>1. x + q * v <= at /\ at < x + (q * v + v)
        BY <1>2, <3>1, <3>2, <3>5
      <4>2. x \in Nat /\ q * v \in Nat /\ v \in Nat
        BY <1>6, <3>4, <3>6
      <4> QED BY <1>4, <4>1, <4>2
    <3> HIDE DEF z
    <3>9. z \div v = q
      BY <3>4, <3>8, Quotient
    <3>10. 1 + z \div v = i
      BY <3>4, <3>9
    <3>11. z < n * v
      BY <3>4, <3>6, <3>8
    <3>12. StateAt(logic, at) = Shows(data[i])
      BY <1>5, <2>1, <3>1, Zenon
    <3> QED BY <3>8, <3>10, <3>11, <3>12, Zenon DEF InSymbols, n
  <2> QED BY <1>1, <1>2, <1>3, <2>1, <2>3, <2>4, <2>5
<1>9. t > 0 \/ n = 0 \/ (t = 0 /\ n > 0)
  BY <1>1
<1> QED BY <1>7, <1>8, <1>9

\* A descriptor of symbols is right if its signal is off in state 0 and right in
\* the states of symbols.
RightFor(e, c) ==
  /\ \A since : SignalOf(e, 0, since) = Off
  /\ \A s \in 1 .. Len(c.data) : \A since :
       Meets(SignalOf(e, Shows(c.data[s]), since), c, Symbol(c, s))

LEMMA SymbolsRight ==
  ASSUME NEW o \in Nat, NEW t \in Nat, NEW data \in Seq({0, 1}),
         Lowers(Symbols(o, t, data)), NEW e, e.logic = Lower(Symbols(o, t, data)), Loads(e),
         NEW c, Transmits(c, o, t, data), c.kind # "ram_psk", RightFor(e, c)
  PROVE  Right(e, c)
<1> SUFFICES ASSUME NEW at \in 0 .. Horizon(e)
             PROVE  Meets(SignalAt(e, at), c, AskedAt(c, Period(e), at))
  BY DEF Right
<1> DEFINE logic == Lower(Symbols(o, t, data))
           n == Len(data)
           k == Period(e)
           x == Lasts(o, k)
           v == Lasts(t, k)
<1>1. Symbols(o, t, data) \in Seq(States) /\ n \in Nat
  BY SymbolsTyped
<1>0. k \in Nat \ {0} /\ k = logic.prescaler + 1
  BY <1>1, RatioIs DEF Period
<1>2. Horizon(e) = Ends(logic, Len(logic.notes)) /\ Ends(logic, Len(logic.notes)) \in Nat
  BY <1>1, HorizonIs DEF Horizon
<1>3. at \in Nat /\ at \in 0 .. Ends(logic, Len(logic.notes))
  BY <1>2
<1>4. InSymbols(logic, x, v, data, at)
  BY <1>0, <1>3, SymbolsStates, Zenon
<1>5. SignalAt(e, at) = SignalOf(e, StateAt(logic, at), SinceAt(logic, at))
  BY SignalIs, Zenon
<1> HIDE DEF k
<1>6. /\ x \in Nat /\ v \in Nat
      /\ \A u \in Nat : u < x => AskedAt(c, k, u) = Off
      /\ \A z \in Nat : AskedAt(c, k, x + z)
                          = IF z < n * v THEN Symbol(c, 1 + z \div v) ELSE Off
  <2> DEFINE g == Given(c, t, k)
  <2>1. g = v
    BY Zenon DEF Given, Transmits
  <2>2. x \in Nat
    BY <1>0, LastsAre
  <2>3. x = Lasts(o, k)
    OBVIOUS
  <2> HIDE DEF x, n
  <2>4. /\ g \in Nat
        /\ \A u \in Nat : u < x => AskedAt(c, k, u) = Off
        /\ \A z \in Nat : AskedAt(c, k, x + z) = IF z < n * g THEN Symbol(c, 1 + z \div g) ELSE Off
    BY <1>0, <2>3, SymbolAsked DEF n
  <2> HIDE DEF v, g
  <2> QED BY <2>1, <2>2, <2>4, Zenon
<1>7. c.data = data
  BY DEF Transmits
<1> HIDE DEF logic, n, x, v
<1>8. CASE (at < x \/ at >= x + n * v) /\ StateAt(logic, at) = 0
  <2>1. SignalAt(e, at) = Off
    BY <1>5, <1>8, Zenon DEF RightFor
  <2>2. AskedAt(c, k, at) = Off
    <3>1. CASE at < x
      BY <1>3, <1>6, <3>1, Zenon
    <3>2. CASE at >= x + n * v
      <4> DEFINE z == at - x
                 w == n * v
      <4>1. w \in Nat /\ x \in Nat /\ at \in Nat /\ at >= x + w
        BY <1>1, <1>3, <1>6, <3>2
      <4> HIDE DEF w
      <4>2. z \in Nat /\ at = x + z /\ ~(z < w)
        BY <4>1
      <4> HIDE DEF z
      <4>3. ~(z < n * v)
        BY <4>2 DEF w
      <4> QED BY <1>6, <4>2, <4>3, Zenon
    <3> QED BY <1>8, <3>1, <3>2
  <2>3. Off[1] \in Int
    BY DEF Off
  <2>4. Meets(Off, c, Off)
    BY <2>3, MeetsIs, Zenon
  <2> QED BY <2>1, <2>2, <2>4, Zenon DEF k
<1>9. ASSUME NEW z \in Nat, at = x + z, z < n * v,
             StateAt(logic, at) = Shows(data[1 + z \div v])
      PROVE  Meets(SignalAt(e, at), c, AskedAt(c, k, at))
  <2> DEFINE q == z \div v
  <2>1. v # 0
    <3>1. n * 0 = 0
      BY <1>1
    <3> QED BY <1>9, <3>1
  <2>2. q \in Nat /\ q < n
    BY <1>1, <1>6, <1>9, <2>1, StepAt
  <2>3. z \div v = q
    OBVIOUS
  <2> HIDE DEF q
  <2>4. 1 + q \in 1 .. Len(c.data)
    BY <1>1, <1>7, <2>2 DEF n
  <2>5. Meets(SignalAt(e, at), c, Symbol(c, 1 + q))
    BY <1>5, <1>7, <1>9, <2>3, <2>4, Zenon DEF RightFor
  <2>6. AskedAt(c, k, at) = Symbol(c, 1 + q)
    BY <1>6, <1>9, <2>3, Zenon
  <2> QED BY <2>5, <2>6, Zenon
<1> QED BY <1>4, <1>8, <1>9, Zenon DEF InSymbols, n, k

LEMMA FromTo ==
  ASSUME NEW e, NEW c, NEW data \in Seq({0, 1}), c.data = data,
         \A since : SignalOf(e, 0, since) = Off,
         \A since : \A s \in 1 .. Len(data) :
           /\ data[s] = 1 => Meets(SignalOf(e, 2, since), c, Symbol(c, s))
           /\ data[s] = 0 => Meets(SignalOf(e, 3, since), c, Symbol(c, s))
  PROVE  RightFor(e, c)
<1>1. \A s \in 1 .. Len(data) : data[s] \in {0, 1}
  OBVIOUS
<1>2. Shows(1) = 2 /\ Shows(0) = 3
  BY DEF Shows
<1>3. ASSUME NEW s \in 1 .. Len(data), NEW since
      PROVE  Meets(SignalOf(e, Shows(data[s]), since), c, Symbol(c, s))
  <2>1. CASE data[s] = 1
    BY <1>2, <2>1, Zenon
  <2>2. CASE data[s] = 0
    BY <1>2, <2>2, Zenon
  <2> QED BY <1>1, <2>1, <2>2
<1> QED BY <1>3, Zenon DEF RightFor

\* "basic_xmitdata fsk" and "psk": a tone for each of the two symbols.
TwoTones(f1, p1, f2, p2) == [Silent EXCEPT ![2] = Tone(f1, p1), ![3] = Tone(f2, p2)]

\* The command is to give these for symbols of 1 and 0.
Wants(c, data, one, zero) ==
  \A s \in 1 .. Len(data) : /\ data[s] = 1 => Symbol(c, s) = one
                            /\ data[s] = 0 => Symbol(c, s) = zero

LEMMA TonesRight ==
  ASSUME NEW o \in Nat, NEW t \in Nat, NEW data \in Seq({0, 1}),
         Lowers(Symbols(o, t, data)), NEW f1 \in Freqs, NEW f2 \in Freqs, NEW p1, NEW p2,
         NEW c, Transmits(c, o, t, data), c.kind # "ram_psk",
         Wants(c, data, <<f1, p1>>, <<f2, p2>>)
  PROVE  Right(Entry(TwoTones(f1, p1, f2, p2), <<>>, 0, NoSweep, Symbols(o, t, data)), c)
<1> DEFINE profiles == TwoTones(f1, p1, f2, p2)
           e == Entry(profiles, <<>>, 0, NoSweep, Symbols(o, t, data))
<1>1. /\ e.profiles = profiles /\ e.ram = <<>> /\ e.sweep = NoSweep
      /\ e.logic = Lower(Symbols(o, t, data))
  BY DEF Entry
<1>2. /\ profiles[0].asf = 0
      /\ profiles[2].ftw = f1 /\ profiles[2].pow = p1 /\ profiles[2].asf = 1
      /\ profiles[3].ftw = f2 /\ profiles[3].pow = p2 /\ profiles[3].asf = 1
  BY DEF TwoTones, Silent, Silence, Tone
<1>3. ~(e.sweep.fstep > 0) /\ Len(e.ram) = 0 /\ c.data = data
  BY <1>1 DEF NoSweep, Transmits
<1> HIDE DEF profiles, e
<1>4. Loads(e)
  BY <1>3, UnitsAssumption DEF Loads
<1>5. \A since : SignalOf(e, 0, since) = Off
  BY <1>1, <1>2, <1>3, Profiles, SoundIs, Zenon DEF SignalOf
<1>6. Sound(f1, p1, 1) = <<f1, p1>> /\ Sound(f2, p2, 1) = <<f2, p2>>
  BY FreqsAre, SoundIs
<1>7. \A since : SignalOf(e, 2, since) = <<f1, p1>> /\ SignalOf(e, 3, since) = <<f2, p2>>
  BY <1>1, <1>2, <1>3, <1>6, Profiles, Zenon DEF SignalOf
<1>8. RightFor(e, c)
  <2>1. <<f1, p1>>[1] \in Int /\ <<f2, p2>>[1] \in Int
    BY FreqsAre
  <2>2. Meets(<<f1, p1>>, c, <<f1, p1>>) /\ Meets(<<f2, p2>>, c, <<f2, p2>>)
    BY <2>1, MeetsIs, Zenon
  <2> QED BY <1>3, <1>5, <1>7, <2>2, FromTo, Zenon DEF Wants
<1>9. Right(e, c)
  BY <1>1, <1>4, <1>8, SymbolsRight, Zenon
<1> QED BY <1>9 DEF e, profiles

LEMMA FskRight ==
  ASSUME NEW o \in Nat, NEW t \in Nat, NEW data \in Seq({0, 1}),
         Lowers(Symbols(o, t, data)), NEW f1 \in Freqs, NEW f2 \in Freqs
  PROVE  Right(Entry([Silent EXCEPT ![2] = Tone(f1, 0), ![3] = Tone(f2, 0)], <<>>, 0, NoSweep,
                     Symbols(o, t, data)),
               [kind |-> "fsk", offset |-> o, tstep |-> t, data |-> data, freq |-> <<f2, f1>>])
<1> DEFINE c == [kind |-> "fsk", offset |-> o, tstep |-> t, data |-> data, freq |-> <<f2, f1>>]
<1>1. /\ Transmits(c, o, t, data)
      /\ c.kind = "fsk" /\ c.kind # "ram_psk" /\ c.data = data /\ c.freq[1 + 1] = f1 /\ c.freq[1 + 0] = f2
  BY DEF Transmits
<1> HIDE DEF c
<1>2. Wants(c, data, <<f1, 0>>, <<f2, 0>>)
  BY <1>1, Zenon DEF Symbol, Wants
<1>3. Right(Entry(TwoTones(f1, 0, f2, 0), <<>>, 0, NoSweep, Symbols(o, t, data)), c)
  BY <1>1, <1>2, TonesRight, Zenon
<1> QED BY <1>3 DEF c, TwoTones

LEMMA ShiftedIs ==
  ASSUME NEW o \in Nat, NEW t \in Nat, NEW data \in Seq({0, 1}), NEW f \in Freqs,
         NEW kind \in {"psk", "zc_psk"}
  PROVE  /\ Transmits(Shifted(kind, o, f, t, data, 0), o, t, data)
         /\ Shifted(kind, o, f, t, data, 0).kind = kind
         /\ Wants(Shifted(kind, o, f, t, data, 0), data, <<f, 0>>, <<f, 1>>)
<1> DEFINE c == Shifted(kind, o, f, t, data, 0)
<1>1. /\ Transmits(c, o, t, data)
      /\ c.kind # "fsk" /\ c.kind = kind /\ c.data = data /\ c.freq = f /\ c.one = 0 /\ 1 - c.one = 1 /\ 0 # 1
  BY DEF Transmits, Shifted
<1> HIDE DEF c
<1>2. Wants(c, data, <<f, 0>>, <<f, 1>>)
  BY <1>1, Zenon DEF Symbol, Wants
<1> QED BY <1>1, <1>2 DEF c

LEMMA PskRight ==
  ASSUME NEW o \in Nat, NEW t \in Nat, NEW data \in Seq({0, 1}),
         Lowers(Symbols(o, t, data)), NEW f \in Freqs
  PROVE  Right(Entry([Silent EXCEPT ![2] = Tone(f, 0), ![3] = Tone(f, 1)], <<>>, 0, NoSweep,
                     Symbols(o, t, data)), Shifted("psk", o, f, t, data, 0))
<1>1. Right(Entry(TwoTones(f, 0, f, 1), <<>>, 0, NoSweep, Symbols(o, t, data)),
            Shifted("psk", o, f, t, data, 0))
  <2> DEFINE c == Shifted("psk", o, f, t, data, 0)
  <2>1. "psk" \in {"psk", "zc_psk"}
    OBVIOUS
  <2>2. /\ Transmits(c, o, t, data) /\ c.kind = "psk"
        /\ Wants(c, data, <<f, 0>>, <<f, 1>>)
    BY <2>1, ShiftedIs, Zenon
  <2> HIDE DEF c
  <2>3. c.kind # "ram_psk"
    BY <2>2
  <2>4. Right(Entry(TwoTones(f, 0, f, 1), <<>>, 0, NoSweep, Symbols(o, t, data)), c)
    BY <2>2, <2>3, TonesRight, Zenon
  <2> QED BY <2>4 DEF c
<1> QED BY <1>1 DEF TwoTones

\* A word without its low bits is as good as the word, for zc_psk.
LEMMA CoarseIs ==
  ASSUME NEW f \in Freqs
  PROVE  /\ Coarse(f) \in Nat /\ 2 * Coarse(f) <= FtwSize
         /\ f - Coarse(f) \in 0 .. Grain - 1
<1> DEFINE g == f % Grain
<1>1. Grain \in Nat \ {0} /\ FtwSize \in Nat /\ f \in Nat /\ 2 * f <= FtwSize
  BY UnitsAssumption, FreqsAre
<1>2. g \in 0 .. Grain - 1 /\ g <= f
  BY <1>1
<1>3. Coarse(f) = f - g
  BY DEF Coarse
<1> HIDE DEF g
<1> QED BY <1>1, <1>2, <1>3

\* "basic_xmitdata zc_psk": a word of the RAM for each.
LEMMA ZcPskRight ==
  ASSUME NEW o \in Nat, NEW t \in Nat, NEW data \in Seq({0, 1}),
         Lowers(Symbols(o, t, data)), NEW f \in Freqs
  PROVE  Right(Entry([Unplayed EXCEPT ![2] = Playback(1, 1, 0, "crossing"),
                                      ![3] = Playback(2, 2, 0, "crossing")],
                     <<Blank, Word(0), Word(1)>>, Coarse(f), NoSweep, Symbols(o, t, data)),
               Shifted("zc_psk", o, f, t, data, 0))
<1> DEFINE profiles == [Unplayed EXCEPT ![2] = Playback(1, 1, 0, "crossing"),
                                        ![3] = Playback(2, 2, 0, "crossing")]
           ram == <<Blank, Word(0), Word(1)>>
           e == Entry(profiles, ram, Coarse(f), NoSweep, Symbols(o, t, data))
           c == Shifted("zc_psk", o, f, t, data, 0)
<1>1. /\ e.profiles = profiles /\ e.ram = ram /\ e.sweep = NoSweep /\ e.ftw = Coarse(f)
      /\ e.logic = Lower(Symbols(o, t, data))
  BY DEF Entry
<1>2. /\ profiles[0].start = 0 /\ profiles[0].mode = "switch"
      /\ profiles[2].start = 1 /\ profiles[2].mode = "crossing"
      /\ profiles[3].start = 2 /\ profiles[3].mode = "crossing"
  BY DEF Unplayed, Playback
<1>3. /\ ~(e.sweep.fstep > 0) /\ Len(ram) = 3 /\ ram # <<>> /\ 3 <= RamSize
      /\ ram[1 + 0] = Blank /\ ram[1 + 1] = Word(0) /\ ram[1 + 2] = Word(1)
  BY <1>1, UnitsAssumption DEF NoSweep
<1>4. /\ Blank.asf = 0
      /\ Word(0).pow = 0 /\ Word(0).asf = 1 /\ Word(1).pow = 1 /\ Word(1).asf = 1
  BY DEF Blank, Word
<1>5. Transmits(c, o, t, data) /\ c.data = data /\ c.kind = "zc_psk"
  <2>0. "zc_psk" \in {"psk", "zc_psk"}
    OBVIOUS
  <2>1. Transmits(c, o, t, data) /\ c.kind = "zc_psk"
    BY <2>0, ShiftedIs, Zenon
  <2> QED BY <2>1 DEF Transmits
<1>6. Wants(c, data, <<f, 0>>, <<f, 1>>)
  <2>0. "zc_psk" \in {"psk", "zc_psk"}
    OBVIOUS
  <2> QED BY <2>0, ShiftedIs, Zenon
<1> HIDE DEF profiles, ram, e, c
<1>7. Loads(e)
  BY <1>1, <1>3 DEF Loads
<1>8. \A since : /\ WordAt(e, 0, since) = Blank
                 /\ WordAt(e, 2, since) = Word(0)
                 /\ WordAt(e, 3, since) = Word(1)
  <2>1. /\ ~(profiles[0].mode = "rampup") /\ ~(profiles[2].mode = "rampup")
        /\ ~(profiles[3].mode = "rampup")
    BY <1>2
  <2> QED BY <1>1, <1>2, <1>3, <2>1, Zenon DEF WordAt
<1>9. \A since : SignalOf(e, 0, since) = Off
  BY <1>1, <1>3, <1>4, <1>8, Profiles, SoundIs, Zenon DEF SignalOf
<1>10. Sound(Coarse(f), 0, 1) = <<Coarse(f), 0>> /\ Sound(Coarse(f), 1, 1) = <<Coarse(f), 1>>
  BY CoarseIs, SoundIs
<1>11. \A since : /\ SignalOf(e, 2, since) = <<Coarse(f), 0>>
                  /\ SignalOf(e, 3, since) = <<Coarse(f), 1>>
  BY <1>1, <1>3, <1>4, <1>8, <1>10, Profiles, Zenon DEF SignalOf
<1>14. \A p : Meets(<<Coarse(f), p>>, c, <<f, p>>)
  BY <1>5, CoarseIs DEF Meets
<1>12. RightFor(e, c)
  BY <1>5, <1>6, <1>9, <1>11, <1>14, FromTo, Zenon DEF Wants
<1>13. Right(e, c)
  <2>1. c.kind # "ram_psk"
    BY <1>5
  <2> QED BY <1>1, <1>5, <1>7, <1>12, <2>1, SymbolsRight, Zenon
<1> QED BY <1>13 DEF e, profiles, ram, c

(***************************************************************************)
(* A list from JSON.                                                       *)
(***************************************************************************)

LEMMA ListListed ==
  ASSUME NEW items \in Seq(States), Len(items) > 0,
         \A i \in 1 .. Len(items) : items[i].hold # 0
  PROVE  LET L == Listed(items \o Parked)
             n == Len(items)
         IN /\ L \in Seq(States) /\ Len(L) = n + 2
            /\ \A i \in 1 .. n : L[i] = items[i]
            /\ L[n + 1].state = 0 /\ L[n + 2].state = 0
<1> DEFINE c == Parked
           states == items \o c
           L == Listed(states)
           l == Len(L)
           n == Len(items)
<1>1. c \in Seq(States) /\ Len(c) = 3 /\ c[1] = State(Short, 0) /\ c[2] = State(Short, 0)
      /\ c[3] = State(0, 0)
  BY UnitsAssumption DEF Parked, State, States
<1>2. n \in Nat /\ n > 0
  OBVIOUS
<1> HIDE DEF c, states, L, n
<1>3. states \in Seq(States) /\ Consists(states, items, c)
  BY <1>1, Joining, Zenon DEF states
<1>4. /\ Len(states) = n + 3 /\ (\A i \in 1 .. n : states[i] = items[i])
      /\ states[n + 1] = c[1] /\ states[n + 2] = c[2] /\ states[n + 3] = c[3]
  <2>1. /\ Len(states) = Len(items) + Len(c) /\ (\A j \in 1 .. Len(items) : states[j] = items[j])
        /\ \A j \in 1 .. Len(c) : states[Len(items) + j] = c[j]
    BY <1>3 DEF Consists
  <2>2. 1 \in 1 .. 3 /\ 2 \in 1 .. 3 /\ 3 \in 1 .. 3
    OBVIOUS
  <2> QED BY <1>1, <1>2, <2>1, <2>2 DEF n
<1>5. /\ states[n + 1].hold = Short /\ states[n + 1].state = 0
      /\ states[n + 2].hold = Short /\ states[n + 2].state = 0
      /\ states[n + 3].hold = 0 /\ Short # 0
  <2>1. \A h, x : State(h, x).hold = h /\ State(h, x).state = x
    BY DEF State
  <2> QED BY <1>1, <1>4, <2>1, UnitsAssumption
<1>6. \A i \in 1 .. n : states[i].hold # 0
  BY <1>4 DEF n
<1>7. /\ L \in Seq(States) /\ l <= n + 3
      /\ \A k \in 1 .. l : L[k] = states[k] /\ L[k].hold > 0
      /\ l < n + 3 => states[l + 1].hold = 0
  BY <1>3, <1>4, ListedIs DEF L
<1>8. l \in Nat
  BY <1>7
<1> HIDE DEF l
<1>9. l = n + 2
  <2>1. l # n + 3
    <3> SUFFICES ASSUME l = n + 3 PROVE FALSE
      OBVIOUS
    <3>1. n + 3 \in 1 .. l
      BY <1>2
    <3>2. states[n + 3].hold > 0 /\ states[n + 3].hold = 0
      BY <1>5, <1>7, <3>1
    <3> QED BY <3>2
  <2>2. l < n + 3 /\ states[l + 1].hold = 0
    BY <1>2, <1>7, <1>8, <2>1
  <2>3. ~(l + 1 \in 1 .. n) /\ l + 1 # n + 1 /\ l + 1 # n + 2
    BY <1>5, <1>6, <2>2
  <2> QED BY <1>2, <1>8, <2>2, <2>3
<1>10. /\ \A i \in 1 .. n : L[i] = items[i]
       /\ L[n + 1] = states[n + 1] /\ L[n + 2] = states[n + 2]
  <2>1. (\A i \in 1 .. n : i \in 1 .. l) /\ n + 1 \in 1 .. l /\ n + 2 \in 1 .. l
    BY <1>2, <1>9
  <2> QED BY <1>4, <1>7, <2>1
<1> QED BY <1>5, <1>7, <1>9, <1>10 DEF states, L, c, n, l

\* Item k is due for as long as it lasts, and none behind the last.
LEMMA DueIs ==
  ASSUME NEW items \in Seq(States), NEW tick \in Nat \ {0}, NEW t \in Nat
  PROVE  /\ t >= Sums(Lasting(items, tick))[Len(items)] => Due(items, tick, t) = 0
         /\ \A k \in 1 .. Len(items) :
              Sums(Lasting(items, tick))[k - 1] <= t /\ t < Sums(Lasting(items, tick))[k]
                => Due(items, tick, t) = k
<1> DEFINE b == Lasting(items, tick)
           B == Sums(b)
           n == Len(items)
           left == {i \in DOMAIN items : B[i] > t}
<1>1. b \in Seq(Nat) /\ Len(b) = n /\ n \in Nat
  <2>1. n \in Nat
    OBVIOUS
  <2> QED BY <2>1, LastingIs, Zenon
<1>2. Due(items, tick, t) = IF left = {} THEN 0 ELSE Min(left)
  BY DEF Due, Lasting
<1>3. DOMAIN items = 1 .. n
  OBVIOUS
<1>4. /\ \A k \in 0 .. n : B[k] \in Nat
      /\ \A j \in 0 .. n : \A k \in 0 .. j : B[k] <= B[j]
  BY <1>1, SumsGrow
<1> HIDE DEF b, B, n
<1>5. ASSUME t >= B[n] PROVE left = {}
  <2>1. SUFFICES ASSUME NEW i \in 1 .. n, B[i] > t PROVE FALSE
    BY <1>3
  <2>2. n \in 0 .. n /\ i \in 0 .. n
    BY <1>1
  <2>3. B[i] <= B[n] /\ B[i] \in Nat /\ B[n] \in Nat
    BY <1>4, <2>2
  <2> QED BY <1>5, <2>1, <2>3
<1>6. ASSUME NEW k \in 1 .. n, B[k - 1] <= t, t < B[k] PROVE Min(left) = k /\ left # {}
  <2>1. k \in left
    BY <1>1, <1>3, <1>4, <1>6
  <2>2. left \in SUBSET Nat
    BY <1>1, <1>3
  <2>3. \A i \in left : i >= k
    <3>1. SUFFICES ASSUME NEW i \in 1 .. n, B[i] > t, i < k PROVE FALSE
      BY <1>1, <1>3
    <3>2. i \in 0 .. k - 1 /\ k - 1 \in 0 .. n /\ i \in 0 .. n
      BY <1>1, <3>1
    <3>3. B[i] <= B[k - 1] /\ B[i] \in Nat /\ B[k - 1] \in Nat
      BY <1>4, <3>2
    <3> QED BY <1>6, <3>1, <3>3
  <2> DEFINE x == Min(left)
  <2> HIDE DEF left
  <2>4. x \in left /\ \A y \in left : x <= y
    BY <2>1, <2>2, MinOf, Zenon
  <2> HIDE DEF x
  <2>5. x = k
    BY <1>1, <2>1, <2>2, <2>3, <2>4
  <2> QED BY <2>1, <2>5 DEF x
<1> HIDE DEF left
<1> QED BY <1>2, <1>5, <1>6, Zenon DEF B, b, n

LEMMA ListAsked ==
  ASSUME NEW items, NEW tick, NEW t
  PROVE  LET s == Due(items, tick, t)
             tone == JsonProfiles[IF s = 0 THEN 0 ELSE Profile(items[s].state)]
         IN AskedAt([kind |-> "list", items |-> items], tick, t)
              = Sound(tone.ftw, tone.pow, tone.asf)
<1> DEFINE c == [kind |-> "list", items |-> items]
<1>1. c.kind = "list" /\ c.items = items
  OBVIOUS
<1> HIDE DEF c
<1> QED BY <1>1 DEF AskedAt, c

LEMMA ListRight ==
  ASSUME NEW items \in Seq(States), Len(items) > 0,
         \A i \in 1 .. Len(items) : items[i].hold # 0, Lowers(items \o Parked)
  PROVE  Right(Entry(JsonProfiles, <<>>, 0, NoSweep, items \o Parked),
               [kind |-> "list", items |-> items])
<1> DEFINE states == items \o Parked
           e == Entry(JsonProfiles, <<>>, 0, NoSweep, states)
           c == [kind |-> "list", items |-> items]
           logic == Lower(states)
           L == Listed(states)
           tick == Period(e)
           n == Len(items)
           B == Sums(Lasting(L, tick))
           T == Sums(Lasting(items, tick))
<1>1. /\ e.profiles = JsonProfiles /\ e.ram = <<>> /\ e.sweep = NoSweep /\ e.logic = logic
  BY DEF Entry
<1>2. /\ L \in Seq(States) /\ Len(L) = n + 2
      /\ \A i \in 1 .. n : L[i] = items[i]
      /\ L[n + 1].state = 0 /\ L[n + 2].state = 0
  BY ListListed, Zenon
<1>3. n \in Nat /\ n > 0 /\ states \in Seq(States)
  <2>1. Parked \in Seq(States)
    BY UnitsAssumption DEF Parked, State, States
  <2> QED BY <2>1, ConcatProperties
<1>18. tick \in Nat \ {0} /\ tick = Ratio(states)
  BY <1>1, <1>3, RatioIs DEF Period
<1> HIDE DEF tick
<1>4. \A t : LET s == Due(items, tick, t)
                 tone == JsonProfiles[IF s = 0 THEN 0 ELSE Profile(items[s].state)]
             IN AskedAt(c, tick, t) = Sound(tone.ftw, tone.pow, tone.asf)
  BY ListAsked
<1>5. \A state, since : SignalOf(e, state, since)
        = Sound(JsonProfiles[Profile(state)].ftw, JsonProfiles[Profile(state)].pow,
                JsonProfiles[Profile(state)].asf)
  <2>1. ~(e.sweep.fstep > 0)
    BY <1>1 DEF NoSweep
  <2> HIDE DEF e
  <2> QED BY <1>1, <2>1, Zenon DEF SignalOf
<1>6. Loads(e)
  <2>1. ~(e.sweep.fstep > 0) /\ Len(e.ram) = 0
    BY <1>1 DEF NoSweep
  <2> HIDE DEF e
  <2> QED BY <2>1, UnitsAssumption DEF Loads
<1>7. Horizon(e) = Ends(logic, Len(logic.notes)) /\ Ends(logic, Len(logic.notes)) \in Nat
  BY <1>1, <1>3, HorizonIs DEF Horizon
<1> HIDE DEF e, c, logic, n, L, states
<1>8. Lasting(L, tick) \in Seq(Nat) /\ Len(Lasting(L, tick)) = n + 2
      /\ Lasting(items, tick) \in Seq(Nat) /\ Len(Lasting(items, tick)) = n
      /\ \A i \in 1 .. n : Lasting(L, tick)[i] = Lasting(items, tick)[i]
  <2>1. /\ Lasting(L, tick) \in Seq(Nat) /\ Len(Lasting(L, tick)) = n + 2
        /\ Lasting(items, tick) \in Seq(Nat) /\ Len(Lasting(items, tick)) = n
        /\ \A k \in 1 .. Len(L) : Lasting(L, tick)[k] = Lasts(L[k].hold, tick)
        /\ \A k \in 1 .. n : Lasting(items, tick)[k] = Lasts(items[k].hold, tick)
    BY <1>2, <1>18, LastingIs, Zenon DEF n
  <2>2. \A i \in 1 .. n : i \in 1 .. Len(L)
    BY <1>2, <1>3
  <2> QED BY <1>2, <2>1, <2>2
<1>9. \A k \in 0 .. n : B[k] = T[k]
  <2> SUFFICES ASSUME NEW k \in 0 .. n PROVE B[k] = T[k]
    OBVIOUS
  <2>1. k \in 0 .. Len(Lasting(L, tick)) /\ k <= Len(Lasting(items, tick)) /\ \A i \in 1 .. k : i \in 1 .. n
    BY <1>3, <1>8
  <2>2. \A i \in 1 .. k : Lasting(L, tick)[i] = Lasting(items, tick)[i]
    BY <1>8, <2>1
  <2> QED BY <1>8, <2>1, <2>2, SumsSame, Zenon
<1>10. /\ \A j \in 0 .. n + 2 : B[j] \in Nat
       /\ \A j \in 0 .. n + 2 : \A i \in 0 .. j : B[i] <= B[j]
  BY <1>8, SumsGrow
<1> HIDE DEF B, T
<1>11. SUFFICES ASSUME NEW t \in 0 .. Horizon(e)
                PROVE  Meets(SignalAt(e, t), c, AskedAt(c, tick, t))
  BY <1>6 DEF Right, e, c, states, tick
<1>12. t \in Nat /\ t \in 0 .. Ends(logic, Len(logic.notes))
  BY <1>7
<1>13. PICK k \in 1 .. Len(L) : B[k - 1] <= t /\ (t < B[k] \/ k = Len(L))
  BY <1>3, <1>12, <1>18, Moments, Zenon DEF L, states, logic, B
<1>14. StateAt(logic, t) = L[k].state
  <2>1. k \in 1 .. Len(L) /\ B[k - 1] <= t /\ (t < B[k] \/ k = Len(L))
    BY <1>13
  <2> QED BY <1>3, <1>12, <1>18, <2>1, Plays, Zenon DEF L, states, logic, B
<1> DEFINE S(state) == Sound(JsonProfiles[Profile(state)].ftw, JsonProfiles[Profile(state)].pow,
                             JsonProfiles[Profile(state)].asf)
<1>15. SignalAt(e, t) = S(L[k].state)
  BY <1>1, <1>5, <1>14, SignalIs, Zenon
<1>19. \A state \in Nat : Meets(S(state), c, S(state))
  <2>1. \A p : Sound(JsonProfiles[p].ftw, JsonProfiles[p].pow, JsonProfiles[p].asf)[1] \in Int
               \/ p \notin 0 .. 3
    <3>1. /\ JsonProfiles[0] = Silence /\ JsonProfiles[1] = Tone(1, 0)
          /\ JsonProfiles[2] = Tone(2, 1) /\ JsonProfiles[3] = Silence
      BY DEF JsonProfiles, Silent
    <3>2. \A w \in Nat : \A p, m : Sound(w, p, m)[1] \in Int
      BY UnitsAssumption DEF Sound, Heard, Off
    <3>3. \A p \in 0 .. 3 : JsonProfiles[p].ftw \in Nat
      BY <3>1 DEF Silence, Tone
    <3> QED BY <3>2, <3>3
  <2>2. \A state \in Nat : Profile(state) \in 0 .. 3
    BY DEF Profile, DR_CTL
  <2>3. \A state \in Nat : S(state)[1] \in Int
    BY <2>1, <2>2, Zenon
  <2> QED BY <2>3, MeetsIs, Zenon
<1>16. CASE k \in 1 .. n
  <2>1. B[k - 1] = T[k - 1] /\ B[k] = T[k] /\ k # Len(L) /\ k # 0
    <3>1. k - 1 \in 0 .. n /\ k \in 0 .. n /\ k # Len(L) /\ k # 0
      BY <1>2, <1>3, <1>16
    <3> QED BY <1>9, <3>1
  <2>2. T[k - 1] <= t /\ t < T[k]
    BY <1>13, <2>1
  <2>3. Due(items, tick, t) = k
    BY <1>12, <1>16, <1>18, <2>2, DueIs, Zenon DEF T, n
  <2>4. L[k] = items[k] /\ items[k].state \in Nat
    <3>1. items[k] \in States
      BY <1>16 DEF n
    <3> QED BY <1>2, <1>16, <3>1 DEF States
  <2>5. AskedAt(c, tick, t) = S(items[k].state)
    BY <1>4, <2>1, <2>3, Zenon
  <2> QED BY <1>15, <1>19, <2>4, <2>5, Zenon
<1>17. CASE ~(k \in 1 .. n)
  <2>1. k = n + 1 \/ k = n + 2
    BY <1>2, <1>3, <1>17
  <2>2. k - 1 \in 0 .. n + 2 /\ n \in 0 .. k - 1 /\ n \in 0 .. n
    BY <1>3, <2>1
  <2>3. B[n] <= B[k - 1] /\ B[n] = T[n] /\ B[k - 1] \in Nat /\ T[n] \in Nat
    <3>1. n \in 0 .. n + 2
      BY <1>3
    <3> QED BY <1>9, <1>10, <2>2, <3>1
  <2>4. t >= T[n]
    BY <1>12, <1>13, <2>3
  <2>5. Due(items, tick, t) = 0
    BY <1>12, <1>18, <2>4, DueIs, Zenon DEF T, n
  <2>6. L[k].state = 0 /\ 0 \in Nat
    BY <1>2, <2>1
  <2>7. Profile(0) = 0
    BY Profiles
  <2>8. AskedAt(c, tick, t) = S(0)
    BY <1>4, <2>5, <2>7, Zenon
  <2> QED BY <1>15, <1>19, <2>6, <2>8, Zenon
<1> QED BY <1>16, <1>17

(***************************************************************************)
(* The signals of all descriptors.                                         *)
(***************************************************************************)

\* A descriptor comes in that does what the command asked for, if one does.
Sounded == Stays \/ \E e, c : Right(e, c) /\ Enters(e, c)

LEMMA Sounding ==
  ASSUME NEW e, NEW c, Stays \/ (Right(e, c) /\ (Add(e, c) \/ Only(e, c)))
  PROVE  Sounded
BY Entering, Zenon DEF Sounded

LEMMA SeqPulseSounds ==
  ASSUME NEW o \in Nat, NEW d \in Nat, NEW f \in Freqs, SeqPulse(o, d, f)
  PROVE  Sounded
<1> DEFINE e == Entry([Silent EXCEPT ![1] = Tone(f, 0)], <<>>, 0, NoSweep, OnePulse(o, d, 1))
           c == [kind |-> "pulse", offset |-> o, duration |-> d, freq |-> f]
<1>1. Halt \/ Return \/ (Lowers(OnePulse(o, d, 1)) /\ Add(e, c))
  BY Zenon DEF SeqPulse
<1>2. Lowers(OnePulse(o, d, 1)) => Right(e, c)
  BY SeqPulseRight, Zenon
<1> HIDE DEF e, c
<1> QED BY <1>1, <1>2, Entering, Sounding, Zenon

LEMMA BasicPulseSounds ==
  ASSUME NEW o \in Nat, NEW d \in Nat, NEW f \in Freqs, BasicPulse(o, d, f)
  PROVE  Sounded
<1> DEFINE rate == Fit_time(d)
           n == (d \div Quad) \div rate
           e == Entry([Unplayed EXCEPT ![0] = Playback(n, n, 0, "switch"),
                                       ![1] = Playback(0, n, rate, "rampup")],
                      Append([i \in 1 .. n |-> Word(0)], Blank), f, NoSweep, OnePulse(o, d, 1))
           c == [kind |-> "basic_pulse", offset |-> o, duration |-> d, freq |-> f]
<1>1. Halt \/ Return \/ (rate # 0 /\ Lowers(OnePulse(o, d, 1)) /\ Only(e, c))
  BY Zenon DEF BasicPulse
<1>2. rate # 0 /\ Lowers(OnePulse(o, d, 1)) => Right(e, c)
  BY BasicPulseRight, Zenon
<1> HIDE DEF e, c, rate
<1> QED BY <1>1, <1>2, Entering, Sounding, Zenon

LEMMA SweepSounds ==
  ASSUME Slips = {}, NEW o \in Nat, NEW d \in Nat, NEW f \in Freqs, NEW a \in Int,
         NEW b \in Nat, NEW run, Sweep(o, d, f, a, b, run)
  PROVE  Sounded
<1> DEFINE steps == d \div (Quad * b)
           f1 == Begins(f, a, steps)
           f2 == (f1 + a * (steps - 1)) % FtwSize
           e == Entry([Silent EXCEPT ![1] = Tone(0, 0)], <<>>, 0, Ramp(f1, f2, a, b),
                      OnePulse(o, d, 1 + DR_CTL))
           c == [kind |-> "sweep", offset |-> o, duration |-> d, freq |-> f, a |-> a, b |-> b]
           fits == /\ b >= 1 /\ d % (Quad * b) = 0 /\ a # 0 /\ steps > 1
                   /\ InBand(f, a, steps) /\ b <= FieldMax /\ Lowers(OnePulse(o, d, 1 + DR_CTL))
<1>1. \/ Halt \/ Return
      \/ /\ ~(b < 1 \/ d % (Quad * b) # 0) /\ a # 0 /\ steps > 1
         /\ InBand(f, a, steps) /\ b <= FieldMax /\ Lowers(OnePulse(o, d, 1 + DR_CTL))
         /\ Add(e, c) \/ Only(e, c)
  BY Zenon DEF Sweep, Ramp
<1>2. ASSUME fits PROVE Right(e, c)
  <2>1. b \in Nat \ {0}
    BY <1>2
  <2> QED BY <1>2, <2>1, SweepRight, Zenon
<1>3. ~(b < 1 \/ d % (Quad * b) # 0) => b >= 1 /\ d % (Quad * b) = 0
  OBVIOUS
<1> HIDE DEF e, c, steps
<1> QED BY <1>1, <1>2, <1>3, Entering, Sounding, Zenon

LEMMA XmitSounds ==
  ASSUME NEW o, NEW fs, NEW t, NEW data, NEW profiles, NEW ram, NEW ftw, NEW c,
         Xmit(o, fs, t, data, profiles, ram, ftw, c),
         Lowers(Symbols(o, t, data))
           => Right(Entry(profiles, ram, ftw, NoSweep, Symbols(o, t, data)), c)
  PROVE  Sounded
<1> DEFINE e == Entry(profiles, ram, ftw, NoSweep, Symbols(o, t, data))
<1>1. Halt \/ GiveUp(2 * Vec) \/ (Lowers(Symbols(o, t, data)) /\ Only(e, c))
  BY Zenon DEF Xmit
<1>2. Lowers(Symbols(o, t, data)) => Right(e, c)
  OBVIOUS
<1> HIDE DEF e
<1> QED BY <1>1, <1>2, Entering, Sounding, Zenon

LEMMA RamPskSounds ==
  ASSUME Slips = {}, NEW o \in Nat, NEW f \in Freqs, NEW t \in Nat,
         NEW data \in Seq({0, 1}), XmitRamPsk(o, f, t, data)
  PROVE  Sounded
<1> DEFINE n == Len(data)
           e == Entry([Unplayed EXCEPT ![0] = Playback(n, n, 0, "switch"),
                                       ![1] = Playback(0, n, t \div Quad, "rampup")],
                      Append([i \in 1 .. n |-> Word(IF data[i] = 0 THEN 0 ELSE 1)], Blank),
                      f, NoSweep, OnePulse(o, t * n, 1))
           c == Shifted("ram_psk", o, f, t, data, 1)
<1>1. \/ Halt \/ GiveUp(Vec + 1)
      \/ /\ t \div Quad <= FieldMax /\ n < RamSize /\ t % Quad = 0
         /\ Lowers(OnePulse(o, t * n, 1)) /\ Only(e, c)
  BY Zenon DEF XmitRamPsk
<1>2. ASSUME t \div Quad <= FieldMax, n < RamSize, t % Quad = 0, Lowers(OnePulse(o, t * n, 1))
      PROVE  Right(e, c)
  BY <1>2, RamPskRight, Zenon
<1> HIDE DEF e, c, n
<1> QED BY <1>1, <1>2, Entering, Sounding, Zenon

LEMMA SeqJsonSounds ==
  ASSUME Slips = {}, Numbered, Answers, SeqJson
  PROVE  Sounded
<1> DEFINE n == count[<<>>]
           items == List(n, value)
<1>1. CASE Halt
  BY <1>1, Entering, Zenon DEF Sounded
<1>2. CASE ~Halt
  <2>1. /\ ~(n <= 0 \/ n >= LoadMax)
        /\ ~ \E i \in 1 .. n : \E name \in {"hold_ns", "state"} : value[Idx(i - 1, name)] = -1
    BY <1>2, Zenon DEF SeqJson
  <2>2. value = meant
    BY DEF Answers
  <2>3. /\ \A i \in 1 .. n : items[i].hold # 0
        /\ Lowers(items \o Parked)
        /\ Add(Entry(JsonProfiles, <<>>, 0, NoSweep, items \o Parked),
               [kind |-> "list", items |-> items])
    BY <1>2, <2>1, <2>2, Zenon DEF SeqJson
  <2>4. /\ n \in Nat
        /\ \A i \in 1 .. n : \A name \in {"hold_ns", "state"} : value[Idx(i - 1, name)] \in Nat
    BY <2>1, AnswersTyped, Zenon
  <2>5. items \in Seq(States) /\ Len(items) = n
    BY <2>4, ListTyped, Zenon
  <2>6. n > 0
    BY <2>1, <2>4
  <2> HIDE DEF items
  <2>7. Right(Entry(JsonProfiles, <<>>, 0, NoSweep, items \o Parked),
              [kind |-> "list", items |-> items])
    BY <2>3, <2>5, <2>6, ListRight
  <2> QED BY <2>3, <2>7, Sounding, Zenon
<1> QED BY <1>1, <1>2

LEMMA CommandSounds ==
  ASSUME Slips = {}, Numbered, Answers, Command
  PROVE  Sounded
<1>0. /\ Offsets \subseteq Nat /\ Durations \subseteq Nat /\ Steps \subseteq Nat
      /\ Rises \subseteq Int /\ Intervals \subseteq Nat /\ Data \subseteq Seq({0, 1})
  BY ArgumentsAssumption, DataTyped
<1>1. CASE Reset
  BY <1>1 DEF Reset, Sounded, Stays
<1>2. ASSUME NEW o \in Offsets, NEW d \in Durations, NEW f \in Freqs,
             SeqPulse(o, d, f) \/ BasicPulse(o, d, f)
      PROVE  Sounded
  <2>1. o \in Nat /\ d \in Nat
    BY <1>0
  <2> QED BY <1>2, <2>1, SeqPulseSounds, BasicPulseSounds, Zenon
<1>3. ASSUME NEW o \in Offsets, NEW d \in Durations, NEW f \in Freqs, NEW a \in Rises,
             NEW b \in Intervals, NEW run, Sweep(o, d, f, a, b, run)
      PROVE  Sounded
  <2>1. o \in Nat /\ d \in Nat /\ a \in Int /\ b \in Nat
    BY <1>0
  <2> QED BY <1>3, <2>1, SweepSounds, Zenon
<1>4. ASSUME NEW o \in Offsets, NEW f \in Freqs, NEW g \in Freqs, NEW t \in Steps, NEW data \in Data,
             \/ XmitFsk(o, f, g, t, data) \/ XmitPsk(o, f, t, data) \/ XmitZcPsk(o, f, t, data)
             \/ XmitRamPsk(o, f, t, data)
      PROVE  Sounded
  <2>1. o \in Nat /\ t \in Nat /\ data \in Seq({0, 1})
    BY <1>0
  <2>2. CASE XmitFsk(o, f, g, t, data)
    BY <2>1, <2>2, FskRight, XmitSounds, Zenon DEF XmitFsk
  <2>3. CASE XmitPsk(o, f, t, data)
    BY <2>1, <2>3, PskRight, XmitSounds, Zenon DEF XmitPsk
  <2>4. CASE XmitZcPsk(o, f, t, data)
    BY <2>1, <2>4, ZcPskRight, XmitSounds, Zenon DEF XmitZcPsk
  <2>5. CASE XmitRamPsk(o, f, t, data)
    BY <2>1, <2>5, RamPskSounds, Zenon
  <2> QED BY <1>4, <2>2, <2>3, <2>4, <2>5
<1>5. CASE SeqJson
  BY <1>5, SeqJsonSounds
<1> QED BY <1>1, <1>2, <1>3, <1>4, <1>5, Zenon DEF Command

AllRight ==
  /\ \E S : sequence \in Seq(S)
  /\ \E S : asked \in Seq(S)
  /\ Len(asked) = Len(sequence)
  /\ \A k \in 1 .. Len(sequence) : Right(sequence[k], asked[k])

LEMMA AllRightStep ==
  Slips = {} /\ Numbered /\ Answers /\ AllRight /\ [Next]_cvars => AllRight'
<1> SUFFICES ASSUME Slips = {}, Numbered, Answers, AllRight, [Next]_cvars PROVE AllRight'
  OBVIOUS
<1>1. CASE UNCHANGED <<sequence, asked>>
  BY <1>1 DEF AllRight
<1>2. CASE sequence' = <<>> /\ asked' = <<>>
  <2>1. <<>> \in Seq({}) /\ Len(<<>>) = 0
    OBVIOUS
  <2>2. \A k \in 1 .. 0 : Right(sequence'[k], asked'[k])
    OBVIOUS
  <2> QED BY <1>2, <2>1, <2>2, Zenon DEF AllRight
<1>3. ASSUME NEW e, NEW c, Right(e, c), Enters(e, c) PROVE AllRight'
  <2> DEFINE n == Len(sequence)
             s == Append(sequence, e)
             a == Append(asked, c)
  <2>1. /\ \E S : s \in Seq(S)
        /\ n \in Nat /\ Len(s) = n + 1 /\ (\A i \in 1 .. n : s[i] = sequence[i]) /\ s[n + 1] = e
    <3>1. \E S : sequence \in Seq(S)
      BY DEF AllRight
    <3>2. Longer(s, sequence, e)
      BY <3>1, Appended, Zenon
    <3> HIDE DEF s
    <3> QED BY <3>2, Zenon DEF Longer
  <2>2. /\ \E S : a \in Seq(S)
        /\ Len(a) = n + 1 /\ (\A i \in 1 .. n : a[i] = asked[i]) /\ a[n + 1] = c
    <3>1. (\E S : asked \in Seq(S)) /\ Len(asked) = n
      BY DEF AllRight
    <3>2. Longer(a, asked, c)
      BY <3>1, Appended, Zenon
    <3> HIDE DEF a, n
    <3> QED BY <3>1, <3>2, Zenon DEF Longer
  <2>3. \A k \in 1 .. n : Right(sequence[k], asked[k])
    BY DEF AllRight
  <2>4. \A k \in 1 .. n + 1 : k \in 1 .. n \/ k = n + 1
    BY <2>1
  <2>5. CASE sequence' = s /\ asked' = a
    <3> HIDE DEF n, s, a
    <3>1. \A k \in 1 .. n + 1 : Right(s[k], a[k])
      BY <1>3, <2>1, <2>2, <2>3, <2>4, Zenon
    <3> QED BY <2>1, <2>2, <2>5, <3>1, Zenon DEF AllRight
  <2>6. CASE sequence' = <<e>> /\ asked' = <<c>>
    <3>1. /\ <<e>> \in Seq({e}) /\ Len(<<e>>) = 1 /\ \A k \in 1 .. 1 : <<e>>[k] = e
          /\ <<c>> \in Seq({c}) /\ Len(<<c>>) = 1 /\ \A k \in 1 .. 1 : <<c>>[k] = c
      OBVIOUS
    <3>2. \A k \in 1 .. 1 : Right(<<e>>[k], <<c>>[k])
      BY <1>3, <3>1, Zenon
    <3> QED BY <2>6, <3>1, <3>2, Zenon DEF AllRight
  <2> QED BY <1>3, <2>5, <2>6 DEF Enters
<1>4. CASE WriteList \/ UNCHANGED cvars
  BY <1>1, <1>4 DEF WriteList, cvars
<1>5. CASE Command
  <2>1. Sounded
    BY <1>5, CommandSounds
  <2>2. ASSUME Stays PROVE AllRight'
    BY <1>1, <1>2, <2>2 DEF Stays
  <2> QED BY <1>3, <2>1, <2>2, Zenon DEF Sounded
<1> QED BY <1>4, <1>5 DEF Next

\* If operators make none of the mistakes listed and no array of a text is asked
\* for a name, every descriptor makes the AD9910 give, at every moment, the
\* signal that its command asked for, with each state a tick longer for each of
\* its notes and the frequency of zc_psk without its low bits, and the callback
\* accepts it.  (uart_cli.c, the commands that make a descriptor; Commands*.cfg
\* show what the mistakes do.)
THEOREM Sounds == Slips = {} /\ Shaped => (Spec => []SoundsAsAsked)
<1> SUFFICES ASSUME Slips = {}, Shaped PROVE Spec => []SoundsAsAsked
  OBVIOUS
<1>1. Init => IInv /\ Numbered /\ AllRight
  <2>1. Init => AllRight
    <3>1. <<>> \in Seq({}) /\ Len(<<>>) = 0
      OBVIOUS
    <3>2. \A k \in 1 .. 0 : Right(<<>>[k], <<>>[k])
      OBVIOUS
    <3> QED BY <3>1, <3>2, Zenon DEF Init, AllRight
  <2> QED BY <2>1, Base, NumberedBase DEF Init
<1>2. IInv /\ [Next]_cvars => IInv'
  <2>1. ASSUME IInv, WriteList PROVE IInv'
    BY <2>1, Step DEF WriteList
  <2>2. ASSUME IInv, UNCHANGED cvars PROVE IInv'
    BY <2>2, Step DEF cvars
  <2> QED BY <2>1, <2>2, CommandKeeps DEF Next
<1>3. Numbered /\ Answers /\ AllRight /\ [Next]_cvars => AllRight'
  BY AllRightStep
<1>4. Spec => []Answers
  BY AnswersLists
<1>5. AllRight => SoundsAsAsked
  <2>1. ASSUME AllRight PROVE DOMAIN sequence = 1 .. Len(sequence)
    BY <2>1 DEF AllRight
  <2> QED BY <2>1, Zenon DEF AllRight, Right, Period, SoundsAsAsked
<1> QED BY <1>1, <1>2, <1>3, <1>4, <1>5, NumberedStep, PTL DEF Spec
=============================================================================
