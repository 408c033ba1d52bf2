--------------------------- MODULE CommandsProofs ---------------------------
(***************************************************************************)
(* Proofs about Json and Commands.  In documents of any depth and length   *)
(* the automaton of the JSON queries knows where it is and the queries     *)
(* answer what the text says, and so they do in the texts of "seq json"    *)
(* among all other commands; and the memory of the descriptors is theirs.  *)
(*                                                                         *)
(* The stack of scopes has two for every open container, its own and VALUE *)
(* while one of its items is awaited or written, and on top a token that   *)
(* has begun.                                                              *)
(***************************************************************************)
EXTENDS Commands, SequenceTheorems, FiniteSetTheorems, WellFoundedInduction, TLAPS

Tokens == {"KEY", "STR", "PRIMITIVE"}
Scopes == {"ROOT", "OBJECT", "VALUE", "ARRAY"} \cup Tokens
Kinds == {"object", "array"}
Frames == [kind : Kinds, items : Nat, at : Spans, used : SUBSET Names]

ScopeOf(kind) == IF kind = "object" THEN "OBJECT" ELSE "ARRAY"

\* A json_t.
Fields == {"stack", "path", "acc", "span", "fresh", "left", "failed"}
Automaton(x) == x = [field \in Fields |-> x[field]]

(* The three stacks in the containers f; `inv` says whether in an item of   *)
(* the innermost.                                                           *)
Stacked(s, f, inv) ==
  /\ s \in Seq(Scopes)
  /\ Len(s) = 2 * Len(f) + (IF inv THEN 1 ELSE 0)
  /\ Len(s) > 0 /\ s[1] = "ROOT"
  /\ \A i \in 1 .. Len(f) : s[2 * i] = ScopeOf(f[i].kind)
  /\ \A i \in 1 .. Len(f) : i < Len(f) \/ inv => s[2 * i + 1] = "VALUE"

Pathed(p, f, inv) ==
  /\ p \in Seq(Spans)
  /\ Len(p) = IF inv THEN Len(f) ELSE Len(f) - 1
  /\ \A i \in 1 .. Len(p) : p[i] = f[i].at

Counted(a, f) ==
  /\ a \in Seq(Nat)
  /\ Len(a) = Len(f)
  /\ \A i \in 1 .. Len(f) : a[i] = f[i].items

\* The automaton is there, with no token begun; or with token `tok`.
At(x, f, inv) ==
  /\ Automaton(x) /\ x.failed = FALSE
  /\ Stacked(x.stack, f, inv) /\ Pathed(x.path, f, inv) /\ Counted(x.acc, f)
AtToken(x, f, inv, tok) ==
  /\ Automaton(x) /\ x.failed = FALSE
  /\ x.stack \in Seq(Scopes) /\ x.stack # <<>> /\ Tail_(x.stack) = tok
  /\ Stacked(Pop(x.stack), f, inv) /\ Pathed(x.path, f, inv) /\ Counted(x.acc, f)

-----------------------------------------------------------------------------
(* Sequences.                                                               *)

LEMMA Arithmetic ==
  ASSUME NEW n \in Nat
  PROVE  /\ n > 0 => n \in 1 .. n /\ n - 1 \in Nat
         /\ \A i \in 1 .. n : /\ i \in Nat /\ (i = n \/ i < n)
                             /\ 2 * i \in 1 .. 2 * n
                             /\ (i < n => 2 * i + 1 \in 1 .. 2 * n)
                             /\ (i = n => 2 * i + 1 = 2 * n + 1)
         /\ \A i \in 1 .. n + 1 : (i = n + 1 \/ i \in 1 .. n)
OBVIOUS

LEMMA LastOne ==
  ASSUME NEW n \in Nat \ {0}
  PROVE  n \in 1 .. n
OBVIOUS

LEMMA PopFacts ==
  ASSUME NEW S, NEW s \in Seq(S), Len(s) > 0
  PROVE  /\ Pop(s) \in Seq(S)
         /\ Len(Pop(s)) = Len(s) - 1
         /\ \A i \in 1 .. Len(s) - 1 : Pop(s)[i] = s[i]
<1>1. Len(s) \in Nat /\ \A i \in 1 .. Len(s) - 1 : s[i] \in S
  BY LenProperties, ElementOfSeq
<1> DEFINE t == SubSeq(s, 1, Len(s) - 1)
<1>2. /\ t \in Seq(S)
      /\ Len(t) = IF 1 <= Len(s) - 1 THEN Len(s) - 1 - 1 + 1 ELSE 0
      /\ \A i \in 1 .. Len(s) - 1 - 1 + 1 : t[i] = s[1 + i - 1]
  BY <1>1, SubSeqProperties
<1> HIDE DEF t
<1>3. Len(t) = Len(s) - 1
  <2> DEFINE n == Len(s)
  <2>1. n \in Nat /\ n > 0 /\ Len(t) = IF 1 <= n - 1 THEN n - 1 - 1 + 1 ELSE 0
    BY <1>1, <1>2
  <2> HIDE DEF n
  <2>2. Len(t) = n - 1
    BY <2>1
  <2> QED BY <2>2 DEF n
<1>4. \A i \in 1 .. Len(s) - 1 : t[i] = s[i]
  <2> SUFFICES ASSUME NEW i \in 1 .. Len(s) - 1 PROVE t[i] = s[i]
    OBVIOUS
  <2>1. i \in 1 .. Len(s) - 1 - 1 + 1 /\ 1 + i - 1 = i
    BY <1>1
  <2>2. t[i] = s[1 + i - 1]
    BY <1>2, <2>1
  <2> QED BY <2>1, <2>2
<1>5. Pop(s) = t
  BY DEF Pop, t
<1> QED BY <1>2, <1>3, <1>4, <1>5

LEMMA PushFacts ==
  ASSUME NEW S, NEW s \in Seq(S), NEW e \in S
  PROVE  /\ Append(s, e) \in Seq(S) /\ Append(s, e) # <<>>
         /\ Len(s) \in Nat /\ Len(Append(s, e)) = Len(s) + 1
         /\ \A i \in 1 .. Len(s) : Append(s, e)[i] = s[i]
         /\ Append(s, e)[Len(s) + 1] = e
         /\ Tail_(Append(s, e)) = e
<1>1. /\ Append(s, e) \in Seq(S) /\ Append(s, e) # <<>>
      /\ Len(s) \in Nat /\ Len(Append(s, e)) = Len(s) + 1
      /\ \A i \in 1 .. Len(s) : Append(s, e)[i] = s[i]
      /\ Append(s, e)[Len(s) + 1] = e
  BY AppendProperties, LenProperties
<1> QED BY <1>1 DEF Tail_

\* Sequences of the same length and elements are the same.
LEMMA PushPop ==
  ASSUME NEW S, NEW s \in Seq(S), NEW e \in S
  PROVE  Pop(Append(s, e)) = s
<1>1. Append(s, e) \in Seq(S) /\ Len(Append(s, e)) = Len(s) + 1 /\ Len(s) \in Nat
      /\ \A i \in 1 .. Len(s) : Append(s, e)[i] = s[i]
  BY PushFacts
<1> DEFINE t == Append(s, e)
<1>2. t \in Seq(S) /\ Len(t) > 0 /\ Len(t) - 1 = Len(s)
  BY <1>1
<1>3. /\ Pop(t) \in Seq(S) /\ Len(Pop(t)) = Len(t) - 1
      /\ \A i \in 1 .. Len(t) - 1 : Pop(t)[i] = t[i]
  <2> HIDE DEF t
  <2> QED BY <1>2, PopFacts
<1> QED BY <1>1, <1>2, <1>3, SeqEqual

LEMMA TailFacts ==
  ASSUME NEW S, NEW s \in Seq(S), Len(s) > 0
  PROVE  Tail_(s) = s[Len(s)] /\ Tail_(s) \in S
<1>1. Len(s) \in Nat /\ Len(s) \in 1 .. Len(s)
  BY LenProperties
<1> QED BY <1>1, ElementOfSeq DEF Tail_

LEMMA PutFacts ==
  ASSUME NEW S, NEW s \in Seq(S), NEW n \in 1 .. Len(s), NEW e \in S
  PROVE  /\ [s EXCEPT ![n] = e] \in Seq(S) /\ Len([s EXCEPT ![n] = e]) = Len(s)
         /\ [s EXCEPT ![n] = e][n] = e
         /\ \A i \in 1 .. Len(s) : i # n => [s EXCEPT ![n] = e][i] = s[i]
BY ExceptSeq

\* A sequence is the function of its elements.
LEMMA Listing ==
  ASSUME NEW S, NEW s \in Seq(S), NEW n \in Nat, Len(s) = n
  PROVE  s = [i \in 1 .. n |-> s[i]]
<1>1. s \in [1 .. n -> S]
  BY LenProperties
<1> QED BY <1>1

-----------------------------------------------------------------------------
(* The stacks, one at a time.                                               *)

\* Only the kinds of the containers matter to the stack of scopes.
LEMMA StackedSame ==
  ASSUME NEW s, NEW f, NEW g, NEW inv, Stacked(s, f, inv), Len(g) = Len(f),
         \A i \in 1 .. Len(f) : g[i].kind = f[i].kind
  PROVE  Stacked(s, g, inv)
BY DEF Stacked

LEMMA StackedValue ==
  ASSUME NEW s, NEW f \in Seq(Frames), Stacked(s, f, FALSE)
  PROVE  Stacked(Append(s, "VALUE"), f, TRUE)
<1>1. s \in Seq(Scopes) /\ "VALUE" \in Scopes /\ Len(f) \in Nat /\ Len(s) = 2 * Len(f)
  BY LenProperties DEF Stacked, Scopes
<1> DEFINE t == Append(s, "VALUE")
<1>2. /\ t \in Seq(Scopes) /\ Len(t) = Len(s) + 1 /\ t[Len(s) + 1] = "VALUE"
      /\ \A i \in 1 .. Len(s) : t[i] = s[i]
  BY <1>1, PushFacts
<1> HIDE DEF t
<1>3. t[1] = "ROOT" /\ Len(t) = 2 * Len(f) + 1
  BY <1>1, <1>2 DEF Stacked
<1>4. ASSUME NEW i \in 1 .. Len(f) PROVE t[2 * i] = ScopeOf(f[i].kind) /\ t[2 * i + 1] = "VALUE"
  <2>1. 2 * i \in 1 .. Len(s) /\ (i < Len(f) => 2 * i + 1 \in 1 .. Len(s))
    BY <1>1, Arithmetic
  <2>2. s[2 * i] = ScopeOf(f[i].kind) /\ (i < Len(f) => s[2 * i + 1] = "VALUE")
    BY DEF Stacked
  <2>3. i = Len(f) => 2 * i + 1 = Len(s) + 1
    BY <1>1, Arithmetic
  <2>4. i < Len(f) \/ i = Len(f)
    BY <1>1, Arithmetic
  <2>5. t[2 * i] = s[2 * i]
    BY <1>2, <2>1
  <2>6. i < Len(f) => t[2 * i + 1] = s[2 * i + 1]
    BY <1>2, <2>1
  <2>7. i = Len(f) => t[2 * i + 1] = "VALUE"
    BY <1>2, <2>3
  <2>8. t[2 * i + 1] = "VALUE"
    BY <2>2, <2>4, <2>6, <2>7
  <2> QED BY <2>2, <2>5, <2>8
<1>5. Stacked(t, f, TRUE)
  BY <1>1, <1>2, <1>3, <1>4 DEF Stacked
<1> QED BY <1>5 DEF t

LEMMA StackedLeave ==
  ASSUME NEW s, NEW f \in Seq(Frames), Stacked(s, f, TRUE), Len(f) > 0
  PROVE  Stacked(Pop(s), f, FALSE) /\ Tail_(s) = "VALUE"
<1>1. s \in Seq(Scopes) /\ Len(f) \in Nat /\ Len(s) = 2 * Len(f) + 1 /\ Len(s) > 0
  BY LenProperties DEF Stacked
<1>2. /\ Pop(s) \in Seq(Scopes) /\ Len(Pop(s)) = Len(s) - 1
      /\ \A i \in 1 .. Len(s) - 1 : Pop(s)[i] = s[i]
  BY <1>1, PopFacts
<1>3. Tail_(s) = "VALUE"
  <2>1. Tail_(s) = s[2 * Len(f) + 1] /\ Len(f) \in 1 .. Len(f)
    BY <1>1, TailFacts
  <2>2. s[2 * Len(f) + 1] = "VALUE"
    BY <2>1 DEF Stacked
  <2> QED BY <2>1, <2>2
<1> QED BY <1>1, <1>2, <1>3 DEF Stacked

LEMMA StackedOpen ==
  ASSUME NEW s, NEW f \in Seq(Frames), Stacked(s, f, TRUE), NEW c \in Frames
  PROVE  Stacked(Append(s, ScopeOf(c.kind)), Append(f, c), FALSE)
<1>1. s \in Seq(Scopes) /\ ScopeOf(c.kind) \in Scopes /\ Len(f) \in Nat /\ Len(s) = 2 * Len(f) + 1
  BY LenProperties DEF Stacked, Scopes, ScopeOf
<1> DEFINE t == Append(s, ScopeOf(c.kind))
           g == Append(f, c)
<1>2. /\ t \in Seq(Scopes) /\ Len(t) = Len(s) + 1 /\ t[Len(s) + 1] = ScopeOf(c.kind)
      /\ \A i \in 1 .. Len(s) : t[i] = s[i]
  BY <1>1, PushFacts
<1>3. Len(g) = Len(f) + 1 /\ g[Len(f) + 1] = c /\ \A i \in 1 .. Len(f) : g[i] = f[i]
  BY PushFacts
<1> HIDE DEF t, g
<1>4. t[1] = "ROOT" /\ Len(t) = 2 * Len(g) /\ Len(t) > 0
  BY <1>1, <1>2, <1>3 DEF Stacked
<1>5. ASSUME NEW i \in 1 .. Len(g)
      PROVE  t[2 * i] = ScopeOf(g[i].kind) /\ (i < Len(g) => t[2 * i + 1] = "VALUE")
  <2>1. CASE i = Len(f) + 1
    <3>1. 2 * i = Len(s) + 1 /\ ~(i < Len(g))
      BY <1>1, <1>3, <2>1
    <3> QED BY <1>2, <1>3, <2>1, <3>1
  <2>2. CASE i \in 1 .. Len(f)
    <3>1. 2 * i \in 1 .. Len(s) /\ 2 * i + 1 \in 1 .. Len(s)
      BY <1>1, <2>2
    <3>2. s[2 * i] = ScopeOf(f[i].kind) /\ s[2 * i + 1] = "VALUE"
      BY <2>2 DEF Stacked
    <3> QED BY <1>2, <1>3, <2>2, <3>1, <3>2
  <2>3. i = Len(f) + 1 \/ i \in 1 .. Len(f)
    BY <1>1, <1>3, Arithmetic
  <2> QED BY <2>1, <2>2, <2>3
<1>6. Stacked(t, g, FALSE)
  BY <1>1, <1>2, <1>3, <1>4, <1>5 DEF Stacked
<1> QED BY <1>6 DEF t, g

LEMMA StackedClose ==
  ASSUME NEW s, NEW f \in Seq(Frames), Stacked(s, f, FALSE), Len(f) > 0
  PROVE  Stacked(Pop(s), Pop(f), TRUE) /\ Tail_(s) = ScopeOf(f[Len(f)].kind)
<1>1. s \in Seq(Scopes) /\ Len(f) \in Nat /\ Len(s) = 2 * Len(f) /\ Len(s) > 0
  BY LenProperties DEF Stacked
<1>2. /\ Pop(s) \in Seq(Scopes) /\ Len(Pop(s)) = Len(s) - 1
      /\ \A i \in 1 .. Len(s) - 1 : Pop(s)[i] = s[i]
  BY <1>1, PopFacts
<1>3. /\ Len(Pop(f)) = Len(f) - 1
      /\ \A i \in 1 .. Len(f) - 1 : Pop(f)[i] = f[i]
  BY PopFacts
<1>4. Tail_(s) = ScopeOf(f[Len(f)].kind)
  <2>1. Tail_(s) = s[2 * Len(f)] /\ Len(f) \in 1 .. Len(f)
    BY <1>1, TailFacts
  <2> QED BY <2>1 DEF Stacked
<1> DEFINE t == Pop(s)
           g == Pop(f)
<1> HIDE DEF t, g
<1>5. Len(t) = 2 * Len(g) + 1 /\ t[1] = "ROOT" /\ Len(t) > 0
  BY <1>1, <1>2, <1>3 DEF Stacked, t, g
<1>6. ASSUME NEW i \in 1 .. Len(g)
      PROVE  t[2 * i] = ScopeOf(g[i].kind) /\ t[2 * i + 1] = "VALUE"
  <2>1. i \in 1 .. Len(f) - 1 /\ i < Len(f) /\ i \in 1 .. Len(f)
        /\ 2 * i \in 1 .. Len(s) - 1 /\ 2 * i + 1 \in 1 .. Len(s) - 1
    BY <1>1, <1>3 DEF g
  <2>2. s[2 * i] = ScopeOf(f[i].kind) /\ s[2 * i + 1] = "VALUE"
    BY <2>1 DEF Stacked
  <2> QED BY <1>2, <1>3, <2>1, <2>2 DEF t, g
<1> QED BY <1>2, <1>4, <1>5, <1>6 DEF Stacked, t, g

\* The scope on top in an item, and at the root.
LEMMA StackedRoot ==
  ASSUME NEW s, Stacked(s, <<>>, TRUE)
  PROVE  Tail_(s) = "ROOT"
BY EmptySeq DEF Stacked, Tail_

LEMMA PathedSame ==
  ASSUME NEW p, NEW f, NEW g, NEW inv, Pathed(p, f, inv), Len(g) = Len(f),
         \A i \in 1 .. Len(f) : i < Len(f) \/ inv => g[i].at = f[i].at
  PROVE  Pathed(p, g, inv)
BY DEF Pathed

LEMMA PathedValue ==
  ASSUME NEW p, NEW f \in Seq(Frames), Pathed(p, f, FALSE), Len(f) > 0
  PROVE  Pathed(Append(p, f[Len(f)].at), f, TRUE)
<1>1. p \in Seq(Spans) /\ Len(f) \in Nat /\ Len(p) = Len(f) - 1 /\ f[Len(f)] \in Frames
  BY LenProperties, ElementOfSeq DEF Pathed
<1>2. f[Len(f)].at \in Spans
  BY <1>1 DEF Frames
<1> DEFINE q == Append(p, f[Len(f)].at)
<1>3. /\ q \in Seq(Spans) /\ Len(q) = Len(p) + 1 /\ q[Len(p) + 1] = f[Len(f)].at
      /\ \A i \in 1 .. Len(p) : q[i] = p[i]
  BY <1>1, <1>2, PushFacts
<1> HIDE DEF q
<1> QED BY <1>1, <1>3 DEF Pathed, q

LEMMA PathedLeave ==
  ASSUME NEW p, NEW f \in Seq(Frames), Pathed(p, f, TRUE), Len(f) > 0
  PROVE  Pathed(Pop(p), f, FALSE)
<1>1. p \in Seq(Spans) /\ Len(f) \in Nat /\ Len(p) = Len(f)
  BY LenProperties DEF Pathed
<1>2. /\ Pop(p) \in Seq(Spans) /\ Len(Pop(p)) = Len(p) - 1
      /\ \A i \in 1 .. Len(p) - 1 : Pop(p)[i] = p[i]
  BY <1>1, PopFacts
<1> QED BY <1>1, <1>2 DEF Pathed

LEMMA PathedOpen ==
  ASSUME NEW p, NEW f \in Seq(Frames), Pathed(p, f, TRUE), NEW c \in Frames
  PROVE  Pathed(p, Append(f, c), FALSE)
BY PushFacts DEF Pathed

LEMMA PathedClose ==
  ASSUME NEW p, NEW f \in Seq(Frames), Pathed(p, f, FALSE), Len(f) > 0
  PROVE  Pathed(p, Pop(f), TRUE)
BY PopFacts, LenProperties DEF Pathed

LEMMA CountedSame ==
  ASSUME NEW a, NEW f, NEW g, Counted(a, f), Len(g) = Len(f),
         \A i \in 1 .. Len(f) : g[i].items = f[i].items
  PROVE  Counted(a, g)
BY DEF Counted

LEMMA CountedOpen ==
  ASSUME NEW a, NEW f \in Seq(Frames), Counted(a, f), NEW c \in Frames, c.items = 0
  PROVE  Counted(Append(a, 0), Append(f, c))
<1>1. a \in Seq(Nat) /\ Len(f) \in Nat /\ Len(a) = Len(f)
  BY LenProperties DEF Counted
<1> DEFINE b == Append(a, 0)
           g == Append(f, c)
<1>2. b \in Seq(Nat) /\ Len(b) = Len(a) + 1 /\ b[Len(a) + 1] = 0
      /\ \A i \in 1 .. Len(a) : b[i] = a[i]
  BY <1>1, PushFacts
<1>3. Len(g) = Len(f) + 1 /\ g[Len(f) + 1] = c /\ \A i \in 1 .. Len(f) : g[i] = f[i]
  BY PushFacts
<1> HIDE DEF b, g
<1> QED BY <1>1, <1>2, <1>3 DEF Counted, b, g

LEMMA CountedClose ==
  ASSUME NEW a, NEW f \in Seq(Frames), Counted(a, f), Len(f) > 0
  PROVE  Counted(Pop(a), Pop(f))
<1>1. a \in Seq(Nat) /\ Len(f) \in Nat /\ Len(a) = Len(f)
  BY LenProperties DEF Counted
<1>2. Pop(a) \in Seq(Nat) /\ Len(Pop(a)) = Len(a) - 1 /\ \A i \in 1 .. Len(a) - 1 : Pop(a)[i] = a[i]
  BY <1>1, PopFacts
<1>3. Len(Pop(f)) = Len(f) - 1 /\ \A i \in 1 .. Len(f) - 1 : Pop(f)[i] = f[i]
  BY PopFacts
<1> DEFINE n == Len(f)
           b == Pop(a)
           g == Pop(f)
<1>4. n \in Nat /\ Len(a) = n /\ Len(b) = n - 1 /\ Len(g) = n - 1 /\ b \in Seq(Nat)
  BY <1>1, <1>2, <1>3
<1>5. \A i \in 1 .. n - 1 : b[i] = a[i] /\ g[i] = f[i]
  BY <1>1, <1>2, <1>3
<1>6. \A i \in 1 .. n : a[i] = f[i].items
  BY DEF Counted
<1> HIDE DEF n, b, g
<1>7. \A i \in 1 .. n - 1 : b[i] = g[i].items
  BY <1>4, <1>5, <1>6
<1> QED BY <1>4, <1>7 DEF Counted, b, g

LEMMA CountedTick ==
  ASSUME NEW a, NEW f, NEW g, Counted(a, f), Len(f) \in Nat \ {0}, Len(g) = Len(f),
         \A i \in 1 .. Len(f) : i < Len(f) => g[i].items = f[i].items,
         g[Len(f)].items = f[Len(f)].items + 1
  PROVE  Counted([a EXCEPT ![Len(a)] = @ + 1], g)
<1>1. a \in Seq(Nat) /\ Len(a) = Len(f) /\ a \in [1 .. Len(a) -> Nat]
  BY LenProperties DEF Counted
<1> DEFINE b == [a EXCEPT ![Len(a)] = a[Len(a)] + 1]
<1>2. Len(a) \in 1 .. Len(a) /\ a[Len(a)] + 1 \in Nat
  <2>1. Len(a) \in 1 .. Len(a)
    <3>1. Len(f) \in 1 .. Len(f)
      BY LastOne, Zenon
    <3> QED BY <1>1, <3>1, Zenon
  <2> QED BY <1>1, <2>1, ElementOfSeq
<1>3. /\ b \in Seq(Nat) /\ Len(b) = Len(a)
      /\ b[Len(a)] = a[Len(a)] + 1 /\ \A i \in 1 .. Len(a) : i # Len(a) => b[i] = a[i]
  BY <1>1, <1>2, PutFacts, Zenon
<1> HIDE DEF b
<1>4. ASSUME NEW i \in 1 .. Len(f) PROVE b[i] = g[i].items
  <2>1. i = Len(f) \/ i < Len(f)
    BY <1>1, Arithmetic
  <2>2. i \in 1 .. Len(a) /\ a[i] = f[i].items
    BY <1>1 DEF Counted
  <2> QED BY <1>1, <1>3, <2>1, <2>2
<1>5. Counted(b, g)
  BY <1>1, <1>3, <1>4 DEF Counted
<1> QED BY <1>5 DEF b

-----------------------------------------------------------------------------
(* The automaton.                                                           *)

LEMMA EnterFields ==
  ASSUME NEW x, Automaton(x), NEW scope
  PROVE  /\ Automaton(Enter(x, scope))
         /\ Enter(x, scope).stack = Append(x.stack, scope)
         /\ Enter(x, scope).acc = IF scope \in {"OBJECT", "ARRAY"} THEN Append(x.acc, 0) ELSE x.acc
         /\ Enter(x, scope).path =
              IF scope = "VALUE"
              THEN Append(x.path, IF Tail_(x.stack) = "OBJECT" THEN Named(x.span)
                                  ELSE Indexed(Tail_(x.acc)))
              ELSE x.path
         /\ Enter(x, scope).failed = x.failed
BY DEF Enter, Automaton, Fields

LEMMA LeaveFields ==
  ASSUME NEW x, Automaton(x), NEW scope
  PROVE  /\ Automaton(Leave(x, scope))
         /\ Leave(x, scope).stack = Pop(x.stack)
         /\ Leave(x, scope).acc = IF scope \in {"OBJECT", "ARRAY"} THEN Pop(x.acc) ELSE x.acc
         /\ Leave(x, scope).path = IF scope = "VALUE" THEN Pop(x.path) ELSE x.path
         /\ Leave(x, scope).span = x.span
         /\ Leave(x, scope).failed = (x.failed \/ Tail_(x.stack) # scope)
BY DEF Leave, Automaton, Fields

LEMMA TickFields ==
  ASSUME NEW x, Automaton(x)
  PROVE  /\ Automaton(Tick(x))
         /\ Tick(x).stack = x.stack /\ Tick(x).path = x.path /\ Tick(x).failed = x.failed
         /\ Tick(x).acc = [x.acc EXCEPT ![Len(x.acc)] = @ + 1]
BY DEF Tick, Automaton, Fields

\* No item has begun, and no container ended, since x read its last character.
Quiet(x) == x.fresh = FALSE /\ x.left = <<>>

LEMMA QuietFields ==
  ASSUME NEW x, Automaton(x), Quiet(x)
  PROVE  /\ \A scope : scope # "VALUE" => Quiet(Enter(x, scope))
         /\ Enter(x, "VALUE").fresh = TRUE /\ Enter(x, "VALUE").left = <<>>
         /\ \A scope : scope \notin {"OBJECT", "ARRAY"} => Quiet(Leave(x, scope))
         /\ \A scope \in {"OBJECT", "ARRAY"} :
              Leave(x, scope).fresh = FALSE /\ Leave(x, scope).left = <<x.path, Tail_(x.acc)>>
         /\ Quiet(Tick(x))
         /\ \A w : Quiet([x EXCEPT !.span = w])
BY DEF Enter, Leave, Tick, Quiet, Automaton, Fields

-----------------------------------------------------------------------------
(* The containers: the last frame is replaced by c.                         *)

LEMMA Changed ==
  ASSUME NEW f \in Seq(Frames), Len(f) > 0, NEW c \in Frames
  PROVE  /\ [f EXCEPT ![Len(f)] = c] \in Seq(Frames)
         /\ Len([f EXCEPT ![Len(f)] = c]) = Len(f)
         /\ [f EXCEPT ![Len(f)] = c][Len(f)] = c
         /\ \A i \in 1 .. Len(f) : i < Len(f) => [f EXCEPT ![Len(f)] = c][i] = f[i]
<1>1. Len(f) \in Nat \ {0}
  BY LenProperties
<1>2. Len(f) \in 1 .. Len(f)
  BY <1>1, LastOne, Zenon
<1> DEFINE g == [f EXCEPT ![Len(f)] = c]
<1>3. /\ g \in Seq(Frames) /\ Len(g) = Len(f)
      /\ g[Len(f)] = c /\ \A i \in 1 .. Len(f) : i # Len(f) => g[i] = f[i]
  <2>1. f \in [1 .. Len(f) -> Frames]
    BY LenProperties
  <2> QED BY <1>2, <2>1, PutFacts, Zenon
<1> HIDE DEF g
<1>4. \A i \in 1 .. Len(f) : i < Len(f) => i # Len(f)
  BY <1>1
<1>5. /\ g \in Seq(Frames) /\ Len(g) = Len(f) /\ g[Len(f)] = c
      /\ \A i \in 1 .. Len(f) : i < Len(f) => g[i] = f[i]
  BY <1>2, <1>3, <1>4, Zenon
<1> QED BY <1>5 DEF g

LEMMA Innermost ==
  ASSUME NEW f \in Seq(Frames), Len(f) > 0
  PROVE  /\ Len(f) \in Nat \ {0} /\ Len(f) \in 1 .. Len(f) /\ f[Len(f)] \in Frames
         /\ \A i \in 1 .. Len(f) : (i = Len(f) \/ i < Len(f))
<1>1. Len(f) \in Nat \ {0}
  BY LenProperties
<1>2. Len(f) \in 1 .. Len(f)
  BY <1>1, LastOne, Zenon
<1>3. f[Len(f)] \in Frames
  BY <1>2, ElementOfSeq
<1>4. \A i \in 1 .. Len(f) : (i = Len(f) \/ i < Len(f))
  BY <1>1, Arithmetic
<1> QED BY <1>1, <1>2, <1>3, <1>4

LEMMA Item ==
  ASSUME NEW c \in Frames
  PROVE  /\ [c EXCEPT !.items = @ + 1] \in Frames
         /\ [c EXCEPT !.items = @ + 1].items = c.items + 1
         /\ [c EXCEPT !.items = @ + 1].kind = c.kind
         /\ [c EXCEPT !.items = @ + 1].at = c.at
<1>1. /\ c = [kind |-> c.kind, items |-> c.items, at |-> c.at, used |-> c.used]
      /\ c.kind \in Kinds /\ c.items \in Nat /\ c.at \in Spans /\ c.used \in SUBSET Names
  BY DEF Frames
<1>2. c.items + 1 \in Nat
  BY <1>1
<1>3. [c EXCEPT !.items = @ + 1] = [kind |-> c.kind, items |-> c.items + 1, at |-> c.at, used |-> c.used]
  BY <1>1
<1> QED BY <1>1, <1>2, <1>3 DEF Frames

-----------------------------------------------------------------------------
(* The automaton moves as the document does.                                *)

LEMMA EnterToken ==
  ASSUME NEW x, NEW f, NEW inv, At(x, f, inv), NEW tok \in Tokens
  PROVE  AtToken(Enter(x, tok), f, inv, tok)
<1>1. x.stack \in Seq(Scopes) /\ tok \in Scopes /\ tok \notin {"OBJECT", "ARRAY", "VALUE"}
  BY DEF At, Stacked, Scopes, Tokens
<1>2. /\ Append(x.stack, tok) \in Seq(Scopes) /\ Append(x.stack, tok) # <<>>
      /\ Tail_(Append(x.stack, tok)) = tok /\ Pop(Append(x.stack, tok)) = x.stack
  BY <1>1, PushFacts, PushPop
<1>3. /\ Automaton(Enter(x, tok)) /\ Enter(x, tok).failed = FALSE
      /\ Enter(x, tok).stack = Append(x.stack, tok)
      /\ Enter(x, tok).acc = x.acc /\ Enter(x, tok).path = x.path
  BY <1>1, EnterFields DEF At
<1> QED BY <1>2, <1>3 DEF At, AtToken

LEMMA LeaveToken ==
  ASSUME NEW x, NEW f, NEW inv, NEW tok \in Tokens, AtToken(x, f, inv, tok)
  PROVE  At(Leave(x, tok), f, inv) /\ Leave(x, tok).span = x.span
<1>1. tok \notin {"OBJECT", "ARRAY", "VALUE"}
  BY DEF Tokens
<1>2. Automaton(x) /\ x.failed = FALSE /\ Tail_(x.stack) = tok
  BY DEF AtToken
<1>3. /\ Automaton(Leave(x, tok)) /\ Leave(x, tok).stack = Pop(x.stack)
      /\ Leave(x, tok).acc = x.acc /\ Leave(x, tok).path = x.path /\ Leave(x, tok).span = x.span
  <2>1. /\ Automaton(Leave(x, tok)) /\ Leave(x, tok).stack = Pop(x.stack)
        /\ Leave(x, tok).acc = IF tok \in {"OBJECT", "ARRAY"} THEN Pop(x.acc) ELSE x.acc
        /\ Leave(x, tok).path = IF tok = "VALUE" THEN Pop(x.path) ELSE x.path
        /\ Leave(x, tok).span = x.span
    BY <1>2, LeaveFields
  <2> QED BY <1>1, <2>1
<1>4. Leave(x, tok).failed = FALSE
  <2>1. Automaton(x)
    BY <1>2
  <2>2. Leave(x, tok).failed = (x.failed \/ Tail_(x.stack) # tok)
    BY <2>1, LeaveFields, Zenon
  <2> QED BY <1>2, <2>2, Zenon
<1> QED BY <1>3, <1>4 DEF At, AtToken

LEMMA LeaveValue ==
  ASSUME NEW x, NEW f \in Seq(Frames), Len(f) > 0, At(x, f, TRUE)
  PROVE  At(Leave(x, "VALUE"), f, FALSE) /\ Leave(x, "VALUE").span = x.span
<1>1. Stacked(Pop(x.stack), f, FALSE) /\ Tail_(x.stack) = "VALUE" /\ Pathed(Pop(x.path), f, FALSE)
  BY StackedLeave, PathedLeave DEF At
<1>2. /\ Automaton(Leave(x, "VALUE")) /\ Leave(x, "VALUE").stack = Pop(x.stack)
      /\ Leave(x, "VALUE").acc = x.acc /\ Leave(x, "VALUE").path = Pop(x.path)
      /\ Leave(x, "VALUE").span = x.span /\ Leave(x, "VALUE").failed = FALSE
  BY <1>1, LeaveFields DEF At
<1> QED BY <1>1, <1>2 DEF At

\* The step that the automaton adds to its path is where the document is.
LEMMA EnterValue ==
  ASSUME NEW x, NEW f \in Seq(Frames), Len(f) > 0, At(x, f, FALSE),
         f[Len(f)].at = IF f[Len(f)].kind = "object" THEN Named(x.span)
                        ELSE Indexed(f[Len(f)].items)
  PROVE  At(Enter(x, "VALUE"), f, TRUE)
<1>1. Tail_(x.stack) = ScopeOf(f[Len(f)].kind)
  BY StackedClose DEF At
<1>2. Tail_(x.acc) = f[Len(f)].items
  <2>1. Len(f) \in 1 .. Len(f)
    BY LenProperties
  <2> QED BY <2>1 DEF At, Counted, Tail_
<1>3. f[Len(f)].at = IF Tail_(x.stack) = "OBJECT" THEN Named(x.span) ELSE Indexed(Tail_(x.acc))
  BY <1>1, <1>2 DEF ScopeOf
<1>4. /\ Automaton(Enter(x, "VALUE")) /\ Enter(x, "VALUE").stack = Append(x.stack, "VALUE")
      /\ Enter(x, "VALUE").acc = x.acc /\ Enter(x, "VALUE").failed = FALSE
      /\ Enter(x, "VALUE").path = Append(x.path, f[Len(f)].at)
  <2>1. Automaton(x) /\ x.failed = FALSE
    BY DEF At
  <2>2. Enter(x, "VALUE").path
          = Append(x.path, IF Tail_(x.stack) = "OBJECT" THEN Named(x.span) ELSE Indexed(Tail_(x.acc)))
    BY <2>1, EnterFields
  <2>3. Enter(x, "VALUE").path = Append(x.path, f[Len(f)].at)
    BY <1>3, <2>2, Zenon
  <2> QED BY <2>1, <2>3, EnterFields
<1>5. Stacked(Append(x.stack, "VALUE"), f, TRUE) /\ Pathed(Append(x.path, f[Len(f)].at), f, TRUE)
  BY StackedValue, PathedValue DEF At
<1> QED BY <1>4, <1>5 DEF At

LEMMA EnterContainer ==
  ASSUME NEW x, NEW f \in Seq(Frames), At(x, f, TRUE), NEW c \in Frames, c.items = 0
  PROVE  At(Enter(x, ScopeOf(c.kind)), Append(f, c), FALSE)
<1>1. ScopeOf(c.kind) \in {"OBJECT", "ARRAY"}
  BY DEF ScopeOf
<1>2. /\ Automaton(Enter(x, ScopeOf(c.kind)))
      /\ Enter(x, ScopeOf(c.kind)).stack = Append(x.stack, ScopeOf(c.kind))
      /\ Enter(x, ScopeOf(c.kind)).acc = Append(x.acc, 0)
      /\ Enter(x, ScopeOf(c.kind)).path = x.path
      /\ Enter(x, ScopeOf(c.kind)).failed = FALSE
  BY <1>1, EnterFields DEF At
<1>3. /\ Stacked(Append(x.stack, ScopeOf(c.kind)), Append(f, c), FALSE)
      /\ Pathed(x.path, Append(f, c), FALSE)
      /\ Counted(Append(x.acc, 0), Append(f, c))
  BY StackedOpen, PathedOpen, CountedOpen DEF At
<1> QED BY <1>2, <1>3 DEF At

LEMMA LeaveContainer ==
  ASSUME NEW x, NEW f \in Seq(Frames), Len(f) > 0, At(x, f, FALSE)
  PROVE  At(Leave(x, ScopeOf(f[Len(f)].kind)), Pop(f), TRUE)
<1> DEFINE scope == ScopeOf(f[Len(f)].kind)
<1>1. scope \in {"OBJECT", "ARRAY"}
  BY DEF ScopeOf
<1>2. /\ Stacked(Pop(x.stack), Pop(f), TRUE) /\ Tail_(x.stack) = scope
      /\ Pathed(x.path, Pop(f), TRUE) /\ Counted(Pop(x.acc), Pop(f))
  BY StackedClose, PathedClose, CountedClose DEF At
<1> HIDE DEF scope
<1>3. /\ Automaton(Leave(x, scope)) /\ Leave(x, scope).stack = Pop(x.stack)
      /\ Leave(x, scope).acc = Pop(x.acc) /\ Leave(x, scope).path = x.path
      /\ Leave(x, scope).failed = FALSE
  BY <1>1, <1>2, LeaveFields DEF At
<1>4. At(Leave(x, scope), Pop(f), TRUE)
  BY <1>2, <1>3 DEF At
<1> QED BY <1>4 DEF scope

\* An item begins.
LEMMA TickItem ==
  ASSUME NEW x, NEW f \in Seq(Frames), Len(f) > 0, At(x, f, TRUE), NEW g,
         g = [f EXCEPT ![Len(f)].items = @ + 1]
  PROVE  g \in Seq(Frames) /\ Len(g) = Len(f) /\ At(Tick(x), g, TRUE)
         /\ g[Len(f)].kind = f[Len(f)].kind
<1> DEFINE last == f[Len(f)]
           c == [last EXCEPT !.items = @ + 1]
<1>1. Len(f) \in Nat \ {0} /\ last \in Frames
  BY Innermost, Zenon
<1>2. c \in Frames /\ c.kind = last.kind /\ c.at = last.at /\ c.items = last.items + 1
  <2> HIDE DEF last
  <2> QED BY <1>1, Item
<1>3. g = [f EXCEPT ![Len(f)] = c]
  OBVIOUS
<1> HIDE DEF c
<1>4. /\ g \in Seq(Frames) /\ Len(g) = Len(f) /\ g[Len(f)] = c
      /\ \A i \in 1 .. Len(f) : i < Len(f) => g[i] = f[i]
  <2>1. /\ [f EXCEPT ![Len(f)] = c] \in Seq(Frames)
        /\ Len([f EXCEPT ![Len(f)] = c]) = Len(f)
        /\ [f EXCEPT ![Len(f)] = c][Len(f)] = c
        /\ \A i \in 1 .. Len(f) : i < Len(f) => [f EXCEPT ![Len(f)] = c][i] = f[i]
    BY <1>2, Changed, Zenon
  <2> QED BY <1>3, <2>1, Zenon
<1>5. \A i \in 1 .. Len(f) : (i = Len(f) \/ i < Len(f))
  BY Innermost, Zenon
<1>6. \A i \in 1 .. Len(f) : g[i].kind = f[i].kind /\ g[i].at = f[i].at
  BY <1>2, <1>4, <1>5, Zenon DEF last
<1>7. Stacked(x.stack, g, TRUE) /\ Pathed(x.path, g, TRUE)
  <2>1. Stacked(x.stack, f, TRUE) /\ Pathed(x.path, f, TRUE)
    BY Zenon DEF At
  <2>2. \A i \in 1 .. Len(f) : g[i].kind = f[i].kind
    BY <1>6, Zenon
  <2>3. \A i \in 1 .. Len(f) : i < Len(f) \/ TRUE => g[i].at = f[i].at
    BY <1>6, Zenon
  <2>4. Stacked(x.stack, g, TRUE)
    BY <1>4, <2>1, <2>2, StackedSame, Zenon
  <2>5. Pathed(x.path, g, TRUE)
    BY <1>4, <2>1, <2>3, PathedSame, Zenon
  <2> QED BY <2>4, <2>5
<1>8. Counted([x.acc EXCEPT ![Len(x.acc)] = @ + 1], g)
  <2>1. g[Len(f)].items = f[Len(f)].items + 1
    BY <1>2, <1>4 DEF last
  <2>2. \A i \in 1 .. Len(f) : i < Len(f) => g[i].items = f[i].items
    BY <1>4, Zenon
  <2> QED BY <1>1, <1>4, <2>1, <2>2, CountedTick, Zenon DEF At
<1>9. At(Tick(x), g, TRUE)
  BY <1>7, <1>8, TickFields DEF At
<1>10. g[Len(f)].kind = f[Len(f)].kind
  BY <1>2, <1>4 DEF last
<1> QED BY <1>4, <1>9, <1>10

-----------------------------------------------------------------------------
(* Which scope reads a character.                                           *)

Fresh(x) == [x EXCEPT !.fresh = FALSE, !.left = <<>>]

LEMMA FreshFields ==
  ASSUME NEW x, Automaton(x)
  PROVE  /\ Automaton(Fresh(x))
         /\ Fresh(x).stack = x.stack /\ Fresh(x).path = x.path /\ Fresh(x).acc = x.acc
         /\ Fresh(x).span = x.span /\ Fresh(x).failed = x.failed
         /\ Quiet(Fresh(x))
BY DEF Fresh, Automaton, Fields, Quiet

LEMMA Dispatches ==
  ASSUME NEW x, NEW c, NEW w, NEW scope, Tail_(Fresh(x).stack) = scope
  PROVE  /\ scope = "ROOT" => Dispatch(x, c, w) = Root(Fresh(x), c)
         /\ scope = "OBJECT" => Dispatch(x, c, w) = Object(Fresh(x), c)
         /\ scope = "KEY" => Dispatch(x, c, w) = Key(Fresh(x), c, w)
         /\ scope = "VALUE" => Dispatch(x, c, w) = Value(Fresh(x), c)
         /\ scope = "STR" => Dispatch(x, c, w) = Str(Fresh(x), c)
         /\ scope = "PRIMITIVE" => Dispatch(x, c, w) = Primitive(Fresh(x), c)
BY DEF Dispatch, Fresh

LEMMA ReadsRoot ==
  ASSUME NEW x, At(x, <<>>, TRUE), NEW c, NEW w
  PROVE  Dispatch(x, c, w) = Root(Fresh(x), c) /\ At(Fresh(x), <<>>, TRUE)
<1>1. At(Fresh(x), <<>>, TRUE)
  BY FreshFields DEF At
<1>2. Tail_(Fresh(x).stack) = "ROOT"
  BY <1>1, StackedRoot DEF At
<1> QED BY <1>1, <1>2, Dispatches

LEMMA ReadsItem ==
  ASSUME NEW x, NEW f \in Seq(Frames), Len(f) > 0, At(x, f, TRUE), NEW c, NEW w
  PROVE  Dispatch(x, c, w) = Value(Fresh(x), c) /\ At(Fresh(x), f, TRUE)
<1>1. At(Fresh(x), f, TRUE)
  BY FreshFields DEF At
<1>2. Tail_(Fresh(x).stack) = "VALUE"
  BY <1>1, StackedLeave DEF At
<1> QED BY <1>1, <1>2, Dispatches

LEMMA ReadsObject ==
  ASSUME NEW x, NEW f \in Seq(Frames), Len(f) > 0, f[Len(f)].kind = "object",
         At(x, f, FALSE), NEW c, NEW w
  PROVE  Dispatch(x, c, w) = Object(Fresh(x), c) /\ At(Fresh(x), f, FALSE) /\ Fresh(x).span = x.span
<1>1. At(Fresh(x), f, FALSE) /\ Fresh(x).span = x.span
  BY FreshFields DEF At
<1>2. Tail_(Fresh(x).stack) = "OBJECT"
  BY <1>1, StackedClose DEF At, ScopeOf
<1> QED BY <1>1, <1>2, Dispatches

LEMMA ReadsToken ==
  ASSUME NEW x, NEW f, NEW inv, NEW tok, AtToken(x, f, inv, tok)
  PROVE  /\ AtToken(Fresh(x), f, inv, tok) /\ Fresh(x).span = x.span
         /\ Tail_(Fresh(x).stack) = tok
<1>1. AtToken(Fresh(x), f, inv, tok) /\ Fresh(x).span = x.span
  BY FreshFields DEF AtToken
<1> QED BY <1>1 DEF AtToken

\* Behind an item, or in a number that the next character may end.
Ended(x, f) == At(x, f, TRUE) \/ AtToken(x, f, TRUE, "PRIMITIVE")

\* A comma, a bracket or a space ends a number before it is read as what follows.
LEMMA ReadsEnd ==
  ASSUME NEW x, NEW f \in Seq(Frames), Len(f) > 0,
         Ended(x, f),
         NEW c, c # "number", NEW w
  PROVE  \E y : At(y, f, TRUE) /\ Quiet(y) /\ Dispatch(x, c, w) = Value(y, c)
<1>1. CASE At(x, f, TRUE)
  <2>1. Dispatch(x, c, w) = Value(Fresh(x), c) /\ At(Fresh(x), f, TRUE)
    BY <1>1, ReadsItem, Zenon
  <2>2. Quiet(Fresh(x))
    BY <1>1, FreshFields, Zenon DEF At
  <2> QED BY <2>1, <2>2, Zenon
<1>2. CASE AtToken(x, f, TRUE, "PRIMITIVE")
  <2>1. AtToken(Fresh(x), f, TRUE, "PRIMITIVE") /\ Dispatch(x, c, w) = Primitive(Fresh(x), c)
    <3>1. AtToken(Fresh(x), f, TRUE, "PRIMITIVE") /\ Tail_(Fresh(x).stack) = "PRIMITIVE"
      BY <1>2, ReadsToken, Zenon
    <3> QED BY <3>1, Dispatches
  <2>2. At(Leave(Fresh(x), "PRIMITIVE"), f, TRUE)
    BY <2>1, LeaveToken DEF Tokens
  <2>3. Dispatch(x, c, w) = Value(Leave(Fresh(x), "PRIMITIVE"), c)
    BY <2>1 DEF Primitive
  <2>4. Quiet(Leave(Fresh(x), "PRIMITIVE"))
    <3>1. Automaton(Fresh(x)) /\ Quiet(Fresh(x))
      BY <1>2, FreshFields, Zenon DEF AtToken
    <3>2. "PRIMITIVE" \notin {"OBJECT", "ARRAY"}
      OBVIOUS
    <3> QED BY <3>1, <3>2, QuietFields, Zenon
  <2> QED BY <2>2, <2>3, <2>4
<1> QED BY <1>1, <1>2 DEF Ended

-----------------------------------------------------------------------------
(* What the automaton makes of each character.                              *)

\* The containers once an item has begun in the innermost.
Ticked(f) == IF Len(f) = 0 THEN f ELSE [f EXCEPT ![Len(f)].items = @ + 1]

LEMMA TickedFrames ==
  ASSUME NEW f \in Seq(Frames), NEW x, At(x, f, TRUE)
  PROVE  Ticked(f) \in Seq(Frames)
<1>1. CASE Len(f) = 0
  BY <1>1 DEF Ticked
<1>2. CASE Len(f) # 0
  <2>1. Len(f) > 0 /\ Ticked(f) = [f EXCEPT ![Len(f)].items = @ + 1]
    BY <1>2, LenProperties DEF Ticked
  <2> QED BY <2>1, TickItem, Zenon
<1> QED BY <1>1, <1>2

LEMMA OpensObject ==
  ASSUME NEW x, NEW f \in Seq(Frames), At(x, f, TRUE),
         NEW c \in Frames, c.kind = "object", c.items = 0, NEW w
  PROVE  /\ Append(Ticked(f), c) \in Seq(Frames)
         /\ At(Dispatch(x, "{", w), Append(Ticked(f), c), FALSE)
<1>1. ScopeOf(c.kind) = "OBJECT"
  BY DEF ScopeOf
<1>2. CASE Len(f) = 0
  <2>1. f = <<>> /\ Ticked(f) = f
    BY <1>2, EmptySeq DEF Ticked
  <2>2. Dispatch(x, "{", w) = Root(Fresh(x), "{") /\ At(Fresh(x), f, TRUE)
    BY <2>1, ReadsRoot
  <2>3. Dispatch(x, "{", w) = Enter(Fresh(x), "OBJECT")
    BY <2>2 DEF Root
  <2>4. At(Enter(Fresh(x), "OBJECT"), Append(f, c), FALSE)
    BY <1>1, <2>2, EnterContainer
  <2> QED BY <2>1, <2>3, <2>4, PushFacts
<1>3. CASE Len(f) # 0
  <2>1. Len(f) > 0 /\ Ticked(f) = [f EXCEPT ![Len(f)].items = @ + 1]
    BY <1>3, LenProperties DEF Ticked
  <2>2. Dispatch(x, "{", w) = Value(Fresh(x), "{") /\ At(Fresh(x), f, TRUE)
    BY <2>1, ReadsItem
  <2>3. Dispatch(x, "{", w) = Enter(Tick(Fresh(x)), "OBJECT")
    BY <2>2 DEF Value
  <2>4. Ticked(f) \in Seq(Frames) /\ At(Tick(Fresh(x)), Ticked(f), TRUE)
    BY <2>1, <2>2, TickItem, Zenon
  <2>5. At(Enter(Tick(Fresh(x)), "OBJECT"), Append(Ticked(f), c), FALSE)
    BY <1>1, <2>4, EnterContainer, Zenon
  <2> QED BY <2>3, <2>4, <2>5, PushFacts, Zenon
<1> QED BY <1>2, <1>3

LEMMA EntersArray ==
  ASSUME NEW x, NEW f \in Seq(Frames), At(x, f, TRUE),
         NEW c \in Frames, c.kind = "array", c.items = 0, c.at = Indexed(0)
  PROVE  At(Enter(Enter(x, "ARRAY"), "VALUE"), Append(f, c), TRUE)
<1>1. ScopeOf(c.kind) = "ARRAY" /\ c.kind # "object"
  BY DEF ScopeOf
<1>2. At(Enter(x, "ARRAY"), Append(f, c), FALSE)
  BY <1>1, EnterContainer, Zenon
<1> DEFINE g == Append(f, c)
<1>3. g \in Seq(Frames) /\ Len(g) = Len(f) + 1 /\ Len(f) \in Nat /\ g[Len(f) + 1] = c
  BY PushFacts
<1> HIDE DEF g
<1>4. Len(g) > 0 /\ g[Len(g)] = c
  BY <1>3
<1>5. At(Enter(x, "ARRAY"), g, FALSE)
  BY <1>2 DEF g
<1>6. g[Len(g)].at = IF g[Len(g)].kind = "object" THEN Named(Enter(x, "ARRAY").span)
                     ELSE Indexed(g[Len(g)].items)
  BY <1>1, <1>4
<1>7. At(Enter(Enter(x, "ARRAY"), "VALUE"), g, TRUE)
  BY <1>3, <1>4, <1>5, <1>6, EnterValue, Zenon
<1> QED BY <1>7 DEF g

LEMMA OpensArray ==
  ASSUME NEW x, NEW f \in Seq(Frames), At(x, f, TRUE),
         NEW c \in Frames, c.kind = "array", c.items = 0, c.at = Indexed(0), NEW w
  PROVE  /\ Append(Ticked(f), c) \in Seq(Frames)
         /\ At(Dispatch(x, "[", w), Append(Ticked(f), c), TRUE)
<1>2. CASE Len(f) = 0
  <2>1. f = <<>> /\ Ticked(f) = f
    BY <1>2, EmptySeq DEF Ticked
  <2>2. Dispatch(x, "[", w) = Root(Fresh(x), "[") /\ At(Fresh(x), f, TRUE)
    BY <2>1, ReadsRoot
  <2>3. Dispatch(x, "[", w) = Enter(Enter(Fresh(x), "ARRAY"), "VALUE")
    BY <2>2 DEF Root
  <2> QED BY <2>1, <2>2, <2>3, EntersArray, PushFacts
<1>3. CASE Len(f) # 0
  <2>1. Len(f) > 0 /\ Ticked(f) = [f EXCEPT ![Len(f)].items = @ + 1]
    BY <1>3, LenProperties DEF Ticked
  <2>2. Dispatch(x, "[", w) = Value(Fresh(x), "[") /\ At(Fresh(x), f, TRUE)
    BY <2>1, ReadsItem
  <2>3. Dispatch(x, "[", w) = Enter(Enter(Tick(Fresh(x)), "ARRAY"), "VALUE")
    BY <2>2 DEF Value
  <2>4. Ticked(f) \in Seq(Frames) /\ At(Tick(Fresh(x)), Ticked(f), TRUE)
    BY <2>1, <2>2, TickItem, Zenon
  <2>5. At(Enter(Enter(Tick(Fresh(x)), "ARRAY"), "VALUE"), Append(Ticked(f), c), TRUE)
    BY <2>4, EntersArray, Zenon
  <2> QED BY <2>3, <2>4, <2>5, PushFacts, Zenon
<1> QED BY <1>2, <1>3

\* A bracket of the innermost container's kind, behind an item.
LEMMA ClosesObject ==
  ASSUME NEW x, NEW f \in Seq(Frames), Len(f) > 0, Ended(x, f), f[Len(f)].kind = "object", NEW w
  PROVE  At(Dispatch(x, "}", w), Pop(f), TRUE)
<1>1. PICK y : At(y, f, TRUE) /\ Quiet(y) /\ Dispatch(x, "}", w) = Value(y, "}")
  BY ReadsEnd
<1>2. At(Leave(y, "VALUE"), f, FALSE)
  BY <1>1, LeaveValue, Zenon
<1>3. At(Leave(Leave(y, "VALUE"), ScopeOf(f[Len(f)].kind)), Pop(f), TRUE)
  BY <1>2, LeaveContainer, Zenon
<1>4. Value(y, "}") = Leave(Leave(y, "VALUE"), ScopeOf(f[Len(f)].kind))
  BY DEF Value, ScopeOf
<1> QED BY <1>1, <1>3, <1>4

LEMMA ClosesArray ==
  ASSUME NEW x, NEW f \in Seq(Frames), Len(f) > 0, Ended(x, f), f[Len(f)].kind = "array", NEW w
  PROVE  At(Dispatch(x, "]", w), Pop(f), TRUE)
<1>1. PICK y : At(y, f, TRUE) /\ Quiet(y) /\ Dispatch(x, "]", w) = Value(y, "]")
  BY ReadsEnd
<1>2. At(Leave(y, "VALUE"), f, FALSE)
  BY <1>1, LeaveValue, Zenon
<1>3. At(Leave(Leave(y, "VALUE"), ScopeOf(f[Len(f)].kind)), Pop(f), TRUE)
  BY <1>2, LeaveContainer, Zenon
<1>4. Value(y, "]") = Leave(Leave(y, "VALUE"), ScopeOf(f[Len(f)].kind))
  BY DEF Value, ScopeOf
<1> QED BY <1>1, <1>3, <1>4

\* An object without members.
LEMMA ClosesEmpty ==
  ASSUME NEW x, NEW f \in Seq(Frames), Len(f) > 0, f[Len(f)].kind = "object",
         At(x, f, FALSE), NEW w
  PROVE  At(Dispatch(x, "}", w), Pop(f), TRUE)
<1>1. Dispatch(x, "}", w) = Object(Fresh(x), "}") /\ At(Fresh(x), f, FALSE)
  BY ReadsObject, Zenon
<1>2. Dispatch(x, "}", w) = Leave(Fresh(x), ScopeOf(f[Len(f)].kind))
  BY <1>1 DEF Object, ScopeOf
<1> QED BY <1>1, <1>2, LeaveContainer, Zenon

\* A number or a string begins.
LEMMA BeginsToken ==
  ASSUME NEW x, NEW f \in Seq(Frames), Len(f) > 0, At(x, f, TRUE), NEW w
  PROVE  /\ Ticked(f) \in Seq(Frames) /\ Len(Ticked(f)) = Len(f)
         /\ AtToken(Dispatch(x, "number", w), Ticked(f), TRUE, "PRIMITIVE")
         /\ AtToken(Dispatch(x, "quote", w), Ticked(f), TRUE, "STR")
<1>1. Ticked(f) = [f EXCEPT ![Len(f)].items = @ + 1]
  BY DEF Ticked
<1>2. /\ Dispatch(x, "number", w) = Value(Fresh(x), "number")
      /\ Dispatch(x, "quote", w) = Value(Fresh(x), "quote") /\ At(Fresh(x), f, TRUE)
  BY ReadsItem
<1>3. /\ Dispatch(x, "number", w) = Enter(Tick(Fresh(x)), "PRIMITIVE")
      /\ Dispatch(x, "quote", w) = Enter(Tick(Fresh(x)), "STR")
  BY <1>2 DEF Value
<1>4. /\ Ticked(f) \in Seq(Frames) /\ Len(Ticked(f)) = Len(f)
      /\ At(Tick(Fresh(x)), Ticked(f), TRUE)
  BY <1>1, <1>2, TickItem, Zenon
<1>5. "PRIMITIVE" \in Tokens /\ "STR" \in Tokens
  BY DEF Tokens
<1> QED BY <1>3, <1>4, <1>5, EnterToken, Zenon

-----------------------------------------------------------------------------
(* Strings and names.                                                       *)

LEMMA ReadsString ==
  ASSUME NEW x, NEW f, NEW inv, AtToken(x, f, inv, "STR"), NEW w
  PROVE  /\ \A c : c # "quote" => AtToken(Dispatch(x, c, w), f, inv, "STR")
         /\ At(Dispatch(x, "quote", w), f, inv)
<1>1. AtToken(Fresh(x), f, inv, "STR") /\ Tail_(Fresh(x).stack) = "STR"
  BY ReadsToken, Zenon
<1>2. \A c : Dispatch(x, c, w) = Str(Fresh(x), c)
  BY <1>1, Dispatches
<1>3. At(Leave(Fresh(x), "STR"), f, inv)
  BY <1>1, LeaveToken DEF Tokens
<1>4. Str(Fresh(x), "quote") = Leave(Fresh(x), "STR") /\ \A c : c # "quote" => Str(Fresh(x), c) = Fresh(x)
  BY DEF Str
<1> QED BY <1>1, <1>2, <1>3, <1>4

LEMMA BeginsName ==
  ASSUME NEW x, NEW f \in Seq(Frames), Len(f) > 0, f[Len(f)].kind = "object",
         At(x, f, FALSE), NEW w
  PROVE  AtToken(Dispatch(x, "quote", w), f, FALSE, "KEY")
<1>1. Dispatch(x, "quote", w) = Object(Fresh(x), "quote") /\ At(Fresh(x), f, FALSE)
  BY ReadsObject, Zenon
<1>2. Dispatch(x, "quote", w) = Enter(Fresh(x), "KEY")
  BY <1>1 DEF Object
<1>3. "KEY" \in Tokens
  BY DEF Tokens
<1> QED BY <1>1, <1>2, <1>3, EnterToken, Zenon

LEMMA ReadsName ==
  ASSUME NEW x, NEW f, NEW inv, AtToken(x, f, inv, "KEY"), NEW w
  PROVE  AtToken(Dispatch(x, "word", w), f, inv, "KEY") /\ Dispatch(x, "word", w).span = w
<1>1. AtToken(Fresh(x), f, inv, "KEY") /\ Tail_(Fresh(x).stack) = "KEY"
  BY ReadsToken, Zenon
<1>2. Dispatch(x, "word", w) = Key(Fresh(x), "word", w)
  BY <1>1, Dispatches
<1>3. Dispatch(x, "word", w) = [Fresh(x) EXCEPT !.span = w]
  BY <1>2 DEF Key
<1> DEFINE y == Fresh(x)
<1> HIDE DEF y
<1>4. Automaton(y) => /\ Automaton([y EXCEPT !.span = w]) /\ [y EXCEPT !.span = w].span = w
                      /\ [y EXCEPT !.span = w].stack = y.stack /\ [y EXCEPT !.span = w].path = y.path
                      /\ [y EXCEPT !.span = w].acc = y.acc /\ [y EXCEPT !.span = w].failed = y.failed
  BY DEF Automaton, Fields
<1>5. AtToken(y, f, inv, "KEY") => AtToken([y EXCEPT !.span = w], f, inv, "KEY") /\ [y EXCEPT !.span = w].span = w
  BY <1>4 DEF AtToken
<1> QED BY <1>1, <1>3, <1>5 DEF y

LEMMA EndsName ==
  ASSUME NEW x, NEW f, NEW inv, AtToken(x, f, inv, "KEY"), NEW w
  PROVE  At(Dispatch(x, "quote", w), f, inv) /\ Dispatch(x, "quote", w).span = x.span
<1>1. AtToken(Fresh(x), f, inv, "KEY") /\ Tail_(Fresh(x).stack) = "KEY" /\ Fresh(x).span = x.span
  BY ReadsToken, Zenon
<1>2. Dispatch(x, "quote", w) = Key(Fresh(x), "quote", w)
  BY <1>1, Dispatches
<1>3. Dispatch(x, "quote", w) = Leave(Fresh(x), "KEY")
  BY <1>2 DEF Key
<1>4. "KEY" \in Tokens
  BY DEF Tokens
<1>5. At(Leave(Fresh(x), "KEY"), f, inv) /\ Leave(Fresh(x), "KEY").span = Fresh(x).span
  BY <1>1, <1>4, LeaveToken, Zenon
<1> QED BY <1>1, <1>3, <1>5

LEMMA ReadsColon ==
  ASSUME NEW x, NEW f \in Seq(Frames), Len(f) > 0, f[Len(f)].kind = "object",
         f[Len(f)].at = Named(x.span), At(x, f, FALSE), NEW w
  PROVE  At(Dispatch(x, ":", w), f, TRUE)
<1>1. Dispatch(x, ":", w) = Object(Fresh(x), ":") /\ At(Fresh(x), f, FALSE) /\ Fresh(x).span = x.span
  BY ReadsObject, Zenon
<1>2. Dispatch(x, ":", w) = Enter(Fresh(x), "VALUE")
  BY <1>1 DEF Object
<1>3. f[Len(f)].at = IF f[Len(f)].kind = "object" THEN Named(Fresh(x).span)
                     ELSE Indexed(f[Len(f)].items)
  BY <1>1
<1> QED BY <1>1, <1>2, <1>3, EnterValue, Zenon

-----------------------------------------------------------------------------
(* Commas and spaces.                                                       *)

\* Between items, only kinds and counts matter of the innermost container.
LEMMA Moved ==
  ASSUME NEW f \in Seq(Frames), Len(f) > 0, NEW g, Len(g) = Len(f),
         \A i \in 1 .. Len(f) : i < Len(f) => g[i] = f[i],
         g[Len(f)].kind = f[Len(f)].kind, g[Len(f)].items = f[Len(f)].items, NEW x
  PROVE  /\ At(x, f, FALSE) => At(x, g, FALSE)
         /\ \A tok : AtToken(x, f, FALSE, tok) => AtToken(x, g, FALSE, tok)
<1>1. \A i \in 1 .. Len(f) : g[i].kind = f[i].kind /\ g[i].items = f[i].items
  BY Innermost, Zenon
<1>2. \A s : Stacked(s, f, FALSE) => Stacked(s, g, FALSE)
  BY <1>1, StackedSame, Zenon
<1>3. \A a : Counted(a, f) => Counted(a, g)
  BY <1>1, CountedSame, Zenon
<1>4. \A p : Pathed(p, f, FALSE) => Pathed(p, g, FALSE)
  <2>1. \A i \in 1 .. Len(f) : i < Len(f) \/ FALSE => g[i].at = f[i].at
    OBVIOUS
  <2> QED BY <2>1, PathedSame, Zenon
<1> QED BY <1>2, <1>3, <1>4, Zenon DEF At, AtToken

LEMMA CommaInObject ==
  ASSUME NEW x, NEW f \in Seq(Frames), Len(f) > 0, Ended(x, f), f[Len(f)].kind = "object", NEW w
  PROVE  At(Dispatch(x, ",", w), f, FALSE)
<1>1. PICK y : At(y, f, TRUE) /\ Quiet(y) /\ Dispatch(x, ",", w) = Value(y, ",")
  BY ReadsEnd
<1>2. At(Leave(y, "VALUE"), f, FALSE)
  BY <1>1, LeaveValue, Zenon
<1>3. Tail_(Leave(y, "VALUE").stack) = "OBJECT"
  BY <1>2, StackedClose DEF At, ScopeOf
<1>4. Value(y, ",") = Leave(y, "VALUE")
  BY <1>3 DEF Value
<1> QED BY <1>1, <1>2, <1>4

LEMMA CommaInArray ==
  ASSUME NEW x, NEW f \in Seq(Frames), Len(f) > 0, Ended(x, f), f[Len(f)].kind = "array", NEW w,
         NEW g, g = [f EXCEPT ![Len(f)].at = Indexed(f[Len(f)].items)]
  PROVE  g \in Seq(Frames) /\ Len(g) = Len(f) /\ At(Dispatch(x, ",", w), g, TRUE)
<1> DEFINE last == f[Len(f)]
           c == [last EXCEPT !.at = Indexed(last.items)]
<1>1. PICK y : At(y, f, TRUE) /\ Quiet(y) /\ Dispatch(x, ",", w) = Value(y, ",")
  BY ReadsEnd
<1>2. At(Leave(y, "VALUE"), f, FALSE)
  BY <1>1, LeaveValue, Zenon
<1>3. Tail_(Leave(y, "VALUE").stack) = "ARRAY"
  BY <1>2, StackedClose DEF At, ScopeOf
<1>4. Value(y, ",") = Enter(Leave(y, "VALUE"), "VALUE")
  BY <1>3 DEF Value
<1>5. last \in Frames
  BY Innermost, Zenon
<1>6. c \in Frames /\ c.kind = last.kind /\ c.items = last.items /\ c.at = Indexed(last.items)
  <2> HIDE DEF last
  <2>1. Indexed(last.items) \in Spans
    BY <1>5 DEF Frames, Spans, Indexed
  <2> QED BY <1>5, <2>1 DEF Frames
<1>7. g = [f EXCEPT ![Len(f)] = c]
  OBVIOUS
<1> HIDE DEF c
<1>8. /\ g \in Seq(Frames) /\ Len(g) = Len(f) /\ g[Len(f)] = c
      /\ \A i \in 1 .. Len(f) : i < Len(f) => g[i] = f[i]
  <2>1. /\ [f EXCEPT ![Len(f)] = c] \in Seq(Frames)
        /\ Len([f EXCEPT ![Len(f)] = c]) = Len(f)
        /\ [f EXCEPT ![Len(f)] = c][Len(f)] = c
        /\ \A i \in 1 .. Len(f) : i < Len(f) => [f EXCEPT ![Len(f)] = c][i] = f[i]
    BY <1>6, Changed, Zenon
  <2> QED BY <1>7, <2>1, Zenon
<1>9. At(Leave(y, "VALUE"), g, FALSE)
  BY <1>2, <1>6, <1>8, Moved, Zenon
<1>10. Len(g) > 0 /\ g[Len(g)].at = IF g[Len(g)].kind = "object" THEN Named(Leave(y, "VALUE").span)
                                    ELSE Indexed(g[Len(g)].items)
  BY <1>6, <1>8
<1> QED BY <1>1, <1>4, <1>8, <1>9, <1>10, EnterValue, Zenon

LEMMA ReadsSpace ==
  ASSUME NEW x, NEW f \in Seq(Frames), NEW w
  PROVE  /\ Len(f) > 0 /\ Ended(x, f) => At(Dispatch(x, "space", w), f, TRUE)
         /\ f = <<>> /\ At(x, f, TRUE) => At(Dispatch(x, "space", w), f, TRUE)
         /\ Len(f) > 0 /\ f[Len(f)].kind = "object" /\ At(x, f, FALSE) =>
              At(Dispatch(x, "space", w), f, FALSE) /\ Dispatch(x, "space", w).span = x.span
<1>1. ASSUME Len(f) > 0, Ended(x, f) PROVE At(Dispatch(x, "space", w), f, TRUE)
  <2>1. PICK y : At(y, f, TRUE) /\ Quiet(y) /\ Dispatch(x, "space", w) = Value(y, "space")
    BY <1>1, ReadsEnd
  <2> QED BY <2>1 DEF Value
<1>2. ASSUME f = <<>>, At(x, f, TRUE) PROVE At(Dispatch(x, "space", w), f, TRUE)
  <2>1. Dispatch(x, "space", w) = Root(Fresh(x), "space") /\ At(Fresh(x), f, TRUE)
    BY <1>2, ReadsRoot
  <2> QED BY <2>1 DEF Root
<1>3. ASSUME Len(f) > 0, f[Len(f)].kind = "object", At(x, f, FALSE)
      PROVE  At(Dispatch(x, "space", w), f, FALSE) /\ Dispatch(x, "space", w).span = x.span
  <2>1. Dispatch(x, "space", w) = Object(Fresh(x), "space") /\ At(Fresh(x), f, FALSE) /\ Fresh(x).span = x.span
    BY <1>3, ReadsObject, Zenon
  <2> QED BY <2>1 DEF Object
<1> QED BY <1>1, <1>2, <1>3

-----------------------------------------------------------------------------
(* The invariant.                                                           *)

Kind(f) == f[Len(f)].kind

Phases == {"root", "end", "first", "value", "done", "string", "atom", "next", "name", "named",
           "colon"}

\* The automaton x in the containers f, when `next` may be written.
Here(x, f, next) ==
  /\ f \in Seq(Frames) /\ next \in Phases
  /\ IF next \in {"root", "end"} THEN f = <<>> /\ At(x, f, TRUE) ELSE Len(f) > 0
  /\ next = "first" => \/ Kind(f) = "object" /\ At(x, f, FALSE)
                       \/ Kind(f) = "array" /\ At(x, f, TRUE)
  /\ next \in {"value", "done"} => At(x, f, TRUE)
  /\ next = "string" => AtToken(x, f, TRUE, "STR")
  /\ next = "atom" => AtToken(x, f, TRUE, "PRIMITIVE")
  /\ next \in {"next", "name", "named", "colon"} => Kind(f) = "object"
  /\ next \in {"next", "colon"} => At(x, f, FALSE)
  /\ next \in {"name", "named"} => AtToken(x, f, FALSE, "KEY")
  /\ next \in {"named", "colon"} => f[Len(f)].at = Named(x.span)

IInv == Here(self, open, phase)

\* Before the first character.
LEMMA Beginning == Here(Unread, <<>>, "root")
<1> DEFINE f == <<>>
<1>1. f \in Seq(Frames) /\ Len(f) = 0
  OBVIOUS
<1>2. /\ Unread.stack = <<"ROOT">> /\ Unread.path = <<>> /\ Unread.acc = <<>>
      /\ Unread.failed = FALSE /\ Automaton(Unread)
  BY DEF Unread, Automaton, Fields
<1>3. Stacked(<<"ROOT">>, f, TRUE)
  <2>1. <<"ROOT">> \in Seq(Scopes) /\ Len(<<"ROOT">>) = 1 /\ <<"ROOT">>[1] = "ROOT"
    BY DEF Scopes
  <2> QED BY <1>1, <2>1 DEF Stacked
<1>4. Pathed(<<>>, f, TRUE) /\ Counted(<<>>, f)
  BY <1>1 DEF Pathed, Counted
<1>5. At(Unread, f, TRUE)
  BY <1>2, <1>3, <1>4 DEF At
<1> HIDE DEF f
<1>6. f = <<>>
  BY DEF f
<1>7. Here(Unread, f, "root")
  BY <1>1, <1>5, <1>6 DEF Here, Phases
<1> QED BY <1>7 DEF f

LEMMA Base == JsonInit => IInv
BY Beginning DEF JsonInit, IInv

-----------------------------------------------------------------------------
(* The steps.                                                               *)

LEMMA Containers ==
  /\ \A kind \in Kinds : /\ Container(kind) \in Frames /\ Container(kind).kind = kind
                         /\ Container(kind).items = 0 /\ Container(kind).at = Indexed(0)
  /\ Begun = Ticked(open)
BY DEF Container, Frames, Spans, Indexed, Begun, Ticked, Depth

\* Wherever an item may begin, and at the root, the automaton waits for one.
LEMMA Awaits ==
  ASSUME IInv, phase = "root" \/ MayBegin
  PROVE  open \in Seq(Frames) /\ At(self, open, TRUE) /\ (MayBegin => Len(open) > 0)
BY DEF IInv, Here, MayBegin, Inner, Depth, Kind

LEMMA OpenObjectKeeps == IInv /\ OpenObject => IInv'
<1> SUFFICES ASSUME IInv, OpenObject PROVE IInv'
  OBVIOUS
<1> DEFINE c == Container("object")
           g == Append(Ticked(open), c)
<1>1. open' = g /\ phase' = "first" /\ self' = Dispatch(self, "{", NoWord)
      /\ (phase = "root" \/ MayBegin)
  BY Containers DEF OpenObject, Open, Read
<1>2. c \in Frames /\ c.kind = "object" /\ c.items = 0
  BY Containers DEF Kinds
<1> HIDE DEF c
<1>3. g \in Seq(Frames) /\ At(self', g, FALSE)
  BY <1>1, <1>2, Awaits, OpensObject, Zenon
<1>4. Len(g) > 0 /\ g[Len(g)] = c
  <2>1. Ticked(open) \in Seq(Frames)
    BY <1>1, Awaits, TickedFrames, Zenon
  <2> QED BY <1>2, <2>1, PushFacts
<1> HIDE DEF g
<1>5. Here(self', g, "first")
  BY <1>2, <1>3, <1>4 DEF Here, Phases, Kind
<1> QED BY <1>1, <1>5 DEF IInv

LEMMA OpenArrayKeeps == IInv /\ OpenArray => IInv'
<1> SUFFICES ASSUME IInv, OpenArray PROVE IInv'
  OBVIOUS
<1> DEFINE c == Container("array")
           g == Append(Ticked(open), c)
<1>1. open' = g /\ phase' = "first" /\ self' = Dispatch(self, "[", NoWord)
      /\ (phase = "root" \/ MayBegin)
  BY Containers DEF OpenArray, Open, Read
<1>2. c \in Frames /\ c.kind = "array" /\ c.items = 0 /\ c.at = Indexed(0)
  BY Containers DEF Kinds
<1> HIDE DEF c
<1>3. g \in Seq(Frames) /\ At(self', g, TRUE)
  BY <1>1, <1>2, Awaits, OpensArray, Zenon
<1>4. Len(g) > 0 /\ g[Len(g)] = c
  <2>1. Ticked(open) \in Seq(Frames)
    BY <1>1, Awaits, TickedFrames, Zenon
  <2> QED BY <1>2, <2>1, PushFacts
<1> HIDE DEF g
<1>5. Here(self', g, "first")
  BY <1>2, <1>3, <1>4 DEF Here, Phases, Kind
<1> QED BY <1>1, <1>5 DEF IInv

\* A container ends: what is left is the item of the one around it.
LEMMA Closed ==
  ASSUME NEW f \in Seq(Frames), Len(f) > 0, NEW x, At(x, Pop(f), TRUE)
  PROVE  Here(x, Pop(f), Complete(Pop(f)))
<1> DEFINE g == Pop(f)
<1>1. g \in Seq(Frames)
  BY PopFacts
<1> HIDE DEF g
<1>2. g = <<>> \/ Len(g) > 0
  BY <1>1, EmptySeq, LenProperties
<1>3. At(x, g, TRUE)
  BY DEF g
<1>4. Here(x, g, Complete(g))
  BY <1>1, <1>2, <1>3 DEF Here, Phases, Complete
<1> QED BY <1>4 DEF g

LEMMA CloseObjectKeeps == IInv /\ CloseObject => IInv'
<1> SUFFICES ASSUME IInv, CloseObject PROVE IInv'
  OBVIOUS
<1>1. /\ open' = Pop(open) /\ phase' = Complete(Pop(open)) /\ self' = Dispatch(self, "}", NoWord)
      /\ phase \in {"first", "done", "atom"} /\ Len(open) > 0 /\ open[Len(open)].kind = "object"
  BY DEF CloseObject, Close, Read, Inner, Depth
<1>2. open \in Seq(Frames)
  BY DEF IInv, Here, Phases
<1>3. \/ At(self, open, FALSE)
      \/ Ended(self, open)
  BY <1>1 DEF IInv, Here, Kind, Ended
<1>4. At(self', Pop(open), TRUE)
  BY <1>1, <1>2, <1>3, ClosesEmpty, ClosesObject, Zenon
<1> QED BY <1>1, <1>2, <1>4, Closed, Zenon DEF IInv

LEMMA CloseArrayKeeps == IInv /\ CloseArray => IInv'
<1> SUFFICES ASSUME IInv, CloseArray PROVE IInv'
  OBVIOUS
<1>1. /\ open' = Pop(open) /\ phase' = Complete(Pop(open)) /\ self' = Dispatch(self, "]", NoWord)
      /\ phase \in {"first", "done", "atom"} /\ Len(open) > 0 /\ open[Len(open)].kind = "array"
  BY DEF CloseArray, Close, Read, Inner, Depth
<1>2. open \in Seq(Frames)
  BY DEF IInv, Here, Phases
<1>3. Ended(self, open)
  BY <1>1 DEF IInv, Here, Kind, Ended
<1>4. At(self', Pop(open), TRUE)
  BY <1>1, <1>2, <1>3, ClosesArray, Zenon
<1> QED BY <1>1, <1>2, <1>4, Closed, Zenon DEF IInv

LEMMA TokenKeeps ==
  IInv /\ ((\E n \in Values : Atom(n)) \/ StringBegins) => IInv'
<1> SUFFICES ASSUME IInv, (\E n \in Values : Atom(n)) \/ StringBegins PROVE IInv'
  OBVIOUS
<1>1. /\ MayBegin /\ open' = Ticked(open)
      /\ \/ phase' = "atom" /\ self' = Dispatch(self, "number", NoWord)
         \/ phase' = "string" /\ self' = Dispatch(self, "quote", NoWord)
  BY Containers DEF Atom, StringBegins, Read
<1>2. open \in Seq(Frames) /\ Len(open) > 0 /\ At(self, open, TRUE)
  BY <1>1, Awaits
<1>3. /\ open' \in Seq(Frames) /\ Len(open') = Len(open)
      /\ AtToken(Dispatch(self, "number", NoWord), open', TRUE, "PRIMITIVE")
      /\ AtToken(Dispatch(self, "quote", NoWord), open', TRUE, "STR")
  BY <1>1, <1>2, BeginsToken, Zenon
<1> QED BY <1>1, <1>2, <1>3 DEF IInv, Here, Phases

LEMMA StringKeeps ==
  IInv /\ (StringEnds \/ \E c \in {"{", "}", "[", "]", ":", ",", "space", "word"} : InString(c)) => IInv'
<1>1. ASSUME IInv, StringEnds PROVE IInv'
  <2>1. open' = open /\ phase = "string" /\ phase' = "done" /\ self' = Dispatch(self, "quote", NoWord)
    BY <1>1 DEF StringEnds, Read
  <2>2. open \in Seq(Frames) /\ Len(open) > 0 /\ AtToken(self, open, TRUE, "STR")
    BY <1>1, <2>1 DEF IInv, Here, Phases
  <2>3. At(self', open, TRUE)
    BY <2>1, <2>2, ReadsString, Zenon
  <2> QED BY <2>1, <2>2, <2>3 DEF IInv, Here, Phases
<1>2. ASSUME IInv, NEW c, c # "quote", InString(c) PROVE IInv'
  <2>1. open' = open /\ phase = "string" /\ phase' = "string" /\ self' = Dispatch(self, c, NoWord)
    BY <1>2 DEF InString, Read, text
  <2>2. open \in Seq(Frames) /\ Len(open) > 0 /\ AtToken(self, open, TRUE, "STR")
    BY <1>2, <2>1 DEF IInv, Here, Phases
  <2>3. AtToken(self', open, TRUE, "STR")
    BY <1>2, <2>1, <2>2, ReadsString, Zenon
  <2> QED BY <2>1, <2>2, <2>3 DEF IInv, Here, Phases
<1>3. \A c \in {"{", "}", "[", "]", ":", ",", "space", "word"} : c # "quote"
  OBVIOUS
<1> QED BY <1>1, <1>2, <1>3

LEMMA NameBeginsKeeps == IInv /\ NameBegins => IInv'
<1> SUFFICES ASSUME IInv, NameBegins PROVE IInv'
  OBVIOUS
<1>1. /\ open' = open /\ phase \in {"first", "next"} /\ phase' = "name"
      /\ self' = Dispatch(self, "quote", NoWord)
      /\ Len(open) > 0 /\ open[Len(open)].kind = "object"
  BY DEF NameBegins, Read, Inner, Depth
<1>2. open \in Seq(Frames) /\ At(self, open, FALSE)
  BY <1>1 DEF IInv, Here, Phases, Kind
<1>3. AtToken(self', open, FALSE, "KEY")
  BY <1>1, <1>2, BeginsName, Zenon
<1> QED BY <1>1, <1>2, <1>3 DEF IInv, Here, Phases, Kind

LEMMA NameKeeps == IInv /\ (\E w \in Names : Name(w)) => IInv'
<1> SUFFICES ASSUME IInv, NEW w \in Names, Name(w) PROVE IInv'
  OBVIOUS
<1> DEFINE last == open[Len(open)]
           c == [last EXCEPT !.at = Named(w), !.used = @ \cup {w}]
<1>1. /\ open' = [open EXCEPT ![Len(open)] = c] /\ phase = "name" /\ phase' = "named"
      /\ self' = Dispatch(self, "word", w)
  BY DEF Name, Read, Depth
<1>2. /\ open \in Seq(Frames) /\ Len(open) > 0 /\ last.kind = "object"
      /\ AtToken(self, open, FALSE, "KEY")
  BY <1>1 DEF IInv, Here, Phases, Kind
<1>3. last \in Frames
  BY <1>2, Innermost, Zenon
<1>4. c \in Frames /\ c.kind = last.kind /\ c.items = last.items /\ c.at = Named(w)
  <2> HIDE DEF last
  <2>1. Named(w) \in Spans
    BY DEF Spans, Named
  <2> QED BY <1>3, <2>1 DEF Frames
<1> HIDE DEF c
<1>5. /\ open' \in Seq(Frames) /\ Len(open') = Len(open) /\ open'[Len(open)] = c
      /\ \A i \in 1 .. Len(open) : i < Len(open) => open'[i] = open[i]
  <2>1. /\ [open EXCEPT ![Len(open)] = c] \in Seq(Frames)
        /\ Len([open EXCEPT ![Len(open)] = c]) = Len(open)
        /\ [open EXCEPT ![Len(open)] = c][Len(open)] = c
        /\ \A i \in 1 .. Len(open) : i < Len(open) => [open EXCEPT ![Len(open)] = c][i] = open[i]
    BY <1>2, <1>4, Changed, Zenon
  <2> QED BY <1>1, <2>1, Zenon
<1>6. AtToken(self', open, FALSE, "KEY") /\ self'.span = w
  BY <1>1, <1>2, ReadsName, Zenon
<1>7. AtToken(self', open', FALSE, "KEY")
  BY <1>2, <1>4, <1>5, <1>6, Moved, Zenon
<1> QED BY <1>1, <1>2, <1>4, <1>5, <1>6, <1>7 DEF IInv, Here, Phases, Kind

LEMMA NameEndsKeeps == IInv /\ NameEnds => IInv'
<1> SUFFICES ASSUME IInv, NameEnds PROVE IInv'
  OBVIOUS
<1>1. open' = open /\ phase = "named" /\ phase' = "colon" /\ self' = Dispatch(self, "quote", NoWord)
  BY DEF NameEnds, Read
<1>2. /\ open \in Seq(Frames) /\ Len(open) > 0 /\ Kind(open) = "object"
      /\ AtToken(self, open, FALSE, "KEY") /\ open[Len(open)].at = Named(self.span)
  BY <1>1 DEF IInv, Here, Phases
<1>3. At(self', open, FALSE) /\ self'.span = self.span
  BY <1>1, <1>2, EndsName, Zenon
<1> QED BY <1>1, <1>2, <1>3 DEF IInv, Here, Phases, Kind

LEMMA ColonKeeps == IInv /\ Colon => IInv'
<1> SUFFICES ASSUME IInv, Colon PROVE IInv'
  OBVIOUS
<1>1. open' = open /\ phase = "colon" /\ phase' = "value" /\ self' = Dispatch(self, ":", NoWord)
  BY DEF Colon, Read
<1>2. /\ open \in Seq(Frames) /\ Len(open) > 0 /\ open[Len(open)].kind = "object"
      /\ At(self, open, FALSE) /\ open[Len(open)].at = Named(self.span)
  BY <1>1 DEF IInv, Here, Phases, Kind
<1>3. At(self', open, TRUE)
  BY <1>1, <1>2, ReadsColon, Zenon
<1> QED BY <1>1, <1>2, <1>3 DEF IInv, Here, Phases

LEMMA CommaKeeps == IInv /\ Comma => IInv'
<1> SUFFICES ASSUME IInv, Comma PROVE IInv'
  OBVIOUS
<1>1. /\ phase \in {"done", "atom"} /\ Len(open) > 0 /\ self' = Dispatch(self, ",", NoWord)
      /\ IF open[Len(open)].kind = "array"
         THEN phase' = "value"
              /\ open' = [open EXCEPT ![Len(open)].at = Indexed(open[Len(open)].items)]
         ELSE phase' = "next" /\ open' = open
  BY DEF Comma, Read, Inner, Depth
<1>2. open \in Seq(Frames) /\ Ended(self, open)
  BY <1>1 DEF IInv, Here, Phases, Ended
<1>3. CASE open[Len(open)].kind = "array"
  <2>1. open' = [open EXCEPT ![Len(open)].at = Indexed(open[Len(open)].items)] /\ phase' = "value"
    BY <1>1, <1>3
  <2>2. open' \in Seq(Frames) /\ Len(open') = Len(open) /\ At(self', open', TRUE)
    BY <1>1, <1>2, <1>3, <2>1, CommaInArray, Zenon
  <2> QED BY <1>1, <2>1, <2>2 DEF IInv, Here, Phases
<1>4. CASE open[Len(open)].kind # "array"
  <2>1. open[Len(open)].kind = "object"
    <3>1. open[Len(open)] \in Frames
      BY <1>1, <1>2, Innermost, Zenon
    <3> QED BY <1>4, <3>1 DEF Frames, Kinds
  <2>2. At(self', open, FALSE)
    BY <1>1, <1>2, <2>1, CommaInObject, Zenon
  <2> QED BY <1>1, <1>2, <1>4, <2>1, <2>2 DEF IInv, Here, Phases, Kind
<1> QED BY <1>3, <1>4

LEMMA SpaceKeeps == IInv /\ Space => IInv'
<1> SUFFICES ASSUME IInv, Space PROVE IInv'
  OBVIOUS
<1>1. /\ open' = open /\ phase \notin {"name", "named", "string"}
      /\ phase' = (IF phase = "atom" THEN "done" ELSE phase)
      /\ self' = Dispatch(self, "space", NoWord)
  BY DEF Space, Read
<1>2. open \in Seq(Frames)
  BY DEF IInv, Here, Phases
<1>3. /\ Len(open) > 0 /\ Ended(self, open) => At(self', open, TRUE)
      /\ open = <<>> /\ At(self, open, TRUE) => At(self', open, TRUE)
      /\ Len(open) > 0 /\ Kind(open) = "object" /\ At(self, open, FALSE) =>
           At(self', open, FALSE) /\ self'.span = self.span
  BY <1>1, <1>2, ReadsSpace, Zenon DEF Kind
<1> QED BY <1>1, <1>2, <1>3 DEF IInv, Here, Phases, Ended

LEMMA Step == IInv /\ [Write]_vars => IInv'
<1> SUFFICES ASSUME IInv, [Write]_vars PROVE IInv'
  OBVIOUS
<1>1. CASE UNCHANGED vars
  BY <1>1 DEF vars, text, IInv
<1>2. CASE Write
  BY <1>2, OpenObjectKeeps, OpenArrayKeeps, CloseObjectKeeps, CloseArrayKeeps, TokenKeeps,
     StringKeeps, NameBeginsKeeps, NameKeeps, NameEndsKeeps, ColonKeeps, CommaKeeps, SpaceKeeps, Zenon
     DEF Write
<1> QED BY <1>1, <1>2

-----------------------------------------------------------------------------
(* The theorem.                                                             *)

LEMMA Knows == IInv => Tracks
<1> SUFFICES ASSUME IInv PROVE Tracks
  OBVIOUS
<1>1. open \in Seq(Frames) /\ Len(open) \in Nat
  BY LenProperties DEF IInv, Here
<1>2. self.failed = FALSE /\ Counted(self.acc, open)
  BY DEF IInv, Here, Phases, At, AtToken
<1>3. phase \in {"value", "string", "atom", "done"} => Pathed(self.path, open, TRUE)
  BY DEF IInv, Here, At, AtToken
<1>4. self.acc = [i \in 1 .. Len(open) |-> open[i].items]
  BY <1>1, <1>2, Listing DEF Counted
<1>5. phase \in {"value", "string", "atom", "done"} => self.path = [i \in 1 .. Len(open) |-> open[i].at]
  BY <1>1, <1>3, Listing DEF Pathed
<1> QED BY <1>2, <1>4, <1>5 DEF Tracks, Where, Depth

\* In a document of any depth and length the automaton fails no assertion, is
\* at the path of the value being written, and counts the items of every open
\* container.
THEOREM Tracking == JsonSpec => []Tracks
BY Knows, Base, Step, PTL DEF JsonSpec

-----------------------------------------------------------------------------
(* The commands.                                                            *)

\* A text is given up by the command that reads it.
LEMMA SeqJsonKeeps == SeqJson => IInv'
<1> SUFFICES ASSUME SeqJson PROVE IInv'
  OBVIOUS
<1>1. open' = <<>> /\ phase' = "root" /\ self' = Unread
  BY DEF SeqJson
<1> QED BY <1>1, Beginning DEF IInv

\* The other commands read no text.
LEMMA CommandReads == Command => UNCHANGED vars \/ SeqJson
<1>1. Reset => UNCHANGED vars
  BY DEF Reset
<1>2. ASSUME NEW o, NEW d, NEW f, SeqPulse(o, d, f) PROVE UNCHANGED vars
  BY <1>2 DEF SeqPulse
<1>3. ASSUME NEW o, NEW d, NEW f, BasicPulse(o, d, f) PROVE UNCHANGED vars
  BY <1>3 DEF BasicPulse
<1>4. ASSUME NEW o, NEW d, NEW f, NEW a, NEW b, NEW run, Sweep(o, d, f, a, b, run)
      PROVE  UNCHANGED vars
  BY <1>4 DEF Sweep
<1>5. ASSUME NEW o, NEW fs, NEW t, NEW data, NEW profiles, NEW ram, NEW ftw, NEW what,
             Xmit(o, fs, t, data, profiles, ram, ftw, what)
      PROVE  UNCHANGED vars
  BY <1>5 DEF Xmit
<1>6. ASSUME NEW o, NEW f, NEW t, NEW data, XmitRamPsk(o, f, t, data) PROVE UNCHANGED vars
  BY <1>6 DEF XmitRamPsk
<1>7. ASSUME NEW o, NEW f1, NEW f2, NEW t, NEW data, XmitFsk(o, f1, f2, t, data)
      PROVE  UNCHANGED vars
  BY <1>5, <1>7 DEF XmitFsk
<1>8. ASSUME NEW o, NEW f, NEW t, NEW data, XmitPsk(o, f, t, data) \/ XmitZcPsk(o, f, t, data)
      PROVE  UNCHANGED vars
  BY <1>5, <1>8 DEF XmitPsk, XmitZcPsk
<1> QED BY <1>1, <1>2, <1>3, <1>4, <1>6, <1>7, <1>8 DEF Command

LEMMA CommandKeeps == IInv /\ Command => IInv'
<1> SUFFICES ASSUME IInv, Command PROVE IInv'
  OBVIOUS
<1>1. UNCHANGED vars \/ SeqJson
  BY CommandReads
<1>2. CASE UNCHANGED vars
  BY <1>2 DEF vars, text, IInv
<1> QED BY <1>1, <1>2, SeqJsonKeeps

\* In texts of any depth and length, between and behind any commands, the
\* automaton fails no assertion, is at the path of the value being written, and
\* counts the items of every open container.
THEOREM TracksLists == Spec => []Tracks
<1>1. Init => IInv
  BY Base DEF Init
<1>2. IInv /\ [Next]_cvars => IInv'
  <2>1. ASSUME IInv, WriteList PROVE IInv'
    BY <2>1, Step DEF WriteList
  <2>2. ASSUME IInv, UNCHANGED cvars PROVE IInv'
    BY <2>2, Step DEF cvars
  <2> QED BY <2>1, <2>2, CommandKeeps DEF Next
<1> QED BY <1>1, <1>2, Knows, PTL DEF Spec

-----------------------------------------------------------------------------
(* Where the queries are.                                                   *)

\* Step w of a query is the current item of the container f, or one before it.
HereAt(f, w) ==
  IF f.kind = "array" THEN w \in Numerals /\ Number(w) = f.at.index
  ELSE w \in f.used /\ w = f.at.word
BehindAt(f, w) ==
  IF f.kind = "array" THEN w \in Numerals /\ Number(w) < f.at.index
  ELSE w \in f.used /\ w # f.at.word

\* The first k steps of q lead along the containers f.
Along(f, q, k) == \A i \in 1 .. k : HereAt(f[i], q[i])

\* The phases in which an item has begun, or is over.
Gone == {"string", "atom", "done", "next", "name"}

\* In the containers f, when p may be written, the item awaited in the
\* innermost is there; or has begun.
Arrived(f, p) == p \in Gone \cup {"value"} \/ (p = "first" /\ f[Len(f)].kind = "array")

\* The text has come to the place of q, if there is one, or is behind it.
Reached(f, p, q) ==
  \/ p = "end"
  \/ \E k \in 1 .. Len(f) : k <= Len(q) /\ Along(f, q, k - 1) /\ BehindAt(f[k], q[k])
  \/ Len(q) < Len(f) /\ Along(f, q, Len(q))
  \/ Len(f) > 0 /\ Along(f, q, Len(f)) /\ \/ Len(q) = Len(f) /\ Arrived(f, p)
                                          \/ Len(q) > Len(f) /\ p \in Gone

\* A container in which p may be written: elements are counted, and the name of
\* a member, once written, is one of those used.
Kept(c, p) ==
  IF c.kind = "array"
  THEN c.at.word = NoWord
       /\ c.items = c.at.index + (IF p \in {"string", "atom", "done"} THEN 1 ELSE 0)
  ELSE p \in {"value", "string", "atom", "done", "named", "colon"} => c.at.word \in c.used

\* No query asks container i for a name.
Fits(f, i) ==
  \A q \in Queries :
    i <= Len(q) /\ (\A j \in 1 .. i - 1 : StepMeant(f[j].at, q[j])) => q[i] \in Numerals

\* The containers of a well-formed text: around the innermost, an item is being
\* written in each.
Orderly(f, p) ==
  \A i \in 1 .. Len(f) : /\ Kept(f[i], IF i < Len(f) THEN "done" ELSE p)
                         /\ f[i].kind = "array" => Fits(f, i)

\* A query has a location where one is, and never had one ahead of the text.
Located ==
  \A q \in Queries :
    /\ loc[q] \in {"none", "here", "read"}
    /\ loc[q] # "none" => Reached(open, phase, q)
    /\ loc[q] = "here" <=> MayBegin /\ Meant(Where, q)

LEMMA Words ==
  /\ \A w \in Numerals : Number(w) \in Nat
  /\ \A q \in Queries : q \in Seq(Names \cup Numerals) /\ Len(q) \in Nat
<1>1. \A q \in Queries : q \in Seq(Names \cup Numerals)
  BY WordsAssumption
<1>2. \A q \in Queries : Len(q) \in Nat
  BY <1>1, LenProperties
<1> QED BY <1>1, <1>2, WordsAssumption

\* No step is at an item and behind it.
LEMMA NeverBoth ==
  ASSUME NEW f \in Frames, NEW w, HereAt(f, w)
  PROVE  ~BehindAt(f, w)
<1>1. f.at.index \in Nat
  BY DEF Frames, Spans
<1>2. CASE f.kind = "array"
  <2>1. w \in Numerals /\ Number(w) = f.at.index
    BY <1>2 DEF HereAt
  <2>2. ~(Number(w) < f.at.index)
    BY <1>1, <2>1
  <2> QED BY <1>2, <2>2 DEF BehindAt
<1>3. CASE f.kind # "array"
  BY <1>3 DEF HereAt, BehindAt
<1> QED BY <1>2, <1>3

\* The containers g after f: around the innermost nothing has changed.
Around(f, g, n) ==
  \A i \in 1 .. n : /\ \A w : HereAt(g[i], w) <=> HereAt(f[i], w)
                    /\ \A w : BehindAt(g[i], w) <=> BehindAt(f[i], w)

LEMMA AlongAround ==
  ASSUME NEW f, NEW g, NEW n \in Nat, Around(f, g, n), NEW q, NEW k \in Nat, k <= n
  PROVE  Along(g, q, k) <=> Along(f, q, k)
<1>1. \A i \in 1 .. k : i \in 1 .. n
  OBVIOUS
<1> QED BY <1>1, Zenon DEF Along, Around

LEMMA Itself == \A x \in Nat : x <= x
  OBVIOUS

LEMMA Before ==
  ASSUME NEW n \in Nat \ {0}
  PROVE  /\ n - 1 \in Nat
         /\ \A k \in 1 .. n : k - 1 \in Nat /\ k - 1 <= n - 1 /\ (k = n \/ k \in 1 .. n - 1)
<1>1. n - 1 \in Nat
  OBVIOUS
<1>2. ASSUME NEW k \in 1 .. n PROVE k - 1 \in Nat /\ k - 1 <= n - 1
  OBVIOUS
<1>3. ASSUME NEW k \in 1 .. n, k # n PROVE k \in 1 .. n - 1
  BY <1>3
<1> QED BY <1>1, <1>2, <1>3, Zenon

LEMMA AlongMore ==
  ASSUME NEW f, NEW q, NEW n \in Nat \ {0}
  PROVE  Along(f, q, n) <=> Along(f, q, n - 1) /\ HereAt(f[n], q[n])
<1>1. \A i : i \in 1 .. n <=> i \in 1 .. n - 1 \/ i = n
  OBVIOUS
<1> QED BY <1>1, Zenon DEF Along

LEMMA AlongLess ==
  ASSUME NEW f, NEW q, NEW n \in Nat, NEW k \in Nat, k <= n, Along(f, q, n)
  PROVE  Along(f, q, k)
<1>1. \A i \in 1 .. k : i \in 1 .. n
  OBVIOUS
<1> QED BY <1>1, Zenon DEF Along

\* The text goes on in the innermost container.
LEMMA Onward ==
  ASSUME NEW f \in Seq(Frames), Len(f) > 0, NEW g, Len(g) = Len(f),
         Around(f, g, Len(f) - 1),
         \A w : BehindAt(f[Len(f)], w) => BehindAt(g[Len(f)], w),
         NEW p, NEW r, p # "end",
         \A w : HereAt(f[Len(f)], w) =>
           \/ BehindAt(g[Len(f)], w)
           \/ HereAt(g[Len(f)], w) /\ (Arrived(f, p) => Arrived(g, r)) /\ (p \in Gone => r \in Gone),
         NEW q \in Queries, Reached(f, p, q)
  PROVE  Reached(g, r, q)
<1> DEFINE n == Len(f)
           m == Len(q)
<1>1. n \in Nat \ {0} /\ n - 1 \in Nat /\ m \in Nat
  BY Innermost, Words
<1>2. \A k \in Nat : k <= n - 1 => (Along(g, q, k) <=> Along(f, q, k))
  BY <1>1, AlongAround, Zenon
<1>3. \A k \in 1 .. n : k - 1 \in Nat /\ k - 1 <= n - 1 /\ (k = n \/ k \in 1 .. n - 1)
  BY <1>1, Before, Zenon
<1>4. ASSUME NEW k \in 1 .. n, k <= m, Along(f, q, k - 1), BehindAt(f[k], q[k])
      PROVE  Reached(g, r, q)
  <2>1. Along(g, q, k - 1)
    BY <1>2, <1>3, <1>4, Zenon
  <2>2. BehindAt(g[k], q[k])
    BY <1>3, <1>4, Zenon DEF Around
  <2> QED BY <1>4, <2>1, <2>2, Zenon DEF Reached
<1>5. ASSUME m < n, Along(f, q, m) PROVE Reached(g, r, q)
  <2>1. m <= n - 1
    BY <1>1, <1>5
  <2>2. Along(g, q, m)
    BY <1>1, <1>2, <1>5, <2>1, Zenon
  <2> QED BY <1>5, <2>2, Zenon DEF Reached
<1>6. ASSUME Along(f, q, n), (m = n /\ Arrived(f, p)) \/ (m > n /\ p \in Gone)
      PROVE  Reached(g, r, q)
  <2>1. Along(f, q, n - 1) /\ HereAt(f[n], q[n])
    BY <1>1, <1>6, AlongMore, Zenon
  <2>2. n \in 1 .. n /\ n <= m /\ n - 1 <= n - 1 /\ n > 0
    BY <1>1, <1>6
  <2>3. Along(g, q, n - 1)
    BY <1>1, <1>2, <2>1, <2>2, Zenon
  <2>4. CASE BehindAt(g[n], q[n])
    BY <2>2, <2>3, <2>4, Zenon DEF Reached
  <2>5. CASE HereAt(g[n], q[n]) /\ (Arrived(f, p) => Arrived(g, r)) /\ (p \in Gone => r \in Gone)
    <3>1. Along(g, q, n)
      BY <1>1, <2>3, <2>5, AlongMore, Zenon
    <3> QED BY <1>6, <2>2, <2>5, <3>1, Zenon DEF Reached
  <2> QED BY <2>1, <2>4, <2>5, Zenon
<1> QED BY <1>4, <1>5, <1>6, Zenon DEF Reached

\* The text has not come to the place of q: all around the innermost container
\* leads there, and its current item is not there, or awaited.
LEMMA Ahead ==
  ASSUME NEW f \in Seq(Frames), NEW p, p # "end", NEW q \in Queries, Len(f) <= Len(q),
         Along(f, q, Len(f) - 1),
         Len(f) > 0 => ~BehindAt(f[Len(f)], q[Len(f)]),
         Len(f) > 0 /\ HereAt(f[Len(f)], q[Len(f)]) =>
           p \notin Gone /\ (Len(q) > Len(f) \/ ~Arrived(f, p))
  PROVE  ~Reached(f, p, q)
<1> DEFINE n == Len(f)
           m == Len(q)
<1>1. n \in Nat /\ m \in Nat /\ n <= m /\ ~(m < n)
  <2>1. n \in Nat /\ m \in Nat
    BY LenProperties, Words
  <2> HIDE DEF n, m
  <2>2. n <= m => ~(m < n)
    BY <2>1
  <2> QED BY <2>1, <2>2 DEF n, m
<1>2. ASSUME NEW k \in 1 .. n, BehindAt(f[k], q[k]) PROVE FALSE
  <2>1. k = n \/ k \in 1 .. n - 1
    BY <1>1
  <2>2. n > 0
    BY <1>1
  <2>3. CASE k = n
    BY <1>2, <2>2, <2>3
  <2>4. CASE k \in 1 .. n - 1
    <3>1. HereAt(f[k], q[k])
      BY <2>4 DEF Along
    <3>2. f[k] \in Frames
      BY ElementOfSeq
    <3> QED BY <1>2, <3>1, <3>2, NeverBoth, Zenon
  <2> QED BY <2>1, <2>3, <2>4
<1>3. ASSUME n > 0, Along(f, q, n), (m = n /\ Arrived(f, p)) \/ (m > n /\ p \in Gone) PROVE FALSE
  <2>1. n \in Nat \ {0} /\ (m = n => ~(m > n))
    <3> HIDE DEF n, m
    <3> QED BY <1>1, <1>3
  <2>2. HereAt(f[n], q[n])
    BY <1>3, <2>1, AlongMore, Zenon
  <2> QED BY <1>3, <2>1, <2>2, Zenon
<1> HIDE DEF n, m
<1>4. ~Reached(f, p, q)
  BY <1>1, <1>2, <1>3, Zenon DEF Reached, n, m
<1> QED BY <1>4

\* A container is opened: in g, f with the item counted and a container more.
LEMMA Inward ==
  ASSUME NEW f \in Seq(Frames), NEW g, Len(g) = Len(f) + 1, Around(f, g, Len(f)),
         NEW p, p \notin Gone \cup {"end"}, NEW r, NEW q \in Queries, Reached(f, p, q)
  PROVE  Reached(g, r, q)
<1> DEFINE n == Len(f)
           m == Len(q)
<1>1. n \in Nat /\ m \in Nat
  BY LenProperties, Words
<1>2. \A k \in Nat : k <= n => (Along(g, q, k) <=> Along(f, q, k))
  BY <1>1, AlongAround, Zenon
<1>3. ASSUME NEW k \in 1 .. n, k <= m, Along(f, q, k - 1), BehindAt(f[k], q[k])
      PROVE  Reached(g, r, q)
  <2>1. k - 1 \in Nat /\ k - 1 <= n /\ k \in 1 .. Len(g)
    BY <1>1
  <2>2. Along(g, q, k - 1)
    BY <1>2, <1>3, <2>1, Zenon
  <2>3. BehindAt(g[k], q[k])
    BY <1>3 DEF Around
  <2> QED BY <1>3, <2>1, <2>2, <2>3, Zenon DEF Reached
<1>4. ASSUME m <= n, Along(f, q, m) PROVE Reached(g, r, q)
  <2>1. Along(g, q, m)
    BY <1>1, <1>2, <1>4, Zenon
  <2>2. m < Len(g)
    BY <1>1, <1>4
  <2> QED BY <2>1, <2>2, Zenon DEF Reached
<1>5. p # "end" /\ p \notin Gone
  OBVIOUS
<1>6. m < n \/ m = n => m <= n
  <2> HIDE DEF m, n
  <2> QED BY <1>1
<1>7. m = n => (Along(f, q, n) <=> Along(f, q, m))
  <2> HIDE DEF m, n
  <2> QED OBVIOUS
<1> QED BY <1>3, <1>4, <1>5, <1>6, <1>7, Zenon DEF Reached

\* A container is closed, and another goes on.
LEMMA Outward ==
  ASSUME NEW f \in Seq(Frames), NEW g, Len(g) = Len(f) - 1, Len(g) > 0, Around(f, g, Len(g)),
         NEW p, p # "end", NEW q \in Queries, Reached(f, p, q)
  PROVE  Reached(g, "done", q)
<1> DEFINE n == Len(f)
           m == Len(q)
<1>1. n \in Nat /\ m \in Nat /\ n > 1 /\ Len(g) = n - 1
  <2>1. n \in Nat /\ m \in Nat
    BY LenProperties, Words
  <2> QED BY <2>1
<1>2. \A k \in Nat : k <= n - 1 => (Along(g, q, k) <=> Along(f, q, k))
  <2>1. n - 1 \in Nat
    BY <1>1
  <2> QED BY <1>1, <2>1, AlongAround, Zenon
<1>3. ASSUME m >= n, Along(f, q, n - 1) PROVE Reached(g, "done", q)
  <2>1. n - 1 \in Nat /\ n - 1 <= n - 1 /\ m > n - 1
    BY <1>1, <1>3
  <2>2. Along(g, q, Len(g))
    BY <1>1, <1>2, <1>3, <2>1, Zenon
  <2>3. m > Len(g) /\ "done" \in Gone
    BY <1>1, <2>1 DEF Gone
  <2> QED BY <2>2, <2>3, Zenon DEF Reached
<1>4. ASSUME NEW k \in 1 .. n, k <= m, Along(f, q, k - 1), BehindAt(f[k], q[k])
      PROVE  Reached(g, "done", q)
  <2>1. CASE k = n
    <3>1. m >= n
      BY <1>1, <1>4, <2>1
    <3> QED BY <1>3, <1>4, <2>1, <3>1
  <2>2. CASE k # n
    <3>1. k - 1 \in Nat /\ k - 1 <= n - 1 /\ k \in 1 .. Len(g)
      BY <1>1, <2>2
    <3>2. Along(g, q, k - 1)
      BY <1>2, <1>4, <3>1, Zenon
    <3>3. BehindAt(g[k], q[k])
      BY <1>4, <3>1 DEF Around
    <3> QED BY <1>4, <3>1, <3>2, <3>3, Zenon DEF Reached
  <2> QED BY <2>1, <2>2
<1>5. ASSUME m < n, Along(f, q, m) PROVE Reached(g, "done", q)
  <2>1. m <= n - 1 /\ (m < n - 1 \/ m = n - 1)
    BY <1>1, <1>5
  <2>2. Along(g, q, m)
    BY <1>1, <1>2, <1>5, <2>1, Zenon
  <2>3. "done" \in Gone
    BY DEF Gone
  <2>4. CASE m < n - 1
    <3>1. m < Len(g)
      BY <1>1, <2>4
    <3> QED BY <2>2, <3>1, Zenon DEF Reached
  <2>5. CASE m = n - 1
    <3>1. m = Len(g) /\ Arrived(g, "done")
      BY <1>1, <2>5, <2>3 DEF Arrived
    <3>2. Along(g, q, Len(g))
      BY <2>2, <3>1
    <3> QED BY <3>1, <3>2, Zenon DEF Reached
  <2> QED BY <2>1, <2>4, <2>5
<1>6. ASSUME Along(f, q, n), m = n \/ m > n PROVE Reached(g, "done", q)
  <2>1. n \in Nat \ {0} /\ m >= n
    BY <1>1, <1>6
  <2>2. Along(f, q, n - 1)
    BY <1>6, <2>1, AlongMore, Zenon
  <2> QED BY <1>3, <2>1, <2>2
<1> QED BY <1>4, <1>5, <1>6, Zenon DEF Reached

-----------------------------------------------------------------------------
(* Paths and queries.                                                       *)

\* The place of an item in a container that keeps its shape.
LEMMA HereMeant ==
  ASSUME NEW c \in Frames, NEW p, Kept(c, p),
         c.kind = "array" \/ p \in {"value", "string", "atom", "done", "named", "colon"}
  PROVE  /\ \A w : HereAt(c, w) <=> StepMeant(c.at, w)
         /\ c.at.word = NoWord <=> c.kind = "array"
<1>1. c.used \in SUBSET Names /\ NoWord \notin Names
  BY WordsAssumption DEF Frames
<1>2. CASE c.kind = "array"
  BY <1>2 DEF Kept, HereAt, StepMeant
<1>3. CASE c.kind # "array"
  <2>1. c.at.word \in c.used
    BY <1>3 DEF Kept
  <2>2. c.at.word # NoWord
    BY <1>1, <2>1
  <2> QED BY <1>3, <2>1, <2>2 DEF HereAt, StepMeant
<1> QED BY <1>2, <1>3

\* The first k containers are those of a well-formed text, with items in them.
Placed(f, k) ==
  \A i \in 1 .. k : /\ \A w : HereAt(f[i], w) <=> StepMeant(f[i].at, w)
                    /\ f[i].at.word = NoWord => Fits(f, i)

LEMMA OrderlyPlaces ==
  ASSUME NEW f \in Seq(Frames), NEW p, Orderly(f, p), NEW k \in Nat, k <= Len(f),
         k = Len(f) /\ k > 0 =>
           \/ f[Len(f)].kind = "array"
           \/ p \in {"value", "string", "atom", "done", "named", "colon"}
  PROVE  Placed(f, k)
<1>1. Len(f) \in Nat
  BY LenProperties
<1>2. SUFFICES ASSUME NEW i \in 1 .. k
               PROVE  /\ \A w : HereAt(f[i], w) <=> StepMeant(f[i].at, w)
                      /\ f[i].at.word = NoWord => Fits(f, i)
  BY Zenon DEF Placed
<1>3. i \in 1 .. Len(f) /\ (i < Len(f) \/ (i = Len(f) /\ k = Len(f) /\ k > 0 /\ ~(i < Len(f))))
  <2> DEFINE n == Len(f)
  <2> HIDE DEF n
  <2>1. n \in Nat /\ k <= n
    BY <1>1 DEF n
  <2>2. i \in 1 .. n /\ (i < n \/ (i = n /\ k = n /\ k > 0 /\ ~(i < n)))
    BY <2>1
  <2> QED BY <2>2 DEF n
<1>4. f[i] \in Frames
  BY <1>3, ElementOfSeq
<1>5. f[i].kind = "array" => Fits(f, i)
  BY <1>3, Zenon DEF Orderly
<1>6. Kept(f[i], IF i < Len(f) THEN "done" ELSE p)
  BY <1>3, Zenon DEF Orderly
<1>7. CASE i < Len(f)
  <2>1. Kept(f[i], "done") /\ "done" \in {"value", "string", "atom", "done", "named", "colon"}
    BY <1>6, <1>7
  <2>2. /\ \A w : HereAt(f[i], w) <=> StepMeant(f[i].at, w)
        /\ f[i].at.word = NoWord <=> f[i].kind = "array"
    BY <1>4, <2>1, HereMeant, Zenon
  <2> QED BY <1>5, <2>2
<1>8. CASE ~(i < Len(f))
  <2>1. Kept(f[i], p) /\ i = Len(f)
    BY <1>3, <1>6, <1>8
  <2>2. f[i].kind = "array" \/ p \in {"value", "string", "atom", "done", "named", "colon"}
    BY <1>3, <2>1
  <2>3. /\ \A w : HereAt(f[i], w) <=> StepMeant(f[i].at, w)
        /\ f[i].at.word = NoWord <=> f[i].kind = "array"
    BY <1>4, <2>1, <2>2, HereMeant, Zenon
  <2> QED BY <1>5, <2>3
<1> QED BY <1>7, <1>8

\* A path is meant where the containers lead along it,
LEMMA MeantAlong ==
  ASSUME NEW f, NEW inv, NEW p, Pathed(p, f, inv), Placed(f, Len(p)), NEW q
  PROVE  Meant(p, q) <=> Len(q) = Len(p) /\ Along(f, q, Len(p))
<1>1. \A i \in 1 .. Len(p) : StepMeant(p[i], q[i]) <=> HereAt(f[i], q[i])
  BY Zenon DEF Pathed, Placed
<1>2. CASE Len(q) = Len(p)
  BY <1>1, <1>2 DEF Meant, Along
<1>3. CASE Len(q) # Len(p)
  BY <1>3 DEF Meant
<1> QED BY <1>2, <1>3

\* and json_match_path() finds it there and nowhere else: the first step that it
\* took for what it is not would be a name asked of an array.
LEMMA Hits ==
  ASSUME NEW f, NEW inv, NEW p, Pathed(p, f, inv), Placed(f, Len(p)), NEW q \in Queries
  PROVE  Matches(p, q) <=> Meant(p, q)
<1>1. Len(p) \in Nat /\ Len(q) \in Nat
  BY Words, LenProperties DEF Pathed
<1>2. Meant(p, q) => Matches(p, q)
  BY DEF Meant, Matches, StepMeant
<1>3. ASSUME Matches(p, q) PROVE Meant(p, q)
  <2> DEFINE Wrong == {i \in Nat : i \in 1 .. Len(q) /\ ~StepMeant(p[i], q[i])}
  <2>1. Len(p) = Len(q)
    BY <1>3 DEF Matches
  <2>2. CASE Wrong = {}
    <3>1. \A i \in 1 .. Len(q) : i \in Nat
      BY <1>1
    <3>2. \A i \in 1 .. Len(q) : StepMeant(p[i], q[i])
      BY <2>2, <3>1
    <3> QED BY <2>1, <3>2 DEF Meant
  <2>3. CASE Wrong # {}
    <3>1. Wrong \subseteq Nat
      OBVIOUS
    <3> HIDE DEF Wrong
    <3>2. PICK m \in Wrong : \A i \in Wrong : <<i, m>> \notin OpToRel(<, Nat)
      BY <2>3, <3>1, WFMin, NatLessThanWellFounded, Zenon
    <3>3. \A i \in Wrong : ~(i < m)
      BY <3>1, <3>2 DEF OpToRel
    <3>4. m \in 1 .. Len(q) /\ m \in 1 .. Len(p) /\ ~StepMeant(p[m], q[m]) /\ m \in Nat /\ m <= Len(q)
      BY <1>1, <2>1 DEF Wrong
    <3>5. p[m] = f[m].at
      BY <3>4 DEF Pathed
    <3>6. CASE p[m].word # NoWord
      BY <1>3, <3>4, <3>6 DEF Matches, StepMeant
    <3>7. CASE p[m].word = NoWord
      <4>1. Fits(f, m)
        BY <3>4, <3>5, <3>7, Zenon DEF Placed
      <4>2. ASSUME NEW j \in 1 .. m - 1 PROVE StepMeant(f[j].at, q[j])
        <5>1. j \in Nat /\ j < m /\ j \in 1 .. Len(q) /\ j \in 1 .. Len(p)
          BY <1>1, <2>1, <3>4
        <5>2. StepMeant(p[j], q[j])
          BY <3>3, <5>1 DEF Wrong
        <5> QED BY <5>1, <5>2 DEF Pathed
      <4>3. q[m] \in Numerals
        BY <3>4, <4>1, <4>2, Zenon DEF Fits
      <4> QED BY <1>3, <3>4, <3>7, <4>3 DEF Matches, StepMeant
    <3> QED BY <3>6, <3>7
  <2> QED BY <2>2, <2>3
<1> QED BY <1>2, <1>3

-----------------------------------------------------------------------------
(* What the loops of the queries notice of a character.                     *)

\* An item has begun; or a container ended, at path p and with n items.
ItemBegins(x) == x.fresh = TRUE /\ x.left = <<>>
ContainerEnds(x, p, n) == x.fresh = FALSE /\ x.left = <<p, n>>

\* The automaton at rest, in an item or between items.
LEMMA Rests ==
  ASSUME NEW x, NEW f, NEW inv, At(x, f, inv)
  PROVE  /\ Automaton(x) /\ Automaton(Fresh(x)) /\ Quiet(Fresh(x))
         /\ Automaton(Tick(Fresh(x))) /\ Quiet(Tick(Fresh(x)))
<1>1. Automaton(x)
  BY DEF At
<1>2. Automaton(Fresh(x)) /\ Quiet(Fresh(x))
  BY <1>1, FreshFields, Zenon
<1> QED BY <1>1, <1>2, TickFields, QuietFields, Zenon

LEMMA NoticesOpening ==
  ASSUME NEW x, NEW f \in Seq(Frames), At(x, f, TRUE), NEW w
  PROVE  Quiet(Dispatch(x, "{", w)) /\ ItemBegins(Dispatch(x, "[", w))
<1>1. ASSUME NEW y, Automaton(y), Quiet(y)
      PROVE  Quiet(Enter(y, "OBJECT")) /\ ItemBegins(Enter(Enter(y, "ARRAY"), "VALUE"))
  <2>1. "OBJECT" # "VALUE" /\ "ARRAY" # "VALUE"
    OBVIOUS
  <2>2. Quiet(Enter(y, "OBJECT")) /\ Quiet(Enter(y, "ARRAY"))
    BY <1>1, <2>1, QuietFields, Zenon
  <2>3. Automaton(Enter(y, "ARRAY"))
    BY <1>1, EnterFields
  <2> QED BY <2>2, <2>3, QuietFields, Zenon DEF ItemBegins
<1>2. CASE f = <<>>
  <2>1. Dispatch(x, "{", w) = Root(Fresh(x), "{") /\ Dispatch(x, "[", w) = Root(Fresh(x), "[")
    BY <1>2, ReadsRoot
  <2>2. /\ Dispatch(x, "{", w) = Enter(Fresh(x), "OBJECT")
        /\ Dispatch(x, "[", w) = Enter(Enter(Fresh(x), "ARRAY"), "VALUE")
    BY <2>1 DEF Root
  <2> QED BY <1>1, <2>2, Rests, Zenon
<1>3. CASE f # <<>>
  <2>1. Len(f) > 0
    BY <1>3, EmptySeq, LenProperties
  <2>2. Dispatch(x, "{", w) = Value(Fresh(x), "{") /\ Dispatch(x, "[", w) = Value(Fresh(x), "[")
    BY <2>1, ReadsItem
  <2>3. /\ Dispatch(x, "{", w) = Enter(Tick(Fresh(x)), "OBJECT")
        /\ Dispatch(x, "[", w) = Enter(Enter(Tick(Fresh(x)), "ARRAY"), "VALUE")
    BY <2>2 DEF Value
  <2> QED BY <1>1, <2>3, Rests, Zenon
<1> QED BY <1>2, <1>3

LEMMA NoticesToken ==
  ASSUME NEW x, NEW f \in Seq(Frames), Len(f) > 0, At(x, f, TRUE), NEW w
  PROVE  Quiet(Dispatch(x, "number", w)) /\ Quiet(Dispatch(x, "quote", w))
<1>1. Dispatch(x, "number", w) = Value(Fresh(x), "number") /\ Dispatch(x, "quote", w) = Value(Fresh(x), "quote")
  BY ReadsItem
<1>2. /\ Dispatch(x, "number", w) = Enter(Tick(Fresh(x)), "PRIMITIVE")
      /\ Dispatch(x, "quote", w) = Enter(Tick(Fresh(x)), "STR")
  BY <1>1 DEF Value
<1>3. "PRIMITIVE" # "VALUE" /\ "STR" # "VALUE"
  OBVIOUS
<1>4. Automaton(Tick(Fresh(x))) /\ Quiet(Tick(Fresh(x)))
  BY Rests, Zenon
<1>5. Quiet(Enter(Tick(Fresh(x)), "PRIMITIVE")) /\ Quiet(Enter(Tick(Fresh(x)), "STR"))
  BY <1>3, <1>4, QuietFields, Zenon
<1> QED BY <1>2, <1>5, Zenon

LEMMA NoticesString ==
  ASSUME NEW x, NEW f, NEW inv, AtToken(x, f, inv, "STR"), NEW c, NEW w
  PROVE  Quiet(Dispatch(x, c, w))
<1>0. Automaton(x)
  BY Zenon DEF AtToken
<1>1. Tail_(Fresh(x).stack) = "STR"
  BY ReadsToken, Zenon
<1>2. Dispatch(x, c, w) = Str(Fresh(x), c)
  BY <1>1, Dispatches
<1>3. Automaton(Fresh(x)) /\ Quiet(Fresh(x)) /\ "STR" \notin {"OBJECT", "ARRAY"}
  BY <1>0, FreshFields
<1>4. Quiet(Leave(Fresh(x), "STR"))
  BY <1>3, QuietFields, Zenon
<1> QED BY <1>2, <1>3, <1>4 DEF Str

LEMMA NoticesName ==
  ASSUME NEW x, NEW f, NEW inv, AtToken(x, f, inv, "KEY"), NEW c, NEW w
  PROVE  Quiet(Dispatch(x, c, w))
<1>0. Automaton(x)
  BY Zenon DEF AtToken
<1>1. Tail_(Fresh(x).stack) = "KEY"
  BY ReadsToken, Zenon
<1>2. Dispatch(x, c, w) = Key(Fresh(x), c, w)
  BY <1>1, Dispatches
<1>3. Automaton(Fresh(x)) /\ Quiet(Fresh(x)) /\ "KEY" \notin {"OBJECT", "ARRAY"}
  BY <1>0, FreshFields
<1>4. Quiet(Leave(Fresh(x), "KEY")) /\ Quiet([Fresh(x) EXCEPT !.span = w])
  BY <1>3, QuietFields, Zenon
<1> QED BY <1>2, <1>4 DEF Key

\* The path and the count of the innermost container, as they are left.
LEMMA NoticesClosing ==
  ASSUME NEW x, NEW f \in Seq(Frames), Len(f) > 0, At(x, f, FALSE), Quiet(x)
  PROVE  \E p : Pathed(p, f, FALSE) /\ ContainerEnds(Leave(x, ScopeOf(f[Len(f)].kind)), p, f[Len(f)].items)
<1>1. ScopeOf(f[Len(f)].kind) \in {"OBJECT", "ARRAY"}
  BY DEF ScopeOf
<1>2. Automaton(x) /\ Pathed(x.path, f, FALSE)
  BY DEF At
<1>3. Tail_(x.acc) = f[Len(f)].items
  BY Innermost DEF At, Counted, Tail_
<1>4. ContainerEnds(Leave(x, ScopeOf(f[Len(f)].kind)), x.path, Tail_(x.acc))
  BY <1>1, <1>2, QuietFields, Zenon DEF ContainerEnds
<1> QED BY <1>2, <1>3, <1>4

LEMMA NoticesInObject ==
  ASSUME NEW x, NEW f \in Seq(Frames), Len(f) > 0, f[Len(f)].kind = "object",
         At(x, f, FALSE), NEW w
  PROVE  /\ Quiet(Dispatch(x, "quote", w)) /\ Quiet(Dispatch(x, "space", w))
         /\ ItemBegins(Dispatch(x, ":", w))
         /\ \E p : Pathed(p, f, FALSE) /\ ContainerEnds(Dispatch(x, "}", w), p, f[Len(f)].items)
<1>1. /\ Dispatch(x, "quote", w) = Object(Fresh(x), "quote")
      /\ Dispatch(x, "space", w) = Object(Fresh(x), "space")
      /\ Dispatch(x, ":", w) = Object(Fresh(x), ":")
      /\ Dispatch(x, "}", w) = Object(Fresh(x), "}") /\ At(Fresh(x), f, FALSE)
  BY ReadsObject, Zenon
<1>2. /\ Dispatch(x, "quote", w) = Enter(Fresh(x), "KEY")
      /\ Dispatch(x, "space", w) = Fresh(x)
      /\ Dispatch(x, ":", w) = Enter(Fresh(x), "VALUE")
      /\ Dispatch(x, "}", w) = Leave(Fresh(x), ScopeOf(f[Len(f)].kind))
  BY <1>1 DEF Object, ScopeOf
<1>3. Automaton(Fresh(x)) /\ Quiet(Fresh(x)) /\ "KEY" # "VALUE"
  BY Rests
<1>4. Quiet(Enter(Fresh(x), "KEY")) /\ ItemBegins(Enter(Fresh(x), "VALUE"))
  BY <1>3, QuietFields, Zenon DEF ItemBegins
<1>5. \E p : Pathed(p, f, FALSE) /\ ContainerEnds(Leave(Fresh(x), ScopeOf(f[Len(f)].kind)), p, f[Len(f)].items)
  BY <1>1, <1>3, NoticesClosing, Zenon
<1> QED BY <1>2, <1>3, <1>4, <1>5

LEMMA NoticesBehindItem ==
  ASSUME NEW x, NEW f \in Seq(Frames), Len(f) > 0, Ended(x, f), NEW w
  PROVE  /\ Quiet(Dispatch(x, "space", w))
         /\ f[Len(f)].kind = "object" => Quiet(Dispatch(x, ",", w))
         /\ f[Len(f)].kind = "array" => ItemBegins(Dispatch(x, ",", w))
         /\ f[Len(f)].kind = "object" =>
              \E p : Pathed(p, f, FALSE) /\ ContainerEnds(Dispatch(x, "}", w), p, f[Len(f)].items)
         /\ f[Len(f)].kind = "array" =>
              \E p : Pathed(p, f, FALSE) /\ ContainerEnds(Dispatch(x, "]", w), p, f[Len(f)].items)
<1> DEFINE scope == ScopeOf(f[Len(f)].kind)
<1>1. ASSUME NEW y, At(y, f, TRUE), Quiet(y)
      PROVE  /\ At(Leave(y, "VALUE"), f, FALSE) /\ Quiet(Leave(y, "VALUE"))
             /\ Automaton(Leave(y, "VALUE")) /\ Tail_(Leave(y, "VALUE").stack) = scope
             /\ ItemBegins(Enter(Leave(y, "VALUE"), "VALUE"))
             /\ \E p : Pathed(p, f, FALSE) /\ ContainerEnds(Leave(Leave(y, "VALUE"), scope), p, f[Len(f)].items)
  <2>1. At(Leave(y, "VALUE"), f, FALSE)
    BY <1>1, LeaveValue, Zenon
  <2>2. Automaton(y) /\ "VALUE" \notin {"OBJECT", "ARRAY"}
    BY <1>1 DEF At
  <2>3. Quiet(Leave(y, "VALUE")) /\ Automaton(Leave(y, "VALUE"))
    BY <1>1, <2>1, <2>2, QuietFields, Zenon DEF At
  <2>4. Tail_(Leave(y, "VALUE").stack) = scope
    BY <2>1, StackedClose DEF At
  <2>5. ItemBegins(Enter(Leave(y, "VALUE"), "VALUE"))
    BY <2>3, QuietFields, Zenon DEF ItemBegins
  <2>6. \E p : Pathed(p, f, FALSE) /\ ContainerEnds(Leave(Leave(y, "VALUE"), scope), p, f[Len(f)].items)
    BY <2>1, <2>3, NoticesClosing, Zenon
  <2> QED BY <2>1, <2>3, <2>4, <2>5, <2>6
<1>2. Quiet(Dispatch(x, "space", w))
  <2>1. PICK y : At(y, f, TRUE) /\ Quiet(y) /\ Dispatch(x, "space", w) = Value(y, "space")
    BY ReadsEnd
  <2> QED BY <2>1 DEF Value
<1>3. PICK y : At(y, f, TRUE) /\ Quiet(y) /\ Dispatch(x, ",", w) = Value(y, ",")
  BY ReadsEnd
<1>4. ASSUME f[Len(f)].kind = "object" PROVE Quiet(Dispatch(x, ",", w))
  <2>1. Tail_(Leave(y, "VALUE").stack) = "OBJECT" /\ Quiet(Leave(y, "VALUE"))
    BY <1>1, <1>3, <1>4 DEF ScopeOf
  <2>2. Value(y, ",") = Leave(y, "VALUE")
    BY <2>1 DEF Value
  <2> QED BY <1>3, <2>1, <2>2
<1>5. ASSUME f[Len(f)].kind = "array" PROVE ItemBegins(Dispatch(x, ",", w))
  <2>1. Tail_(Leave(y, "VALUE").stack) = "ARRAY" /\ ItemBegins(Enter(Leave(y, "VALUE"), "VALUE"))
    BY <1>1, <1>3, <1>5 DEF ScopeOf
  <2>2. Value(y, ",") = Enter(Leave(y, "VALUE"), "VALUE")
    BY <2>1 DEF Value
  <2> QED BY <1>3, <2>1, <2>2
<1>6. ASSUME f[Len(f)].kind = "object"
      PROVE  \E p : Pathed(p, f, FALSE) /\ ContainerEnds(Dispatch(x, "}", w), p, f[Len(f)].items)
  <2>1. PICK z : At(z, f, TRUE) /\ Quiet(z) /\ Dispatch(x, "}", w) = Value(z, "}")
    BY ReadsEnd
  <2>2. Value(z, "}") = Leave(Leave(z, "VALUE"), scope)
    BY <1>6 DEF Value, ScopeOf
  <2> HIDE DEF scope
  <2> QED BY <1>1, <2>1, <2>2
<1>7. ASSUME f[Len(f)].kind = "array"
      PROVE  \E p : Pathed(p, f, FALSE) /\ ContainerEnds(Dispatch(x, "]", w), p, f[Len(f)].items)
  <2>1. PICK z : At(z, f, TRUE) /\ Quiet(z) /\ Dispatch(x, "]", w) = Value(z, "]")
    BY ReadsEnd
  <2>2. Value(z, "]") = Leave(Leave(z, "VALUE"), scope)
    BY <1>7 DEF Value, ScopeOf
  <2> HIDE DEF scope
  <2> QED BY <1>1, <2>1, <2>2
<1> QED BY <1>2, <1>4, <1>5, <1>6, <1>7

-----------------------------------------------------------------------------
(* The containers, as they change.                                          *)

\* What an item that begins leaves as it was.
LEMMA TickedSame ==
  ASSUME NEW f \in Seq(Frames)
  PROVE  /\ Ticked(f) \in Seq(Frames) /\ Len(Ticked(f)) = Len(f)
         /\ \A i \in 1 .. Len(f) : i < Len(f) => Ticked(f)[i] = f[i]
         /\ \A i \in 1 .. Len(f) : /\ Ticked(f)[i].kind = f[i].kind /\ Ticked(f)[i].at = f[i].at
                                   /\ Ticked(f)[i].used = f[i].used
         /\ Len(f) > 0 => Ticked(f)[Len(f)].items = f[Len(f)].items + 1
<1>1. CASE Len(f) = 0
  BY <1>1 DEF Ticked
<1>2. CASE Len(f) # 0
  <2> DEFINE last == f[Len(f)]
             c == [last EXCEPT !.items = @ + 1]
             g == [f EXCEPT ![Len(f)] = c]
  <2>1. Len(f) > 0 /\ Ticked(f) = g
    BY <1>2, LenProperties DEF Ticked
  <2>2. last \in Frames
    BY <2>1, Innermost, Zenon
  <2>3. c \in Frames /\ c.kind = last.kind /\ c.at = last.at /\ c.items = last.items + 1
    <3> HIDE DEF last
    <3> QED BY <2>2, Item
  <2>4. c.used = last.used
    <3> HIDE DEF last
    <3> QED BY <2>2 DEF Frames
  <2> HIDE DEF c
  <2>5. /\ g \in Seq(Frames) /\ Len(g) = Len(f) /\ g[Len(f)] = c
        /\ \A i \in 1 .. Len(f) : i < Len(f) => g[i] = f[i]
    BY <2>1, <2>3, Changed, Zenon
  <2>6. \A i \in 1 .. Len(f) : (i = Len(f) \/ i < Len(f))
    BY <2>1, Innermost, Zenon
  <2> HIDE DEF g
  <2>7. ASSUME NEW i \in 1 .. Len(f)
        PROVE  g[i].kind = f[i].kind /\ g[i].at = f[i].at /\ g[i].used = f[i].used
    BY <2>3, <2>4, <2>5, <2>6, Zenon DEF last
  <2>8. g[Len(f)].items = f[Len(f)].items + 1
    BY <2>3, <2>5 DEF last
  <2> QED BY <2>1, <2>5, <2>7, <2>8, Zenon
<1> QED BY <1>1, <1>2

LEMMA SameAround ==
  ASSUME NEW f, NEW g, NEW n,
         \A i \in 1 .. n : g[i].kind = f[i].kind /\ g[i].at = f[i].at /\ g[i].used = f[i].used
  PROVE  Around(f, g, n)
BY Zenon DEF Around, HereAt, BehindAt

LEMMA OrderlyInner ==
  ASSUME NEW f \in Seq(Frames), Len(f) > 0, NEW g, Len(g) = Len(f),
         \A i \in 1 .. Len(f) : i < Len(f) => g[i] = f[i],
         NEW p, Orderly(f, p), NEW r, g[Len(f)].kind = f[Len(f)].kind, Kept(g[Len(f)], r)
  PROVE  Orderly(g, r)
<1> DEFINE n == Len(f)
<1>1. n \in Nat \ {0} /\ \A i \in 1 .. n : (i = n \/ i < n)
  BY Innermost, Zenon
<1>2. ASSUME NEW i \in 1 .. n, f[i].kind = "array" PROVE Fits(g, i)
  <2>1. Fits(f, i)
    BY <1>2, Zenon DEF Orderly
  <2>2. \A j \in 1 .. i - 1 : g[j].at = f[j].at
    <3>1. \A j \in 1 .. i - 1 : j \in 1 .. n /\ j < n
      BY <1>1
    <3> QED BY <3>1
  <2> QED BY <2>1, <2>2, Zenon DEF Fits
<1>3. ASSUME NEW i \in 1 .. n
      PROVE  Kept(g[i], IF i < n THEN "done" ELSE r) /\ (g[i].kind = "array" => Fits(g, i))
  <2>1. Kept(f[i], IF i < n THEN "done" ELSE p)
    BY Zenon DEF Orderly
  <2>2. CASE i < n
    BY <1>2, <2>1, <2>2
  <2>3. CASE i = n
    <3>1. ~(i < n)
      BY <1>1, <2>3
    <3> QED BY <1>2, <2>3, <3>1
  <2> QED BY <1>1, <2>2, <2>3
<1> QED BY <1>3, Zenon DEF Orderly

LEMMA OrderlyOpened ==
  ASSUME NEW f \in Seq(Frames), Orderly(f, "done"), NEW kind \in Kinds,
         kind = "array" => Fits(f, Len(f) + 1)
  PROVE  Orderly(Append(f, Container(kind)), "first")
<1> DEFINE n == Len(f)
           c == Container(kind)
           g == Append(f, c)
<1>1. c \in Frames /\ c.kind = kind /\ c.items = 0 /\ c.at = Indexed(0)
  BY Containers
<1>2. n \in Nat /\ Len(g) = n + 1 /\ g[n + 1] = c /\ \A i \in 1 .. n : g[i] = f[i]
  <2> HIDE DEF c
  <2> QED BY <1>1, PushFacts
<1> HIDE DEF c, g
<1>3. Kept(c, "first")
  BY <1>1 DEF Kept, Indexed
<1>4. ASSUME NEW i \in 1 .. n + 1, Fits(f, i) PROVE Fits(g, i)
  <2>1. \A j \in 1 .. i - 1 : g[j].at = f[j].at
    <3>1. \A j \in 1 .. i - 1 : j \in 1 .. n
      BY <1>2
    <3> QED BY <1>2, <3>1
  <2> QED BY <1>4, <2>1, Zenon DEF Fits
<1>5. ASSUME NEW i \in 1 .. n
      PROVE  Kept(g[i], "done") /\ (g[i].kind = "array" => Fits(g, i)) /\ i < n + 1
  <2>1. Kept(f[i], "done")
    BY Zenon DEF Orderly
  <2>2. f[i].kind = "array" => Fits(f, i)
    BY Zenon DEF Orderly
  <2>3. i \in 1 .. n + 1 /\ i < n + 1
    BY <1>2
  <2> QED BY <1>2, <1>4, <2>1, <2>2, <2>3
<1>6. g[n + 1].kind = "array" => Fits(g, n + 1)
  <2>1. n + 1 \in 1 .. n + 1
    BY <1>2
  <2> QED BY <1>1, <1>2, <1>4, <2>1
<1>7. ASSUME NEW i \in 1 .. Len(g)
      PROVE  Kept(g[i], IF i < Len(g) THEN "done" ELSE "first") /\ (g[i].kind = "array" => Fits(g, i))
  <2>1. CASE i \in 1 .. n
    BY <1>2, <1>5, <2>1
  <2>2. CASE i = n + 1
    <3>1. ~(i < Len(g))
      BY <1>2, <2>2
    <3> QED BY <1>2, <1>3, <1>6, <2>2, <3>1
  <2> QED BY <1>2, <2>1, <2>2
<1>8. Orderly(g, "first")
  BY <1>7, Zenon DEF Orderly
<1> QED BY <1>8 DEF g, c

LEMMA OrderlyClosed ==
  ASSUME NEW f \in Seq(Frames), Len(f) > 0, NEW p, Orderly(f, p)
  PROVE  Orderly(Pop(f), Complete(Pop(f)))
<1> DEFINE n == Len(f)
           g == Pop(f)
<1>1. n \in Nat \ {0} /\ g \in Seq(Frames) /\ Len(g) = n - 1 /\ \A i \in 1 .. n - 1 : g[i] = f[i]
  BY PopFacts, Innermost
<1> HIDE DEF g
<1>2. \A i \in 1 .. n - 1 : i \in 1 .. n /\ i < n
  BY <1>1
<1>3. ASSUME NEW i \in 1 .. n - 1 PROVE Kept(g[i], "done") /\ (g[i].kind = "array" => Fits(g, i))
  <2>1. Kept(f[i], "done") /\ (f[i].kind = "array" => Fits(f, i))
    BY <1>2, Zenon DEF Orderly
  <2>2. Fits(f, i) => Fits(g, i)
    <3>1. \A j \in 1 .. i - 1 : j \in 1 .. n - 1
      BY <1>1
    <3> QED BY <1>1, <3>1, Zenon DEF Fits
  <2> QED BY <1>1, <2>1, <2>2
<1>4. ASSUME NEW i \in 1 .. Len(g)
      PROVE  (IF i < Len(g) THEN "done" ELSE Complete(g)) = "done"
  <2>1. g # <<>>
    BY <1>1, <1>4
  <2> QED BY <2>1 DEF Complete
<1>5. Orderly(g, Complete(g))
  BY <1>1, <1>3, <1>4, Zenon DEF Orderly
<1> QED BY <1>5 DEF g

\* Where the document is, as a path.
LEMMA PathOf ==
  ASSUME NEW f \in Seq(Frames)
  PROVE  Pathed([i \in 1 .. Len(f) |-> f[i].at], f, TRUE)
<1> DEFINE n == Len(f)
           p == [i \in 1 .. n |-> f[i].at]
<1>1. n \in Nat /\ \A i \in 1 .. n : f[i].at \in Spans
  <2>1. n \in Nat
    BY LenProperties
  <2>2. \A i \in 1 .. n : f[i] \in Frames
    BY ElementOfSeq
  <2> QED BY <2>1, <2>2 DEF Frames
<1> HIDE DEF n
<1>2. p \in Seq(Spans) /\ Len(p) = n
  BY <1>1
<1>3. \A i \in 1 .. n : p[i] = f[i].at
  OBVIOUS
<1> HIDE DEF p
<1>4. Pathed(p, f, TRUE)
  BY <1>2, <1>3 DEF Pathed, n
<1> QED BY <1>4 DEF p, n

LEMMA WherePathed == open \in Seq(Frames) => Pathed(Where, open, TRUE)
BY PathOf DEF Where, Depth

-----------------------------------------------------------------------------
(* The locations, character by character.                                   *)

\* Nothing that has been reached is lost again.
Advances == \A q \in Queries : Reached(open, phase, q) => Reached(open', phase', q)

LEMMA LocatedNext ==
  ASSUME \A q \in Queries :
           /\ loc'[q] \in {"none", "here", "read"}
           /\ loc'[q] # "none" => Reached(open', phase', q)
           /\ loc'[q] = "here" <=> MayBegin' /\ Meant(Where', q)
  PROVE  Located'
BY DEF Located

\* No item begins: the location that was there is behind the text.
LEMMA GoesOn ==
  ASSUME Located, NEW c, NEW w, NEW n, Read(c, w, n), c # "space",
         self'.fresh = FALSE, ~MayBegin', Advances
  PROVE  Located'
<1>1. ASSUME NEW q \in Queries
      PROVE  /\ loc'[q] \in {"none", "here", "read"} /\ loc'[q] # "here"
             /\ loc'[q] # "none" => loc[q] # "none"
  <2>1. loc'[q] = CASE loc[q] = "none" /\ self'.fresh /\ Matches(self'.path, q) -> "here"
                    [] loc[q] = "here" /\ c # "space" -> "read"
                    [] OTHER -> loc[q]
    BY DEF Read
  <2>2. loc'[q] = IF loc[q] = "here" THEN "read" ELSE loc[q]
    BY <2>1
  <2>3. loc[q] \in {"none", "here", "read"}
    BY DEF Located
  <2> QED BY <2>2, <2>3
<1>2. \A q \in Queries : loc'[q] # "none" => Reached(open', phase', q)
  BY <1>1, Zenon DEF Located, Advances
<1> QED BY <1>1, <1>2, LocatedNext, Zenon

\* White space changes nothing.
LEMMA Pauses ==
  ASSUME Located, NEW w, NEW n, Read("space", w, n),
         self'.fresh = FALSE, open' = open, MayBegin' <=> MayBegin, Advances
  PROVE  Located'
<1>1. ASSUME NEW q \in Queries PROVE loc'[q] = loc[q]
  <2>1. loc'[q] = CASE loc[q] = "none" /\ self'.fresh /\ Matches(self'.path, q) -> "here"
                    [] loc[q] = "here" /\ "space" # "space" -> "read"
                    [] OTHER -> loc[q]
    BY DEF Read
  <2> QED BY <2>1
<1>2. Where' = Where
  BY DEF Where, Depth
<1>3. \A q \in Queries : loc'[q] # "none" => Reached(open', phase', q)
  BY <1>1, Zenon DEF Located, Advances
<1>4. \A q \in Queries : /\ loc'[q] \in {"none", "here", "read"}
                         /\ loc'[q] = "here" <=> MayBegin' /\ Meant(Where', q)
  <2>1. \A q \in Queries : /\ loc[q] \in {"none", "here", "read"}
                           /\ loc[q] = "here" <=> MayBegin /\ Meant(Where, q)
    BY Zenon DEF Located
  <2> QED BY <1>1, <1>2, <2>1, Zenon
<1> QED BY <1>3, <1>4, LocatedNext, Zenon

\* An item begins: the queries whose place it is stop here, for the first time.
LEMMA ComesUp ==
  ASSUME Located, NEW c, NEW w, NEW n, Read(c, w, n), c # "space",
         self'.fresh = TRUE, MayBegin', Advances,
         \A q \in Queries : Matches(self'.path, q) <=> Meant(Where', q),
         \A q \in Queries : Meant(Where', q) =>
           ~Reached(open, phase, q) /\ Reached(open', phase', q)
  PROVE  Located'
<1>1. ASSUME NEW q \in Queries
      PROVE  /\ loc'[q] \in {"none", "here", "read"}
             /\ loc'[q] = "here" <=> Meant(Where', q)
             /\ loc'[q] # "none" => loc[q] # "none" \/ Meant(Where', q)
  <2>1. loc'[q] = CASE loc[q] = "none" /\ self'.fresh /\ Matches(self'.path, q) -> "here"
                    [] loc[q] = "here" /\ c # "space" -> "read"
                    [] OTHER -> loc[q]
    BY DEF Read
  <2>2. loc[q] \in {"none", "here", "read"} /\ (loc[q] # "none" => Reached(open, phase, q))
    BY Zenon DEF Located
  <2>3. Matches(self'.path, q) <=> Meant(Where', q)
    OBVIOUS
  <2>4. CASE Meant(Where', q)
    <3>1. loc[q] = "none"
      BY <2>2, <2>4
    <3>2. loc'[q] = "here"
      BY <2>1, <2>3, <2>4, <3>1
    <3> QED BY <2>4, <3>2
  <2>5. CASE ~Meant(Where', q)
    <3>1. loc'[q] = IF loc[q] = "here" THEN "read" ELSE loc[q]
      BY <2>1, <2>3, <2>5
    <3> QED BY <2>2, <2>5, <3>1
  <2> QED BY <2>4, <2>5
<1>2. \A q \in Queries : loc'[q] # "none" => Reached(open', phase', q)
  BY <1>1, Zenon DEF Located, Advances
<1> QED BY <1>1, <1>2, LocatedNext, Zenon

-----------------------------------------------------------------------------
(* The answers, character by character.                                     *)

Agreed ==
  /\ value = [q \in Queries |-> value[q]] /\ count = [q \in Queries |-> count[q]]
  /\ value = meant /\ count = total

LEMMA SaysNothing ==
  ASSUME Agreed, NEW c, NEW w, NEW n, Read(c, w, n), c # "number", self'.left = <<>>,
         UNCHANGED truth
  PROVE  Agreed'
<1>1. value' = [q \in Queries |-> value[q]]
  BY DEF Read
<1>2. count' = [q \in Queries |-> count[q]]
  BY DEF Read
<1>3. value' = value /\ count' = count /\ meant' = meant /\ total' = total
  BY <1>1, <1>2 DEF Agreed, truth
<1> QED BY <1>3 DEF Agreed

LEMMA SaysNumber ==
  ASSUME Agreed, Located, NEW n, Atom(n), self'.left = <<>>
  PROVE  Agreed'
<1>1. /\ value' = [q \in Queries |-> IF loc[q] = "here" /\ "number" = "number" THEN n ELSE value[q]]
      /\ count' = [q \in Queries |-> count[q]]
  BY DEF Atom, Read
<1>2. \A q \in Queries : loc[q] = "here" <=> Meant(Where, q)
  BY DEF Located, Atom
<1>3. meant' = [q \in Queries |-> IF Meant(Where, q) THEN n ELSE meant[q]] /\ total' = total
  BY DEF Atom
<1>4. value' = [q \in Queries |-> IF Meant(Where, q) THEN n ELSE value[q]]
  BY <1>1, <1>2
<1>5. value = meant /\ count = total /\ count = [q \in Queries |-> count[q]]
  BY DEF Agreed
<1>6. value' = meant' /\ count' = total'
  BY <1>1, <1>3, <1>4, <1>5
<1> QED BY <1>1, <1>4, <1>6 DEF Agreed

LEMMA SaysCount ==
  ASSUME Agreed, NEW kind, NEW c, c # "number", Close(kind, c), NEW p, ContainerEnds(self', p, Inner.items),
         \A q \in Queries : Matches(p, q) <=> Meant(Pop(Where), q)
  PROVE  Agreed'
<1>1. Read(c, NoWord, -1) /\ meant' = meant
      /\ total' = [q \in Queries |->
           IF total[q] = -1 /\ Meant(Pop(Where), q) THEN Inner.items ELSE total[q]]
  BY DEF Close
<1>2. value' = [q \in Queries |-> value[q]]
  BY <1>1 DEF Read
<1>3. self'.left = <<p, Inner.items>>
  BY DEF ContainerEnds
<1>4. self'.left # <<>> /\ self'.left[1] = p /\ self'.left[2] = Inner.items
  BY <1>3
<1>5. count' = [q \in Queries |->
         IF count[q] = -1 /\ self'.left # <<>> /\ Matches(self'.left[1], q)
         THEN self'.left[2] ELSE count[q]]
  BY <1>1 DEF Read
<1>6. count' = [q \in Queries |->
         IF count[q] = -1 /\ Meant(Pop(Where), q) THEN Inner.items ELSE count[q]]
  BY <1>4, <1>5
<1>7. value = meant /\ count = total /\ value = [q \in Queries |-> value[q]]
  BY DEF Agreed
<1>8. value' = meant' /\ count' = total'
  BY <1>1, <1>2, <1>6, <1>7
<1> QED BY <1>2, <1>6, <1>8 DEF Agreed

-----------------------------------------------------------------------------
(* The text, as it goes on.                                                 *)

\* In the same containers.
LEMMA Turns ==
  ASSUME IInv, Orderly(open, phase), open' = open, Len(open) > 0,
         \/ phase' = phase
         \/ phase \in {"atom", "string"} /\ phase' = "done"
         \/ Kind(open) = "object" /\ \/ phase' \in {"name", "next"}
                                     \/ phase = "named" /\ phase' = "colon"
                                     \/ phase = "colon" /\ phase' = "value"
  PROVE  Orderly(open', phase') /\ Advances
<1> DEFINE c == open[Len(open)]
<1>1. open \in Seq(Frames) /\ phase # "end"
  <2>1. open # <<>>
    OBVIOUS
  <2> QED BY <2>1 DEF IInv, Here
<1>2. Len(open) \in 1 .. Len(open) /\ ~(Len(open) < Len(open)) /\ Len(open) - 1 \in Nat
  BY <1>1, Innermost
<1>3. Kept(c, phase)
  BY <1>2, Zenon DEF Orderly
<1>4. Kept(c, phase')
  BY <1>3 DEF Kept, Kind
<1>5. Orderly(open, phase')
  BY <1>1, <1>4, OrderlyInner, Zenon
<1>6. /\ Arrived(open, phase) => Arrived(open, phase')
      /\ phase \in Gone => phase' \in Gone
  BY DEF Arrived, Gone, Kind
<1>7. Around(open, open, Len(open) - 1)
  BY Zenon DEF Around
<1>8. ASSUME NEW q \in Queries, Reached(open, phase, q) PROVE Reached(open, phase', q)
  BY <1>1, <1>6, <1>7, <1>8, Onward, Zenon
<1> QED BY <1>5, <1>8 DEF Advances

\* An item begins.
LEMMA TickedOrderly ==
  ASSUME IInv, Orderly(open, phase), phase = "root" \/ MayBegin, NEW r \in {"atom", "string", "done"}
  PROVE  Orderly(Ticked(open), r)
<1> DEFINE f == open
           g == Ticked(open)
<1>1. f \in Seq(Frames)
  BY Awaits
<1>2. /\ g \in Seq(Frames) /\ Len(g) = Len(f) /\ \A i \in 1 .. Len(f) : i < Len(f) => g[i] = f[i]
      /\ \A i \in 1 .. Len(f) : /\ g[i].kind = f[i].kind /\ g[i].at = f[i].at
                                /\ g[i].used = f[i].used
      /\ Len(f) > 0 => g[Len(f)].items = f[Len(f)].items + 1
  BY <1>1, TickedSame, Zenon
<1> HIDE DEF g
<1>3. ASSUME Len(f) = 0 PROVE Orderly(g, r)
  <2>1. \A i \in 1 .. Len(g) : FALSE
    BY <1>2, <1>3
  <2> QED BY <2>1, Zenon DEF Orderly
<1>4. ASSUME Len(f) # 0 PROVE Orderly(g, r)
  <2> DEFINE n == Len(f)
  <2>1. n > 0 /\ n \in 1 .. n /\ ~(n < n) /\ f[n] \in Frames
    BY <1>1, <1>4, Innermost, LenProperties
  <2>2. Kept(f[n], phase)
    BY <2>1, Zenon DEF Orderly
  <2>3. phase = "value" \/ (phase = "first" /\ f[n].kind = "array")
    BY <2>1 DEF MayBegin, Inner, Depth, IInv, Here
  <2>4. g[n].kind = f[n].kind /\ g[n].at = f[n].at /\ g[n].used = f[n].used /\ g[n].items = f[n].items + 1
    BY <1>2, <2>1
  <2>5. f[n].at.index \in Nat
    BY <2>1 DEF Frames, Spans
  <2>6. Kept(g[n], r)
    BY <2>2, <2>3, <2>4, <2>5 DEF Kept
  <2>7. Len(g) = n /\ \A i \in 1 .. n : i < n => g[i] = f[i]
    BY <1>2, Zenon
  <2>8. g[n].kind = f[n].kind
    BY <2>4
  <2> QED BY <1>1, <2>1, <2>6, <2>7, <2>8, OrderlyInner, Zenon
<1> QED BY <1>3, <1>4 DEF g

LEMMA TurnsToItem ==
  ASSUME IInv, Orderly(open, phase), MayBegin, open' = Ticked(open), phase' \in {"atom", "string"}
  PROVE  Orderly(open', phase') /\ Advances
<1> DEFINE f == open
           g == Ticked(open)
           n == Len(f)
<1>1. f \in Seq(Frames) /\ n > 0
  BY Awaits
<1>2. /\ Len(g) = n
      /\ \A i \in 1 .. n : g[i].kind = f[i].kind /\ g[i].at = f[i].at /\ g[i].used = f[i].used
  BY <1>1, TickedSame, Zenon
<1>3. Orderly(g, phase')
  <2>1. phase' \in {"atom", "string", "done"}
    OBVIOUS
  <2> QED BY <2>1, TickedOrderly, Zenon
<1>4. Around(f, g, n) /\ n \in 1 .. n /\ \A i \in 1 .. n - 1 : i \in 1 .. n
  <2>1. Around(f, g, n)
    BY <1>2, SameAround, Zenon
  <2>2. n \in Nat \ {0}
    BY <1>1, Innermost, Zenon
  <2> HIDE DEF n, f, g
  <2>3. n \in 1 .. n /\ \A i \in 1 .. n - 1 : i \in 1 .. n
    BY <2>2
  <2> QED BY <2>1, <2>3
<1>5. /\ Around(f, g, n - 1)
      /\ \A w : HereAt(g[n], w) <=> HereAt(f[n], w)
      /\ \A w : BehindAt(g[n], w) <=> BehindAt(f[n], w)
  BY <1>4, Zenon DEF Around
<1>6. phase # "end" /\ phase' \in Gone /\ Arrived(g, phase')
  BY DEF Gone, Arrived, MayBegin
<1>7. ASSUME NEW q \in Queries, Reached(f, phase, q) PROVE Reached(g, phase', q)
  <2> HIDE DEF g
  <2> QED BY <1>1, <1>2, <1>5, <1>6, <1>7, Onward, Zenon
<1> QED BY <1>3, <1>7 DEF Advances

\* Into a container.
LEMMA TurnsInward ==
  ASSUME IInv, Orderly(open, phase), phase = "root" \/ MayBegin, NEW kind \in Kinds,
         kind = "array" => ArrayFits(Where),
         open' = Append(Ticked(open), Container(kind)), phase' = "first"
  PROVE  Orderly(open', phase') /\ Advances
<1> DEFINE f == open
           h == Ticked(open)
           g == Append(h, Container(kind))
           n == Len(f)
<1>1. f \in Seq(Frames)
  BY Awaits
<1>2. n \in Nat
  BY <1>1, LenProperties
<1>3. /\ h \in Seq(Frames) /\ Len(h) = n
      /\ \A i \in 1 .. n : h[i].kind = f[i].kind /\ h[i].at = f[i].at /\ h[i].used = f[i].used
  BY <1>1, TickedSame, Zenon
<1>4. Orderly(h, "done")
  <2>1. "done" \in {"atom", "string", "done"}
    OBVIOUS
  <2> QED BY <2>1, TickedOrderly, Zenon
<1>5. Container(kind) \in Frames
  BY Containers
<1> HIDE DEF h
<1>6. Len(g) = n + 1 /\ \A i \in 1 .. n : g[i] = h[i]
  BY <1>3, <1>5, PushFacts
<1>7. ASSUME kind = "array" PROVE Fits(h, n + 1)
  <2>1. Pathed(Where, f, TRUE)
    BY <1>1, WherePathed, Zenon
  <2>2. Len(Where) = n /\ \A i \in 1 .. n : Where[i] = h[i].at
    BY <1>3, <2>1 DEF Pathed
  <2>3. ASSUME NEW q \in Queries, n + 1 <= Len(q), \A j \in 1 .. (n + 1) - 1 : StepMeant(h[j].at, q[j])
        PROVE  q[n + 1] \in Numerals
    <3>1. Len(q) \in Nat /\ (n + 1) - 1 = n
      BY <1>2, Words
    <3>2. Len(q) > n
      BY <1>2, <2>3, <3>1
    <3>3. \A i \in 1 .. n : StepMeant(Where[i], q[i])
      BY <2>2, <2>3, <3>1
    <3> QED BY <1>7, <2>2, <3>2, <3>3, Zenon DEF ArrayFits
  <2> HIDE DEF n
  <2> QED BY <2>3 DEF Fits
<1>8. Orderly(g, "first")
  BY <1>3, <1>4, <1>7, OrderlyOpened, Zenon
<1>9. Around(f, g, n)
  <2>1. \A i \in 1 .. n : g[i].kind = f[i].kind /\ g[i].at = f[i].at /\ g[i].used = f[i].used
    BY <1>3, <1>6
  <2> QED BY <2>1, SameAround, Zenon
<1>10. phase \notin Gone \cup {"end"}
  BY DEF Gone, MayBegin
<1>11. open' = g
  BY DEF h
<1> HIDE DEF g
<1>12. ASSUME NEW q \in Queries, Reached(f, phase, q) PROVE Reached(g, "first", q)
  BY <1>1, <1>6, <1>9, <1>10, <1>12, Inward, Zenon
<1> QED BY <1>8, <1>11, <1>12 DEF Advances

\* Out of a container.
LEMMA TurnsOutward ==
  ASSUME IInv, Orderly(open, phase), Len(open) > 0, open' = Pop(open), phase' = Complete(Pop(open))
  PROVE  Orderly(open', phase') /\ Advances
<1> DEFINE f == open
           g == Pop(open)
<1>1. f \in Seq(Frames) /\ phase # "end"
  <2>1. open # <<>>
    OBVIOUS
  <2> QED BY <2>1 DEF IInv, Here
<1>2. Orderly(g, Complete(g))
  BY <1>1, OrderlyClosed, Zenon
<1>3. /\ g \in Seq(Frames) /\ Len(g) = Len(f) - 1
      /\ \A i \in 1 .. Len(f) - 1 : g[i] = f[i]
  BY <1>1, PopFacts
<1> HIDE DEF g
<1>4. CASE g = <<>>
  <2>1. Complete(g) = "end"
    BY <1>4 DEF Complete
  <2>2. \A q : Reached(g, Complete(g), q)
    BY <2>1, Zenon DEF Reached
  <2> QED BY <1>2, <2>2 DEF Advances, g
<1>5. CASE g # <<>>
  <2>1. Complete(g) = "done" /\ Len(g) > 0
    BY <1>3, <1>5, EmptySeq, LenProperties DEF Complete
  <2>2. Around(f, g, Len(g))
    BY <1>3, Zenon DEF Around
  <2>3. ASSUME NEW q \in Queries, Reached(f, phase, q) PROVE Reached(g, "done", q)
    BY <1>1, <1>3, <2>1, <2>2, <2>3, Outward, Zenon
  <2> QED BY <1>2, <2>1, <2>3 DEF Advances, g
<1> QED BY <1>4, <1>5

\* A member is named.
LEMMA TurnsToName ==
  ASSUME IInv, Orderly(open, phase), NEW w \in Names, Name(w)
  PROVE  Orderly(open', phase') /\ Advances
<1> DEFINE f == open
           n == Len(f)
           last == f[n]
           c == [last EXCEPT !.at = Named(w), !.used = @ \cup {w}]
           g == [f EXCEPT ![n] = c]
<1>1. open' = g /\ phase = "name" /\ phase' = "named" /\ w \notin last.used
  BY DEF Name, Inner, Depth
<1>2. f \in Seq(Frames) /\ n > 0 /\ last.kind = "object"
  BY <1>1 DEF IInv, Here, Kind
<1>3. last \in Frames /\ n \in 1 .. n /\ n \in Nat \ {0}
  BY <1>2, Innermost, Zenon
<1>4. c \in Frames /\ c.kind = "object" /\ c.at = Named(w) /\ c.used = last.used \cup {w}
  <2> HIDE DEF last
  <2>1. Named(w) \in Spans
    BY DEF Spans, Named
  <2> QED BY <1>2, <1>3, <2>1 DEF Frames
<1> HIDE DEF c
<1>5. Len(g) = n /\ g[n] = c /\ \A i \in 1 .. n : i < n => g[i] = f[i]
  BY <1>2, <1>4, Changed, Zenon
<1> HIDE DEF g
<1>6. Kept(c, "named")
  BY <1>4 DEF Kept, Named
<1>7. Orderly(g, "named")
  <2>1. g[n].kind = f[n].kind /\ Kept(g[n], "named")
    BY <1>2, <1>4, <1>5, <1>6
  <2> QED BY <1>2, <1>5, <2>1, OrderlyInner, Zenon
<1>8. \A v : /\ BehindAt(last, v) => BehindAt(g[n], v)
             /\ HereAt(last, v) => BehindAt(g[n], v)
  <2>1. Named(w).word = w
    BY DEF Named
  <2> QED BY <1>1, <1>2, <1>4, <1>5, <2>1 DEF BehindAt, HereAt
<1>9. Around(f, g, n - 1)
  <2>1. \A i \in 1 .. n - 1 : i \in 1 .. n /\ i < n
    BY <1>3
  <2> QED BY <1>5, <2>1, Zenon DEF Around
<1>10. ASSUME NEW q \in Queries, Reached(f, phase, q) PROVE Reached(g, "named", q)
  <2>1. phase # "end"
    BY <1>1
  <2> QED BY <1>2, <1>5, <1>8, <1>9, <1>10, <2>1, Onward, Zenon
<1> QED BY <1>1, <1>7, <1>10 DEF Advances

\* The next element of an array: the one before is behind the text.
LEMMA TurnsToNext ==
  ASSUME IInv, Orderly(open, phase), phase \in {"done", "atom"}, Len(open) > 0, Kind(open) = "array",
         open' = [open EXCEPT ![Len(open)].at = Indexed(open[Len(open)].items)], phase' = "value"
  PROVE  /\ Orderly(open', phase') /\ Advances
         /\ Len(open') = Len(open) /\ open' \in Seq(Frames) /\ Kind(open') = "array"
         /\ Around(open, open', Len(open) - 1)
         /\ \A v : HereAt(open'[Len(open)], v) =>
              ~HereAt(open[Len(open)], v) /\ ~BehindAt(open[Len(open)], v)
<1> DEFINE f == open
           n == Len(f)
           last == f[n]
           c == [last EXCEPT !.at = Indexed(last.items)]
           g == [f EXCEPT ![n] = c]
<1>1. open' = g /\ last.kind = "array"
  BY DEF Kind
<1>2. f \in Seq(Frames)
  BY DEF IInv, Here
<1>3. last \in Frames /\ n \in 1 .. n /\ n \in Nat \ {0} /\ ~(n < n)
  BY <1>2, Innermost
<1>4. c \in Frames /\ c.kind = "array" /\ c.at = Indexed(last.items) /\ c.items = last.items
  <2> HIDE DEF last
  <2>1. Indexed(last.items) \in Spans
    BY <1>3 DEF Frames, Spans, Indexed
  <2> QED BY <1>1, <1>3, <2>1 DEF Frames
<1> HIDE DEF c
<1>5. g \in Seq(Frames) /\ Len(g) = n /\ g[n] = c /\ \A i \in 1 .. n : i < n => g[i] = f[i]
  BY <1>2, <1>4, Changed, Zenon
<1> HIDE DEF g
<1>6. last.items = last.at.index + 1 /\ last.at.index \in Nat
  <2>1. Kept(last, phase)
    BY <1>3, Zenon DEF Orderly
  <2> QED BY <1>1, <1>3, <2>1 DEF Kept, Frames, Spans
<1>7. g[n].kind = "array" /\ g[n].at.index = last.at.index + 1 /\ Kept(g[n], "value")
  BY <1>4, <1>5, <1>6 DEF Indexed, Kept
<1>8. Orderly(g, "value")
  <2>1. g[n].kind = f[n].kind
    BY <1>1, <1>7
  <2> QED BY <1>2, <1>5, <1>7, <2>1, OrderlyInner, Zenon
<1>9. \A v : /\ BehindAt(last, v) => BehindAt(g[n], v)
             /\ HereAt(last, v) => BehindAt(g[n], v)
             /\ HereAt(g[n], v) => ~HereAt(last, v) /\ ~BehindAt(last, v)
  <2> SUFFICES ASSUME NEW v
               PROVE  /\ BehindAt(last, v) => BehindAt(g[n], v)
                      /\ HereAt(last, v) => BehindAt(g[n], v)
                      /\ HereAt(g[n], v) => ~HereAt(last, v) /\ ~BehindAt(last, v)
    OBVIOUS
  <2> HIDE DEF last
  <2>1. v \in Numerals => Number(v) \in Nat
    BY Words
  <2> QED BY <1>1, <1>6, <1>7, <2>1 DEF BehindAt, HereAt
<1>10. Around(f, g, n - 1)
  <2>1. \A i \in 1 .. n - 1 : i \in 1 .. n /\ i < n
    BY <1>3
  <2> QED BY <1>5, <2>1, Zenon DEF Around
<1>11. ASSUME NEW q \in Queries, Reached(f, phase, q) PROVE Reached(g, "value", q)
  <2>1. phase # "end"
    OBVIOUS
  <2> QED BY <1>2, <1>5, <1>9, <1>10, <1>11, <2>1, Onward, Zenon
<1>12. Kind(g) = "array"
  BY <1>5, <1>7 DEF Kind
<1> QED BY <1>1, <1>5, <1>8, <1>9, <1>10, <1>11, <1>12 DEF Advances

\* An item that begins is where the document says, and no query has been there.
LEMMA ComesUpThere ==
  ASSUME Located, NEW c, NEW w, NEW n, Read(c, w, n), c # "space", ItemBegins(self'),
         phase' = "value" \/ (phase' = "first" /\ Kind(open') = "array"),
         open' \in Seq(Frames), Len(open') > 0, At(self', open', TRUE),
         Orderly(open', phase'), Advances,
         \A q \in Queries : Len(q) = Len(open') /\ Along(open', q, Len(open')) => ~Reached(open, phase, q)
  PROVE  Located'
<1> DEFINE f == open'
           d == Len(f)
           p == self'.path
           r == [i \in 1 .. Len(f) |-> f[i].at]
<1>1. Pathed(p, f, TRUE) /\ Pathed(r, f, TRUE)
  BY PathOf DEF At
<1>2. Where' = r
  BY DEF Where, Depth
<1> HIDE DEF r
<1>3. Len(p) = d /\ Len(r) = d
  BY <1>1 DEF Pathed
<1>4. d \in Nat /\ d <= d
  BY LenProperties
<1>5. Placed(f, d)
  <2>1. d = Len(f) /\ d > 0 =>
           \/ f[Len(f)].kind = "array"
           \/ phase' \in {"value", "string", "atom", "done", "named", "colon"}
    BY DEF Kind
  <2> QED BY <1>4, <2>1, OrderlyPlaces, Zenon
<1>6. \A q \in Queries : Matches(p, q) <=> Meant(p, q)
  BY <1>1, <1>3, <1>5, Hits, Zenon
<1>7. \A q : /\ Meant(p, q) <=> Len(q) = d /\ Along(f, q, d)
             /\ Meant(r, q) <=> Len(q) = d /\ Along(f, q, d)
  BY <1>1, <1>3, <1>5, MeantAlong, Zenon
<1>8. MayBegin'
  BY DEF MayBegin, Inner, Depth, Kind
<1>9. Arrived(f, phase')
  BY DEF Arrived, Kind, Gone
<1>10. ASSUME NEW q \in Queries, Meant(r, q) PROVE ~Reached(open, phase, q) /\ Reached(f, phase', q)
  <2>1. Len(q) = d /\ Along(f, q, d)
    BY <1>7, <1>10, Zenon
  <2> QED BY <1>9, <2>1, Zenon DEF Reached
<1>11. \A q \in Queries : Matches(self'.path, q) <=> Meant(Where', q)
  BY <1>2, <1>6, <1>7, Zenon
<1>12. \A q \in Queries : Meant(Where', q) => ~Reached(open, phase, q) /\ Reached(open', phase', q)
  BY <1>2, <1>10, Zenon
<1>13. self'.fresh = TRUE
  BY DEF ItemBegins
<1> QED BY <1>8, <1>11, <1>12, <1>13, ComesUp, Zenon

-----------------------------------------------------------------------------
(* The steps, and the queries.                                              *)

Queried == IInv /\ Orderly(open, phase) /\ Located /\ Agreed

\* What is left to show of a step that the automaton follows.
Follows == Orderly(open', phase') /\ Located' /\ Agreed'

\* Between two items, or in one, a character tells the queries nothing.
LEMMA QuietFollows ==
  ASSUME Queried, NEW c, NEW w, NEW n, Read(c, w, n), c \notin {"space", "number"}, Quiet(self'),
         ~MayBegin', Orderly(open', phase'), Advances, UNCHANGED truth
  PROVE  Follows
<1>1. self'.fresh = FALSE /\ self'.left = <<>>
  BY DEF Quiet
<1>2. c # "space" /\ c # "number"
  OBVIOUS
<1>3. Located'
  BY <1>1, <1>2, GoesOn, Zenon DEF Queried
<1>4. Agreed'
  BY <1>1, <1>2, SaysNothing, Zenon DEF Queried
<1> QED BY <1>3, <1>4 DEF Follows

LEMMA OpenObjectFollows == Queried /\ OpenObject => Follows
<1> SUFFICES ASSUME Queried, OpenObject PROVE Follows
  OBVIOUS
<1>1. /\ Read("{", NoWord, -1) /\ self' = Dispatch(self, "{", NoWord)
      /\ open' = Append(Ticked(open), Container("object")) /\ phase' = "first"
      /\ (phase = "root" \/ MayBegin) /\ UNCHANGED truth
  BY Containers DEF OpenObject, Open, Read
<1>2. IInv /\ Orderly(open, phase)
  BY DEF Queried
<1>3. "object" \in Kinds /\ ("object" = "array" => ArrayFits(Where))
  BY DEF Kinds
<1>4. Orderly(open', phase') /\ Advances
  BY <1>1, <1>2, <1>3, TurnsInward, Zenon
<1>5. open \in Seq(Frames) /\ At(self, open, TRUE)
  BY <1>1, <1>2, Awaits, Zenon
<1>6. Quiet(self')
  BY <1>1, <1>5, NoticesOpening, Zenon
<1>7. ~MayBegin'
  <2> DEFINE c == Container("object")
             h == Ticked(open)
  <2>1. h \in Seq(Frames) /\ c \in Frames /\ c.kind = "object"
    BY <1>3, <1>5, TickedSame, Containers, Zenon
  <2> HIDE DEF c, h
  <2>2. open' = Append(h, c)
    BY <1>1 DEF c, h
  <2>3. open'[Len(open')] = c
    BY <2>1, <2>2, PushFacts
  <2> QED BY <1>1, <2>1, <2>3 DEF MayBegin, Inner, Depth
<1>8. "{" \notin {"space", "number"}
  BY Zenon
<1> QED BY <1>1, <1>4, <1>6, <1>7, <1>8, QuietFollows, Zenon

LEMMA OpenArrayFollows == Shaped /\ Queried /\ OpenArray => Follows
<1> SUFFICES ASSUME Shaped, Queried, OpenArray PROVE Follows
  OBVIOUS
<1> DEFINE d == Len(open)
           c == Container("array")
           h == Ticked(open)
<1>1. /\ Read("[", NoWord, -1) /\ self' = Dispatch(self, "[", NoWord)
      /\ open' = Append(h, c) /\ phase' = "first" /\ ArrayFits(Where)
      /\ (phase = "root" \/ MayBegin) /\ UNCHANGED truth
  BY Containers DEF OpenArray, Open, Read
<1>2. IInv /\ Orderly(open, phase) /\ Located /\ Agreed
  BY DEF Queried
<1>3. "array" \in Kinds /\ ("array" = "array" => ArrayFits(Where))
  BY <1>1 DEF Kinds
<1>4. Orderly(open', phase') /\ Advances
  BY <1>1, <1>2, <1>3, TurnsInward, Zenon
<1>5. open \in Seq(Frames) /\ At(self, open, TRUE) /\ d \in Nat
  BY <1>1, <1>2, Awaits, LenProperties
<1>6. ItemBegins(self')
  BY <1>1, <1>5, NoticesOpening, Zenon
<1>7. /\ c \in Frames /\ c.kind = "array" /\ c.items = 0 /\ c.at = Indexed(0)
      /\ h \in Seq(Frames) /\ Len(h) = d
      /\ \A i \in 1 .. d : h[i].kind = open[i].kind /\ h[i].at = open[i].at /\ h[i].used = open[i].used
  BY <1>3, <1>5, TickedSame, Containers, Zenon
<1>8. open' \in Seq(Frames) /\ At(self', open', TRUE)
  BY <1>1, <1>5, <1>7, OpensArray, Zenon
<1> HIDE DEF c, h
<1>9. Len(open') = d + 1 /\ Kind(open') = "array" /\ \A i \in 1 .. d : open'[i] = h[i]
  BY <1>1, <1>7, PushFacts DEF Kind
<1>10. Around(open, open', d)
  <2>1. \A i \in 1 .. d : /\ open'[i].kind = open[i].kind /\ open'[i].at = open[i].at
                          /\ open'[i].used = open[i].used
    BY <1>7, <1>9
  <2> QED BY <2>1, SameAround, Zenon
<1>11. ASSUME NEW q \in Queries, Len(q) = Len(open'), Along(open', q, Len(open'))
       PROVE  ~Reached(open, phase, q)
  <2>1. d <= Len(q) /\ Len(q) > d /\ Len(open') \in Nat /\ d <= Len(open')
    BY <1>5, <1>9, <1>11
  <2>2. Along(open, q, d)
    <3>1. Along(open', q, d)
      BY <1>5, <1>11, <2>1, AlongLess, Zenon
    <3>2. d <= d
      BY <1>5
    <3> QED BY <1>5, <1>10, <3>1, <3>2, AlongAround, Zenon
  <2>3. Along(open, q, d - 1)
    <3>1. \A i \in 1 .. d - 1 : i \in 1 .. d
      BY <1>5
    <3> QED BY <2>2, <3>1, Zenon DEF Along
  <2>4. d > 0 => ~BehindAt(open[d], q[d])
    <3>1. d > 0 => d \in 1 .. d /\ open[d] \in Frames
      BY <1>5, Innermost
    <3> QED BY <2>2, <3>1, NeverBoth, Zenon DEF Along
  <2>5. phase # "end" /\ phase \notin Gone
    BY <1>1 DEF Gone, MayBegin
  <2> QED BY <1>5, <2>1, <2>3, <2>4, <2>5, Ahead, Zenon
<1>12. Len(open') > 0
  BY <1>5, <1>9
<1>13. "[" # "space" /\ "[" # "number"
  BY Zenon
<1>14. Located'
  BY <1>1, <1>2, <1>4, <1>6, <1>8, <1>9, <1>11, <1>12, <1>13, ComesUpThere, Zenon
<1>15. self'.left = <<>>
  BY <1>6 DEF ItemBegins
<1>16. Agreed'
  BY <1>1, <1>2, <1>13, <1>15, SaysNothing, Zenon
<1> QED BY <1>4, <1>14, <1>16 DEF Follows

\* A container's items are counted for the query whose place it has.
LEMMA CloseFollows ==
  ASSUME Queried, NEW kind, NEW c, c \notin {"space", "number"}, Close(kind, c),
         \E p : Pathed(p, open, FALSE) /\ ContainerEnds(self', p, Inner.items)
  PROVE  Follows
<1> DEFINE n == Len(open)
<1>1. /\ n > 0 /\ open' = Pop(open) /\ phase' = Complete(Pop(open)) /\ Read(c, NoWord, -1)
  BY DEF Close, Depth
<1>2. IInv /\ Orderly(open, phase) /\ Located /\ Agreed /\ open \in Seq(Frames)
  BY DEF Queried, IInv, Here
<1>3. Orderly(open', phase') /\ Advances
  BY <1>1, <1>2, TurnsOutward, Zenon
<1>4. PICK p : Pathed(p, open, FALSE) /\ ContainerEnds(self', p, Inner.items)
  OBVIOUS
<1>5. n \in Nat \ {0} /\ n - 1 \in Nat /\ n - 1 <= n /\ n - 1 # n
  <2>1. n \in Nat \ {0}
    BY <1>1, <1>2, Innermost, Zenon
  <2> HIDE DEF n
  <2> QED BY <2>1
<1>6. Placed(open, n - 1)
  BY <1>2, <1>5, OrderlyPlaces, Zenon
<1>7. Pathed(Pop(Where), open, FALSE)
  <2>1. Pathed(Where, open, TRUE)
    BY <1>2, WherePathed, Zenon
  <2> QED BY <1>1, <1>2, <2>1, PathedLeave, Zenon
<1>8. Len(p) = n - 1 /\ Len(Pop(Where)) = n - 1
  BY <1>4, <1>7 DEF Pathed
<1>9. ASSUME NEW q \in Queries PROVE Matches(p, q) <=> Meant(Pop(Where), q)
  <2> DEFINE r == Pop(Where)
  <2>1. Pathed(r, open, FALSE) /\ Len(r) = Len(p) /\ Placed(open, Len(p)) /\ Placed(open, Len(r))
    BY <1>6, <1>7, <1>8
  <2> HIDE DEF r
  <2>2. Matches(p, q) <=> Meant(p, q)
    BY <1>4, <2>1, Hits, Zenon
  <2>3. Meant(p, q) <=> Len(q) = Len(p) /\ Along(open, q, Len(p))
    BY <1>4, <2>1, MeantAlong, Zenon
  <2>4. Meant(r, q) <=> Len(q) = Len(r) /\ Along(open, q, Len(r))
    BY <2>1, MeantAlong, Zenon
  <2>5. Matches(p, q) <=> Meant(r, q)
    BY <2>1, <2>2, <2>3, <2>4, Zenon
  <2> QED BY <2>5 DEF r
<1>10. c # "space" /\ c # "number"
  OBVIOUS
<1>11. ~MayBegin'
  <2>1. phase' \in {"end", "done"}
    BY <1>1 DEF Complete
  <2> QED BY <2>1 DEF MayBegin
<1>12. self'.fresh = FALSE
  BY <1>4 DEF ContainerEnds
<1>13. Located'
  BY <1>1, <1>2, <1>3, <1>10, <1>11, <1>12, GoesOn, Zenon
<1>14. Agreed'
  BY <1>2, <1>4, <1>9, <1>10, SaysCount, Zenon
<1> QED BY <1>3, <1>13, <1>14 DEF Follows

LEMMA ClosingFollows == Queried /\ (CloseObject \/ CloseArray) => Follows
<1>1. ASSUME Queried, CloseObject PROVE Follows
  <2>1. /\ phase \in {"first", "done", "atom"} /\ Len(open) > 0 /\ open[Len(open)].kind = "object"
        /\ self' = Dispatch(self, "}", NoWord) /\ Close("object", "}") /\ Inner = open[Len(open)]
    BY <1>1 DEF CloseObject, Close, Read, Inner, Depth
  <2>2. open \in Seq(Frames) /\ (At(self, open, FALSE) \/ Ended(self, open))
    BY <1>1, <2>1 DEF Queried, IInv, Here, Kind, Ended
  <2>3. \E p : Pathed(p, open, FALSE) /\ ContainerEnds(self', p, Inner.items)
    BY <2>1, <2>2, NoticesInObject, NoticesBehindItem, Zenon
  <2>4. "}" \notin {"space", "number"}
    BY Zenon
  <2> QED BY <1>1, <2>1, <2>3, <2>4, CloseFollows, Zenon
<1>2. ASSUME Queried, CloseArray PROVE Follows
  <2>1. /\ phase \in {"first", "done", "atom"} /\ Len(open) > 0 /\ open[Len(open)].kind = "array"
        /\ self' = Dispatch(self, "]", NoWord) /\ Close("array", "]") /\ Inner = open[Len(open)]
    BY <1>2 DEF CloseArray, Close, Read, Inner, Depth
  <2>2. open \in Seq(Frames) /\ Ended(self, open)
    BY <1>2, <2>1 DEF Queried, IInv, Here, Kind, Ended
  <2>3. \E p : Pathed(p, open, FALSE) /\ ContainerEnds(self', p, Inner.items)
    BY <2>1, <2>2, NoticesBehindItem, Zenon
  <2>4. "]" \notin {"space", "number"}
    BY Zenon
  <2> QED BY <1>2, <2>1, <2>3, <2>4, CloseFollows, Zenon
<1> QED BY <1>1, <1>2

LEMMA TokenFollows == Queried /\ ((\E n \in Values : Atom(n)) \/ StringBegins) => Follows
<1>1. ASSUME Queried, MayBegin, open' = Ticked(open), phase' \in {"atom", "string"}
      PROVE  /\ Orderly(open', phase') /\ Advances /\ ~MayBegin'
             /\ Quiet(Dispatch(self, "number", NoWord)) /\ Quiet(Dispatch(self, "quote", NoWord))
  <2>1. IInv /\ Orderly(open, phase)
    BY <1>1 DEF Queried
  <2>2. open \in Seq(Frames) /\ Len(open) > 0 /\ At(self, open, TRUE)
    BY <1>1, <2>1, Awaits
  <2>3. Orderly(open', phase') /\ Advances
    BY <1>1, <2>1, TurnsToItem, Zenon
  <2>4. ~MayBegin'
    BY <1>1 DEF MayBegin
  <2> QED BY <2>2, <2>3, <2>4, NoticesToken, Zenon
<1>2. ASSUME Queried, NEW n \in Values, Atom(n) PROVE Follows
  <2>1. /\ MayBegin /\ open' = Ticked(open) /\ phase' \in {"atom", "string"}
        /\ Read("number", NoWord, n) /\ self' = Dispatch(self, "number", NoWord)
    BY <1>2, Containers DEF Atom, Read
  <2>2. Orderly(open', phase') /\ Advances /\ ~MayBegin' /\ Quiet(self')
    BY <1>1, <1>2, <2>1
  <2>3. self'.fresh = FALSE /\ self'.left = <<>> /\ "number" # "space" /\ Located /\ Agreed
    BY <1>2, <2>2 DEF Quiet, Queried
  <2>4. Located'
    BY <2>1, <2>2, <2>3, GoesOn, Zenon
  <2>5. Agreed'
    BY <1>2, <2>3, SaysNumber, Zenon
  <2> QED BY <2>2, <2>4, <2>5 DEF Follows
<1>3. ASSUME Queried, StringBegins PROVE Follows
  <2>1. /\ MayBegin /\ open' = Ticked(open) /\ phase' \in {"atom", "string"}
        /\ Read("quote", NoWord, -1) /\ self' = Dispatch(self, "quote", NoWord) /\ UNCHANGED truth
    BY <1>3, Containers DEF StringBegins, Read
  <2>2. Orderly(open', phase') /\ Advances /\ ~MayBegin' /\ Quiet(self')
    BY <1>1, <1>3, <2>1
  <2>3. "quote" \notin {"space", "number"}
    OBVIOUS
  <2> QED BY <1>3, <2>1, <2>2, <2>3, QuietFollows, Zenon
<1> QED BY <1>2, <1>3

\* A character in a string may be any, a space too: no query is at its location.
LEMMA StringFollows ==
  Queried /\ (StringEnds \/ \E c \in {"{", "}", "[", "]", ":", ",", "space", "word"} : InString(c)) => Follows
<1>1. ASSUME Queried, phase = "string", open' = open, phase' \in {"string", "done"}
      PROVE  /\ Orderly(open', phase') /\ Advances /\ ~MayBegin' /\ ~MayBegin
             /\ \A c : Quiet(Dispatch(self, c, NoWord))
  <2>1. IInv /\ Orderly(open, phase)
    BY <1>1 DEF Queried
  <2>2. open \in Seq(Frames) /\ Len(open) > 0 /\ AtToken(self, open, TRUE, "STR")
    BY <1>1, <2>1 DEF IInv, Here
  <2>3. phase' = phase \/ (phase \in {"atom", "string"} /\ phase' = "done")
    BY <1>1
  <2>4. Orderly(open', phase') /\ Advances
    BY <1>1, <2>1, <2>2, <2>3, Turns, Zenon
  <2>5. ~MayBegin' /\ ~MayBegin
    BY <1>1 DEF MayBegin
  <2> QED BY <2>2, <2>4, <2>5, NoticesString, Zenon
<1>2. ASSUME Queried, StringEnds PROVE Follows
  <2>1. /\ phase = "string" /\ open' = open /\ phase' \in {"string", "done"} /\ UNCHANGED truth
        /\ Read("quote", NoWord, -1) /\ self' = Dispatch(self, "quote", NoWord)
    BY <1>2 DEF StringEnds, Read
  <2>2. Orderly(open', phase') /\ Advances /\ ~MayBegin' /\ Quiet(self')
    BY <1>1, <1>2, <2>1
  <2>3. "quote" \notin {"space", "number"}
    OBVIOUS
  <2> QED BY <1>2, <2>1, <2>2, <2>3, QuietFollows, Zenon
<1>3. ASSUME Queried, NEW c, c # "number", InString(c) PROVE Follows
  <2>1. /\ phase = "string" /\ open' = open /\ phase' \in {"string", "done"} /\ UNCHANGED truth
        /\ Read(c, NoWord, -1) /\ self' = Dispatch(self, c, NoWord)
    BY <1>3 DEF InString, Read, text
  <2>2. Orderly(open', phase') /\ Advances /\ ~MayBegin' /\ ~MayBegin /\ Quiet(self')
    BY <1>1, <1>3, <2>1
  <2>3. CASE c # "space"
    <3>1. c \notin {"space", "number"}
      BY <1>3, <2>3
    <3> QED BY <1>3, <2>1, <2>2, <3>1, QuietFollows, Zenon
  <2>4. CASE c = "space"
    <3>1. self'.fresh = FALSE /\ self'.left = <<>> /\ Located /\ Agreed
      BY <1>3, <2>2 DEF Quiet, Queried
    <3>2. Read("space", NoWord, -1)
      BY <2>1, <2>4
    <3>3. Located'
      BY <2>1, <2>2, <3>1, <3>2, Pauses, Zenon
    <3>4. Agreed'
      BY <1>3, <2>1, <3>1, SaysNothing, Zenon
    <3> QED BY <2>2, <3>3, <3>4 DEF Follows
  <2> QED BY <2>3, <2>4
<1>4. \A c \in {"{", "}", "[", "]", ":", ",", "space", "word"} : c # "number"
  BY Zenon
<1> QED BY <1>2, <1>3, <1>4, Zenon

LEMMA NameFollows ==
  Queried /\ (NameBegins \/ (\E w \in Names : Name(w)) \/ NameEnds) => Follows
<1>1. ASSUME Queried, NameBegins PROVE Follows
  <2>1. /\ open' = open /\ phase \in {"first", "next"} /\ phase' = "name" /\ UNCHANGED truth
        /\ Read("quote", NoWord, -1) /\ self' = Dispatch(self, "quote", NoWord)
        /\ Len(open) > 0 /\ open[Len(open)].kind = "object" /\ Kind(open) = "object"
    BY <1>1 DEF NameBegins, Read, Inner, Depth, Kind
  <2>2. IInv /\ Orderly(open, phase) /\ open \in Seq(Frames) /\ At(self, open, FALSE)
    BY <1>1, <2>1 DEF Queried, IInv, Here, Kind
  <2>3. Orderly(open', phase') /\ Advances
    BY <2>1, <2>2, Turns
  <2>4. Quiet(self')
    BY <2>1, <2>2, NoticesInObject, Zenon
  <2>5. ~MayBegin' /\ "quote" \notin {"space", "number"}
    BY <2>1 DEF MayBegin
  <2> QED BY <1>1, <2>1, <2>3, <2>4, <2>5, QuietFollows, Zenon
<1>2. ASSUME Queried, NEW w \in Names, Name(w) PROVE Follows
  <2>1. /\ phase = "name" /\ phase' = "named" /\ UNCHANGED truth
        /\ Read("word", w, -1) /\ self' = Dispatch(self, "word", w)
    BY <1>2 DEF Name, Read
  <2>2. IInv /\ Orderly(open, phase) /\ AtToken(self, open, FALSE, "KEY")
    BY <1>2, <2>1 DEF Queried, IInv, Here
  <2>3. Orderly(open', phase') /\ Advances
    BY <1>2, <2>2, TurnsToName, Zenon
  <2>4. Quiet(self')
    BY <2>1, <2>2, NoticesName, Zenon
  <2>5. ~MayBegin' /\ "word" \notin {"space", "number"}
    BY <2>1 DEF MayBegin
  <2> QED BY <1>2, <2>1, <2>3, <2>4, <2>5, QuietFollows, Zenon
<1>3. ASSUME Queried, NameEnds PROVE Follows
  <2>1. /\ open' = open /\ phase = "named" /\ phase' = "colon" /\ UNCHANGED truth
        /\ Read("quote", NoWord, -1) /\ self' = Dispatch(self, "quote", NoWord)
    BY <1>3 DEF NameEnds, Read
  <2>2. /\ IInv /\ Orderly(open, phase) /\ AtToken(self, open, FALSE, "KEY")
        /\ Len(open) > 0 /\ Kind(open) = "object"
    BY <1>3, <2>1 DEF Queried, IInv, Here
  <2>3. Orderly(open', phase') /\ Advances
    BY <2>1, <2>2, Turns
  <2>4. Quiet(self')
    BY <2>1, <2>2, NoticesName, Zenon
  <2>5. ~MayBegin' /\ "quote" \notin {"space", "number"}
    BY <2>1 DEF MayBegin
  <2> QED BY <1>3, <2>1, <2>3, <2>4, <2>5, QuietFollows, Zenon
<1> QED BY <1>1, <1>2, <1>3

LEMMA ColonFollows == Queried /\ Colon => Follows
<1> SUFFICES ASSUME Queried, Colon PROVE Follows
  OBVIOUS
<1> DEFINE d == Len(open)
<1>1. /\ open' = open /\ phase = "colon" /\ phase' = "value" /\ UNCHANGED truth
      /\ Read(":", NoWord, -1) /\ self' = Dispatch(self, ":", NoWord)
  BY DEF Colon, Read
<1>2. /\ IInv /\ Orderly(open, phase) /\ Located /\ Agreed /\ open \in Seq(Frames) /\ d > 0
      /\ Kind(open) = "object" /\ open[d].kind = "object" /\ At(self, open, FALSE)
      /\ open[d].at = Named(self.span)
  BY <1>1 DEF Queried, IInv, Here, Kind
<1>3. Orderly(open', phase') /\ Advances
  BY <1>1, <1>2, Turns
<1>4. ItemBegins(self')
  BY <1>1, <1>2, NoticesInObject, Zenon
<1>5. At(self', open', TRUE)
  BY <1>1, <1>2, ReadsColon, Zenon
<1>6. d \in Nat \ {0} /\ d \in 1 .. d /\ open[d] \in Frames
  BY <1>2, Innermost, Zenon
<1>7. ASSUME NEW q \in Queries, Len(q) = d, Along(open, q, d) PROVE ~Reached(open, phase, q)
  <2>1. d <= Len(q)
    BY <1>6, <1>7, Itself, Zenon
  <2>2. Along(open, q, d - 1) /\ HereAt(open[d], q[d])
    BY <1>6, <1>7, AlongMore, Zenon
  <2>3. ~BehindAt(open[d], q[d])
    BY <1>6, <2>2, NeverBoth, Zenon
  <2>4. phase # "end" /\ phase \notin Gone /\ ~Arrived(open, phase)
    BY <1>1 DEF Gone, Arrived
  <2> QED BY <1>2, <2>1, <2>2, <2>3, <2>4, Ahead, Zenon
<1>8. ":" # "space" /\ ":" # "number"
  BY Zenon
<1>9. Located'
  BY <1>1, <1>2, <1>3, <1>4, <1>5, <1>7, <1>8, ComesUpThere, Zenon
<1>10. self'.left = <<>>
  BY <1>4 DEF ItemBegins
<1>11. Agreed'
  BY <1>1, <1>2, <1>8, <1>10, SaysNothing, Zenon
<1> QED BY <1>3, <1>9, <1>11 DEF Follows

LEMMA CommaFollows == Queried /\ Comma => Follows
<1> SUFFICES ASSUME Queried, Comma PROVE Follows
  OBVIOUS
<1> DEFINE d == Len(open)
<1>1. /\ phase \in {"done", "atom"} /\ d > 0 /\ UNCHANGED truth
      /\ Read(",", NoWord, -1) /\ self' = Dispatch(self, ",", NoWord)
      /\ IF open[d].kind = "array"
         THEN phase' = "value" /\ open' = [open EXCEPT ![d].at = Indexed(open[d].items)]
         ELSE phase' = "next" /\ open' = open
  BY DEF Comma, Read, Inner, Depth
<1>2. IInv /\ Orderly(open, phase) /\ Located /\ Agreed /\ open \in Seq(Frames) /\ Ended(self, open)
  BY <1>1 DEF Queried, IInv, Here, Ended
<1>3. d \in Nat \ {0} /\ open[d] \in Frames
  BY <1>1, <1>2, Innermost, Zenon
<1>4. "," \notin {"space", "number"} /\ "," # "space" /\ "," # "number"
  BY Zenon
<1>5. CASE open[d].kind = "array"
  <2>1. /\ open' = [open EXCEPT ![d].at = Indexed(open[d].items)] /\ phase' = "value"
        /\ Kind(open) = "array"
    BY <1>1, <1>5 DEF Kind
  <2>2. /\ Orderly(open', phase') /\ Advances
        /\ Len(open') = d /\ open' \in Seq(Frames) /\ Kind(open') = "array"
        /\ Around(open, open', d - 1)
        /\ \A v : HereAt(open'[d], v) => ~HereAt(open[d], v) /\ ~BehindAt(open[d], v)
    BY <1>1, <1>2, <2>1, TurnsToNext, Zenon
  <2>3. ItemBegins(self')
    BY <1>1, <1>2, <1>5, NoticesBehindItem, Zenon
  <2>4. At(self', open', TRUE)
    BY <1>1, <1>2, <1>5, <2>1, CommaInArray, Zenon
  <2>5. ASSUME NEW q \in Queries, Len(q) = Len(open'), Along(open', q, Len(open'))
        PROVE  ~Reached(open, phase, q)
    <3>1. d <= Len(q)
      BY <1>3, <2>2, <2>5
    <3>2. Along(open', q, d - 1) /\ HereAt(open'[d], q[d])
      BY <1>3, <2>2, <2>5, AlongMore, Zenon
    <3>3. Along(open, q, d - 1)
      <4>1. d - 1 \in Nat
        BY <1>3, Before, Zenon
      <4>2. d - 1 <= d - 1
        BY <4>1, Itself, Zenon
      <4> QED BY <2>2, <3>2, <4>1, <4>2, AlongAround, Zenon
    <3>4. ~HereAt(open[d], q[d]) /\ ~BehindAt(open[d], q[d])
      BY <2>2, <3>2, Zenon
    <3>5. phase # "end"
      BY <1>1
    <3> QED BY <1>2, <3>1, <3>3, <3>4, <3>5, Ahead, Zenon
  <2>6. Len(open') > 0
    BY <1>1, <2>2
  <2>7. Located'
    BY <1>1, <1>2, <1>4, <2>1, <2>2, <2>3, <2>4, <2>5, <2>6, ComesUpThere, Zenon
  <2>8. self'.left = <<>>
    BY <2>3 DEF ItemBegins
  <2>9. Agreed'
    BY <1>1, <1>2, <1>4, <2>8, SaysNothing, Zenon
  <2> QED BY <2>2, <2>7, <2>9 DEF Follows
<1>6. CASE open[d].kind # "array"
  <2>1. /\ open' = open /\ phase' = "next" /\ open[d].kind = "object" /\ Kind(open) = "object"
    BY <1>1, <1>3, <1>6 DEF Kind, Frames, Kinds
  <2>2. Orderly(open', phase') /\ Advances
    BY <1>1, <1>2, <2>1, Turns
  <2>3. Quiet(self')
    BY <1>1, <1>2, <2>1, NoticesBehindItem, Zenon
  <2>4. ~MayBegin'
    BY <2>1 DEF MayBegin
  <2> QED BY <1>1, <1>4, <2>2, <2>3, <2>4, QuietFollows, Zenon
<1> QED BY <1>5, <1>6

LEMMA SpaceFollows == Queried /\ Space => Follows
<1> SUFFICES ASSUME Queried, Space PROVE Follows
  OBVIOUS
<1>1. /\ phase \notin {"name", "named", "string"} /\ UNCHANGED truth
      /\ phase' = (IF phase = "atom" THEN "done" ELSE phase) /\ open' = open
      /\ Read("space", NoWord, -1) /\ self' = Dispatch(self, "space", NoWord)
  BY DEF Space, Read
<1>2. IInv /\ Orderly(open, phase) /\ Located /\ Agreed /\ open \in Seq(Frames)
  BY DEF Queried, IInv, Here
<1>3. Orderly(open', phase') /\ Advances /\ Quiet(self')
  <2>1. CASE open = <<>>
    <3>1. phase' = phase /\ At(self, open, TRUE)
      <4>1. ~(Len(open) > 0)
        BY <2>1
      <4> QED BY <1>1, <1>2, <4>1 DEF IInv, Here
    <3>2. Dispatch(self, "space", NoWord) = Root(Fresh(self), "space")
      BY <2>1, <3>1, ReadsRoot
    <3>3. Quiet(self')
      BY <1>1, <3>1, <3>2, Rests DEF Root
    <3> QED BY <1>1, <1>2, <3>1, <3>3 DEF Advances
  <2>2. CASE open # <<>>
    <3>1. Len(open) > 0
      BY <1>2, <2>2, EmptySeq, LenProperties
    <3>2. phase' = phase \/ (phase \in {"atom", "string"} /\ phase' = "done")
      BY <1>1
    <3>3. Orderly(open', phase') /\ Advances
      BY <1>1, <1>2, <3>1, <3>2, Turns, Zenon
    <3>4. Ended(self, open) \/ (open[Len(open)].kind = "object" /\ At(self, open, FALSE))
      BY <1>1, <1>2, <2>2 DEF IInv, Here, Ended, Kind, Phases
    <3>5. Quiet(self')
      BY <1>1, <1>2, <3>1, <3>4, NoticesInObject, NoticesBehindItem, Zenon
    <3> QED BY <3>3, <3>5
  <2> QED BY <2>1, <2>2
<1>4. MayBegin' <=> MayBegin
  BY <1>1 DEF MayBegin, Inner, Depth
<1>5. self'.fresh = FALSE /\ self'.left = <<>> /\ "space" # "number"
  BY <1>3 DEF Quiet
<1>6. Located'
  BY <1>1, <1>2, <1>3, <1>4, <1>5, Pauses, Zenon
<1>7. Agreed'
  BY <1>1, <1>2, <1>5, SaysNothing, Zenon
<1> QED BY <1>3, <1>6, <1>7 DEF Follows

LEMMA QueriedStep == Shaped /\ Queried /\ [Write]_vars => Queried'
<1> SUFFICES ASSUME Shaped, Queried, [Write]_vars PROVE Queried'
  OBVIOUS
<1>1. CASE UNCHANGED vars
  <2>1. /\ open' = open /\ phase' = phase /\ self' = self /\ loc' = loc /\ value' = value
        /\ count' = count /\ meant' = meant /\ total' = total
    BY <1>1 DEF vars, text, results, truth
  <2>2. IInv'
    BY <2>1 DEF Queried, IInv
  <2>3. Located'
    BY <2>1 DEF Queried, Located, MayBegin, Inner, Where, Depth
  <2>4. Agreed'
    BY <2>1 DEF Queried, Agreed
  <2> QED BY <2>1, <2>2, <2>3, <2>4 DEF Queried
<1>2. CASE Write
  <2>1. Follows
    BY <1>2, OpenObjectFollows, OpenArrayFollows, ClosingFollows, TokenFollows, StringFollows,
       NameFollows, ColonFollows, CommaFollows, SpaceFollows, Zenon DEF Write
  <2>2. IInv'
    BY <1>2, Step, Zenon DEF Queried
  <2> QED BY <2>1, <2>2 DEF Queried, Follows
<1> QED BY <1>1, <1>2

LEMMA QueriedBase == JsonInit => Queried
<1> SUFFICES ASSUME JsonInit PROVE Queried
  OBVIOUS
<1>1. IInv
  BY Base
<1>2. open = <<>> /\ Len(open) = 0 /\ phase = "root"
  BY DEF JsonInit
<1>3. Orderly(open, phase)
  BY <1>2 DEF Orderly
<1>4. Located
  <2>1. ~MayBegin
    BY <1>2 DEF MayBegin
  <2> QED BY <2>1 DEF JsonInit, Located
<1>5. Agreed
  BY DEF JsonInit, Agreed, Unanswered
<1> QED BY <1>1, <1>3, <1>4, <1>5 DEF Queried

\* In a document of any depth and length whose arrays are where the queries
\* expect them, every query returns the number at its path and no other, and
\* the count of items of the container there, as soon as it has been read.
THEOREM Answering == Shaped => (JsonSpec => []Answers)
<1> SUFFICES ASSUME Shaped PROVE JsonSpec => []Answers
  OBVIOUS
<1>1. Queried => Answers
  BY DEF Queried, Agreed, Answers
<1>2. Queried /\ [Write]_vars => Queried'
  BY QueriedStep
<1> QED BY <1>1, <1>2, QueriedBase, PTL DEF JsonSpec

\* The same for the texts of "seq json", between and behind any commands.
THEOREM AnswersLists == Shaped => (Spec => []Answers)
<1> SUFFICES ASSUME Shaped PROVE Spec => []Answers
  OBVIOUS
<1>1. Init => Queried
  BY QueriedBase DEF Init
<1>2. Queried /\ [Next]_cvars => Queried'
  <2>1. ASSUME Queried, WriteList PROVE Queried'
    BY <2>1, QueriedStep DEF WriteList
  <2>2. ASSUME Queried, UNCHANGED vars PROVE Queried'
    BY <2>2, QueriedStep
  <2>3. ASSUME SeqJson PROVE Queried'
    <3>1. /\ open' = <<>> /\ phase' = "root" /\ self' = Unread
          /\ loc' = [q \in Queries |-> "none"] /\ value' = Unanswered /\ count' = Unanswered
          /\ meant' = Unanswered /\ total' = Unanswered /\ Len(open') = 0
      BY <2>3 DEF SeqJson
    <3>2. IInv'
      BY <2>3, SeqJsonKeeps
    <3>3. Orderly(open', phase')
      BY <3>1 DEF Orderly
    <3>4. Located'
      <4>1. ~MayBegin'
        BY <3>1 DEF MayBegin
      <4> QED BY <3>1, <4>1 DEF Located
    <3>5. Agreed'
      BY <3>1 DEF Agreed, Unanswered
    <3> QED BY <3>2, <3>3, <3>4, <3>5 DEF Queried
  <2>4. UNCHANGED cvars => UNCHANGED vars
    BY DEF cvars
  <2> QED BY <2>1, <2>2, <2>3, <2>4, CommandReads, Zenon DEF Next
<1>3. Queried => Answers
  BY DEF Queried, Agreed, Answers
<1> QED BY <1>1, <1>2, <1>3, PTL DEF Spec

-----------------------------------------------------------------------------
(* The memory of the descriptors.                                           *)

Images(seq) == {i \in DOMAIN seq : seq[i].ram # <<>>}

LEMMA HeldIs ==
  ASSUME NEW S, NEW seq \in Seq(S)
  PROVE  IsFiniteSet(Images(seq)) /\ Held(seq) = 3 * Len(seq) + Cardinality(Images(seq))
         /\ Cardinality(Images(seq)) \in Nat /\ Len(seq) \in Nat /\ Images(seq) \subseteq 1 .. Len(seq)
<1>1. Len(seq) \in Nat /\ DOMAIN seq = 1 .. Len(seq)
  BY LenProperties
<1>2. IsFiniteSet(1 .. Len(seq)) /\ Images(seq) \subseteq 1 .. Len(seq)
  BY <1>1, FS_Interval DEF Images
<1>3. IsFiniteSet(Images(seq)) /\ Cardinality(Images(seq)) \in Nat
  BY <1>2, FS_Subset, FS_CardinalityType
<1> QED BY <1>1, <1>2, <1>3 DEF Held, Images

LEMMA HeldAdds ==
  ASSUME NEW S, NEW seq \in Seq(S), NEW e
  PROVE  /\ Append(seq, e) \in Seq(S \cup {e})
         /\ Held(seq) \in Nat /\ Owned(e) \in Nat
         /\ Held(Append(seq, e)) = Held(seq) + Owned(e)
<1> DEFINE n == Len(seq)
           t == Append(seq, e)
<1>1. seq \in Seq(S \cup {e})
  BY SeqMonotonic
<1>2. /\ t \in Seq(S \cup {e}) /\ Len(t) = n + 1 /\ n \in Nat
      /\ (\A i \in 1 .. n : t[i] = seq[i]) /\ t[n + 1] = e
  BY <1>1, AppendProperties, LenProperties
<1>3. DOMAIN seq = 1 .. n /\ DOMAIN t = 1 .. Len(t)
  <2> HIDE DEF t
  <2> QED BY <1>1, <1>2, LenProperties
<1>4. /\ IsFiniteSet(Images(seq)) /\ Held(seq) = 3 * n + Cardinality(Images(seq))
      /\ Cardinality(Images(seq)) \in Nat /\ Images(seq) \subseteq 1 .. n
  BY HeldIs
<1>5. Held(t) = 3 * (n + 1) + Cardinality(Images(t))
  <2> HIDE DEF t
  <2> QED BY <1>2, HeldIs
<1> HIDE DEF t, n
<1>6. CASE e.ram # <<>>
  <2>1. Images(t) = Images(seq) \cup {n + 1}
    BY <1>2, <1>3, <1>6 DEF Images
  <2>2. n + 1 \notin Images(seq)
    BY <1>2, <1>4
  <2>3. Cardinality(Images(t)) = Cardinality(Images(seq)) + 1
    BY <1>4, <2>1, <2>2, FS_AddElement
  <2>4. Owned(e) = 4
    BY <1>6 DEF Owned
  <2>5. Held(t) = Held(seq) + Owned(e) /\ Held(seq) \in Nat /\ Owned(e) \in Nat
    BY <1>2, <1>4, <1>5, <2>3, <2>4
  <2> QED BY <1>2, <2>5 DEF t
<1>7. CASE e.ram = <<>>
  <2>1. Images(t) = Images(seq)
    BY <1>2, <1>3, <1>7 DEF Images
  <2>2. Owned(e) = 3
    BY <1>7 DEF Owned
  <2>3. Held(t) = Held(seq) + Owned(e) /\ Held(seq) \in Nat /\ Owned(e) \in Nat
    BY <1>2, <1>4, <1>5, <2>1, <2>2
  <2> QED BY <1>2, <2>3 DEF t
<1> QED BY <1>6, <1>7

LEMMA HeldNone == Held(<<>>) = 0 /\ \A e : Held(<<e>>) = Owned(e) /\ <<e>> \in Seq({e})
<1>1. <<>> \in Seq({}) /\ Len(<<>>) = 0
  BY EmptySeq
<1>2. Images(<<>>) = {}
  BY DEF Images
<1>3. Held(<<>>) = 0
  <2>1. Held(<<>>) = 3 * Len(<<>>) + Cardinality(Images(<<>>))
    BY <1>1, HeldIs
  <2>2. Cardinality(Images(<<>>)) = 0
    BY <1>2, FS_EmptySet
  <2> QED BY <1>1, <2>1, <2>2
<1>4. ASSUME NEW e PROVE Held(<<e>>) = Owned(e) /\ <<e>> \in Seq({e})
  <2>1. /\ Append(<<>>, e) \in Seq({} \cup {e}) /\ Owned(e) \in Nat
        /\ Held(Append(<<>>, e)) = Held(<<>>) + Owned(e)
    BY <1>1, HeldAdds
  <2>2. Append(<<>>, e) = <<e>> /\ {} \cup {e} = {e}
    OBVIOUS
  <2> QED BY <1>3, <2>1, <2>2
<1> QED BY <1>3, <1>4

\* The heap holds the blocks of the descriptors, which are a sequence.
Balance == (\E S : sequence \in Seq(S)) /\ blocks = Held(sequence)

LEMMA SameBalance == Balance /\ UNCHANGED <<sequence, blocks>> => Balance'
BY DEF Balance

\* sequencer_add() and sequencer_reset().
LEMMA AddBalance ==
  ASSUME Balance, NEW e, NEW what, Add(e, what) \/ Only(e, what)
  PROVE  Balance'
<1> PICK S : sequence \in Seq(S)
  BY DEF Balance
<1>1. Held(sequence) \in Nat /\ Owned(e) \in Nat /\ blocks = Held(sequence)
  BY HeldAdds DEF Balance
<1>2. CASE Add(e, what)
  <2>1. sequence' = Append(sequence, e) /\ blocks' = blocks + Owned(e)
    BY <1>2 DEF Add
  <2>2. sequence' \in Seq(S \cup {e}) /\ Held(sequence') = Held(sequence) + Owned(e)
    BY <2>1, HeldAdds
  <2> QED BY <1>1, <2>1, <2>2 DEF Balance
<1>3. CASE Only(e, what)
  <2>1. sequence' = <<e>> /\ blocks' = blocks - Held(sequence) + Owned(e)
    BY <1>3 DEF Only
  <2>2. sequence' \in Seq({e}) /\ Held(sequence') = Owned(e)
    BY <2>1, HeldNone
  <2>3. blocks' = Held(sequence')
    BY <1>1, <2>1, <2>2
  <2> QED BY <2>2, <2>3 DEF Balance
<1> QED BY <1>2, <1>3

LEMMA Nothing == ASSUME NEW h \in Nat PROVE h - h = 0
<1>1. \A b, h1 \in Int : b <= h1 /\ b >= h1 => b - h1 = 0
  OBVIOUS
<1> QED BY <1>1

LEMMA CommandBalance ==
  ASSUME "zero frequency" \notin Slips, Balance, Command
  PROVE  Balance'
<1>1. ASSUME Reset PROVE Balance'
  <2>1. sequence' = <<>> /\ blocks' = blocks - Held(sequence)
    BY <1>1 DEF Reset
  <2> PICK S : sequence \in Seq(S)
    BY DEF Balance
  <2>2. Held(sequence) \in Nat
    BY HeldAdds
  <2>3. sequence' \in Seq({})
    BY <2>1, EmptySeq
  <2>4. blocks' = 0
    <3>1. blocks = Held(sequence) /\ blocks' = blocks - Held(sequence)
      BY <1>1 DEF Reset, Balance
    <3> QED BY <2>2, <3>1, Nothing, Zenon
  <2>5. Held(sequence') = 0
    BY <2>1, HeldNone
  <2> QED BY <2>3, <2>4, <2>5 DEF Balance
<1>2. ASSUME Halt \/ Return PROVE Balance'
  BY <1>2, SameBalance DEF Halt, Return
<1>3. ASSUME NEW o, NEW d, NEW f, SeqPulse(o, d, f) \/ BasicPulse(o, d, f) PROVE Balance'
  <2>1. Halt \/ Return \/ (\E e, what : Add(e, what) \/ Only(e, what))
    BY <1>3, Zenon DEF SeqPulse, BasicPulse
  <2> QED BY <1>2, <2>1, AddBalance
<1>4. ASSUME NEW o, NEW d, NEW f, NEW a, NEW b, NEW run, Sweep(o, d, f, a, b, run) PROVE Balance'
  <2>1. Halt \/ Return \/ (\E e, what : Add(e, what) \/ Only(e, what))
    BY <1>4, Zenon DEF Sweep
  <2> QED BY <1>2, <2>1, AddBalance
<1>5. ASSUME NEW o, NEW fs, NEW t, NEW data, NEW profiles, NEW ram, NEW ftw, NEW what,
             Xmit(o, fs, t, data, profiles, ram, ftw, what)
      PROVE  Balance'
  <2>1. Halt \/ Return \/ (\E e, w : Add(e, w) \/ Only(e, w))
    BY <1>5, Zenon DEF Xmit
  <2> QED BY <1>2, <2>1, AddBalance
<1>6. ASSUME NEW o, NEW f, NEW t, NEW data, XmitRamPsk(o, f, t, data) PROVE Balance'
  <2>1. Halt \/ Return \/ (\E e, w : Add(e, w) \/ Only(e, w))
    BY <1>6, Zenon DEF XmitRamPsk
  <2> QED BY <1>2, <2>1, AddBalance
<1>7. ASSUME NEW o, NEW f1, NEW f2, NEW t, NEW data, XmitFsk(o, f1, f2, t, data) PROVE Balance'
  BY <1>5, <1>7, Zenon DEF XmitFsk
<1>8. ASSUME NEW o, NEW f, NEW t, NEW data, XmitPsk(o, f, t, data) \/ XmitZcPsk(o, f, t, data)
      PROVE  Balance'
  BY <1>5, <1>8, Zenon DEF XmitPsk, XmitZcPsk
<1>9. ASSUME SeqJson PROVE Balance'
  <2>1. Halt \/ (\E e, w : Add(e, w) \/ Only(e, w))
    BY <1>9, Zenon DEF SeqJson
  <2> QED BY <1>2, <2>1, AddBalance
<1> QED BY <1>1, <1>3, <1>4, <1>6, <1>7, <1>8, <1>9 DEF Command

\* As long as no command is given a frequency of zero, the heap holds between
\* commands the blocks of the descriptors in the sequence and no others,
\* whatever was built, refused and replaced, and in a sequence of any length.
THEOREM NothingLeaks == "zero frequency" \notin Slips => (Spec => []BlocksOwned)
<1> SUFFICES ASSUME "zero frequency" \notin Slips PROVE Spec => []BlocksOwned
  OBVIOUS
<1>1. Init => Balance
  <2>1. <<>> \in Seq({})
    BY EmptySeq
  <2> QED BY <2>1, HeldNone DEF Init, Balance
<1>2. Balance /\ [Next]_cvars => Balance'
  <2>1. ASSUME Balance, WriteList \/ UNCHANGED cvars PROVE Balance'
    BY <2>1, SameBalance DEF WriteList, cvars
  <2> QED BY <2>1, CommandBalance DEF Next
<1>3. Balance => BlocksOwned
  BY DEF Balance, BlocksOwned
<1> QED BY <1>1, <1>2, <1>3, PTL DEF Spec
=============================================================================
