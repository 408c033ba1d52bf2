----------------------------- MODULE HeapProofs -----------------------------
(***************************************************************************)
(* Proofs about Heap, for a heap of any size, any number of tasks and any  *)
(* sizes asked for: its blocks tile it, free blocks that touch have been   *)
(* joined, and it is an allocator.                                         *)
(*                                                                         *)
(* A heap is sound if its blocks tile it and its list has, in order of     *)
(* address, the blocks that are not off it.  The steps of malloc(), free() *)
(* and realloc() take a sound heap to a sound heap through others that are *)
(* sound but for touching neighbours: a block is taken off the list, split *)
(* in two, put on the list, joined with the one behind it.                 *)
(***************************************************************************)
EXTENDS Heap, WellFoundedInduction, TLAPS

Heaps == [size : [Addr -> 0 .. End], next : [Nodes -> Addr \cup {End, Null}]]

BlocksOf(h) == {a \in Addr : h.size[a] > 0}
FreeOf(h) == Listed(h) \ {Start}

\* Tiled, of any heap.
Tiles(h) ==
  /\ 0 \in BlocksOf(h)
  /\ \A b \in BlocksOf(h) : b + h.size[b] \in BlocksOf(h) \cup {End}
  /\ \A b, c \in BlocksOf(h) : b < c => b + h.size[b] <= c

\* The list runs from xStart to pxEnd in order of address and leaves out none
\* of its nodes.
Ordered(h) ==
  /\ Start \in Listed(h)
  /\ \A n \in Listed(h) :
       /\ h.next[n] \in FreeOf(h) \cup {End}
       /\ n < h.next[n]
       /\ \A m \in Listed(h) : m <= n \/ h.next[n] <= m

\* Block b does not touch the one it leads to.
Clear(h, b) == b + h.size[b] < h.next[b] \/ h.next[b] = End

\* The blocks `off` are those that are not on the list; those of `touching`
\* may touch the next one.
Sound(h, off, touching) ==
  /\ h \in Heaps
  /\ Tiles(h)
  /\ Ordered(h)
  /\ off \subseteq BlocksOf(h) /\ FreeOf(h) = BlocksOf(h) \ off
  /\ \A b \in FreeOf(h) \ touching : Clear(h, b)

\* Block b off the list becomes one of w units and another.
Split(h, b, w) ==
  [h EXCEPT !.size = [h.size EXCEPT ![b] = w, ![b + w] = h.size[b] - w]]

\* Block b is put on the list.
PutOn(h, b) ==
  [h EXCEPT !.next = [h.next EXCEPT ![b] = h.next[Before(h, b)], ![Before(h, b)] = b]]

\* Block b swallows the one it leads to.
Swallow(h, b) ==
  LET q == h.next[b]
  IN [size |-> [h.size EXCEPT ![b] = h.size[b] + h.size[q], ![q] = 0],
      next |-> [h.next EXCEPT ![b] = h.next[q], ![q] = Null]]

\* Blocks in use are off the list, and so are those on their way to it, each
\* of which one task is freeing.
Off == used \cup Held

IInv ==
  /\ Sound(Heap, Off, {})
  /\ used \subseteq Addr
  /\ room \in Int
  /\ freeing \in [Tasks -> Addr \cup {Null}]
  /\ used \cap Held = {}
  /\ \A t, u \in Tasks : freeing[t] = freeing[u] => t = u \/ freeing[t] = Null

-----------------------------------------------------------------------------
(* Least and greatest.                                                      *)

LEMMA LeastIs ==
  ASSUME NEW S, S \subseteq Nat, S # {}
  PROVE  Min(S) \in S /\ \A x \in S : Min(S) <= x
<1>1. PICK m \in S : \A x \in S : <<x, m>> \notin OpToRel(<, Nat)
  BY WFMin, NatLessThanWellFounded, Zenon
<1>2. \A x \in S : ~(x < m)
  BY <1>1, Zenon DEF OpToRel
<1>3. \A x \in S : m <= x
  BY <1>2
<1> QED BY <1>3 DEF Min

LEMMA GreatestIs ==
  ASSUME NEW S, S \subseteq Int, S # {}, NEW top \in Int, \A x \in S : x <= top
  PROVE  Max(S) \in S /\ \A x \in S : x <= Max(S)
<1> DEFINE T == {top - x : x \in S}
<1>1. T \subseteq Nat /\ T # {}
  <2>1. \A x \in S : top - x \in Nat
    OBVIOUS
  <2> QED BY <2>1
<1>2. Min(T) \in T /\ \A y \in T : Min(T) <= y
  BY <1>1, LeastIs
<1>3. PICK m \in S : top - m = Min(T)
  BY <1>2
<1>4. \A x \in S : Min(T) <= top - x
  BY <1>2
<1>5. \A x \in S : x <= m
  BY <1>3, <1>4
<1> QED BY <1>5 DEF Max

-----------------------------------------------------------------------------
(* The list.                                                                *)

LEMMA Places ==
  /\ \A n \in Nodes : n \in Int
  /\ \A a \in Addr : a \in Nodes /\ a \in Int /\ 0 <= a /\ a < End /\ a # Start /\ a # Null
  /\ \A n \in Nodes : n = Start \/ n \in Addr
  /\ Start \in Nodes /\ Start < 0 /\ Start \notin Addr /\ Start # End
  /\ Null \notin Nodes /\ Null \in Int /\ Null # End
  /\ End \in Nat /\ End > 0 /\ 0 \in Addr /\ End \notin Addr
  /\ \A a \in Nat : a < End => a \in Addr
BY EndAssumption DEF Addr, Nodes, Start, Null

\* The walk for a place ends on the last node in front of it.
LEMMA WalkEnds ==
  ASSUME NEW h \in Heaps, Ordered(h), NEW b \in Addr
  PROVE  /\ Before(h, b) \in Listed(h) /\ Before(h, b) < b
         /\ \A n \in Listed(h) : n < b => n <= Before(h, b)
         /\ h.next[Before(h, b)] \in FreeOf(h) \cup {End}
         /\ b <= h.next[Before(h, b)]
         /\ b \in Listed(h) => h.next[Before(h, b)] = b
<1> DEFINE S == {n \in Listed(h) : n < b}
           p == Before(h, b)
<1>1. S \subseteq Int /\ Start \in S /\ b \in Int
  BY Places DEF Ordered, Listed
<1>2. p \in S /\ \A n \in S : n <= p
  <2>1. \A n \in S : n <= b
    BY <1>1
  <2>2. Max(S) \in S /\ \A n \in S : n <= Max(S)
    <3> HIDE DEF S
    <3> QED BY <1>1, <2>1, GreatestIs
  <2> QED BY <2>2 DEF Before
<1> HIDE DEF p
<1>3. p \in Listed(h) /\ p < b /\ \A n \in Listed(h) : n < b => n <= p
  BY <1>2
<1>4. h.next[p] \in FreeOf(h) \cup {End} /\ p < h.next[p]
  BY <1>3 DEF Ordered
<1>5. b <= h.next[p]
  BY <1>1, <1>3, <1>4, Places DEF FreeOf, Listed
<1>6. b \in Listed(h) => h.next[p] = b
  <2>1. b \in Listed(h) => b <= p \/ h.next[p] <= b
    BY <1>3 DEF Ordered
  <2>2. p \in Int /\ h.next[p] \in Int
    BY <1>3, <1>4, Places DEF FreeOf, Listed
  <2> QED BY <1>1, <1>3, <1>5, <2>1, <2>2
<1> QED BY <1>3, <1>4, <1>5, <1>6 DEF p

\* A block is taken off the list.
LEMMA TakesOff ==
  ASSUME NEW h, NEW off, Sound(h, off, {}), NEW b \in FreeOf(h)
  PROVE  Sound(Unlink(h, b), off \cup {b}, {}) /\ Unlink(h, b).size = h.size
<1> DEFINE p == Before(h, b)
           u == Unlink(h, b)
<1>1. h \in Heaps /\ Tiles(h) /\ Ordered(h) /\ b \in Addr /\ b \in Listed(h)
  BY Places DEF Sound, FreeOf, Listed
<1>2. /\ p \in Listed(h) /\ p < b /\ h.next[p] = b
      /\ \A n \in Listed(h) : n < b => n <= p
  BY <1>1, WalkEnds
<1>3. p \in Nodes /\ b \in Nodes /\ p # b /\ p \in Int /\ b \in Int
  BY <1>1, <1>2, Places DEF Listed
<1> HIDE DEF p
<1>4. /\ u.size = h.size
      /\ u.next = [h.next EXCEPT ![p] = h.next[b], ![b] = Null]
      /\ u = [size |-> u.size, next |-> u.next]
  BY <1>1 DEF Unlink, p, Heaps
<1> HIDE DEF u
<1>5. u.next[p] = h.next[b] /\ u.next[b] = Null /\ \A n \in Nodes \ {p, b} : u.next[n] = h.next[n]
  BY <1>1, <1>3, <1>4 DEF Heaps
<1>6. /\ h.next[b] \in FreeOf(h) \cup {End} /\ h.next[b] \in Int
      /\ b < h.next[b] /\ h.next[b] # Null /\ h.next[b] # b
  BY <1>1, Places DEF Ordered, FreeOf, Listed
<1>7. u \in Heaps
  <2>1. u.next \in [Nodes -> Addr \cup {End, Null}]
    BY <1>1, <1>3, <1>4 DEF Heaps
  <2> QED BY <1>1, <1>4, <2>1 DEF Heaps
<1>8. Listed(u) = Listed(h) \ {b}
  BY <1>2, <1>3, <1>5, <1>6 DEF Listed
<1>9. FreeOf(u) = FreeOf(h) \ {b}
  BY <1>8 DEF FreeOf
<1>10. BlocksOf(u) = BlocksOf(h) /\ Tiles(u)
  BY <1>1, <1>4 DEF Tiles, BlocksOf
<1>11. Ordered(u)
  <2>1. Start \in Listed(u)
    BY <1>1, <1>8, Places DEF Ordered
  <2>2. ASSUME NEW n \in Listed(u)
        PROVE  /\ u.next[n] \in FreeOf(u) \cup {End}
               /\ n < u.next[n]
               /\ \A m \in Listed(u) : m <= n \/ u.next[n] <= m
    <3>1. n \in Listed(h) /\ n # b /\ n \in Int
      BY <1>8, Places DEF Listed
    <3>2. CASE n = p
      <4>1. u.next[n] \in FreeOf(u) \cup {End}
        BY <1>5, <1>6, <1>9, <3>2
      <4>2. n < u.next[n]
        BY <1>2, <1>3, <1>5, <1>6, <3>2
      <4>3. ASSUME NEW m \in Listed(u) PROVE m <= n \/ u.next[n] <= m
        <5>1. m \in Listed(h) /\ m # b /\ m \in Int
          BY <1>8, Places DEF Listed
        <5>2. m <= b \/ h.next[b] <= m
          BY <1>1, <5>1 DEF Ordered
        <5> QED BY <1>2, <1>3, <1>5, <3>2, <5>1, <5>2
      <4> QED BY <4>1, <4>2, <4>3
    <3>3. CASE n # p
      <4>1. u.next[n] = h.next[n]
        BY <1>5, <3>1, <3>3 DEF Listed
      <4>2. h.next[n] # b
        <5>1. ASSUME h.next[n] = b PROVE FALSE
          <6>1. n < b
            BY <1>1, <3>1, <5>1 DEF Ordered
          <6>2. n < p /\ p < b
            BY <1>2, <1>3, <3>1, <3>3, <6>1
          <6>3. p <= n \/ b <= p
            BY <1>1, <1>2, <3>1, <5>1 DEF Ordered
          <6> QED BY <1>3, <3>1, <6>2, <6>3
        <5> QED BY <5>1
      <4> QED BY <1>1, <1>8, <1>9, <3>1, <4>1, <4>2 DEF Ordered
    <3> QED BY <3>2, <3>3
  <2> QED BY <2>1, <2>2 DEF Ordered
<1>12. ASSUME NEW a \in FreeOf(u) PROVE Clear(u, a)
  <2>1. a \in FreeOf(h) /\ Clear(h, a) /\ a # b /\ a \in Addr
    BY <1>9, Places DEF Sound, FreeOf, Listed
  <2>2. CASE a = p
    <3>1. a + h.size[a] < b
      BY <1>1, <1>2, <2>1, <2>2, Places DEF Clear
    <3> QED BY <1>1, <1>3, <1>4, <1>5, <1>6, <2>1, <2>2, <3>1, Places
            DEF Clear, Heaps, FreeOf, Listed
  <2>3. CASE a # p
    BY <1>4, <1>5, <2>1, <2>3, Places DEF Clear
  <2> QED BY <2>2, <2>3
<1>13. b \in BlocksOf(h) /\ b \notin off
  BY DEF Sound
<1> QED BY <1>4, <1>7, <1>9, <1>10, <1>11, <1>12, <1>13 DEF Sound, u

\* A block off the list is split.
LEMMA Splits ==
  ASSUME NEW h, NEW off, Sound(h, off, {}), NEW b \in off,
         NEW w \in Nat, 0 < w, w < h.size[b]
  PROVE  /\ Sound(Split(h, b, w), off \cup {b + w}, {})
         /\ b + w \in Addr /\ b + w \notin BlocksOf(h)
<1> DEFINE c == b + w
           s == Split(h, b, w)
<1>1. h \in Heaps /\ Tiles(h) /\ Ordered(h) /\ b \in Addr /\ b \in BlocksOf(h) /\ b \in Int
  BY Places DEF Sound, BlocksOf
<1>2. /\ \A a \in Addr : h.size[a] \in 0 .. End
      /\ h.size \in [Addr -> 0 .. End]
  BY <1>1 DEF Heaps
<1>3. b + h.size[b] \in BlocksOf(h) \cup {End} /\ b + h.size[b] <= End /\ h.size[b] \in Nat
  BY <1>1, <1>2, Places DEF Tiles, BlocksOf
<1>4. c \in Addr /\ b < c /\ c < b + h.size[b] /\ c \in Int
  BY <1>1, <1>3, Places
<1>5. c \notin BlocksOf(h)
  BY <1>1, <1>3, <1>4 DEF Tiles
<1>6. c + (h.size[b] - w) = b + h.size[b]
  BY <1>1, <1>3
<1> HIDE DEF c
<1>7. /\ s.next = h.next
      /\ s.size = [h.size EXCEPT ![b] = w, ![c] = h.size[b] - w]
      /\ s = [size |-> s.size, next |-> s.next]
  BY <1>1 DEF Split, c, Heaps
<1> HIDE DEF s
<1>8. /\ s.size[b] = w /\ s.size[c] = h.size[b] - w
      /\ \A a \in Addr \ {b, c} : s.size[a] = h.size[a]
  BY <1>1, <1>2, <1>4, <1>7
<1>9. s \in Heaps
  <2>1. w \in 0 .. End /\ h.size[b] - w \in 0 .. End
    BY <1>1, <1>2, <1>3, Places
  <2>2. s.size \in [Addr -> 0 .. End]
    BY <1>2, <1>7, <2>1
  <2> QED BY <1>1, <1>7, <2>2 DEF Heaps
<1>10. BlocksOf(s) = BlocksOf(h) \cup {c}
  <2>1. b # c /\ s.size[b] > 0 /\ s.size[c] > 0
    BY <1>1, <1>3, <1>4, <1>8
  <2> QED BY <1>1, <1>4, <1>8, <2>1 DEF BlocksOf
<1>11. Listed(s) = Listed(h) /\ FreeOf(s) = FreeOf(h)
  BY <1>7 DEF FreeOf, Listed
<1>12. Ordered(s)
  BY <1>1, <1>7, <1>11 DEF Ordered
<1>13. Tiles(s)
  <2>1. 0 \in BlocksOf(s)
    BY <1>1, <1>10 DEF Tiles
  <2>2. ASSUME NEW a \in BlocksOf(s) PROVE a + s.size[a] \in BlocksOf(s) \cup {End}
    <3>1. CASE a = b
      BY <1>8, <1>10, <3>1 DEF c
    <3>2. CASE a = c
      BY <1>3, <1>6, <1>8, <1>10, <3>2
    <3>3. CASE a # b /\ a # c
      BY <1>1, <1>8, <1>10, <2>2, <3>3 DEF Tiles, BlocksOf
    <3> QED BY <3>1, <3>2, <3>3
  <2>3. ASSUME NEW a \in BlocksOf(s), NEW d \in BlocksOf(s), a < d
        PROVE  a + s.size[a] <= d
    <3>0. a \in Int /\ d \in Int /\ a \in Addr /\ d \in Addr
      BY Places DEF BlocksOf
    <3>1. CASE a = b
      <4>1. d = c \/ d \in BlocksOf(h)
        BY <1>10
      <4>2. d \in BlocksOf(h) => b + h.size[b] <= d
        BY <1>1, <2>3, <3>1 DEF Tiles
      <4>3. c <= d
        BY <1>1, <1>3, <1>4, <3>0, <4>1, <4>2
      <4> QED BY <1>8, <3>1, <4>3 DEF c
    <3>2. CASE a = c
      <4>1. d \in BlocksOf(h) /\ b < d
        BY <1>1, <1>4, <1>10, <2>3, <3>0, <3>2
      <4>2. b + h.size[b] <= d
        BY <1>1, <4>1 DEF Tiles
      <4> QED BY <1>6, <1>8, <3>2, <4>2
    <3>3. CASE a # b /\ a # c
      <4>1. a \in BlocksOf(h) /\ s.size[a] = h.size[a] /\ h.size[a] \in Int
        BY <1>2, <1>8, <1>10, <3>0, <3>3
      <4>2. CASE d \in BlocksOf(h)
        BY <1>1, <2>3, <4>1, <4>2 DEF Tiles
      <4>3. CASE d = c
        <5>1. a < b
          <6>1. b < a => b + h.size[b] <= a
            BY <1>1, <4>1 DEF Tiles
          <6> QED BY <1>1, <1>3, <1>4, <2>3, <3>0, <3>3, <4>3, <6>1
        <5>2. a + h.size[a] <= b
          BY <1>1, <4>1, <5>1 DEF Tiles
        <5> QED BY <1>1, <1>4, <3>0, <4>1, <4>3, <5>2
      <4> QED BY <1>10, <4>2, <4>3
    <3> QED BY <3>1, <3>2, <3>3
  <2> QED BY <2>1, <2>2, <2>3 DEF Tiles
<1>14. ASSUME NEW a \in FreeOf(s) PROVE Clear(s, a)
  <2>1. a \in FreeOf(h) /\ Clear(h, a) /\ a # b /\ a # c /\ a \in Addr
    BY <1>5, <1>11 DEF Sound, BlocksOf
  <2> QED BY <1>7, <1>8, <2>1 DEF Clear
<1>15. off \cup {c} \subseteq BlocksOf(s) /\ FreeOf(s) = BlocksOf(s) \ (off \cup {c})
  BY <1>5, <1>10, <1>11 DEF Sound
<1> QED BY <1>4, <1>5, <1>9, <1>12, <1>13, <1>14, <1>15 DEF Sound, c, s

\* A block is put on the list: it may touch the next one, and the one in front
\* of it may touch it.
LEMMA PutsOn ==
  ASSUME NEW h, NEW off, Sound(h, off, {}), NEW b \in off,
         NEW p, p = Before(h, b)
  PROVE  /\ Sound(PutOn(h, b), off \ {b}, {p, b})
         /\ PutOn(h, b).size = h.size
         /\ PutOn(h, b).next = [h.next EXCEPT ![b] = h.next[p], ![p] = b]
         /\ p \in Nodes /\ p < b /\ p \in Listed(h) /\ b \notin Listed(h)
         /\ h.next[p] \in FreeOf(h) \cup {End} /\ h.next[p] \in Int /\ b < h.next[p]
<1> DEFINE q == h.next[p]
           u == PutOn(h, b)
<1>1. h \in Heaps /\ Tiles(h) /\ Ordered(h) /\ b \in Addr /\ b \in BlocksOf(h) /\ b \notin Listed(h)
  BY Places DEF Sound, FreeOf, BlocksOf
<1>2. /\ p \in Listed(h) /\ p < b
      /\ \A n \in Listed(h) : n < b => n <= p
      /\ q \in FreeOf(h) \cup {End} /\ b <= q
  BY <1>1, WalkEnds
<1>3. /\ p \in Nodes /\ b \in Nodes /\ p # b /\ p \in Int /\ b \in Int /\ b # Null /\ b # Start
      /\ q \in Int /\ q # Null /\ b # q /\ b < q
  BY <1>1, <1>2, Places DEF FreeOf, Listed
<1>4. /\ u.size = h.size
      /\ u.next = [h.next EXCEPT ![b] = q, ![p] = b]
      /\ u = [size |-> u.size, next |-> u.next]
  BY <1>1 DEF PutOn, Heaps
<1> HIDE DEF u
<1>5. u.next[p] = b /\ u.next[b] = q /\ \A n \in Nodes \ {p, b} : u.next[n] = h.next[n]
  BY <1>1, <1>3, <1>4 DEF Heaps
<1>6. u \in Heaps
  <2>1. q \in Addr \cup {End, Null}
    BY <1>1, <1>3 DEF Heaps
  <2>2. u.next \in [Nodes -> Addr \cup {End, Null}]
    BY <1>1, <1>3, <1>4, <2>1 DEF Heaps
  <2> QED BY <1>1, <1>4, <2>2 DEF Heaps
<1>7. Listed(u) = Listed(h) \cup {b}
  BY <1>2, <1>3, <1>5 DEF Listed
<1>8. FreeOf(u) = FreeOf(h) \cup {b}
  BY <1>3, <1>7 DEF FreeOf
<1>9. BlocksOf(u) = BlocksOf(h) /\ Tiles(u)
  BY <1>1, <1>4 DEF Tiles, BlocksOf
<1>10. \A m \in Listed(h) : m \in Int /\ (m <= p \/ q <= m)
  BY <1>1, <1>2, Places DEF Ordered, Listed
<1>11. Ordered(u)
  <2>1. Start \in Listed(u)
    BY <1>1, <1>7 DEF Ordered
  <2>2. ASSUME NEW n \in Listed(u)
        PROVE  /\ u.next[n] \in FreeOf(u) \cup {End}
               /\ n < u.next[n]
               /\ \A m \in Listed(u) : m <= n \/ u.next[n] <= m
    <3>1. CASE n = b
      BY <1>2, <1>3, <1>5, <1>7, <1>8, <1>10, <3>1
    <3>2. CASE n = p
      BY <1>2, <1>3, <1>5, <1>7, <1>8, <1>10, <3>2
    <3>3. CASE n # b /\ n # p
      <4>1. n \in Listed(h) /\ u.next[n] = h.next[n] /\ n \in Int
        BY <1>5, <1>7, <1>10, <3>3 DEF Listed
      <4>2. /\ h.next[n] \in FreeOf(h) \cup {End} /\ n < h.next[n]
            /\ \A m \in Listed(h) : m <= n \/ h.next[n] <= m
        BY <1>1, <4>1 DEF Ordered
      <4>3. h.next[n] \in Int
        BY <4>2, Places DEF FreeOf, Listed
      <4>4. b <= n \/ h.next[n] <= b
        <5>1. p <= n \/ h.next[n] <= p
          BY <1>2, <4>2
        <5>2. n <= p \/ q <= n
          BY <1>10, <4>1
        <5> QED BY <1>2, <1>3, <3>3, <4>1, <4>3, <5>1, <5>2
      <4> QED BY <1>7, <1>8, <4>1, <4>2, <4>4
    <3> QED BY <3>1, <3>2, <3>3
  <2> QED BY <2>1, <2>2 DEF Ordered
<1>12. ASSUME NEW a \in FreeOf(u) \ {p, b} PROVE Clear(u, a)
  BY <1>4, <1>5, <1>8 DEF Clear, Sound, FreeOf, Listed
<1>13. off \ {b} \subseteq BlocksOf(u) /\ FreeOf(u) = BlocksOf(u) \ (off \ {b})
  BY <1>1, <1>8, <1>9 DEF Sound
<1> QED BY <1>1, <1>2, <1>3, <1>4, <1>6, <1>9, <1>11, <1>12, <1>13 DEF Sound, u

\* A block on the list swallows the next one, which it touches.
LEMMA Swallows ==
  ASSUME NEW h, NEW off, NEW touching, Sound(h, off, touching),
         NEW b \in FreeOf(h), NEW q, q = h.next[b],
         q \in FreeOf(h), q \notin touching, b + h.size[b] = q
  PROVE  Sound(Swallow(h, b), off, touching \ {b})
<1> DEFINE u == Swallow(h, b)
<1>1. /\ h \in Heaps /\ Tiles(h) /\ Ordered(h)
      /\ b \in Addr /\ b \in BlocksOf(h) /\ b \in Listed(h)
      /\ q \in Addr /\ q \in BlocksOf(h) /\ q \in Listed(h)
  BY Places DEF Sound, FreeOf, BlocksOf
<1>2. /\ b < q /\ b \in Int /\ q \in Int /\ b # q /\ b \in Nodes /\ q \in Nodes
      /\ b # Start /\ q # Start
  BY <1>1, Places DEF Ordered
<1>3. /\ h.next[q] \in FreeOf(h) \cup {End} /\ h.next[q] \in Int
      /\ q < h.next[q] /\ h.next[q] # Null /\ h.next[q] # q
  <2>1. h.next[q] \in FreeOf(h) \cup {End} /\ q < h.next[q]
    BY <1>1 DEF Ordered
  <2>2. h.next[q] \in Int /\ h.next[q] # Null
    BY <2>1, Places DEF FreeOf, Listed
  <2> QED BY <1>2, <2>1, <2>2
<1>4. /\ q + h.size[q] \in BlocksOf(h) \cup {End} /\ q + h.size[q] <= End
      /\ h.size[q] \in Nat /\ h.size[b] \in Nat /\ h.size[q] > 0 /\ h.size[b] > 0
  BY <1>1, Places DEF Tiles, BlocksOf, Heaps
<1>5. /\ u.size = [h.size EXCEPT ![b] = h.size[b] + h.size[q], ![q] = 0]
      /\ u.next = [h.next EXCEPT ![b] = h.next[q], ![q] = Null]
      /\ u = [size |-> u.size, next |-> u.next]
  BY DEF Swallow
<1> HIDE DEF u
<1>6. /\ u.size[b] = h.size[b] + h.size[q] /\ u.size[q] = 0
      /\ \A a \in Addr \ {b, q} : u.size[a] = h.size[a]
  BY <1>1, <1>2, <1>5 DEF Heaps
<1>7. u.next[b] = h.next[q] /\ u.next[q] = Null /\ \A n \in Nodes \ {b, q} : u.next[n] = h.next[n]
  BY <1>1, <1>2, <1>5 DEF Heaps
<1>8. u \in Heaps
  <2>1. h.size[b] + h.size[q] \in 0 .. End /\ 0 \in 0 .. End
    BY <1>1, <1>2, <1>4, Places
  <2>2. u.size \in [Addr -> 0 .. End]
    BY <1>1, <1>5, <2>1 DEF Heaps
  <2>3. u.next \in [Nodes -> Addr \cup {End, Null}]
    BY <1>1, <1>2, <1>5 DEF Heaps
  <2> QED BY <1>5, <2>2, <2>3 DEF Heaps
<1>9. Listed(u) = Listed(h) \ {q} /\ FreeOf(u) = FreeOf(h) \ {q}
  BY <1>1, <1>2, <1>3, <1>7 DEF Listed, FreeOf
<1>10. BlocksOf(u) = BlocksOf(h) \ {q}
  BY <1>1, <1>4, <1>6 DEF BlocksOf
\* Nothing but b leads to q.
<1>11. \A m \in Listed(h) : m \in Int /\ (m = b \/ h.next[m] # q)
  <2>1. SUFFICES ASSUME NEW m \in Listed(h), m # b, h.next[m] = q PROVE FALSE
    BY Places DEF Listed
  <2>2. m \in Int /\ m < q
    BY <1>1, <2>1, Places DEF Ordered, Listed
  <2>3. b <= m \/ q <= b
    BY <1>1, <2>1 DEF Ordered
  <2>4. m <= b \/ q <= m
    BY <1>1, <2>1 DEF Ordered
  <2> QED BY <1>2, <2>1, <2>2, <2>3, <2>4
<1>12. Ordered(u)
  <2>1. Start \in Listed(u)
    BY <1>1, <1>2, <1>9 DEF Ordered
  <2>2. ASSUME NEW n \in Listed(u)
        PROVE  /\ u.next[n] \in FreeOf(u) \cup {End}
               /\ n < u.next[n]
               /\ \A m \in Listed(u) : m <= n \/ u.next[n] <= m
    <3>1. n \in Listed(h) /\ n # q
      BY <1>9
    <3>2. CASE n = b
      <4>1. ASSUME NEW m \in Listed(u) PROVE m <= n \/ u.next[n] <= m
        <5>1. m \in Listed(h) /\ m # q /\ m \in Int
          BY <1>9, <1>11
        <5>2. m <= b \/ q <= m
          BY <1>1, <5>1 DEF Ordered
        <5>3. m <= q \/ h.next[q] <= m
          BY <1>1, <5>1 DEF Ordered
        <5> QED BY <1>2, <1>7, <3>2, <5>1, <5>2, <5>3
      <4> QED BY <1>2, <1>3, <1>7, <1>9, <3>2, <4>1
    <3>3. CASE n # b
      <4>1. u.next[n] = h.next[n] /\ h.next[n] # q
        BY <1>7, <1>11, <3>1, <3>3 DEF Listed
      <4> QED BY <1>1, <1>9, <3>1, <4>1 DEF Ordered
    <3> QED BY <3>2, <3>3
  <2> QED BY <2>1, <2>2 DEF Ordered
<1>13. Tiles(u)
  <2>1. 0 \in BlocksOf(u)
    BY <1>1, <1>2, <1>10, Places DEF Tiles
  <2>2. ASSUME NEW a \in BlocksOf(u) PROVE a + u.size[a] \in BlocksOf(u) \cup {End}
    <3>1. a \in BlocksOf(h) /\ a # q /\ a \in Addr /\ a \in Int
      BY <1>10, Places DEF BlocksOf
    <3>2. CASE a = b
      <4>1. b + (h.size[b] + h.size[q]) = q + h.size[q]
        BY <1>2, <1>4
      <4>2. q + h.size[q] # q
        BY <1>2, <1>4
      <4> QED BY <1>4, <1>6, <1>10, <3>2, <4>1, <4>2
    <3>3. CASE a # b
      <4>1. u.size[a] = h.size[a] /\ a + h.size[a] \in BlocksOf(h) \cup {End}
        BY <1>1, <1>6, <3>1, <3>3 DEF Tiles
      <4>2. h.size[a] \in Nat /\ h.size[a] > 0
        BY <1>1, <3>1, Places DEF BlocksOf, Heaps
      <4>3. a + h.size[a] # q
        <5>1. a < b => a + h.size[a] <= b
          BY <1>1, <3>1 DEF Tiles
        <5>2. b < a => q <= a
          BY <1>1, <3>1 DEF Tiles
        <5> QED BY <1>2, <3>1, <3>3, <4>2, <5>1, <5>2
      <4> QED BY <1>10, <4>1, <4>3
    <3> QED BY <3>2, <3>3
  <2>3. ASSUME NEW a \in BlocksOf(u), NEW d \in BlocksOf(u), a < d
        PROVE  a + u.size[a] <= d
    <3>1. /\ a \in BlocksOf(h) /\ a # q /\ a \in Addr /\ a \in Int
          /\ d \in BlocksOf(h) /\ d # q /\ d \in Addr /\ d \in Int
      BY <1>10, Places DEF BlocksOf
    <3>2. CASE a = b
      <4>1. q < d
        <5>1. b + h.size[b] <= d
          BY <1>1, <2>3, <3>1, <3>2 DEF Tiles
        <5> QED BY <1>2, <3>1, <5>1
      <4>2. q + h.size[q] <= d
        BY <1>1, <3>1, <4>1 DEF Tiles
      <4> QED BY <1>2, <1>4, <1>6, <3>2, <4>2
    <3>3. CASE a # b
      BY <1>1, <1>6, <2>3, <3>1, <3>3 DEF Tiles
    <3> QED BY <3>2, <3>3
  <2> QED BY <2>1, <2>2, <2>3 DEF Tiles
<1>14. ASSUME NEW a \in FreeOf(u) \ (touching \ {b}) PROVE Clear(u, a)
  <2>1. a \in FreeOf(h) /\ a # q /\ a \in Addr /\ a \in Nodes
    BY <1>9, Places DEF Sound, BlocksOf
  <2>2. CASE a = b
    <3>1. Clear(h, q)
      BY DEF Sound
    <3>2. b + (h.size[b] + h.size[q]) = q + h.size[q]
      BY <1>2, <1>4
    <3> QED BY <1>6, <1>7, <2>2, <3>1, <3>2 DEF Clear
  <2>3. CASE a # b
    <3>1. Clear(h, a)
      BY <2>1, <2>3 DEF Sound
    <3> QED BY <1>6, <1>7, <2>1, <2>3, <3>1 DEF Clear
  <2> QED BY <2>2, <2>3
<1>15. off \subseteq BlocksOf(u) /\ FreeOf(u) = BlocksOf(u) \ off
  BY <1>9, <1>10 DEF Sound
<1> QED BY <1>5, <1>8, <1>12, <1>13, <1>14, <1>15 DEF Sound, u

\* prvInsertBlockIntoFreeList() puts a block on the list and joins it with
\* those that touch it; blocks off the list keep their sizes.
LEMMA Inserts ==
  ASSUME NEW h, NEW off, Sound(h, off, {}), NEW b \in off
  PROVE  /\ Sound(Insert(h, b, h.size[b]), off \ {b}, {})
         /\ \A a \in off \ {b} : Insert(h, b, h.size[b]).size[a] = h.size[a]
<1> DEFINE p == Before(h, b)
           q == h.next[p]
           n == h.size[b]
           front == p # Start /\ p + h.size[p] = b
           back == b + n = q /\ q # End
           l == PutOn(h, b)
           r == Insert(h, b, n)
<1>1. h \in Heaps /\ Tiles(h) /\ b \in Addr /\ b \in BlocksOf(h)
  BY DEF Sound, BlocksOf
<1>2. /\ Sound(l, off \ {b}, {p, b}) /\ l.size = h.size
      /\ l.next = [h.next EXCEPT ![b] = q, ![p] = b]
      /\ p \in Nodes /\ p < b /\ p \in Listed(h) /\ b \notin Listed(h)
      /\ q \in FreeOf(h) \cup {End} /\ q \in Int /\ b < q
      /\ q = h.next[p]
  BY PutsOn
<1> HIDE DEF p, q, l
<1>3. /\ b \in Nodes /\ b \in Int /\ p \in Int /\ p # b /\ q # b /\ q # p /\ b # Start
      /\ b # Null /\ p # Null /\ q # Null /\ n \in Int
  <2>1. b \in Nodes /\ b \in Int /\ p \in Int /\ b # Start /\ b # Null /\ p # Null
    BY <1>1, <1>2, Places
  <2>2. q # Null
    BY <1>2, Places DEF FreeOf, Listed
  <2>3. n \in Int
    BY <1>1 DEF Heaps
  <2> QED BY <1>2, <2>1, <2>2, <2>3
<1>4. l.next[b] = q /\ l.next[p] = b
  BY <1>1, <1>2, <1>3 DEF Heaps
<1>5. b \in FreeOf(l) /\ (p # Start => p \in FreeOf(l) /\ p \in Addr)
      /\ (q # End => q \in FreeOf(l) /\ q \in Addr /\ q \in Nodes)
  <2>1. \A x \in Listed(h) : l.next[x] # Null \/ x \notin Nodes
    BY <1>1, <1>2, <1>3 DEF Heaps, Listed
  <2>2. b \in Listed(l) /\ Listed(h) \subseteq Listed(l)
    BY <1>3, <1>4, <2>1 DEF Listed
  <2>3. p # Start => p \in FreeOf(l) /\ p \in Addr
    BY <1>2, <2>2, Places DEF FreeOf
  <2>4. q # End => q \in FreeOf(l) /\ q \in Addr /\ q \in Nodes
    BY <1>2, <2>2, Places DEF FreeOf, Listed
  <2> QED BY <1>3, <2>2, <2>3, <2>4 DEF FreeOf
\* Blocks touch or there is room between them.
<1>6. /\ ~back => Clear(l, b)
      /\ p # Start /\ ~front => Clear(l, p)
  <2>1. q # End => b + n <= q
    BY <1>1, <1>2 DEF Tiles, Sound, FreeOf
  <2>2. p # Start => p + h.size[p] <= b /\ h.size[p] \in Int
    BY <1>1, <1>2, Places DEF Tiles, Sound, FreeOf, Heaps, BlocksOf
  <2> QED BY <1>2, <1>3, <1>4, <2>1, <2>2 DEF Clear
<1> DEFINE m == IF back THEN Swallow(l, b) ELSE l
\* With the block behind b.
<1>7. /\ Sound(m, off \ {b}, {p})
      /\ m.size = IF back THEN [h.size EXCEPT ![b] = n + h.size[q], ![q] = 0] ELSE h.size
      /\ m.next = IF back THEN [l.next EXCEPT ![b] = l.next[q], ![q] = Null] ELSE l.next
  <2>1. CASE back
    <3>1. /\ q = l.next[b] /\ b \in FreeOf(l) /\ q \in FreeOf(l)
          /\ q \notin {p, b} /\ b + l.size[b] = q
      BY <1>2, <1>3, <1>4, <1>5, <2>1
    <3>2. Sound(Swallow(l, b), off \ {b}, {p, b} \ {b})
      BY <1>2, <3>1, Swallows, Zenon
    <3>4. /\ Swallow(l, b).size = [l.size EXCEPT ![b] = l.size[b] + l.size[q], ![q] = 0]
          /\ Swallow(l, b).next = [l.next EXCEPT ![b] = l.next[q], ![q] = Null]
      BY <1>4 DEF Swallow
    <3>3. {p, b} \ {b} = {p}
      BY <1>3
    <3> QED BY <1>2, <2>1, <3>2, <3>3, <3>4
  <2>2. CASE ~back
    BY <1>2, <1>6, <2>2 DEF Sound
  <2> QED BY <2>1, <2>2
<1> HIDE DEF m
<1>8. /\ m.size[b] = n + (IF back THEN h.size[q] ELSE 0)
      /\ m.next[b] = IF back THEN h.next[q] ELSE q
      /\ m.next[p] = b /\ (p # Start => m.size[p] = h.size[p])
      /\ \A a \in off \ {b} : m.size[a] = h.size[a]
  <2>1. /\ h.size \in [Addr -> 0 .. End] /\ l.next \in [Nodes -> Addr \cup {End, Null}]
        /\ h.next \in [Nodes -> Addr \cup {End, Null}]
    BY <1>1, <1>2 DEF Sound, Heaps
  <2>2. \A a \in off : a \in Addr /\ a # q
    BY <1>2, Places DEF Sound, BlocksOf
  <2>3. q # End => l.next[q] = h.next[q]
    BY <1>2, <1>3, <1>5, <2>1
  <2>4. m.size[b] = n + (IF back THEN h.size[q] ELSE 0)
    BY <1>1, <1>3, <1>5, <1>7, <2>1
  <2>5. m.next[b] = IF back THEN h.next[q] ELSE q
    BY <1>1, <1>3, <1>4, <1>5, <1>7, <2>1, <2>3
  <2>6. m.next[p] = b
    BY <1>2, <1>3, <1>4, <1>7, <2>1
  <2>7. p # Start => m.size[p] = h.size[p]
    BY <1>3, <1>5, <1>7, <2>1
  <2>8. \A a \in off \ {b} : m.size[a] = h.size[a]
    BY <1>7, <2>1, <2>2
  <2> QED BY <2>4, <2>5, <2>6, <2>7, <2>8
<1>9. b \in FreeOf(m) /\ (p # Start => p \in FreeOf(m))
  <2>1. m.next[b] # Null
    <3>1. q # End => h.next[q] # Null
      BY <1>2, Places DEF FreeOf, Listed
    <3> QED BY <1>3, <1>8, <3>1
  <2> QED BY <1>2, <1>3, <1>8, <2>1 DEF FreeOf, Listed
\* With the block in front of it.
<1>10. r = IF front THEN Swallow(m, p) ELSE m
  <2> DEFINE qq == IF back THEN q ELSE Null
             at == IF front THEN p ELSE b
             total == n + (IF front THEN h.size[p] ELSE 0) + (IF back THEN h.size[q] ELSE 0)
             after == IF back THEN h.next[q] ELSE q
             x == IF front THEN Swallow(m, p) ELSE m
  <2>1. r = Place(h, b, n, p, at, total, qq, after)
    BY DEF Insert, p, q
  <2>2. /\ r.size = [a \in Addr |-> IF a = at THEN total ELSE IF a \in {b, qq} THEN 0 ELSE h.size[a]]
        /\ r.next = [a \in Nodes |-> IF a = at THEN after
                                     ELSE IF a = p THEN b
                                     ELSE IF a \in {b, qq} THEN Null ELSE h.next[a]]
        /\ r = [size |-> r.size, next |-> r.next]
    BY <2>1 DEF Place
  <2>3. /\ m = [size |-> m.size, next |-> m.next]
        /\ m.size \in [Addr -> 0 .. End] /\ m.next \in [Nodes -> Addr \cup {End, Null}]
        /\ h.size \in [Addr -> 0 .. End] /\ h.next \in [Nodes -> Addr \cup {End, Null}]
    BY <1>1, <1>7 DEF Sound, Heaps
  <2>4. /\ x.size = IF front THEN [m.size EXCEPT ![p] = m.size[p] + m.size[b], ![b] = 0] ELSE m.size
        /\ x.next = IF front THEN [m.next EXCEPT ![p] = m.next[b], ![b] = Null] ELSE m.next
        /\ x = [size |-> x.size, next |-> x.next]
    BY <1>8, <2>3 DEF Swallow
  <2> HIDE DEF r, x
  <2>5. \A a \in Addr \ {p, b, q} : m.size[a] = h.size[a]
    BY <1>7, <2>3
  <2>6. \A a \in Nodes \ {p, b, q} : m.next[a] = h.next[a]
    BY <1>2, <1>7, <2>3
  <2>7. /\ back => m.size[q] = 0 /\ m.next[q] = Null
        /\ ~back /\ q # End => m.size[q] = h.size[q] /\ m.next[q] = h.next[q]
    BY <1>2, <1>3, <1>5, <1>7, <2>3
  <2>8. /\ front => x.size[p] = m.size[p] + m.size[b] /\ x.size[b] = 0
        /\ ~front => x.size[b] = m.size[b]
        /\ \A a \in Addr \ {p, b} : x.size[a] = m.size[a]
        /\ p # Start /\ ~front => x.size[p] = m.size[p]
    BY <1>1, <1>3, <1>5, <2>3, <2>4
  <2>9. /\ front => x.next[p] = m.next[b] /\ x.next[b] = Null
        /\ ~front => x.next[b] = m.next[b] /\ x.next[p] = m.next[p]
        /\ \A a \in Nodes \ {p, b} : x.next[a] = m.next[a]
    BY <1>2, <1>3, <2>3, <2>4
  <2>10. r.size = x.size
    <3>1. ASSUME NEW a \in Addr PROVE r.size[a] = x.size[a]
      <4>0. r.size[a] = IF a = at THEN total ELSE IF a \in {b, qq} THEN 0 ELSE h.size[a]
        BY <2>2
      <4>1. CASE a = p
        <5>1. p # Start
          BY <4>1, Places
        <5>2. p # q /\ p # Null /\ p # b
          BY <1>3
        <5>3. front => r.size[a] = total
          BY <4>0, <4>1
        <5>4. ~front => r.size[a] = h.size[p]
          BY <4>0, <4>1, <5>2
        <5>5. h.size[p] \in Int /\ (q # End => h.size[q] \in Int) /\ n \in Int
          BY <1>1, <1>5, <2>3, <5>1
        <5> QED BY <1>8, <2>8, <4>1, <5>1, <5>3, <5>4, <5>5
      <4>2. CASE a = b
        <5>1. front => r.size[a] = 0
          BY <1>3, <4>0, <4>2
        <5>2. ~front => r.size[a] = total
          BY <4>0, <4>2
        <5>3. n \in Int /\ (back => h.size[q] \in Int)
          BY <1>1, <1>5, <2>3
        <5> QED BY <1>8, <2>8, <4>2, <5>1, <5>2, <5>3
      <4>3. CASE a = q /\ a # p /\ a # b
        <5>1. back => r.size[a] = 0
          BY <4>0, <4>3
        <5>2. ~back => r.size[a] = h.size[a]
          BY <4>0, <4>3, Places
        <5> QED BY <2>7, <2>8, <4>3, <5>1, <5>2, Places
      <4>4. CASE a \notin {p, b, q}
        <5>1. r.size[a] = h.size[a]
          BY <4>0, <4>4, Places
        <5> QED BY <2>5, <2>8, <4>4, <5>1
      <4> QED BY <4>1, <4>2, <4>3, <4>4
    <3>2. x.size = [a \in Addr |-> x.size[a]]
      BY <2>3, <2>4
    <3>3. r.size = [a \in Addr |-> r.size[a]]
      BY <2>2
    <3> QED BY <3>1, <3>2, <3>3
  <2>11. r.next = x.next
    <3>1. ASSUME NEW a \in Nodes PROVE r.next[a] = x.next[a]
      <4>0. r.next[a] = IF a = at THEN after
                         ELSE IF a = p THEN b
                         ELSE IF a \in {b, qq} THEN Null ELSE h.next[a]
        BY <2>2
      <4>1. CASE a = p
        <5>1. front => r.next[a] = after
          BY <4>0, <4>1
        <5>2. ~front => r.next[a] = b
          BY <1>3, <4>0, <4>1
        <5> QED BY <1>8, <2>9, <4>1, <5>1, <5>2
      <4>2. CASE a = b
        <5>1. front => r.next[a] = Null
          BY <1>3, <4>0, <4>2
        <5>2. ~front => r.next[a] = after
          BY <4>0, <4>2
        <5> QED BY <1>8, <2>9, <4>2, <5>1, <5>2
      <4>3. CASE a = q /\ a # p /\ a # b
        <5>1. back => r.next[a] = Null
          BY <4>0, <4>3
        <5>2. ~back => r.next[a] = h.next[a]
          BY <4>0, <4>3, Places
        <5> QED BY <2>7, <2>9, <4>3, <5>1, <5>2, Places
      <4>4. CASE a \notin {p, b, q}
        <5>1. r.next[a] = h.next[a]
          BY <4>0, <4>4, Places
        <5> QED BY <2>6, <2>9, <4>4, <5>1
      <4> QED BY <4>1, <4>2, <4>3, <4>4
    <3>2. x.next = [a \in Nodes |-> x.next[a]]
      BY <2>3, <2>4
    <3>3. r.next = [a \in Nodes |-> r.next[a]]
      BY <2>2
    <3> QED BY <3>1, <3>2, <3>3
  <2>12. r = x
    BY <2>2, <2>4, <2>10, <2>11
  <2> QED BY <2>12 DEF x
<1>11. CASE front
  <2>1. Sound(Swallow(m, p), off \ {b}, {p} \ {p})
    <3>1. p + m.size[p] = b /\ b \notin {p} /\ p \in FreeOf(m) /\ b \in FreeOf(m) /\ b = m.next[p]
      BY <1>3, <1>8, <1>9, <1>11
    <3> QED BY <1>7, <3>1, Swallows, Zenon
  <2>4. Swallow(m, p).size = [m.size EXCEPT ![p] = m.size[p] + m.size[b], ![b] = 0]
    BY <1>8 DEF Swallow
  <2>2. {p} \ {p} = {}
    OBVIOUS
  <2>3. \A a \in off \ {b} : Swallow(m, p).size[a] = m.size[a] /\ a \in Addr
    <3>1. \A a \in off \ {b} : a \in Addr /\ a # p
      BY <1>7, <1>9, <1>11 DEF Sound, BlocksOf
    <3> QED BY <1>7, <2>4, <3>1 DEF Sound, Heaps
  <2> QED BY <1>8, <1>10, <1>11, <2>1, <2>2, <2>3
<1>12. CASE ~front
  <2>1. p # Start => Clear(m, p)
    BY <1>4, <1>6, <1>8, <1>12, <1>2 DEF Clear
  <2>2. Sound(m, off \ {b}, {})
    BY <1>7, <2>1 DEF Sound, FreeOf
  <2> QED BY <1>8, <1>10, <1>12, <2>2
<1> QED BY <1>11, <1>12

\* What has been the size of a block is lost when it is put on the list as one
\* of another size.
LEMMA InsertsAnew ==
  ASSUME NEW h \in Heaps, NEW g \in Heaps, Ordered(h),
         NEW c \in Addr, c \notin Listed(h), NEW k \in Int,
         g.next = h.next, g.size = [h.size EXCEPT ![c] = k]
  PROVE  Insert(g, c, k) = Insert(h, c, k)
<1> DEFINE p == Before(h, c)
           q == h.next[p]
<1>1. Listed(g) = Listed(h) /\ Before(g, c) = p
  BY DEF Listed, Before
<1>2. p \in Listed(h) /\ p # c /\ q \in FreeOf(h) \cup {End} /\ q # c
  BY WalkEnds, Places DEF FreeOf, Listed
<1>3. /\ p # Start => p \in Addr /\ p # c
      /\ q # End => q \in Addr /\ q # c
  BY <1>2, Places DEF FreeOf, Listed
<1> HIDE DEF p, q
<1>4. \A a \in Addr \ {c} : g.size[a] = h.size[a]
  BY DEF Heaps
<1>5. /\ p # Start => g.size[p] = h.size[p]
      /\ q # End => g.size[q] = h.size[q]
  BY <1>3, <1>4
<1> DEFINE front == p # Start /\ p + h.size[p] = c
           back == c + k = q /\ q # End
           at == IF front THEN p ELSE c
           total == k + (IF front THEN h.size[p] ELSE 0) + (IF back THEN h.size[q] ELSE 0)
           qq == IF back THEN q ELSE Null
           after == IF back THEN h.next[q] ELSE q
<1>6. Insert(h, c, k) = Place(h, c, k, p, at, total, qq, after)
  BY DEF Insert, p, q
<1>7. Insert(g, c, k) = Place(g, c, k, p, at, total, qq, after)
  <2>1. (p # Start /\ p + g.size[p] = c) <=> front
    BY <1>5
  <2>2. Insert(g, c, k) =
          Place(g, c, k, p, IF p # Start /\ p + g.size[p] = c THEN p ELSE c,
                k + (IF p # Start /\ p + g.size[p] = c THEN g.size[p] ELSE 0)
                  + (IF back THEN g.size[q] ELSE 0),
                qq, after)
    BY <1>1 DEF Insert, p, q
  <2>3. k + (IF p # Start /\ p + g.size[p] = c THEN g.size[p] ELSE 0)
          + (IF back THEN g.size[q] ELSE 0) = total
    BY <1>5, <2>1
  <2>4. (IF p # Start /\ p + g.size[p] = c THEN p ELSE c) = at
    BY <2>1
  <2> QED BY <2>2, <2>3, <2>4
<1> HIDE DEF at, total, qq, after
<1>8. Place(g, c, k, p, at, total, qq, after) = Place(h, c, k, p, at, total, qq, after)
  <2>1. \A a \in Addr : (IF a = at THEN total ELSE IF a \in {c, qq} THEN 0 ELSE g.size[a])
                        = (IF a = at THEN total ELSE IF a \in {c, qq} THEN 0 ELSE h.size[a])
    BY <1>4
  <2> QED BY <2>1 DEF Place
<1> QED BY <1>6, <1>7, <1>8

\* Of a block on the list the first w units are handed out.
LEMMA Carves ==
  ASSUME NEW off, Sound(Heap, off, {}), NEW b \in FreeOf(Heap),
         NEW w \in Nat, 0 < w, w <= size[b]
  PROVE  /\ Sound(Carve(b, w), off \cup {b}, {})
         /\ Carve(b, w).size[b] = w
         /\ \A a \in off : Carve(b, w).size[a] = size[a]
<1> DEFINE u == Unlink(Heap, b)
           cut == [u EXCEPT !.size = [u.size EXCEPT ![b] = w]]
           c == b + w
           s == Split(u, b, w)
<1>1. Sound(u, off \cup {b}, {}) /\ u.size = size
  BY TakesOff DEF Heap
<1>2. /\ b \notin off /\ b \in Addr /\ off \subseteq Addr /\ size \in [Addr -> 0 .. End]
      /\ size[b] \in Nat
  BY Places DEF Sound, Heap, BlocksOf, FreeOf, Heaps
<1> HIDE DEF u
<1>3. CASE w = size[b]
  <2>1. Carve(b, w) = u
    BY <1>2, <1>3 DEF Carve, u
  <2> QED BY <1>1, <1>3, <2>1
<1>4. CASE w < size[b]
  <2>1. /\ Sound(s, (off \cup {b}) \cup {c}, {})
        /\ c \in Addr /\ c \notin BlocksOf(u)
    BY <1>1, <1>4, Splits
  <2>2. u \in Heaps /\ u = [size |-> u.size, next |-> u.next] /\ b # c
    BY <1>1, <2>1, <1>2, Places DEF Sound, Heaps
  <2>3. /\ s.next = u.next /\ s.size = [size EXCEPT ![b] = w, ![c] = size[b] - w]
        /\ cut.next = u.next /\ cut.size = [size EXCEPT ![b] = w]
        /\ cut = [size |-> cut.size, next |-> cut.next]
    <3>1. u = [size |-> size, next |-> u.next]
      BY <1>1, <2>2
    <3>2. s = [size |-> [size EXCEPT ![b] = w, ![c] = size[b] - w], next |-> u.next]
      BY <3>1 DEF Split
    <3>3. cut = [size |-> [size EXCEPT ![b] = w], next |-> u.next]
      BY <3>1
    <3> HIDE DEF s, cut
    <3> QED BY <3>2, <3>3
  <2>4. Carve(b, w) = Insert(cut, c, size[b] - w)
    BY <1>4 DEF Carve, u
  <2> HIDE DEF s, cut, c
  <2>5. s.size[c] = size[b] - w /\ s.size[b] = w /\ \A a \in off : a # c => s.size[a] = size[a]
    BY <1>2, <2>1, <2>2, <2>3
  <2>6. c \notin off \cup {b}
    BY <1>1, <2>1 DEF Sound
  <2>7. Insert(s, c, size[b] - w) = Insert(cut, c, size[b] - w)
    <3>1. s \in Heaps
      BY <2>1 DEF Sound
    <3>2. cut \in Heaps
      <4>1. w \in 0 .. End
        BY <1>2, <1>4, Places
      <4>2. cut.size \in [Addr -> 0 .. End]
        BY <1>2, <2>3, <4>1
      <4> QED BY <2>2, <2>3, <4>2 DEF Heaps
    <3>3. Ordered(cut) /\ c \notin Listed(cut)
      <4>1. Listed(cut) = Listed(u) /\ FreeOf(cut) = FreeOf(u)
        BY <2>3 DEF Listed, FreeOf
      <4>2. c \notin FreeOf(u) /\ Ordered(u) /\ c # Start
        BY <1>1, <2>1, Places DEF Sound
      <4>3. cut.next = u.next
        BY <2>3
      <4>4. Ordered(cut)
        BY <4>1, <4>2, <4>3, Zenon DEF Ordered
      <4>5. c \notin Listed(u)
        BY <4>2 DEF FreeOf
      <4> QED BY <4>1, <4>4, <4>5
    <3>4. s.next = cut.next /\ s.size = [cut.size EXCEPT ![c] = size[b] - w] /\ size[b] - w \in Int
      BY <1>2, <2>3
    <3> QED BY <2>1, <3>1, <3>2, <3>3, <3>4, InsertsAnew
  <2>8. /\ Sound(Insert(s, c, s.size[c]), ((off \cup {b}) \cup {c}) \ {c}, {})
        /\ \A a \in ((off \cup {b}) \cup {c}) \ {c} : Insert(s, c, s.size[c]).size[a] = s.size[a]
    <3> DEFINE o == (off \cup {b}) \cup {c}
    <3>1. Sound(s, o, {}) /\ c \in o
      BY <2>1
    <3> HIDE DEF o
    <3>2. /\ Sound(Insert(s, c, s.size[c]), o \ {c}, {})
          /\ \A a \in o \ {c} : Insert(s, c, s.size[c]).size[a] = s.size[a]
      BY <3>1, Inserts, Zenon
    <3> QED BY <3>2, Zenon DEF o
  <2>9. ((off \cup {b}) \cup {c}) \ {c} = off \cup {b}
    BY <2>6
  <2> QED BY <2>4, <2>5, <2>6, <2>7, <2>8, <2>9
<1> QED BY <1>2, <1>3, <1>4

-----------------------------------------------------------------------------
(* The steps.                                                               *)

\* What the invariant says of blocks that are held.
LEMMA Holding ==
  ASSUME IInv
  PROVE  /\ Heap.size = size /\ Heap.next = next /\ size \in [Addr -> 0 .. End]
         /\ Off \subseteq Addr /\ \A b \in Off : size[b] \in Nat /\ size[b] > 0 /\ b + size[b] <= End
         /\ \A b, c \in Off : b < c => b + size[b] <= c
BY Places DEF IInv, Sound, Heaps, Heap, Tiles, BlocksOf

\* The first fit.
LEMMA Fits ==
  ASSUME IInv, NEW n \in Requests, Can(n),
         NEW b, b = Min(Fit(Wanted(n)))
  PROVE  /\ b \in FreeOf(Heap) /\ b \in Addr
         /\ Taken(n) \in Nat /\ 0 < Taken(n) /\ Taken(n) <= size[b]
         /\ Taken(n) \in n + Header .. n + Header + Minimum
         /\ n \in 1 .. MaxSize
<1>1. Fit(Wanted(n)) \subseteq Nat /\ Fit(Wanted(n)) # {}
  BY Places DEF Fit, Can, Addr
<1>2. b \in Fit(Wanted(n))
  BY <1>1, LeastIs
<1>3. b \in Addr /\ next[b] # Null /\ size[b] >= Wanted(n)
  BY <1>2 DEF Fit
<1>4. n \in Nat /\ n > 0 /\ n <= MaxSize /\ n \in Int
  BY MaxSizeAssumption DEF Requests, Can
<1>5. size[b] \in Nat
  BY <1>3, Holding, Places
<1>6. Taken(n) = IF size[b] - (n + 1) > 2 THEN n + 1 ELSE size[b]
  BY DEF Taken, Wanted, Header, Minimum
<1>7. b \in FreeOf(Heap)
  BY <1>3, Places DEF FreeOf, Listed, Heap
<1> QED BY <1>3, <1>4, <1>5, <1>6, <1>7, MaxSizeAssumption DEF Wanted, Header, Minimum

\* What the tasks hold, and how the allocator sees it.
Given == {Block(a) : a \in used \cup Held}

\* A block that has been carved from the list serves the allocator's caller.
LEMMA Served ==
  ASSUME IInv, NEW h, NEW b, Sound(h, Off \cup {b}, {}), b \notin Off,
         NEW w, h.size[b] = w, \A a \in Off : h.size[a] = size[a],
         NEW n \in 1 .. MaxSize, w \in n + Header .. n + Header + Minimum
  PROVE  /\ [at |-> b, size |-> w] \in Memory!Blocks
         /\ Memory!Serves([at |-> b, size |-> w], n, Given)
<1> DEFINE d == [at |-> b, size |-> w]
<1>1. Tiles(h) /\ h \in Heaps /\ Off \cup {b} \subseteq BlocksOf(h)
  BY DEF Sound
<1>2. \A a \in BlocksOf(h) : /\ a \in 0 .. End - 1 /\ h.size[a] \in 0 .. End /\ h.size[a] > 0
                              /\ a + h.size[a] <= End
  <2> SUFFICES ASSUME NEW a \in BlocksOf(h)
               PROVE  /\ a \in 0 .. End - 1 /\ h.size[a] \in 0 .. End /\ h.size[a] > 0
                      /\ a + h.size[a] <= End
    OBVIOUS
  <2>1. a \in Addr /\ h.size[a] > 0 /\ h.size[a] \in 0 .. End
    BY <1>1 DEF BlocksOf, Heaps
  <2>2. a + h.size[a] \in Addr \cup {End}
    BY <1>1 DEF Tiles, BlocksOf
  <2>3. a + h.size[a] <= End
    BY <2>2, Places
  <2> QED BY <2>1, <2>3 DEF Addr
<1>3. b \in 0 .. End - 1 /\ w \in 1 .. End /\ b + w <= End
  <2>1. b \in 0 .. End - 1 /\ w \in 0 .. End /\ w > 0 /\ b + w <= End
    BY <1>1, <1>2
  <2> QED BY <2>1, Places
<1>4. d \in Memory!Blocks
  BY <1>3 DEF Memory!Blocks
<1>5. ASSUME NEW c \in Given PROVE Memory!Apart(d, c)
  <2>1. PICK a \in Off : c = [at |-> a, size |-> size[a]]
    BY DEF Given, Off, Block
  <2>2. a # b /\ a \in Int /\ b \in Int /\ a \in BlocksOf(h) /\ b \in BlocksOf(h) /\ h.size[a] = size[a]
    BY <1>1, <1>2
  <2>3. a + size[a] <= b \/ b + w <= a
    BY <1>1, <2>2 DEF Tiles
  <2> QED BY <2>1, <2>3 DEF Memory!Apart
<1> QED BY <1>3, <1>4, <1>5 DEF Memory!Serves

\* A task that frees nothing: what is held does not depend on it.
LEMMA Frees ==
  ASSUME IInv, NEW t \in Tasks
  PROVE  /\ \A b : freeing[t] = Null /\ freeing' = [freeing EXCEPT ![t] = b] /\ b # Null
                  => Held' = Held \cup {b}
         /\ freeing[t] # Null /\ freeing' = [freeing EXCEPT ![t] = Null]
            => Held' = Held \ {freeing[t]} /\ freeing[t] \in Held
<1>1. DOMAIN freeing = Tasks /\ freeing \in [Tasks -> Addr \cup {Null}]
  BY DEF IInv
<1>2. ASSUME freeing[t] = Null, NEW b, freeing' = [freeing EXCEPT ![t] = b], b # Null
      PROVE  Held' = Held \cup {b}
  <2>1. freeing'[t] = b /\ \A u \in Tasks : u # t => freeing'[u] = freeing[u]
    BY <1>1, <1>2
  <2> QED BY <1>2, <2>1 DEF Held
<1>3. ASSUME freeing[t] # Null, freeing' = [freeing EXCEPT ![t] = Null]
      PROVE  Held' = Held \ {freeing[t]} /\ freeing[t] \in Held
  <2>1. freeing'[t] = Null /\ \A u \in Tasks : u # t => freeing'[u] = freeing[u]
    BY <1>1, <1>3
  <2>2. \A u \in Tasks : u # t /\ freeing[u] # Null => freeing[u] # freeing[t]
    BY DEF IInv
  <2> QED BY <1>3, <2>1, <2>2 DEF Held
<1> QED BY <1>2, <1>3

\* malloc() gives a block that nobody holds.
LEMMA Mallocs ==
  ASSUME IInv, NEW t \in Tasks, NEW n \in Requests, Malloc(t, n)
  PROVE  IInv' /\ \E k \in 1 .. MaxSize : Memory!Give(k)
<1> DEFINE b == Min(Fit(Wanted(n)))
           w == Taken(n)
           h == Carve(b, w)
<1>1. /\ Can(n) /\ freeing[t] = Null /\ Becomes(h)
      /\ used' = used \cup {b} /\ room' = room - w /\ freeing' = freeing
  BY DEF Malloc
<1>2. /\ b \in FreeOf(Heap) /\ b \in Addr
      /\ w \in Nat /\ 0 < w /\ w <= size[b] /\ w \in n + Header .. n + Header + Minimum
      /\ n \in 1 .. MaxSize
  <2>1. IInv /\ n \in Requests /\ Can(n) /\ b = Min(Fit(Wanted(n))) /\ w = Taken(n)
    BY <1>1
  <2> HIDE DEF b, w
  <2> QED BY <2>1, Fits, Zenon
<1> HIDE DEF b, w
<1>3. Sound(h, Off \cup {b}, {}) /\ h.size[b] = w /\ \A a \in Off : h.size[a] = size[a]
  <2>1. Sound(Heap, Off, {})
    BY DEF IInv
  <2>2. b \in FreeOf(Heap) /\ w \in Nat /\ 0 < w /\ w <= size[b]
    BY <1>2
  <2>3. /\ Sound(Carve(b, w), Off \cup {b}, {}) /\ Carve(b, w).size[b] = w
        /\ \A a \in Off : Carve(b, w).size[a] = size[a]
    BY <2>1, <2>2, Carves
  <2> QED BY <2>3, Zenon
<1>4. b \notin Off
  BY <1>2 DEF IInv, Sound
<1> HIDE DEF h
<1>5. /\ Heap' = h
      /\ size'[b] = w /\ \A a \in Off : size'[a] = size[a]
  <2>1. h = [size |-> h.size, next |-> h.next]
    BY <1>3 DEF Sound, Heaps
  <2> QED BY <1>1, <1>3, <2>1 DEF Heap, Becomes
<1>6. Off' = Off \cup {b} /\ Held' = Held
  BY <1>1 DEF Off, Held
<1>7. IInv'
  <2>1. Sound(Heap', Off', {})
    BY <1>3, <1>5, <1>6
  <2>2. room' \in Int
    BY <1>1, <1>2 DEF IInv
  <2>3. used' \subseteq Addr /\ used' \cap Held' = {}
    BY <1>1, <1>2, <1>4, <1>6 DEF IInv, Off
  <2> QED BY <1>1, <2>1, <2>2, <2>3 DEF IInv
<1>8. Memory!Give(n)
  <2> DEFINE d == [at |-> b, size |-> w]
  <2>1. d \in Memory!Blocks /\ Memory!Serves(d, n, Given)
    BY <1>2, <1>3, <1>4, Served
  <2>2. Given' = Given \cup {d}
    <3>1. Given' = {[at |-> a, size |-> size'[a]] : a \in Off'}
      BY DEF Given, Off, Block
    <3>2. Given = {[at |-> a, size |-> size[a]] : a \in Off}
      BY DEF Given, Off, Block
    <3> QED BY <1>5, <1>6, <3>1, <3>2
  <2>3. room' = room - d.size
    BY <1>1
  <2> QED BY <2>1, <2>2, <2>3 DEF Memory!Give, Given
<1> QED BY <1>2, <1>7, <1>8

\* To mark a block gives nothing back.
LEMMA Marks ==
  ASSUME IInv, NEW t \in Tasks, NEW b \in used, FreeMark(t, b)
  PROVE  IInv' /\ UNCHANGED <<Given, room>>
<1>1. /\ freeing[t] = Null /\ used' = used \ {b} /\ freeing' = [freeing EXCEPT ![t] = b]
      /\ size' = size /\ next' = next /\ room' = room
  BY DEF FreeMark
<1>2. b \in Addr /\ b # Null /\ b \notin Held
  BY Places DEF IInv
<1>3. Held' = Held \cup {b}
  BY <1>1, <1>2, Frees
<1>4. Off' = Off
  BY <1>1, <1>3 DEF Off
<1>5. IInv'
  <2>1. Sound(Heap', Off', {})
    BY <1>1, <1>4 DEF IInv, Heap
  <2>2. used' \subseteq Addr /\ room' \in Int /\ freeing' \in [Tasks -> Addr \cup {Null}]
    BY <1>1, <1>2 DEF IInv
  <2>3. used' \cap Held' = {}
    BY <1>1, <1>3 DEF IInv
  <2>4. ASSUME NEW u \in Tasks, NEW v \in Tasks, freeing'[u] = freeing'[v]
        PROVE  u = v \/ freeing'[u] = Null
    <3>1. \A x \in Tasks : freeing'[x] = (IF x = t THEN b ELSE freeing[x])
      BY <1>1 DEF IInv
    <3>2. \A x \in Tasks : freeing[x] # b
      BY <1>2 DEF Held
    <3> QED BY <2>4, <3>1, <3>2 DEF IInv
  <2> QED BY <2>1, <2>2, <2>3, <2>4 DEF IInv
<1>6. Given' = Given
  BY <1>1, <1>4 DEF Given, Off, Block
<1> QED BY <1>1, <1>5, <1>6

\* A block that comes back is one that was given.
LEMMA ComesBack ==
  ASSUME IInv, NEW b \in Off, NEW gone, gone = Off \ {b},
         \A a \in gone : size'[a] = size[a], Off' = gone
  PROVE  Given' = Given \ {Block(b)} /\ Block(b) \in Given /\ Block(b).size = size[b]
<1>1. Given' = {[at |-> a, size |-> size'[a]] : a \in Off'}
  BY DEF Given, Off, Block
<1>2. Given = {[at |-> a, size |-> size[a]] : a \in Off} /\ Block(b) = [at |-> b, size |-> size[b]]
  BY DEF Given, Off, Block
<1>3. Given' = {[at |-> a, size |-> size[a]] : a \in gone}
  BY <1>1
<1>4. \A a \in gone : [at |-> a, size |-> size[a]] # [at |-> b, size |-> size[b]]
  OBVIOUS
<1>5. {[at |-> a, size |-> size[a]] : a \in gone}
      = {[at |-> a, size |-> size[a]] : a \in Off} \ {[at |-> b, size |-> size[b]]}
  BY <1>4
<1> QED BY <1>2, <1>3, <1>5

\* Put on the list, it is given back.
LEMMA Returns ==
  ASSUME IInv, NEW t \in Tasks, FreeInsert(t)
  PROVE  IInv' /\ \E b \in Given : Memory!Back(b)
<1> DEFINE b == freeing[t]
           h == Insert(Heap, b, size[b])
<1>1. /\ b # Null /\ Becomes(h) /\ room' = room + size[b] /\ used' = used
      /\ freeing' = [freeing EXCEPT ![t] = Null]
  BY DEF FreeInsert
<1>2. Held' = Held \ {b} /\ b \in Held /\ b \notin used /\ b \in Off
  BY <1>1, Frees DEF IInv, Off
<1> HIDE DEF b
<1>3. Sound(h, Off \ {b}, {}) /\ \A a \in Off \ {b} : h.size[a] = size[a]
  <2>1. Sound(Heap, Off, {}) /\ Heap.size[b] = size[b] /\ Heap.size = size
    BY DEF IInv, Heap
  <2> QED BY <1>2, <2>1, Inserts
<1> HIDE DEF h
<1>4. Heap' = h /\ size' = h.size
  <2>1. h = [size |-> h.size, next |-> h.next]
    BY <1>3 DEF Sound, Heaps
  <2> QED BY <1>1, <2>1 DEF Heap, Becomes
<1>5. Off' = Off \ {b}
  BY <1>1, <1>2 DEF Off
<1>6. IInv'
  <2>1. Sound(Heap', Off', {})
    BY <1>3, <1>4, <1>5
  <2>2. size[b] \in Int
    BY <1>2, Holding
  <2>3. used' \subseteq Addr /\ room' \in Int /\ freeing' \in [Tasks -> Addr \cup {Null}]
    BY <1>1, <2>2 DEF IInv
  <2>4. used' \cap Held' = {}
    BY <1>1, <1>2 DEF IInv
  <2>5. ASSUME NEW u \in Tasks, NEW v \in Tasks, freeing'[u] = freeing'[v]
        PROVE  u = v \/ freeing'[u] = Null
    <3>1. \A x \in Tasks : freeing'[x] = (IF x = t THEN Null ELSE freeing[x])
      BY <1>1 DEF IInv
    <3> QED BY <2>5, <3>1 DEF IInv
  <2> QED BY <2>1, <2>3, <2>4, <2>5 DEF IInv
<1>7. Given' = Given \ {Block(b)} /\ Block(b) \in Given /\ room' = room + Block(b).size
  BY <1>1, <1>2, <1>3, <1>4, <1>5, ComesBack
<1>8. Memory!Back(Block(b))
  BY <1>7 DEF Memory!Back, Given
<1> QED BY <1>6, <1>7, <1>8

\* realloc() gives a block that nobody holds, and takes back the other.
LEMMA Reallocs ==
  ASSUME IInv, NEW t \in Tasks, NEW b \in used, NEW n \in Requests, Realloc(t, b, n)
  PROVE  IInv' /\ \E d \in Given : \E k \in 1 .. MaxSize : Memory!Exchange(d, k)
<1> DEFINE c == Min(Fit(Wanted(n)))
           w == Taken(n)
           g == Carve(c, w)
           h == Insert(g, b, size[b])
<1>1. /\ Can(n) /\ freeing[t] = Null /\ Becomes(h) /\ freeing' = freeing
      /\ used' = (used \cup {c}) \ {b} /\ room' = room - w + size[b]
  BY DEF Realloc
<1>2. /\ c \in FreeOf(Heap) /\ c \in Addr
      /\ w \in Nat /\ 0 < w /\ w <= size[c] /\ w \in n + Header .. n + Header + Minimum
      /\ n \in 1 .. MaxSize
  <2>1. IInv /\ n \in Requests /\ Can(n) /\ c = Min(Fit(Wanted(n))) /\ w = Taken(n)
    BY <1>1
  <2> HIDE DEF c, w
  <2> QED BY <2>1, Fits, Zenon
<1> HIDE DEF c, w
<1>3. Sound(g, Off \cup {c}, {}) /\ g.size[c] = w /\ \A a \in Off : g.size[a] = size[a]
  <2>1. Sound(Heap, Off, {})
    BY DEF IInv
  <2>2. c \in FreeOf(Heap) /\ w \in Nat /\ 0 < w /\ w <= size[c]
    BY <1>2
  <2>3. /\ Sound(Carve(c, w), Off \cup {c}, {}) /\ Carve(c, w).size[c] = w
        /\ \A a \in Off : Carve(c, w).size[a] = size[a]
    BY <2>1, <2>2, Carves
  <2> QED BY <2>3, Zenon
<1>4. c \notin Off /\ b \in Off /\ b # c /\ b \notin Held
  BY <1>2 DEF IInv, Sound, Off
<1> HIDE DEF g
<1>5. /\ Sound(h, (Off \cup {c}) \ {b}, {})
      /\ h.size[c] = w /\ \A a \in Off \ {b} : h.size[a] = size[a]
  <2>1. b \in Off \cup {c} /\ g.size[b] = size[b]
    BY <1>3, <1>4
  <2>2. /\ Sound(Insert(g, b, g.size[b]), (Off \cup {c}) \ {b}, {})
        /\ \A a \in (Off \cup {c}) \ {b} : Insert(g, b, g.size[b]).size[a] = g.size[a]
    <3>1. Sound(g, Off \cup {c}, {}) /\ b \in Off \cup {c}
      BY <1>3, <2>1
    <3> QED BY <3>1, Inserts, Zenon
  <2> QED BY <1>3, <1>4, <2>1, <2>2
<1> HIDE DEF h
<1>6. Heap' = h /\ size' = h.size
  <2>1. h = [size |-> h.size, next |-> h.next]
    BY <1>5 DEF Sound, Heaps
  <2> QED BY <1>1, <2>1 DEF Heap, Becomes
<1>7. Off' = (Off \cup {c}) \ {b} /\ Held' = Held
  BY <1>1, <1>4 DEF Off, Held
<1>8. IInv'
  <2>1. Sound(Heap', Off', {})
    BY <1>5, <1>6, <1>7
  <2>2. size[b] \in Int
    BY <1>4, Holding
  <2>3. used' \subseteq Addr /\ room' \in Int
    BY <1>1, <1>2, <2>2 DEF IInv
  <2>4. used' \cap Held' = {}
    BY <1>1, <1>4, <1>7 DEF IInv, Off
  <2> QED BY <1>1, <2>1, <2>3, <2>4 DEF IInv
<1>9. Memory!Exchange(Block(b), n) /\ Block(b) \in Given
  <2> DEFINE d == [at |-> c, size |-> w]
  <2>1. d \in Memory!Blocks /\ Memory!Serves(d, n, Given)
    BY <1>2, <1>3, <1>4, Served
  <2>2. Given' = (Given \cup {d}) \ {Block(b)} /\ Block(b) \in Given /\ Block(b).size = size[b]
    <3>1. Given' = {[at |-> a, size |-> size'[a]] : a \in Off'}
      BY DEF Given, Off, Block
    <3>2. Given = {[at |-> a, size |-> size[a]] : a \in Off} /\ Block(b) = [at |-> b, size |-> size[b]]
      BY DEF Given, Off, Block
    <3>3. \A a \in Off' : a # b /\ [at |-> a, size |-> size'[a]] = (IF a = c THEN d ELSE [at |-> a, size |-> size[a]])
      BY <1>5, <1>6, <1>7
    <3>4. d # Block(b) /\ \A a \in Off : a # b => [at |-> a, size |-> size[a]] # Block(b)
      BY <1>4, <3>2
    <3>5. Off' = (Off \ {b}) \cup {c}
      BY <1>4, <1>7
    <3>6. Given' = {[at |-> a, size |-> size[a]] : a \in Off \ {b}} \cup {d}
      BY <1>4, <3>1, <3>3, <3>5
    <3>7. {[at |-> a, size |-> size[a]] : a \in Off \ {b}} = Given \ {Block(b)}
      BY <3>2, <3>4
    <3> QED BY <1>4, <3>2, <3>4, <3>6, <3>7
  <2>3. room' = room - d.size + Block(b).size
    BY <1>1, <2>2
  <2> QED BY <2>1, <2>2, <2>3 DEF Memory!Exchange, Given
<1> QED BY <1>2, <1>8, <1>9

LEMMA Base == Init => IInv /\ Given = {} /\ room = End
<1> SUFFICES ASSUME Init PROVE IInv /\ Given = {} /\ room = End
  OBVIOUS
<1>1. /\ Heap.size = [a \in Addr |-> IF a = 0 THEN End ELSE 0]
      /\ Heap.next = [n \in Nodes |-> CASE n = Start -> 0 [] n = 0 -> End [] OTHER -> Null]
      /\ Heap = [size |-> Heap.size, next |-> Heap.next]
  BY DEF Init, Heap
<1>2. \A n \in Nodes : Heap.next[n] = IF n = Start THEN 0 ELSE IF n = 0 THEN End ELSE Null
  BY <1>1, Places
<1>3. Heap \in Heaps
  BY <1>1, <1>2, Places DEF Heaps
<1>4. BlocksOf(Heap) = {0}
  BY <1>1, Places DEF BlocksOf
<1>5. Listed(Heap) = {Start, 0} /\ FreeOf(Heap) = {0}
  BY <1>2, Places DEF Listed, FreeOf
<1>6. Tiles(Heap)
  BY <1>1, <1>4, Places DEF Tiles
<1>7. Ordered(Heap)
  BY <1>2, <1>5, Places DEF Ordered
<1>8. Held = {} /\ Off = {} /\ freeing \in [Tasks -> Addr \cup {Null}]
  BY DEF Init, Held, Off
<1>9. Sound(Heap, Off, {})
  BY <1>2, <1>3, <1>4, <1>5, <1>6, <1>7, <1>8, Places DEF Sound, Clear
<1>10. IInv
  BY <1>8, <1>9, Places DEF IInv, Init
<1> QED BY <1>8, <1>10 DEF Init, Given, Off

LEMMA Steps == IInv /\ [Next]_vars => IInv' /\ (Memory!Next \/ UNCHANGED <<Given, room>>)
<1> SUFFICES ASSUME IInv, [Next]_vars
             PROVE  IInv' /\ (Memory!Next \/ UNCHANGED <<Given, room>>)
  OBVIOUS
<1>1. CASE Next
  <2>1. PICK t \in Tasks :
          \/ \E n \in Requests : Malloc(t, n)
          \/ \E b \in used : FreeMark(t, b)
          \/ FreeInsert(t)
          \/ \E b \in used, n \in Requests : Realloc(t, b, n)
    BY <1>1 DEF Next
  <2>2. ASSUME NEW n \in Requests, Malloc(t, n) PROVE IInv' /\ Memory!Next
    BY <2>2, Mallocs DEF Memory!Next
  <2>3. ASSUME NEW b \in used, FreeMark(t, b) PROVE IInv' /\ UNCHANGED <<Given, room>>
    BY <2>3, Marks
  <2>4. ASSUME FreeInsert(t) PROVE IInv' /\ Memory!Next
    BY <2>4, Returns DEF Memory!Next, Given
  <2>5. ASSUME NEW b \in used, NEW n \in Requests, Realloc(t, b, n) PROVE IInv' /\ Memory!Next
    BY <2>5, Reallocs DEF Memory!Next, Given
  <2> QED BY <2>1, <2>2, <2>3, <2>4, <2>5
<1>2. CASE UNCHANGED vars
  BY <1>2 DEF vars, IInv, Heap, Off, Held, Given, Block
<1> QED BY <1>1, <1>2

LEMMA Shows == IInv => Tiled /\ Joined
<1> SUFFICES ASSUME IInv PROVE Tiled /\ Joined
  OBVIOUS
<1>1. Heap.size = size /\ Heap.next = next /\ Blocks = BlocksOf(Heap) /\ OnList = FreeOf(Heap)
  BY DEF Heap, Blocks, BlocksOf, OnList, FreeOf
<1>2. Tiles(Heap) /\ Ordered(Heap) /\ \A b \in FreeOf(Heap) : Clear(Heap, b)
  BY DEF IInv, Sound
<1>3. Tiled
  BY <1>1, <1>2 DEF Tiled, Tiles
<1>4. Joined
  <2>1. ASSUME NEW n \in Listed(Heap)
        PROVE  /\ next[n] = End \/ next[n] \in OnList
               /\ n # Start => n + size[n] < next[n] \/ next[n] = End
               /\ n = Start => \A m \in OnList : next[n] <= m
    <3>1. next[n] = End \/ next[n] \in OnList
      BY <1>1, <1>2 DEF Ordered
    <3>2. n # Start => n + size[n] < next[n] \/ next[n] = End
      BY <1>1, <1>2 DEF Clear, FreeOf
    <3>3. ASSUME n = Start, NEW m \in OnList PROVE next[n] <= m
      <4>1. m \in Listed(Heap) /\ m \in Addr
        BY <1>1, Places DEF FreeOf, Listed
      <4>2. m <= Start \/ next[Start] <= m
        BY <1>1, <1>2, <3>3, <4>1 DEF Ordered
      <4> QED BY <3>3, <4>1, <4>2, Places
    <3> QED BY <3>1, <3>2, <3>3
  <2> QED BY <2>1 DEF Joined
<1> QED BY <1>3, <1>4

\* However the heap is used, its blocks tile it: none overlaps another and no
\* unit is lost.  (prvInsertBlockIntoFreeList() and the split of heap_6.c)
THEOREM NothingLost == Spec => []Tiled
BY Base, Steps, Shows, PTL DEF Spec

\* And blocks of its list that touch have been joined.  (heap_6.c:129-134)
THEOREM NothingCut == Spec => []Joined
BY Base, Steps, Shows, PTL DEF Spec

\* The heap is an allocator: what malloc() and realloc() hand out is large
\* enough and touches nothing that a task holds, though the allocated bit is
\* cleared before the scheduler is suspended (heap_6.c:339-346), and the free
\* byte count goes by the units handed out.
THEOREM Allocates == Spec => Refines
<1>1. Init => Memory!Init
  BY Base DEF Memory!Init, Given
<1>2. Memory!Next \/ UNCHANGED <<Given, room>> => [Memory!Next]_Memory!vars
  BY DEF Memory!vars, Given
<1> QED BY <1>1, <1>2, Base, Steps, PTL DEF Spec, Refines, Memory!Spec
=============================================================================
