---------------------------- MODULE EventsProofs ----------------------------
(***************************************************************************)
(* Proofs about what is made of the events of a radar: the clock that      *)
(* stamps its triggers (MasterTimer), for every period of the timer, and   *)
(* the follower that counts them against its packets (Follow), for a queue *)
(* of any length.                                                          *)
(***************************************************************************)
EXTENDS Follow, MasterTimer, FiniteSetTheorems, FunctionTheorems, SequenceTheorems, TLAPS

(***************************************************************************)
(* The clock.  ClockExact is an invariant, and StampSound a property of    *)
(* every step.                                                             *)
(*                                                                         *)
(* An edge that was captured is known to have come before the overflows    *)
(* that are pending (Early) or after (Late).  The handler sees both flags  *)
(* at once, so an edge it has not seen when it counts an overflow came     *)
(* after that overflow: this is what keeps a stamp from being late.        *)
(***************************************************************************)

AtRest ==
  /\ held => cnt = 0 /\ flags = {} /\ isr = "out"
  /\ isr = "out" => seen = {}
  /\ "update" \in seen => "update" \in flags
  /\ isr = "cc1" /\ "cc1" \in seen => "cc1" \in flags

Early == edge = up * Period + ccr1
Late  == "update" \in flags /\ edge = up * Period + Period + ccr1

\* The handler will count an overflow before it looks at the captures again.
Counting == "update" \in seen /\ (isr = "cc1" => "cc1" \notin seen)

EdgeKnown ==
  /\ "cc1" \in flags \/ isr = "capture" => Early \/ Late
  /\ "cc1" \in flags /\ Counting => Late

Inv == ClockTypeOK /\ ClockExact /\ AtRest /\ EdgeKnown

LEMMA Initially == ClockInit => Inv
  BY PeriodAssumption, MaxTimeAssumption
  DEF ClockInit, Inv, ClockTypeOK, ClockExact, AtRest, EdgeKnown, Counting, Times, Unread

LEMMA NextPeriod == ASSUME NEW n \in Nat PROVE (n + 1) * Period = n * Period + Period
  BY PeriodAssumption

LEMMA Product == ASSUME NEW n \in Nat PROVE n * Period \in Nat
  BY PeriodAssumption

LEMMA Counted == ASSUME ClockTypeOK, Tick PROVE cnt' = IF Wraps THEN 0 ELSE cnt + 1
  <1>1. CASE Wraps
    BY <1>1, PeriodAssumption DEF ClockTypeOK, Tick, Wraps
  <1>2. CASE ~Wraps
    BY <1>2, PeriodAssumption DEF ClockTypeOK, Tick, Wraps
  <1> QED BY <1>1, <1>2

(***************************************************************************)
(* The timer.                                                              *)
(***************************************************************************)

LEMMA TickInv == Inv /\ Tick => Inv'
  <1> SUFFICES ASSUME Inv, Tick PROVE Inv'
    OBVIOUS
  <1> USE PeriodAssumption, MaxTimeAssumption
  <1>1. cnt' = IF Wraps THEN 0 ELSE cnt + 1
    BY Counted DEF Inv
  <1>2. up * Period \in Nat
    BY Product DEF Inv, ClockTypeOK
  <1>3. ClockTypeOK'
    BY <1>1 DEF Inv, ClockTypeOK, Tick, timer, handler, read, Wraps, Times
  <1>4. ClockExact'
    BY <1>1, <1>2 DEF Inv, ClockTypeOK, ClockExact, Pending, Tick, handler, Wraps
  <1>5. AtRest'
    BY DEF Inv, ClockTypeOK, AtRest, Tick, handler
  <1>6. EdgeKnown'
    BY DEF Inv, ClockTypeOK, EdgeKnown, Counting, Early, Late, Tick, handler
  <1> QED BY <1>3, <1>4, <1>5, <1>6 DEF Inv

LEMMA EdgeInv == Inv /\ Edge => Inv'
  <1> SUFFICES ASSUME Inv, Edge PROVE Inv'
    OBVIOUS
  <1>1. ClockTypeOK'
    BY DEF Inv, ClockTypeOK, Edge, handler, read
  <1>2. ClockExact'
    BY DEF Inv, ClockExact, Pending, Edge, handler
  <1>3. AtRest'
    BY DEF Inv, AtRest, Edge, handler
  <1>4. EdgeKnown'
    <2>1. up * Period \in Nat
      BY Product DEF Inv, ClockTypeOK
    <2>2. (Early \/ Late)' /\ ("update" \in flags => Late')
      BY <2>1, PeriodAssumption
      DEF Inv, ClockTypeOK, ClockExact, Pending, Edge, handler, Early, Late
    <2> QED BY <2>2 DEF Inv, AtRest, EdgeKnown, Counting, Edge, handler
  <1> QED BY <1>1, <1>2, <1>3, <1>4 DEF Inv

(***************************************************************************)
(* The interrupt handler.                                                  *)
(***************************************************************************)

LEMMA HandlerInv == Inv /\ (Enter \/ ClearCapture \/ Capture) => Inv'
  <1> SUFFICES ASSUME Inv, Enter \/ ClearCapture \/ Capture PROVE Inv'
    OBVIOUS
  <1> USE PeriodAssumption
  <1>1. CASE Enter
    BY <1>1 DEF Inv, ClockTypeOK, ClockExact, Pending, AtRest, EdgeKnown, Counting,
      Early, Late, Enter, timer, read
  <1>2. CASE ClearCapture
    BY <1>2 DEF Inv, ClockTypeOK, ClockExact, Pending, AtRest, EdgeKnown, Counting,
      Early, Late, ClearCapture, timer, read
  <1>3. CASE Capture
    <2>1. up * Period \in Nat
      BY Product DEF Inv, ClockTypeOK
    <2>2. ClockTypeOK'
      BY <1>3, <2>1 DEF Inv, ClockTypeOK, Capture, timer, read
    <2> QED
      BY <1>3, <2>2 DEF Inv, ClockExact, Pending, AtRest, EdgeKnown, Counting,
        Early, Late, Capture, timer
  <1> QED BY <1>1, <1>2, <1>3

LEMMA UpdateInv == Inv /\ Update => Inv'
  <1> SUFFICES ASSUME Inv, Update PROVE Inv'
    OBVIOUS
  <1>1. up * Period \in Nat /\ (up + 1) * Period = up * Period + Period
    BY Product, NextPeriod DEF Inv, ClockTypeOK
  <1>2. ClockTypeOK'
    BY DEF Inv, ClockTypeOK, Update, timer, read
  <1>3. AtRest'
    BY DEF Inv, AtRest, Update, timer
  <1>4. CASE "update" \in seen
    <2>1. up' = up + 1 /\ "update" \in flags /\ "update" \notin flags'
      BY <1>4 DEF Inv, AtRest, Update
    <2>2. up' * Period = up * Period + Period
      BY <1>1, <2>1
    <2>3. ClockExact'
      BY <1>1, <2>1, <2>2, PeriodAssumption DEF Inv, ClockTypeOK, ClockExact, Pending, Update, timer
    <2>4. EdgeKnown'
      <3>1. "cc1" \in flags' => Late
        BY <1>4 DEF Inv, EdgeKnown, Counting, Update
      <3>2. Late => Early'
        BY <1>1, <2>2 DEF Early, Late, Update, timer
      <3> QED BY <3>1, <3>2 DEF EdgeKnown, Counting, Update
    <2> QED BY <1>2, <1>3, <2>3, <2>4 DEF Inv
  <1>5. CASE "update" \notin seen
    <2>1. UNCHANGED <<up, flags, cnt, ccr1, held, now, edge>>
      BY <1>5 DEF Update, timer
    <2>2. ClockExact'
      BY <2>1 DEF Inv, ClockExact, Pending
    <2>3. EdgeKnown'
      BY <2>1 DEF Inv, EdgeKnown, Counting, Early, Late, Update
    <2> QED BY <1>2, <1>3, <2>2, <2>3 DEF Inv
  <1> QED BY <1>4, <1>5

(***************************************************************************)
(* The tasks.                                                              *)
(***************************************************************************)

LEMMA TaskInv == Inv /\ (Stop \/ Restart \/ ReadUp \/ ReadCnt \/ Return) => Inv'
  <1> SUFFICES ASSUME Inv, Stop \/ Restart \/ ReadUp \/ ReadCnt \/ Return PROVE Inv'
    OBVIOUS
  <1> USE PeriodAssumption, MaxTimeAssumption
  <1>1. EdgeKnown'
    BY DEF Inv, AtRest, EdgeKnown, Counting, TaskRuns,
      Stop, Restart, ReadUp, ReadCnt, Return, timer, handler
  <1>2. AtRest'
    BY DEF Inv, AtRest, TaskRuns, Stop, Restart, ReadUp, ReadCnt, Return, timer, handler
  <1>3. ClockTypeOK' /\ ClockExact'
    <2>1. CASE Stop
      BY <2>1 DEF Inv, ClockTypeOK, ClockExact, Stop, handler, read
    <2>2. CASE Restart
      <3>1. ClockTypeOK'
        <4>1. held' = FALSE /\ up' = 0 /\ stamp' = 0 /\ now' = 0 /\ edge' = 0 /\ begun' = 0
          BY <2>2 DEF Restart
        <4>2. /\ cnt' \in 0 .. Period - 1 /\ ccr1' \in 0 .. Period - 1
              /\ flags' \subseteq {"update", "cc1"} /\ seen' \subseteq {"update", "cc1"}
              /\ isr' \in {"out", "cc1", "capture", "update"}
          BY <2>2 DEF Inv, ClockTypeOK, Restart
        <4>3. hi' = Unread /\ lo' = Unread
          BY <2>2 DEF Restart
        <4>4. 0 \in Times
          BY DEF Times
        <4> QED BY <4>1, <4>2, <4>3, <4>4 DEF ClockTypeOK
      <3>2. cnt' = 0 /\ flags' = {} /\ up' = 0 /\ now' = 0
        BY <2>2 DEF Inv, AtRest, Restart
      <3>3. 0 * Period = 0
        BY PeriodAssumption
      <3> QED BY <3>1, <3>2, <3>3 DEF ClockExact, Pending
    <2>3. CASE ReadUp \/ ReadCnt \/ Return
      BY <2>3 DEF Inv, ClockTypeOK, ClockExact, Pending, ReadUp, ReadCnt, Return, Begin,
        Times, Unread, timer, handler
    <2> QED BY <2>1, <2>2, <2>3
  <1> QED BY <1>1, <1>2, <1>3 DEF Inv

LEMMA StepInv == Inv /\ [ClockNext]_clock => Inv'
  <1>1. Inv /\ UNCHANGED clock => Inv'
    BY DEF Inv, ClockTypeOK, ClockExact, Pending, AtRest, EdgeKnown, Counting, Early, Late,
      clock, timer, handler, read
  <1> QED BY <1>1, TickInv, EdgeInv, HandlerInv, UpdateInv, TaskInv DEF ClockNext

(* Results.                                                                 *)

LEMMA Invariance == ClockSpec => []Inv
  BY Initially, StepInv, PTL DEF ClockSpec

\* The overflows counted, the one pending and the counter always make up the
\* time since the sequencer was started.
THEOREM KeepsTime == ClockSpec => [](ClockTypeOK /\ ClockExact)
  <1>1. Inv => ClockTypeOK /\ ClockExact
    BY DEF Inv
  <1> QED BY <1>1, Invariance, PTL

\* A trigger is stamped with the time of its edge, or a period early while an
\* overflow is pending.
THEOREM Stamps == ClockSpec => StampSound
  <1> DEFINE Sound == Capture => \/ stamp' = edge
                                 \/ stamp' = edge - Period /\ "update" \in flags
  <1>1. Inv /\ [ClockNext]_clock => [Sound]_clock
    <2> SUFFICES ASSUME Inv, Capture PROVE Sound
      OBVIOUS
    <2>1. up * Period \in Nat
      BY Product DEF Inv, ClockTypeOK
    <2>2. Early \/ Late
      BY DEF Inv, EdgeKnown, Capture
    <2> QED
      BY <2>1, <2>2, PeriodAssumption DEF Inv, ClockTypeOK, Early, Late, Capture
  <1> QED BY <1>1, Invariance, PTL DEF ClockSpec, StampSound

(***************************************************************************)
(* The follower.                                                           *)
(***************************************************************************)

\* Acks, Unanswered and Total of any queue q, if n triggers were counted.
AcksOf(q) == {i \in DOMAIN q : q[i] = "ACK"}
UnansweredOf(q) == {i \in DOMAIN q : q[i] = "TRIG" /\ \A j \in AcksOf(q) : j < i}
TotalOf(n, q) == (IF AcksOf(q) = {} THEN n ELSE 0) + Cardinality(UnansweredOf(q))
Capped(n) == IF n > MaxSince THEN MaxSince ELSE n

LEMMA SameTotal == Acks = AcksOf(events) /\ Total = TotalOf(unacked, events)
BY DEF Acks, AcksOf, Unanswered, UnansweredOf, Total, TotalOf

LEMMA Countable ==
  ASSUME NEW q \in Seq(Events)
  PROVE  IsFiniteSet(UnansweredOf(q)) /\ Cardinality(UnansweredOf(q)) \in Nat
<1>1. IsFiniteSet(1 .. Len(q)) /\ DOMAIN q = 1 .. Len(q)
  BY FS_Interval
<1>2. UnansweredOf(q) \in SUBSET (1 .. Len(q))
  BY <1>1 DEF UnansweredOf
<1> QED BY <1>1, <1>2, FS_Subset, FS_CardinalityType

LEMMA TotalIs ==
  ASSUME NEW q \in Seq(Events), NEW n \in Nat
  PROVE  TotalOf(n, q) \in Nat
BY Countable DEF TotalOf

LEMMA Empty ==
  ASSUME NEW n \in Nat
  PROVE  TotalOf(n, <<>>) = n /\ AcksOf(<<>>) = {}
<1>1. AcksOf(<<>>) = {} /\ UnansweredOf(<<>>) = {}
  BY DEF AcksOf, UnansweredOf
<1> QED BY <1>1, FS_EmptySet DEF TotalOf

\* An event is put in: a trigger counts, a packet answers all.
LEMMA Pushed ==
  ASSUME NEW q \in Seq(Events), NEW e \in Events, NEW n \in Nat
  PROVE  /\ e = "TRIG" => TotalOf(n, Append(q, e)) = TotalOf(n, q) + 1
         /\ e = "ACK" => TotalOf(n, Append(q, e)) = 0
         /\ e = "READY" => TotalOf(n, Append(q, e)) = TotalOf(n, q)
         /\ e # "ACK" => AcksOf(Append(q, e)) = AcksOf(q)
<1> DEFINE p == Append(q, e)
           l == Len(q)
<1>1. /\ l \in Nat /\ l + 1 \notin 1 .. l /\ DOMAIN q = 1 .. l /\ DOMAIN p = (1 .. l) \cup {l + 1}
      /\ p[l + 1] = e /\ \A i \in 1 .. l : p[i] = q[i] /\ i < l + 1
  OBVIOUS
<1> HIDE DEF p, l
<1>2. IsFiniteSet(UnansweredOf(q)) /\ Cardinality(UnansweredOf(q)) \in Nat
      /\ l + 1 \notin UnansweredOf(q)
  BY <1>1, Countable DEF UnansweredOf
<1>3. ASSUME e # "ACK" PROVE AcksOf(p) = AcksOf(q)
  BY <1>1, <1>3 DEF AcksOf
<1>4. ASSUME e = "TRIG" PROVE TotalOf(n, p) = TotalOf(n, q) + 1
  <2>1. AcksOf(p) = AcksOf(q) /\ \A j \in AcksOf(q) : j \in 1 .. l
    BY <1>1, <1>3, <1>4 DEF AcksOf
  <2>2. UnansweredOf(p) = UnansweredOf(q) \cup {l + 1}
    BY <1>1, <1>4, <2>1 DEF UnansweredOf
  <2>3. Cardinality(UnansweredOf(p)) = Cardinality(UnansweredOf(q)) + 1
    BY <1>2, <2>2, FS_AddElement
  <2> QED BY <1>2, <2>1, <2>3 DEF TotalOf
<1>5. ASSUME e = "ACK" PROVE TotalOf(n, p) = 0
  <2>1. l + 1 \in AcksOf(p)
    BY <1>1, <1>5 DEF AcksOf
  <2>2. UnansweredOf(p) = {}
    <3> SUFFICES ASSUME NEW i \in UnansweredOf(p) PROVE FALSE
      OBVIOUS
    <3>1. i \in (1 .. l) \cup {l + 1} /\ p[i] = "TRIG" /\ l + 1 < i
      BY <1>1, <2>1 DEF UnansweredOf
    <3> QED BY <1>1, <3>1
  <2> QED BY <2>1, <2>2, FS_EmptySet DEF TotalOf
<1>6. ASSUME e = "READY" PROVE TotalOf(n, p) = TotalOf(n, q)
  <2>1. AcksOf(p) = AcksOf(q)
    BY <1>3, <1>6
  <2>2. UnansweredOf(p) = UnansweredOf(q)
    BY <1>1, <1>6, <2>1 DEF UnansweredOf
  <2> QED BY <2>1, <2>2 DEF TotalOf
<1> QED BY <1>3, <1>4, <1>5, <1>6 DEF p

\* An event is taken out and counted: the total stays.
LEMMA Popped ==
  ASSUME NEW q \in Seq(Events), q # <<>>, NEW n \in Nat
  PROVE  /\ TotalOf(Count(n, Head(q)), Tail(q)) = TotalOf(n, q)
         /\ Head(q) \in Events /\ Tail(q) \in Seq(Events)
         /\ AcksOf(q) = {} => AcksOf(Tail(q)) = {} /\ Head(q) # "ACK"
<1> DEFINE p == Tail(q)
           l == Len(q)
           e == Head(q)
           Old == UnansweredOf(q) \ {1}
<1>1. /\ l \in Nat \ {0} /\ DOMAIN q = 1 .. l /\ p \in Seq(Events) /\ DOMAIN p = 1 .. l - 1
      /\ e = q[1] /\ e \in Events /\ \A i \in 1 .. l - 1 : p[i] = q[i + 1]
  OBVIOUS
<1> HIDE DEF p, l, e
<1>2. \A i \in 1 .. l - 1 : i + 1 \in 1 .. l /\ i + 1 # 1
  BY <1>1
<1>3. \A i \in 1 .. l : i # 1 => i - 1 \in 1 .. l - 1 /\ i = (i - 1) + 1
  BY <1>1
<1>4. \A i \in 1 .. l - 1 : i \in AcksOf(p) <=> i + 1 \in AcksOf(q)
  BY <1>1, <1>2 DEF AcksOf
<1>5. AcksOf(p) \subseteq 1 .. l - 1 /\ AcksOf(q) \subseteq 1 .. l
      /\ UnansweredOf(p) \subseteq 1 .. l - 1 /\ UnansweredOf(q) \subseteq 1 .. l
  BY <1>1 DEF AcksOf, UnansweredOf
<1>6. AcksOf(p) = {} <=> AcksOf(q) \subseteq {1}
  BY <1>2, <1>3, <1>4, <1>5
<1>7. \A i \in 1 .. l - 1 : i \in UnansweredOf(p) <=> i + 1 \in UnansweredOf(q)
  <2> SUFFICES ASSUME NEW i \in 1 .. l - 1
               PROVE  i \in UnansweredOf(p) <=> i + 1 \in UnansweredOf(q)
    OBVIOUS
  <2>1. ASSUME \A j \in AcksOf(p) : j < i, NEW j \in AcksOf(q) PROVE j < i + 1
    <3>1. i \in Nat /\ i >= 1 /\ j \in Nat /\ j \in 1 .. l
      BY <1>1, <1>5
    <3>2. CASE j = 1
      BY <3>1, <3>2
    <3>3. CASE j # 1
      <4>1. j - 1 \in 1 .. l - 1 /\ j = (j - 1) + 1
        BY <1>3, <3>1, <3>3
      <4>2. j - 1 \in AcksOf(p)
        BY <1>4, <4>1
      <4>3. j - 1 < i
        BY <2>1, <4>2
      <4> QED BY <3>1, <4>3
    <3> QED BY <3>2, <3>3
  <2>2. ASSUME \A j \in AcksOf(q) : j < i + 1, NEW j \in AcksOf(p) PROVE j < i
    BY <1>1, <1>2, <1>4, <1>5, <2>2
  <2> QED BY <1>1, <1>2, <2>1, <2>2 DEF UnansweredOf
<1>8. IsFiniteSet(UnansweredOf(q)) /\ Cardinality(UnansweredOf(q)) \in Nat
      /\ IsFiniteSet(UnansweredOf(p)) /\ Cardinality(UnansweredOf(p)) \in Nat
  BY <1>1, Countable
<1>9. Cardinality(UnansweredOf(p)) = Cardinality(Old)
  <2> DEFINE f == [i \in UnansweredOf(p) |-> i + 1]
  <2>1. f \in [UnansweredOf(p) -> Old]
    BY <1>2, <1>5, <1>7
  <2>2. \A i, j \in UnansweredOf(p) : f[i] = f[j] => i = j
    BY <1>5
  <2>3. \A k \in Old : \E i \in UnansweredOf(p) : f[i] = k
    <3> SUFFICES ASSUME NEW k \in Old PROVE \E i \in UnansweredOf(p) : f[i] = k
      OBVIOUS
    <3>1. k - 1 \in UnansweredOf(p) /\ (k - 1) + 1 = k
      BY <1>3, <1>5, <1>7
    <3> QED BY <3>1
  <2>4. f \in Bijection(UnansweredOf(p), Old)
    BY <2>1, <2>2, <2>3, Fun_IsBij
  <2>5. ExistsBijection(UnansweredOf(p), Old)
    BY <2>4, Fun_ExistsBij
  <2> QED BY <1>8, <2>5, FS_Bijection
<1>10. Cardinality(Old) = IF 1 \in UnansweredOf(q) THEN Cardinality(UnansweredOf(q)) - 1
                                                   ELSE Cardinality(UnansweredOf(q))
  BY <1>8, FS_RemoveElement
<1>11. 1 \in UnansweredOf(q) <=> e = "TRIG" /\ AcksOf(q) = {}
  <2>1. 1 \in 1 .. l /\ \A j \in AcksOf(q) : ~(j < 1)
    BY <1>1, <1>5
  <2> QED BY <1>1, <2>1 DEF UnansweredOf
<1>12. 1 \in AcksOf(q) <=> e = "ACK"
  BY <1>1 DEF AcksOf
<1> HIDE DEF Old
<1>13. CASE e = "TRIG"
  <2>1. AcksOf(p) = {} <=> AcksOf(q) = {}
    BY <1>6, <1>12, <1>13
  <2>2. Count(n, e) = n + 1
    BY <1>13 DEF Count
  <2> QED BY <1>1, <1>8, <1>9, <1>10, <1>11, <1>13, <2>1, <2>2 DEF TotalOf, p, e
<1>14. CASE e = "ACK"
  <2>1. AcksOf(q) # {} /\ Count(n, e) = 0
    BY <1>12, <1>14 DEF Count
  <2> QED BY <1>1, <1>8, <1>9, <1>10, <1>11, <1>14, <2>1 DEF TotalOf, p, e
<1>15. CASE e = "READY"
  <2>1. AcksOf(p) = {} <=> AcksOf(q) = {}
    BY <1>6, <1>12, <1>15
  <2>2. Count(n, e) = n
    BY <1>15 DEF Count
  <2> QED BY <1>1, <1>8, <1>9, <1>10, <1>11, <1>15, <2>1, <2>2 DEF TotalOf, p, e
<1> QED BY <1>1, <1>13, <1>14, <1>15 DEF Events

(***************************************************************************)
(* What is known where: nothing is counted before the first packet, less   *)
(* than two triggers in the loop; a packet in the queue came behind the    *)
(* purge; and from the second purge on the total is exact, if no event was *)
(* lost.                                                                   *)
(***************************************************************************)

Watched ==
  /\ step \in {"repurge", "run"} => unacked = 0 /\ acked
  /\ step \in {"announce", "await"} => (Acks # {} => acked)
  /\ step = "watch" => unacked \in {0, 1}
  /\ Lossless /\ step \in {"run", "watch"} => since = Capped(Total)

Following == TypeOK /\ Watched

LEMMA FollowBase == Init => Following
<1> SUFFICES ASSUME Init PROVE Following
  OBVIOUS
<1>1. events \in Seq(Events) /\ Len(events) <= QueueCap
  <2> PICK n \in 0 .. QueueCap : events \in [1 .. n -> Events]
    BY DEF Init
  <2>1. events \in Seq(Events) /\ Len(events) = n
    OBVIOUS
  <2> QED BY <2>1, QueueCapAssumption
<1>2. step = "purge"
  BY DEF Init
<1>3. 0 \in 0 .. MaxSince
  BY MaxSinceAssumption
<1>4. TypeOK
  BY <1>1, <1>3 DEF Init, TypeOK, Steps
<1> QED BY <1>2, <1>4 DEF Following, Watched

\* xQueueSend() keeps the queue within its length.
LEMMA PushTyped ==
  ASSUME TypeOK, NEW e \in Events, Push(e)
  PROVE  events' \in Seq(Events) /\ Len(events') <= QueueCap
BY QueueCapAssumption DEF TypeOK, Push

\* A step that leaves queue and counts alone.
LEMMA Aside ==
  ASSUME Following, UNCHANGED <<unacked, events, since, acked>>, TypeOK',
         step' \in {"announce", "await"} => step \in {"announce", "await"},
         step' = step \/ step' \notin {"repurge", "run", "watch"}
  PROVE  Following'
<1>1. Acks' = Acks /\ Total' = Total
  BY DEF Acks, Total, Unanswered
<1> QED BY <1>1 DEF Following, Watched, Capped

LEMMA TriggerFollows == ASSUME Following, Trigger PROVE Following'
<1>1. TypeOK'
  <2>1. events' \in Seq(Events) /\ Len(events') <= QueueCap
    BY PushTyped DEF Following, Trigger, Events
  <2>2. since' \in 0 .. MaxSince
    BY MaxSinceAssumption DEF Following, Trigger, TypeOK
  <2> QED BY <2>1, <2>2 DEF Following, Trigger, TypeOK
<1>2. CASE step = "over" \/ ~Lossless
  <2>1. /\ events \in Seq(Events) /\ unacked \in Nat
        /\ events' = events \/ events' = Append(events, "TRIG")
    BY DEF Following, TypeOK, Trigger, Push
  <2>2. AcksOf(events') = AcksOf(events)
    <3>1. "TRIG" \in Events /\ "TRIG" # "ACK"
      BY DEF Events
    <3>2. AcksOf(Append(events, "TRIG")) = AcksOf(events)
      BY <2>1, <3>1, Pushed, Zenon
    <3> QED BY <2>1, <3>2, Zenon
  <2>3. Acks' = Acks
    BY <2>2 DEF Acks, AcksOf
  <2> QED BY <1>1, <1>2, <2>3 DEF Trigger, Following, Watched
<1>3. CASE step # "over" /\ Lossless
  <2>1. events' = Append(events, "TRIG") /\ events \in Seq(Events)
    BY <1>3, QueueCapAssumption DEF Trigger, Push, Room, Following, TypeOK
  <2>2. unacked \in Nat /\ TotalOf(unacked, events) \in Nat
    <3>1. unacked \in Nat
      BY DEF Following, TypeOK
    <3> QED BY <2>1, <3>1, TotalIs, Zenon
  <2>3. TotalOf(unacked, events') = TotalOf(unacked, events) + 1 /\ AcksOf(events') = AcksOf(events)
    <3>1. "TRIG" \in Events /\ "TRIG" # "ACK"
      BY DEF Events
    <3> QED BY <2>1, <2>2, <3>1, Pushed, Zenon
  <2>4. Total' = Total + 1 /\ Acks' = Acks /\ Total \in Nat
    BY <2>2, <2>3 DEF Trigger, Acks, AcksOf, Unanswered, UnansweredOf, Total, TotalOf
  <2>5. ASSUME since = Capped(Total) PROVE since' = Capped(Total')
    BY <2>4, <2>5, MaxSinceAssumption DEF Trigger, Capped
  <2> QED BY <1>1, <2>4, <2>5 DEF Following, Watched, Trigger
<1> QED BY <1>2, <1>3

LEMMA PacketFollows == ASSUME Following, Packet PROVE Following'
<1>1. TypeOK'
  <2>1. events' \in Seq(Events) /\ Len(events') <= QueueCap
    BY PushTyped DEF Following, Packet, Events
  <2>2. since' \in 0 .. MaxSince
    BY MaxSinceAssumption DEF Packet
  <2> QED BY <2>1, <2>2 DEF Following, Packet, TypeOK
<1>2. CASE step = "over" \/ ~Lossless
  BY <1>1, <1>2 DEF Packet, Following, Watched
<1>3. CASE step # "over" /\ Lossless
  <2>1. events' = Append(events, "ACK") /\ events \in Seq(Events)
    BY <1>3, QueueCapAssumption DEF Packet, Push, Room, Following, TypeOK
  <2>2. unacked \in Nat
    BY DEF Following, TypeOK
  <2>3. TotalOf(unacked, events') = 0
    BY <2>1, <2>2, Pushed DEF Events
  <2>4. Total' = 0
    BY <2>3 DEF Packet, Acks, AcksOf, Unanswered, UnansweredOf, Total, TotalOf
  <2>5. since' = Capped(Total')
    BY <2>4, MaxSinceAssumption DEF Packet, Capped
  <2> QED BY <1>1, <2>5 DEF Following, Watched, Packet
<1> QED BY <1>2, <1>3

\* A READY that is dropped is not missed.
LEMMA ReadyCountsNothing ==
  ASSUME Following, Push("READY"), unacked' = unacked
  PROVE  Total' = Total /\ Acks' = Acks
<1>1. events \in Seq(Events) /\ unacked \in Nat
  BY DEF Following, TypeOK
<1>2. TotalOf(unacked, events') = TotalOf(unacked, events) /\ AcksOf(events') = AcksOf(events)
  BY <1>1, Pushed DEF Push, Events
<1> QED BY <1>2 DEF Acks, AcksOf, Unanswered, UnansweredOf, Total, TotalOf

LEMMA ReadyFollows == ASSUME Following, PushReady PROVE Following'
<1>1. TypeOK'
  <2>1. events' \in Seq(Events) /\ Len(events') <= QueueCap
    BY PushTyped DEF Following, PushReady, Events
  <2> QED BY <2>1 DEF Following, PushReady, TypeOK
<1>2. Total' = Total /\ Acks' = Acks
  BY ReadyCountsNothing DEF PushReady
<1> QED BY <1>1, <1>2 DEF PushReady, Following, Watched, Capped

LEMMA PurgeFollows == ASSUME Following, Purge PROVE Following'
<1>1. TypeOK'
  <2>1. events' \in Seq(Events) /\ Len(events') <= QueueCap
    BY QueueCapAssumption DEF Purge
  <2>2. step' \in Steps /\ acked' \in BOOLEAN
    BY Zenon DEF Purge, Goto, Steps
  <2> QED BY <2>1, <2>2, Zenon DEF Following, Purge, TypeOK
<1>2. Acks' = {}
  BY DEF Purge, Acks
<1> QED BY <1>1, <1>2 DEF Following, Watched, Purge, Goto

LEMMA AwaitFollows == ASSUME Following, Await PROVE Following'
<1>1. events \in Seq(Events) /\ events # <<>> /\ unacked \in Nat
  BY DEF Following, TypeOK, Await
<1>2. /\ Tail(events) \in Seq(Events) /\ Len(Tail(events)) <= QueueCap
      /\ Acks = {} => Acks' = {} /\ Head(events) # "ACK"
  <2>1. Acks' = AcksOf(Tail(events))
    BY DEF Await, Acks, AcksOf
  <2>2. Len(Tail(events)) <= QueueCap
    BY <1>1, QueueCapAssumption DEF Following, TypeOK
  <2> QED BY <1>1, <2>1, <2>2, Popped, SameTotal
<1>3. TypeOK'
  BY <1>2 DEF Following, TypeOK, Await, Goto, Steps
<1>4. step = "await" /\ (Acks # {} => acked)
  BY DEF Following, Watched, Await, Goto
<1> QED BY <1>2, <1>3, <1>4 DEF Following, Watched, Await, Goto

LEMMA RepurgeFollows == ASSUME Following, Repurge PROVE Following'
<1>1. TypeOK'
  BY QueueCapAssumption, MaxSinceAssumption DEF Following, Repurge, Goto, TypeOK, Steps
<1>2. unacked = 0 /\ acked /\ step' = "run" /\ events' = <<>> /\ since' = 0
      /\ unacked' = unacked /\ acked' = acked
  BY DEF Following, Watched, Repurge, Goto
<1>3. TotalOf(unacked, events') = 0
  BY <1>2, Empty
<1>4. Total' = 0
  BY <1>2, <1>3 DEF Acks, AcksOf, Unanswered, UnansweredOf, Total, TotalOf
<1>5. since' = Capped(Total')
  BY <1>2, <1>4, MaxSinceAssumption DEF Capped
<1> QED BY <1>1, <1>2, <1>5 DEF Following, Watched

LEMMA RunFollows == ASSUME Following, Run PROVE Following'
<1>1. TypeOK'
  <2>1. events' \in Seq(Events) /\ Len(events') <= QueueCap
    BY PushTyped DEF Following, Run, Events
  <2> QED BY <2>1 DEF Following, Run, Goto, TypeOK, Steps
<1>2. Total' = Total /\ Acks' = Acks
  BY ReadyCountsNothing DEF Run
<1> QED BY <1>1, <1>2 DEF Run, Goto, Following, Watched, Capped

LEMMA WatchFollows == ASSUME Following, Watch PROVE Following'
<1>1. events \in Seq(Events) /\ events # <<>> /\ unacked \in Nat /\ unacked \in {0, 1}
  BY DEF Following, TypeOK, Watch, Watched
<1>2. /\ TotalOf(unacked', events') = TotalOf(unacked, events)
      /\ Tail(events) \in Seq(Events) /\ Len(Tail(events)) <= QueueCap
  <2>1. Len(Tail(events)) <= QueueCap
    BY <1>1, QueueCapAssumption DEF Following, TypeOK
  <2> QED BY <1>1, <2>1, Popped DEF Watch
<1>3. unacked' \in {0, 1, 2} /\ (step' = "watch" => unacked' \in {0, 1})
      /\ step = "watch" /\ step' \in {"reset", "watch"}
  BY <1>1 DEF Watch, Count
<1>4. TypeOK'
  BY <1>2, <1>3 DEF Following, TypeOK, Watch, Steps
<1>5. Total' = Total
  BY <1>2 DEF Acks, AcksOf, Unanswered, UnansweredOf, Total, TotalOf
<1> QED BY <1>3, <1>4, <1>5 DEF Following, Watched, Watch, Capped

\* A step of the follower or around it.
LEMMA FollowStep == ASSUME Following, [Next]_vars PROVE Following'
<1>1. ASSUME PulseEnds \/ Rearm \/ Close PROVE Following'
  <2>1. UNCHANGED <<step, unacked, events, since, acked>>
    BY <1>1 DEF PulseEnds, Rearm, Close
  <2>2. TypeOK'
    <3>1. TypeOK
      BY DEF Following
    <3>2. CASE PulseEnds
      BY <3>1, <3>2 DEF PulseEnds, TypeOK
    <3>3. CASE Rearm
      BY <3>1, <3>3 DEF Rearm, TypeOK
    <3>4. CASE Close
      BY <3>1, <3>4 DEF Close, TypeOK
    <3> QED BY <1>1, <3>2, <3>3, <3>4
  <2> QED BY <2>1, <2>2, Aside
<1>2. ASSUME Announce \/ AwaitTimeout \/ WatchTimeout \/ Reset PROVE Following'
  <2>1. TypeOK' /\ UNCHANGED <<unacked, events, since, acked>>
    BY <1>2 DEF Announce, AwaitTimeout, WatchTimeout, Reset, Goto, Following, TypeOK, Steps
  <2>2. /\ step' \in {"announce", "await"} => step \in {"announce", "await"}
        /\ step' \in {"over", "await", "announce", "reset"}
    BY <1>2 DEF Announce, AwaitTimeout, WatchTimeout, Reset, Goto
  <2> QED BY <2>1, <2>2, Aside
<1>3. CASE UNCHANGED vars
  <2>1. TypeOK' /\ UNCHANGED <<step, unacked, events, since, acked>>
    BY <1>3 DEF vars, Following, TypeOK
  <2> QED BY <2>1, Aside
<1> QED
  BY <1>1, <1>2, <1>3, TriggerFollows, PacketFollows, ReadyFollows, PurgeFollows, AwaitFollows,
     RepurgeFollows, RunFollows, WatchFollows DEF Next, Command

LEMMA FollowInvariance == Spec => []Following
<1>1. Following /\ [Next]_vars => Following'
  BY FollowStep
<1> QED BY <1>1, FollowBase, PTL DEF Spec

\* As long as the follower keeps up, what it has counted and what it has yet to
\* read are the triggers since the last packet, for a queue of any length.
\* (uart_cli.c:1149)
THEOREM Counts == Lossless => (Spec => []CountsExact)
<1> SUFFICES ASSUME Lossless PROVE Spec => []CountsExact
  OBVIOUS
<1>1. Following => CountsExact
  BY DEF Following, Watched, CountsExact, Capped
<1> QED BY <1>1, FollowInvariance, PTL

\* The sequencer starts only after a packet that came after the command, also
\* when packets were in the queue before it, and when events are lost.  (uart_cli.c:1147)
THEOREM Starts == Spec => StartsOnPacket
<1>1. Following => (step = "run" => acked)
  BY DEF Following, Watched
<1>2. Following /\ [Next]_vars => [step = "run" /\ step' = "watch" => acked]_vars
  BY <1>1
<1> QED BY <1>2, FollowInvariance, PTL DEF Spec, StartsOnPacket
=============================================================================
