---------------------------- MODULE TimersProofs ----------------------------
(***************************************************************************)
(* Proofs about what the timers and their interrupts do: the notes of a    *)
(* pulse (LogicBlaster), for entries of any kind and length, and the       *)
(* series of the radar emulator (RadarEmulator), for any number of pulses. *)
(***************************************************************************)
EXTENDS LogicBlaster, RadarEmulator, TLAPS

(***************************************************************************)
(* The notes of a pulse: the completion callback is queued once for a      *)
(* triggered pulse, or untriggered for an entry of one note, and finds an  *)
(* inert stream; and an entry with two parking notes is emitted in full.   *)
(***************************************************************************)

Raising == flags \cap enabled

(***************************************************************************)
(* The strengthening.  Between a load and the disarming of its pulse the   *)
(* stream is one note ahead of the pins; "full" is enabled until the       *)
(* stream runs dry and is up from then on until it is handled; and a       *)
(* queued callback is the trace of that interrupt, which does not recur.   *)
(***************************************************************************)

OneAhead == task # "stopped" =>
  loaded = IF playing < count THEN playing + 1 ELSE count

Armed ==
  /\ task = "idle" <=> timer # "off"
  /\ timer # "running" /\ task # "stopped" => playing = 0

FullPending == task # "stopped" =>
  /\ ~Exhausted => "full" \in enabled /\ "full" \notin flags
  /\ Exhausted /\ Raising # {} => "full" \in Raising

Quiet == task = "stopped" => Raising = {} /\ isr = "out" /\ calls = 0

Queued == calls = 0 \/
  /\ calls = 1 /\ task # "stopped" /\ Exhausted
  /\ timer = "running" \/ count = 1
  /\ isr = "out" => Raising = {} /\ handle = "ready"
  /\ isr = "in" => "full" \in Raising

Inv == TypeOK /\ OneAhead /\ Armed /\ FullPending /\ Quiet /\ Queued

-----------------------------------------------------------------------------

LEMMA TailRange == \A form \in Forms : Tail(form) \in {0, 1, 2}
BY DEF Tail, Forms

\* What a stream raises on its way: "full" with the last note and not before.
LEMMA RaisedFull ==
  \A n, m : Raised(n, m) \subseteq {"half", "full"} /\ ("full" \in Raised(n, m) <=> n = m)
BY DEF Raised

LEMMA Initially == Init => Inv
BY MaxOnAssumption DEF Init, Inv, TypeOK, OneAhead, Armed, FullPending, Quiet, Queued, Raising

LEMMA TriggerStep == Inv /\ Trigger => Inv'
BY DEF Inv, Trigger, entry, stream, TypeOK, OneAhead, Armed, FullPending,
       Quiet, Queued, Raising, Exhausted

LEMMA MatchStep ==
  ASSUME Inv, Match
  PROVE  Inv'
<1> USE DEF entry
<1>1. task # "stopped" /\ task = "idle" /\ timer = "running"
  BY DEF Inv, Match, Armed, TypeOK
<1>2. TypeOK'
  <2>1. CASE Exhausted
    <3>1. loaded' = loaded /\ flags' = flags
      BY <2>1 DEF Match
    <3>2. playing + 1 \in 0 .. count
      BY DEF Inv, TypeOK, Match
    <3> QED BY <3>1, <3>2 DEF Inv, TypeOK, Match
  <2>2. CASE ~Exhausted
    <3>1. loaded' = loaded + 1 /\ flags' = flags \cup Raised(loaded + 1, count)
      BY <2>2 DEF Match
    <3>2. flags' \subseteq {"half", "full"}
      BY <3>1, RaisedFull DEF Inv, TypeOK
    <3>3. loaded + 1 \in 0 .. count /\ playing + 1 \in 0 .. count
      BY <2>2 DEF Inv, TypeOK, Exhausted, Match
    <3> QED BY <3>1, <3>2, <3>3 DEF Inv, TypeOK, Match
  <2> QED BY <2>1, <2>2
<1>3. Armed' /\ Quiet'
  BY <1>1 DEF Inv, Match, Armed, Quiet
<1>4. OneAhead'
  BY <1>1 DEF Inv, TypeOK, Match, OneAhead, Exhausted
<1>5. FullPending' /\ Queued'
  <2>1. CASE Exhausted
    <3>1. UNCHANGED <<loaded, flags, enabled, handle, count, task, timer, isr, calls>>
      BY <2>1 DEF Match
    <3> QED BY <3>1 DEF Inv, FullPending, Queued, Exhausted, Raising
  <2>2. CASE ~Exhausted
    <3>1. loaded' = loaded + 1 /\ flags' = flags \cup Raised(loaded + 1, count)
          /\ UNCHANGED <<enabled, handle, count, task, timer, isr, calls>>
      BY <2>2 DEF Match
    <3>2. "full" \in enabled /\ "full" \notin flags
      BY <1>1, <2>2 DEF Inv, FullPending
    <3>3. calls = 0
      BY <2>2 DEF Inv, Queued
    <3>4. "full" \in flags' <=> loaded' = count
      BY <3>1, <3>2, RaisedFull
    <3>5. Exhausted' <=> loaded' = count
      BY <3>1 DEF Exhausted
    <3> QED BY <3>1, <3>2, <3>3, <3>4, <3>5 DEF FullPending, Queued, Raising
  <2> QED BY <2>1, <2>2
<1> QED BY <1>2, <1>3, <1>4, <1>5 DEF Inv

LEMMA EnterStep ==
  ASSUME Inv, Enter
  PROVE  Inv'
<1> USE DEF entry, stream
<1>1. Raising # {} /\ isr = "out" /\ isr' = "in"
  BY DEF Enter, Interrupt, Raising
<1>2. task # "stopped" /\ calls = 0
  BY <1>1 DEF Inv, Quiet, Queued
<1>3. TypeOK' /\ OneAhead' /\ Armed' /\ FullPending' /\ Quiet'
  BY <1>1, <1>2 DEF Inv, Enter, TypeOK, OneAhead, Armed, FullPending, Quiet,
                    Raising, Exhausted
<1>4. Queued'
  <2>1. CASE ~Exhausted
    BY <2>1, <1>2 DEF Enter, Queued
  <2>2. CASE Exhausted
    <3>1. "full" \in Raising
      BY <2>2, <1>1, <1>2 DEF Inv, FullPending
    <3>2. timer = "running" \/ count = 1
      \* Before the first match the stream has transferred one note.
      <4>1. CASE timer # "running"
        BY <4>1, <1>2, <2>2 DEF Inv, OneAhead, Armed, TypeOK, Exhausted
      <4> QED BY <4>1
    <3> QED BY <2>2, <3>1, <3>2, <1>2 DEF Enter, Queued, Raising, Exhausted
  <2> QED BY <2>1, <2>2
<1> QED BY <1>3, <1>4 DEF Inv

LEMMA HandleStep ==
  ASSUME Inv, Handle
  PROVE  Inv'
<1> USE DEF entry
<1>1. task # "stopped"
  BY DEF Inv, Handle, Quiet
<1>2. Raising' = {}
  BY DEF Handle, Raising
<1>3. TypeOK'
  BY DEF Inv, Handle, TypeOK
<1>4. OneAhead' /\ Armed' /\ Quiet'
  BY <1>1 DEF Inv, Handle, OneAhead, Armed, Quiet
<1>5. FullPending'
  BY <1>1, <1>2 DEF Inv, Handle, FullPending, Exhausted
<1>6. Queued'
  BY <1>2 DEF Inv, Handle, Queued, Exhausted, Raising
<1> QED BY <1>3, <1>4, <1>5, <1>6 DEF Inv

LEMMA TaskStep ==
  ASSUME Inv, Task
  PROVE  Inv'
<1> USE DEF entry, stream, TaskRuns, Interrupt
<1>1. CASE Disarm
  <2>1. calls = 1 /\ calls' = 0
    BY <1>1 DEF Inv, Disarm, Queued
  <2>2. TypeOK' /\ OneAhead' /\ Armed'
    BY <1>1, <2>1 DEF Inv, Disarm, TypeOK, OneAhead, Armed
  <2>3. FullPending' /\ Quiet' /\ Queued'
    BY <1>1, <2>1 DEF Disarm, FullPending, Quiet, Queued, Raising
  <2> QED BY <2>2, <2>3 DEF Inv
<1>2. ASSUME NEW form \in Forms, NEW n \in 0 .. MaxOn, NEW lit \in 0 .. MaxOn,
             Load(form, n, lit)
      PROVE  Inv'
  <2>1. n \in 0 .. MaxOn /\ MaxOn \in Nat /\ Tail(form) \in {0, 1, 2}
    BY TailRange, MaxOnAssumption
  <2>2. last' \in 0 .. MaxOn /\ count' \in 1 .. MaxOn + 2 /\ last' <= count'
    BY <1>2, <2>1 DEF Load
  <2>3. calls = 0 /\ calls' = 0 /\ timer = "off" /\ timer' = "off" /\ task' = "loaded"
    BY <1>2 DEF Load, Inv, Quiet, Armed
  <2>4. /\ flags' \subseteq {"half", "full"} /\ enabled' = {"half", "full"}
        /\ "full" \in flags' <=> count' = 1
    BY <1>2, <2>2, RaisedFull DEF Load
  <2>5. TypeOK'
    BY <1>2, <2>2, <2>3, <2>4 DEF Inv, Load, TypeOK
  <2>6. OneAhead' /\ Armed'
    BY <1>2, <2>2, <2>3 DEF Load, OneAhead, Armed
  <2>7. FullPending' /\ Quiet' /\ Queued'
    BY <1>2, <2>2, <2>3, <2>4 DEF Load, FullPending, Quiet, Queued, Exhausted, Raising
  <2> QED BY <2>5, <2>6, <2>7 DEF Inv
<1>3. CASE Arm
  BY <1>3 DEF Inv, Arm, TypeOK, OneAhead, Armed, FullPending, Quiet, Queued,
              Raising, Exhausted
<1> QED BY <1>1, <1>2, <1>3 DEF Task

LEMMA Inductive == Inv /\ [Next]_vars => Inv'
<1> SUFFICES ASSUME Inv, [Next]_vars PROVE Inv'
  OBVIOUS
<1>1. CASE UNCHANGED vars
  BY <1>1 DEF Inv, vars, entry, stream, TypeOK, OneAhead, Armed, FullPending,
              Quiet, Queued, Raising, Exhausted
<1> QED
  BY <1>1, TriggerStep, MatchStep, EnterStep, HandleStep, TaskStep DEF Next

LEMMA Invariance == Spec => []Inv
BY Initially, Inductive, PTL DEF Spec

-----------------------------------------------------------------------------

\* Whatever the entries and however short the notes, a triggered pulse queues
\* the callback at most once; and it is queued without a trigger only for an
\* entry of a single note, which the priming alone exhausts.  (isr.c:159-172)
THEOREM CallsBack == Spec => []OneCallPerPulse
<1>1. Inv => OneCallPerPulse
  BY DEF Inv, Queued, Armed, OneCallPerPulse, TypeOK
<1> QED BY <1>1, Invariance, PTL

\* The callback runs on a stream that has ended and whose handle has been
\* released, so that it may be started again.  (sequencer.c:194)
THEOREM Released == Spec => []DmaInert
<1>1. Inv => DmaInert
  BY DEF Inv, Queued, Armed, DmaInert
<1> QED BY <1>1, Invariance, PTL

\* Whatever the entries, the counters of one with two notes behind the last
\* that radiates are stopped only after that one has had its full length.
\* (uart_cli.c:53-56)
THEOREM InFull == Spec => EmittedInFull
<1>1. ASSUME Inv, [Next]_vars, timer = "running", timer' = "off", count >= last + 2
      PROVE  playing > last
  <2>1. Disarm
    BY <1>1 DEF Next, Task, Trigger, Match, Enter, Handle, Load, Arm, vars, Inv, TypeOK, Armed,
                Quiet
  <2>2. Exhausted /\ task = "idle"
    BY <1>1, <2>1 DEF Disarm, Inv, Queued
  <2> QED BY <1>1, <2>2 DEF Inv, OneAhead, Exhausted, TypeOK
<1>2. Inv /\ [Next]_vars =>
        [timer = "running" /\ timer' = "off" => (count >= last + 2 => playing > last)]_vars
  BY <1>1
<1> QED BY <1>2, Invariance, PTL DEF Spec, EmittedInFull

(***************************************************************************)
(* The radar emulator: a series has exactly the pulses asked for, for      *)
(* every number of them.                                                   *)
(***************************************************************************)

\* The period stays, and no interrupt changes it.
Lasting == preload = "set" /\ shadow = "set" /\ uie = FALSE

\* What a command has done so far.
SetUp ==
  /\ step \in {"limit", "count"} => limit > 0
  /\ step = "limit" => on = FALSE /\ Lasting /\ sent = 0
  /\ step = "count" => /\ on = FALSE /\ preload = "set" /\ shadow = "set"
                       /\ uie = TRUE /\ uif = FALSE /\ remain = limit /\ sent = 0
  /\ step = "start" => on = FALSE /\ shadow = "set" /\ sent = 0

\* A limited series: the interrupt counts, one pulse ahead; then one more
\* period follows; then the timer stands still.
Counting == uie = TRUE /\ preload = "set" /\ shadow = "set" /\ remain >= 1
Counted ==
  \/ Counting /\ uif = FALSE /\ remain = limit - sent - 1
  \/ Counting /\ uif = TRUE /\ remain = limit - sent
  \/ uie = FALSE /\ preload = "zero" /\ shadow = "set" /\ sent = limit - 1
  \/ uie = FALSE /\ preload = "zero" /\ shadow = "zero" /\ sent = limit

Given ==
  /\ step \in {"start", "idle"} /\ limit = 0 => Lasting
  /\ step \in {"start", "idle"} /\ limit > 0 => Counted

IInv == EmulatorTypeOK /\ SetUp /\ Given

LEMMA Limited == limit \in Limits \cup {0} => (limit \in Nat /\ limit < MaxCount) \/ limit = 0
BY LimitsAssumption, MaxCountAssumption

\* The flags as values.
LEMMA Flags ==
  ASSUME EmulatorTypeOK
  PROVE  /\ PeriodOver <=> uif = TRUE /\ uie = TRUE
         /\ on <=> on = TRUE
BY Zenon DEF EmulatorTypeOK, PeriodOver

\* The invariant is what the property says and more.
LEMMA Implies == IInv => ExactlyAsAsked
BY Limited DEF IInv, EmulatorTypeOK, Given, Lasting, Counted, Counting, ExactlyAsAsked

LEMMA Base == EmulatorInit => IInv
<1> SUFFICES ASSUME EmulatorInit PROVE IInv
  OBVIOUS
<1>1. EmulatorTypeOK
  <2>1. /\ step \in {"reset", "limit", "count", "start", "idle"} /\ limit \in Limits \cup {0}
        /\ preload \in {"set", "zero"} /\ shadow \in {"set", "zero"}
        /\ remain \in Nat /\ sent \in 0 .. MaxCount
    BY MaxCountAssumption DEF EmulatorInit
  <2>2. on \in BOOLEAN /\ uif \in BOOLEAN /\ uie \in BOOLEAN
    BY Zenon DEF EmulatorInit
  <2> QED BY <2>1, <2>2 DEF EmulatorTypeOK
<1>2. SetUp /\ Given
  BY DEF EmulatorInit, SetUp, Given, Lasting
<1> QED BY <1>1, <1>2 DEF IInv

LEMMA Step == IInv /\ [EmulatorNext]_emulator => IInv'
<1> SUFFICES ASSUME IInv, [EmulatorNext]_emulator PROVE IInv'
  OBVIOUS
<1>0. /\ PeriodOver <=> uif = TRUE /\ uie = TRUE
      /\ on <=> on = TRUE
  BY Flags DEF IInv
<1> USE <1>0, Limited DEF IInv, EmulatorTypeOK, SetUp, Given, Lasting, Counted, Counting, tim14, SetupRuns
<1>1. CASE Overflow
  BY <1>1, MaxCountAssumption DEF Overflow
<1>2. CASE HandlePeriod
  <2>1. CASE remain > 1
    <3>1. uie' = TRUE /\ uif' = FALSE /\ remain' = remain - 1 /\ uie = TRUE /\ uif = TRUE
      BY <1>2, <2>1, Zenon DEF HandlePeriod, ScheduleStop
    <3> QED BY <1>2, <2>1, <3>1 DEF HandlePeriod, ScheduleStop
  <2>2. CASE ~(remain > 1)
    <3>1. uie' = FALSE /\ uif' = TRUE /\ preload' = "zero" /\ uie = TRUE /\ uif = TRUE
      BY <1>2, <2>2, Zenon DEF HandlePeriod, ScheduleStop
    <3>2. SetUp' /\ Given'
      BY <1>2, <2>2, <3>1 DEF HandlePeriod, ScheduleStop
    <3>3. uif' \in BOOLEAN /\ uie' \in BOOLEAN
      BY <3>1
    <3> QED BY <1>2, <2>2, <3>1, <3>2, <3>3 DEF HandlePeriod, ScheduleStop
  <2> QED BY <2>1, <2>2
<1>3. ASSUME NEW n \in Limits, Call(n) PROVE IInv'
  BY <1>3 DEF Call
<1>4. CASE Reset
  <2>1. on' \in BOOLEAN /\ uif' \in BOOLEAN /\ uie' \in BOOLEAN
    BY <1>4, Zenon DEF Reset
  <2>2. SetUp' /\ Given'
    BY <1>4 DEF Reset
  <2> QED BY <1>4, <2>1, <2>2, MaxCountAssumption DEF Reset
<1>5. CASE Limit
  <2>1. on' \in BOOLEAN /\ uif' \in BOOLEAN /\ uie' \in BOOLEAN
    BY <1>5, Zenon DEF Limit
  <2>2. SetUp'
    BY <1>5 DEF Limit
  <2>3. Given'
    BY <1>5 DEF Limit
  <2> QED BY <1>5, <2>1, <2>2, <2>3 DEF Limit
<1>6. CASE Count
  <2>1. CASE remain > 1
    <3>1. uie' = TRUE /\ uif' = FALSE /\ remain' = remain - 1
      BY <1>6, <2>1 DEF Count, ScheduleStop
    <3> QED BY <1>6, <2>1, <3>1 DEF Count, ScheduleStop
  <2>2. CASE ~(remain > 1)
    <3>1. uie' = FALSE /\ uif' = FALSE /\ preload' = "zero" /\ remain' = remain
      BY <1>6, <2>2 DEF Count, ScheduleStop
    <3>2. SetUp' /\ Given'
      BY <1>6, <2>2, <3>1 DEF Count
    <3>3. uif' \in BOOLEAN /\ uie' \in BOOLEAN
      BY <3>1
    <3> QED BY <1>6, <3>1, <3>2, <3>3 DEF Count
  <2> QED BY <2>1, <2>2
<1>7. CASE Start
  BY <1>7 DEF Start
<1>8. CASE Stop
  BY <1>8 DEF Stop
<1>9. CASE UNCHANGED emulator
  BY <1>9 DEF emulator
<1> QED BY <1>1, <1>2, <1>3, <1>4, <1>5, <1>6, <1>7, <1>8, <1>9 DEF EmulatorNext, Setup

\* A limited series stands still only after exactly the pulses asked for and
\* gives no more; an endless one never stands still: for series of any length
\* that replace and stop each other at any moment.
THEOREM Exactly == EmulatorSpec => []ExactlyAsAsked
<1>1. EmulatorInit => IInv
  BY Base
<1>2. IInv /\ [EmulatorNext]_emulator => IInv'
  BY Step
<1> QED BY <1>1, <1>2, Implies, PTL DEF EmulatorSpec
=============================================================================
