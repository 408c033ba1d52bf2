-------------------------- MODULE RegistersProofs --------------------------
(***************************************************************************)
(* Proofs about Registers, for any descriptors.  Commands that radiate are *)
(* given between pulses and those that test the chip while nothing uses it *)
(* (~Anytime): then a pulse emits what was programmed for it, a tone is a  *)
(* plain one, and nothing else is radiated.                                *)
(***************************************************************************)
EXTENDS Registers, SequenceTheorems, TLAPS

Context == EntriesAssumption /\ AnytimeAssumption /\ ~Anytime

(***************************************************************************)
(* The inductive invariant: how far the script has got, and what of it has *)
(* had its effect.                                                         *)
(***************************************************************************)

\* What remains of script s after k calls; some of it does.
Rest(s, k) == SubSeq(s, k + 1, Len(s))
Remains(s, k) == k \in 0 .. Len(s) - 1 /\ calls = Rest(s, k)

\* Playback, where it is on, is that of a pulse.
Quiet(r) == r.ram => r.prof[0] \in Entries

\* The snapshot holds the chip in reset, which is released behind its back.
\* Profile 1 is selected for a tone or by a pulse.
Always ==
  /\ shadow.reset /\ ~shadow.ram
  /\ Quiet(buffer) /\ Quiet(active)
  /\ latch = 1 => mode = "tone"
  /\ wave = 1 => tim = "running"
  /\ tim # "reset" => mode = "run"
  /\ pending => tim \in {"idle", "reset"} /\ mode # "tone"

\* Registers that have the entry to emit, and the RAM.
Swept(r) == (r.ramp <=> entry \in Sweeps) /\ (entry \in Sweeps => r.limits = entry)
Described(r) == /\ Swept(r) /\ r.fsc = entry /\ r.prof = [p \in {0, 1} |-> entry]
                /\ entry \in Images => r.aux = entry
Prepared(r) == Described(r) /\ ~r.reset /\ (r.ram <=> entry \in Images)
Stored == entry \in Images => image = entry

\* From the end of a callback to that of the pulse.
Armed ==
  tim \in {"armed", "running"} =>
    /\ entry \in Entries /\ Prepared(buffer) /\ Stored
    /\ pins = "tim" /\ latch = 0
    /\ wave = 1 => active = buffer

Plain(r) == r.prof[1] = "tone" /\ r.fsc = "tone" /\ ~r.ramp /\ ~r.ram

\* No script is being executed.
AtRest ==
  /\ calls = <<>>
  /\ mode = "run" <=> tim # "reset"
  /\ Armed
  /\ mode = "tone" => pins = "cpu" /\ latch = 1 /\ Plain(active) /\ ~active.reset

\* enter_rfkill_mode(), and what follows it but the callback.
SwitchingAt(v, k) ==
  /\ Remains(Script(v), k)
  /\ v = "run" => k < 8
  /\ v # "rfkill" => ~pending /\ tim # "running"
  /\ k = 0 => Armed
  /\ k >= 1 => tim = "reset"
  /\ k >= 2 => pins = "cpu"
  /\ k >= 3 => ~shadow.ramp
  /\ k >= 6 => latch = 0
  /\ k >= 7 => mode = "off"
  /\ k >= 8 => shadow.prof[1] = "tone" /\ shadow.fsc = "tone"
  /\ k >= 9 => Plain(buffer)
  /\ k = 10 => ~buffer.reset
Switching == \E v \in {"rfkill", "run", "tone"}, k \in 0 .. 10 : SwitchingAt(v, k)

\* The tests of the chip.
Testing ==
  /\ mode = "off"
  /\ \E v \in {"write", "ram_test"}, k \in 0 .. 8 : Remains(Script(v), k)

\* During a callback: the timers are idle, or in reset since.
Still == /\ ~pending
         /\ tim \in {"idle", "reset"} /\ (mode = "run" <=> tim = "idle") /\ mode # "tone"

Fetching == calls # <<>> /\ Head(calls) = "fetch" /\ Still

\* The callback; k counts the calls of one that loads an image.
PreparingAt(k) ==
  /\ Remains(Callback(entry), IF entry \in Images \/ k < 3 THEN k ELSE k - 5)
  /\ entry \notin Images => k \notin 3 .. 7
  /\ k >= 2 /\ k < 13 => pins = "cpu"
  /\ k >= 3 => Swept(shadow)
  /\ k = 4 => shadow.prof[0] = "whole"
  /\ k = 5 => buffer.prof[0] = "whole" /\ ~buffer.ram
  /\ k \in 6 .. 7 => active.prof[0] = "whole" /\ ~active.ram
  /\ k >= 8 => Stored
  /\ k >= 9 => Described(shadow)
  /\ k \in 10 .. 11 => buffer = shadow
  /\ k >= 12 => Prepared(buffer)
  /\ k = 13 => pins = "tim"
Preparing == Still /\ entry \in Entries /\ \E k \in 0 .. 13 : PreparingAt(k)

IInv == TypeOK /\ Always /\ (AtRest \/ Switching \/ Testing \/ Fetching \/ Preparing)

-----------------------------------------------------------------------------
(* Scripts.                                                                 *)

LEMMA RestIs ==
  ASSUME NEW s \in Seq(Calls), NEW k \in 0 .. Len(s) - 1
  PROVE  /\ Rest(s, k) # <<>>
         /\ Head(Rest(s, k)) = s[k + 1]
         /\ Tail(Rest(s, k)) = Rest(s, k + 1)
         /\ k + 1 = Len(s) => Tail(Rest(s, k)) = <<>>
<1>1. /\ Rest(s, k) \in Seq(Calls) /\ Len(Rest(s, k)) = Len(s) - k
      /\ \A i \in 1 .. Len(s) - k : Rest(s, k)[i] = s[k + i]
  BY SubSeqProperties DEF Rest
<1>2. Rest(s, k) # <<>> /\ Head(Rest(s, k)) = s[k + 1]
  BY <1>1
<1>3. /\ Tail(Rest(s, k)) \in Seq(Calls) /\ Len(Tail(Rest(s, k))) = Len(s) - k - 1
      /\ \A i \in 1 .. Len(s) - k - 1 : Tail(Rest(s, k))[i] = s[k + 1 + i]
  BY <1>1, <1>2, HeadTailProperties
<1>4. /\ Rest(s, k + 1) \in Seq(Calls) /\ Len(Rest(s, k + 1)) = Len(s) - k - 1
      /\ \A i \in 1 .. Len(s) - k - 1 : Rest(s, k + 1)[i] = s[k + 1 + i]
  BY SubSeqProperties DEF Rest
<1>5. Tail(Rest(s, k)) = Rest(s, k + 1)
  BY <1>3, <1>4, SeqEqual
<1>6. k + 1 = Len(s) => Tail(Rest(s, k)) = <<>>
  BY <1>3, EmptySeq
<1> QED
  BY <1>2, <1>5, <1>6

LEMMA Concatenated ==
  ASSUME NEW a \in Seq(Calls), NEW b \in Seq(Calls), NEW s \in Seq(Calls),
         Len(s) = Len(a) + Len(b),
         \A i \in 1 .. Len(a) : s[i] = a[i],
         \A i \in 1 .. Len(b) : s[Len(a) + i] = b[i]
  PROVE  a \o b = s
<1>1. /\ a \o b \in Seq(Calls) /\ Len(a \o b) = Len(a) + Len(b)
      /\ \A i \in 1 .. Len(a) + Len(b) : (a \o b)[i] = IF i <= Len(a) THEN a[i] ELSE b[i - Len(a)]
  BY ConcatProperties
<1>2. ASSUME NEW i \in 1 .. Len(a) + Len(b) PROVE (a \o b)[i] = s[i]
  <2>1. CASE i <= Len(a)
    BY <1>1, <2>1
  <2>2. CASE i > Len(a)
    <3>1. i - Len(a) \in 1 .. Len(b) /\ Len(a) + (i - Len(a)) = i
      BY <2>2
    <3> QED
      BY <1>1, <2>2, <3>1
  <2> QED
    BY <2>1, <2>2
<1> QED
  BY <1>1, <1>2, SeqEqual

LEMMA Addressed ==
  ASSUME NEW c \in Calls
  PROVE  Append(Address, c) = <<"ram_profile", "write", "update", "profile0", c>>
<1> DEFINE t == <<"ram_profile", "write", "update", "profile0", c>>
<1>1. /\ Address \in Seq(Calls) /\ t \in Seq(Calls)
      /\ Len(t) = Len(Address) + 1 /\ t[Len(Address) + 1] = c
      /\ \A i \in 1 .. Len(Address) : t[i] = Address[i]
  BY DEF Address, Calls
<1>2. /\ Append(Address, c) \in Seq(Calls) /\ Len(Append(Address, c)) = Len(Address) + 1
      /\ \A i \in 1 .. Len(Address) : Append(Address, c)[i] = Address[i]
      /\ Append(Address, c)[Len(Address) + 1] = c
  <2>1. Address \in Seq(Calls)
    BY <1>1
  <2> QED BY <2>1, AppendProperties
<1> HIDE DEF t
<1>3. Len(Address) \in Nat
  BY <1>1
<1>4. \A i \in 1 .. Len(t) : Append(Address, c)[i] = t[i]
  BY <1>1, <1>2, <1>3
<1>5. Len(Append(Address, c)) = Len(t)
  BY <1>1, <1>2, Zenon
<1>6. Append(Address, c) = t
  BY <1>1, <1>2, <1>4, <1>5, SeqEqual
<1> QED
  BY <1>6, Zenon DEF t

\* The scripts, written out.
Killing == <<"timer_stop", "to_arm", "park", "write", "update", "profile0", "led_reset">>
Running == <<"timer_stop", "to_arm", "park", "write", "update", "profile0", "led_reset",
             "restart", "fetch">>
Sounding == <<"timer_stop", "to_arm", "park", "write", "update", "profile0", "led_reset",
              "tone", "write", "single", "profile1">>
RamTest == <<"ram_profile", "write", "update", "profile0", "pattern",
             "ram_profile", "write", "update", "profile0">>
WithImage == <<"disarm", "to_arm", "ramp", "ram_profile", "write", "update", "profile0", "image",
               "profiles", "write", "update", "playback", "to_tim", "arm">>
WithNone == <<"disarm", "to_arm", "ramp", "profiles", "write", "update", "single", "to_tim", "arm">>

LEMMA Scripts ==
  /\ Script("rfkill") = Killing /\ Script("run") = Running /\ Script("tone") = Sounding
  /\ Script("write") = <<"write">> /\ Script("ram_test") = RamTest
<1> DEFINE run == <<"restart", "fetch">>
           tone == <<"tone", "write", "single", "profile1">>
           test == <<"ram_profile", "write", "update", "profile0", "pattern">>
<1>1. Rfkill \in Seq(Calls) /\ Address \in Seq(Calls)
  BY DEF Rfkill, Address, Calls
<1>6. Append(Address, "pattern") = test
  BY Addressed DEF Calls
<1>2. Rfkill \o run = Running
  <2>1. run \in Seq(Calls) /\ Running \in Seq(Calls) /\ Len(Running) = Len(Rfkill) + Len(run)
    BY DEF Rfkill, Running, Calls
  <2>2. \A i \in 1 .. Len(Rfkill) : Running[i] = Rfkill[i]
    BY DEF Rfkill, Running
  <2>3. \A i \in 1 .. Len(run) : Running[Len(Rfkill) + i] = run[i]
    BY DEF Rfkill, Running
  <2> HIDE DEF run
  <2> QED
    BY <1>1, <2>1, <2>2, <2>3, Concatenated, Zenon
<1>3. Rfkill \o tone = Sounding
  <2>1. /\ tone \in Seq(Calls) /\ Sounding \in Seq(Calls)
        /\ Len(Sounding) = Len(Rfkill) + Len(tone)
    BY DEF Rfkill, Sounding, Calls
  <2>2. \A i \in 1 .. Len(Rfkill) : Sounding[i] = Rfkill[i]
    BY DEF Rfkill, Sounding
  <2>3. \A i \in 1 .. Len(tone) : Sounding[Len(Rfkill) + i] = tone[i]
    BY DEF Rfkill, Sounding
  <2> HIDE DEF tone
  <2> QED
    BY <1>1, <2>1, <2>2, <2>3, Concatenated, Zenon
<1>4. test \o Address = RamTest
  <2>1. /\ test \in Seq(Calls) /\ RamTest \in Seq(Calls)
        /\ Len(RamTest) = Len(test) + Len(Address)
    BY DEF Address, RamTest, Calls
  <2>2. \A i \in 1 .. Len(test) : RamTest[i] = test[i]
    BY DEF RamTest
  <2>3. \A i \in 1 .. Len(Address) : RamTest[Len(test) + i] = Address[i]
    BY DEF Address, RamTest
  <2> HIDE DEF test
  <2> QED
    BY <1>1, <2>1, <2>2, <2>3, Concatenated, Zenon
<1>5. /\ Script("rfkill") = Killing
      /\ Script("run") = Rfkill \o run
      /\ Script("tone") = Rfkill \o tone
      /\ Script("write") = <<"write">>
      /\ Script("ram_test") = Append(Address, "pattern") \o Address
  BY Zenon DEF Script, Rfkill, Killing
<1> QED
  BY <1>2, <1>3, <1>4, <1>5, <1>6, Zenon

LEMMA Callbacks ==
  ASSUME NEW e
  PROVE  /\ e \in Images => Callback(e) = WithImage
         /\ e \notin Images => Callback(e) = WithNone
<1> DEFINE head == <<"disarm", "to_arm", "ramp">>
           load == <<"ram_profile", "write", "update", "profile0", "image">>
           addressed == <<"disarm", "to_arm", "ramp", "ram_profile", "write", "update",
                          "profile0", "image">>
           tail(c) == <<"profiles", "write", "update", c, "to_tim", "arm">>
<1>1. /\ head \in Seq(Calls) /\ load \in Seq(Calls) /\ addressed \in Seq(Calls)
      /\ tail("playback") \in Seq(Calls) /\ tail("single") \in Seq(Calls)
      /\ WithImage \in Seq(Calls) /\ WithNone \in Seq(Calls)
  BY DEF Calls, WithImage, WithNone
<1>2. head \o load = addressed
  <2>1. /\ Len(addressed) = Len(head) + Len(load)
        /\ \A i \in 1 .. Len(head) : addressed[i] = head[i]
        /\ \A i \in 1 .. Len(load) : addressed[Len(head) + i] = load[i]
    OBVIOUS
  <2>2. head \in Seq(Calls) /\ load \in Seq(Calls) /\ addressed \in Seq(Calls)
    BY <1>1
  <2> HIDE DEF head, load, addressed
  <2> QED
    BY <2>1, <2>2, Concatenated
<1>3. addressed \o tail("playback") = WithImage
  <2>1. /\ Len(WithImage) = Len(addressed) + Len(tail("playback"))
        /\ \A i \in 1 .. Len(addressed) : WithImage[i] = addressed[i]
        /\ \A i \in 1 .. Len(tail("playback")) : WithImage[Len(addressed) + i] = tail("playback")[i]
    BY DEF WithImage
  <2> HIDE DEF addressed, tail
  <2> QED
    BY <1>1, <2>1, Concatenated, Zenon
<1>4. head \o tail("single") = WithNone
  <2>1. /\ Len(WithNone) = Len(head) + Len(tail("single"))
        /\ \A i \in 1 .. Len(head) : WithNone[i] = head[i]
        /\ \A i \in 1 .. Len(tail("single")) : WithNone[Len(head) + i] = tail("single")[i]
    BY DEF WithNone
  <2> HIDE DEF head, tail
  <2> QED
    BY <1>1, <2>1, Concatenated, Zenon
<1>5. Append(Address, "image") = load
  BY Addressed DEF Calls
<1>6. head \o <<>> = head
  <2> HIDE DEF head
  <2> QED
    BY <1>1, ConcatEmptySeq
<1>7. CASE e \in Images
  <2>1. Callback(e) = (head \o Append(Address, "image")) \o tail("playback")
    BY <1>7, Zenon DEF Callback
  <2> QED
    BY <1>2, <1>3, <1>5, <1>7, <2>1, Zenon
<1>8. CASE e \notin Images
  <2>1. Callback(e) = (head \o <<>>) \o tail("single")
    BY <1>8, Zenon DEF Callback
  <2> QED
    BY <1>4, <1>6, <1>8, <2>1, Zenon
<1> QED
  BY <1>7, <1>8

-----------------------------------------------------------------------------
(* Calls.                                                                   *)

LEMMA CallIs ==
  ASSUME Call
  PROVE  /\ calls # <<>>
         /\ Head(calls) # "fetch" => calls' = Tail(calls)
         /\ Head(calls) = "fetch" => \E e \in Entries : Fetch(e)
         /\ Head(calls) = "timer_stop" => TimerStop
         /\ Head(calls) = "restart" => Restart
         /\ Head(calls) = "disarm" => Disarm
         /\ Head(calls) = "arm" => Arm
         /\ Head(calls) = "led_reset" => LedReset
         /\ Head(calls) = "to_arm" => ToArm
         /\ Head(calls) = "to_tim" => ToTim
         /\ Head(calls) = "profile0" => Profile0
         /\ Head(calls) = "profile1" => Profile1
         /\ Head(calls) = "park" => Park
         /\ Head(calls) = "ramp" => Ramp
         /\ Head(calls) = "ram_profile" => RamProfile
         /\ Head(calls) = "profiles" => Profiles
         /\ Head(calls) = "tone" => Tone
         /\ Head(calls) = "write" => Write
         /\ Head(calls) = "update" => Update
         /\ Head(calls) \in {"image", "pattern"} => Image
         /\ Head(calls) = "playback" => SafetyOff("playback", TRUE)
         /\ Head(calls) = "single" => SafetyOff("single", FALSE)
BY DEF Call, TimerStop, Restart, Disarm, Arm, LedReset, ToArm, ToTim, Profile0, Profile1,
       Steer, Park, Ramp, RamProfile, Profiles, Tone, Store, Write, Update, Image, SendWords,
       SafetyOff, Fetch, Make

LEMMA ScriptsAreCalls ==
  /\ Script("rfkill") \in Seq(Calls) /\ Script("run") \in Seq(Calls)
  /\ Script("tone") \in Seq(Calls) /\ Script("write") \in Seq(Calls)
  /\ Script("ram_test") \in Seq(Calls) /\ <<"fetch">> \in Seq(Calls)
  /\ \A e : Callback(e) \in Seq(Calls)
<1>1. /\ Killing \in Seq(Calls) /\ Running \in Seq(Calls) /\ Sounding \in Seq(Calls)
      /\ <<"write">> \in Seq(Calls) /\ RamTest \in Seq(Calls) /\ <<"fetch">> \in Seq(Calls)
      /\ WithImage \in Seq(Calls) /\ WithNone \in Seq(Calls)
  BY DEF Killing, Running, Sounding, RamTest, WithImage, WithNone, Calls
<1> QED
  BY <1>1, Scripts, Callbacks, Zenon

\* Types.
LEMMA TypeStep ==
  ASSUME Context, TypeOK, [Next]_vars
  PROVE  TypeOK'
<1> USE DEF TypeOK, chip, lines, task
<1>1. \A v \in Commands : Script(v) \in Seq(Calls)
  BY ScriptsAreCalls, Zenon DEF Commands
<1>2. \A e \in Entries : Callback(e) \in Seq(Calls) /\ e \in Values
  BY ScriptsAreCalls DEF Values
<1>3. ASSUME NEW v \in Commands, Issue(v) PROVE TypeOK'
  BY <1>1, <1>3 DEF Issue
<1>4. CASE RunDeferred
  BY <1>4, ScriptsAreCalls DEF RunDeferred
<1>5. CASE Trigger \/ Note \/ PulseEnds
  <2>1. CASE Trigger
    BY <2>1 DEF Trigger
  <2>2. CASE Note
    BY <2>2 DEF Note, Select
  <2>3. CASE PulseEnds
    BY <2>3 DEF PulseEnds
  <2> QED
    BY <1>5, <2>1, <2>2, <2>3
<1>6. CASE Call
  <2>1. calls # <<>> => Tail(calls) \in Seq(Calls)
    BY HeadTailProperties
  <2>2. /\ {"none", "zero", "tone", "whole"} \subseteq Values
        /\ \A x \in Values : Loaded(x) \in Values
    BY DEF Values, Marks, Loaded
  <2>3. CASE TimerStop \/ Restart \/ Disarm \/ Arm \/ LedReset
    <3>1. CASE TimerStop
      BY <2>1, <3>1 DEF TimerStop, Make, Select
    <3>2. CASE Restart \/ LedReset
      BY <2>1, <3>2 DEF Restart, LedReset, Make
    <3>3. CASE Disarm \/ Arm
      BY <2>1, <3>3 DEF Disarm, Arm, Make
    <3> QED
      BY <2>3, <3>1, <3>2, <3>3
  <2>4. CASE ToArm \/ ToTim \/ Profile0 \/ Profile1
    BY <2>1, <2>4 DEF ToArm, ToTim, Profile0, Profile1, Steer, Make, Select
  <2>5. CASE Park \/ Ramp \/ RamProfile \/ Profiles \/ Tone
    <3>1. ASSUME NEW v \in Values, NEW w \in Values, NEW b \in BOOLEAN
          PROVE  /\ [shadow EXCEPT !.prof[0] = v, !.ramp = b] \in Contents
                 /\ [shadow EXCEPT !.prof[0] = v] \in Contents
                 /\ [shadow EXCEPT !.ramp = b, !.limits = v] \in Contents
                 /\ [shadow EXCEPT !.ramp = b] \in Contents
                 /\ [shadow EXCEPT !.prof[1] = v, !.fsc = w] \in Contents
      BY DEF Contents
    <3>2. shadow' \in Contents
      <4>1. CASE Park \/ Tone \/ RamProfile
        <5> HIDE DEF TypeOK
        <5>1. CASE Park
          BY <2>2, <3>1, <5>1 DEF Park, Store
        <5>2. CASE Tone
          BY <2>2, <3>1, <5>2 DEF Tone, Store
        <5>3. CASE RamProfile
          BY <2>2, <3>1, <5>3 DEF RamProfile, Store
        <5> QED
          BY <4>1, <5>1, <5>2, <5>3
      <4>2. CASE Ramp
        BY <3>1, <4>2 DEF Ramp, Store
      <4>3. CASE Profiles
        <5>1. [p \in {0, 1} |-> entry] \in [{0, 1} -> Values]
          OBVIOUS
        <5>2. ASSUME NEW f \in [{0, 1} -> Values], NEW v \in Values
              PROVE  [shadow EXCEPT !.prof = f, !.fsc = v,
                                    !.aux = IF entry \in Images THEN entry ELSE @] \in Contents
          BY DEF Contents
        <5> QED
          BY <4>3, <5>1, <5>2 DEF Profiles, Store
      <4> QED
        BY <2>5, <4>1, <4>2, <4>3
    <3>3. /\ calls' \in Seq(Calls)
          /\ UNCHANGED <<buffer, active, image, pins, latch, wave, tim, pending, entry, mode>>
      BY <2>1, <2>5 DEF Park, Tone, RamProfile, Ramp, Profiles, Store, Make
    <3> QED
      BY <3>2, <3>3
  <2>6. CASE Write \/ Update \/ Image
    BY <2>1, <2>2, <2>6 DEF Write, Update, Image, SendWords, Make
  <2>7. CASE SafetyOff("playback", TRUE) \/ SafetyOff("single", FALSE)
    BY <2>1, <2>7 DEF SafetyOff, Make, Contents
  <2>8. CASE \E e \in Entries : Fetch(e)
    BY <1>2, <2>8 DEF Fetch
  <2> QED
    BY <1>6, <2>3, <2>4, <2>5, <2>6, <2>7, <2>8 DEF Call
<1>7. CASE UNCHANGED vars
  BY <1>7 DEF vars
<1> QED
  BY <1>3, <1>4, <1>5, <1>6, <1>7 DEF Next

-----------------------------------------------------------------------------
(* The init task executes its script.                                       *)

\* The next call, and what remains after it.
LEMMA Makes ==
  ASSUME NEW s \in Seq(Calls), NEW k, Remains(s, k), Call
  PROVE  /\ k \in 0 .. Len(s) - 1 /\ Head(calls) = s[k + 1]
         /\ s[k + 1] # "fetch" =>
              IF k + 1 < Len(s) THEN Remains(s, k + 1)' ELSE calls' = <<>>
<1>1. k \in 0 .. Len(s) - 1 /\ calls = Rest(s, k) /\ Len(s) \in Nat
  BY DEF Remains
<1>2. /\ Head(calls) = s[k + 1] /\ Tail(calls) = Rest(s, k + 1)
      /\ k + 1 = Len(s) => Tail(calls) = <<>>
  BY <1>1, RestIs
<1>3. s[k + 1] # "fetch" => calls' = Tail(calls)
  BY <1>2, CallIs
<1>4. k + 1 < Len(s) \/ k + 1 = Len(s)
  BY <1>1
<1>5. k + 1 < Len(s) => k + 1 \in 0 .. Len(s) - 1
  BY <1>1
<1> QED
  BY <1>1, <1>2, <1>3, <1>4, <1>5 DEF Remains

\* What ad_safety_off() and the setters leave alone.
LEMMA Released ==
  ASSUME TypeOK, NEW c, NEW playback \in BOOLEAN, SafetyOff(c, playback), ~shadow.ram
  PROVE  /\ buffer'.reset = FALSE /\ buffer'.ram = playback
         /\ buffer'.ramp = buffer.ramp /\ buffer'.limits = buffer.limits
         /\ buffer'.aux = buffer.aux /\ buffer'.prof = buffer.prof /\ buffer'.fsc = buffer.fsc
         /\ UNCHANGED <<shadow, active, image, lines, tim, pending, entry, mode>>
<1>1. UNCHANGED <<shadow, active, image, lines, tim, pending, entry, mode>>
  BY DEF SafetyOff
<1>2. /\ buffer \in Contents
      /\ buffer' = [buffer EXCEPT !.reset = FALSE, !.ram = shadow.ram \/ playback]
  BY DEF TypeOK, SafetyOff
<1>3. /\ buffer'.reset = FALSE /\ buffer'.ram = (shadow.ram \/ playback)
      /\ buffer'.ramp = buffer.ramp /\ buffer'.limits = buffer.limits
      /\ buffer'.aux = buffer.aux /\ buffer'.prof = buffer.prof /\ buffer'.fsc = buffer.fsc
  BY <1>2 DEF Contents
<1>4. (shadow.ram \/ playback) = playback
  BY Zenon
<1> QED
  BY <1>1, <1>3, <1>4, Zenon

LEMMA SwitchingStep ==
  ASSUME Context, TypeOK, TypeOK', Always, Call,
         NEW v \in {"rfkill", "run", "tone"}, NEW k \in 0 .. 10, SwitchingAt(v, k)
  PROVE  Always' /\ (AtRest' \/ Switching' \/ Fetching')
<1> DEFINE s == Script(v)
           n == Len(s)
<1>1. /\ s \in Seq(Calls) /\ Remains(s, k)
      /\ v = "rfkill" => n = 7
      /\ v = "run" => n = 9
      /\ v = "tone" => n = 11
      /\ \A i \in 1 .. 7 : s[i] = Killing[i]
      /\ v = "run" => s[8] = "restart" /\ s[9] = "fetch"
      /\ v = "tone" => s[8] = "tone" /\ s[9] = "write" /\ s[10] = "single" /\ s[11] = "profile1"
  <2>1. s \in Seq(Calls) /\ Remains(s, k)
    BY ScriptsAreCalls DEF SwitchingAt
  <2>2. /\ v = "rfkill" => s = Killing
        /\ v = "run" => s = Running
        /\ v = "tone" => s = Sounding
    BY Scripts, Zenon
  <2>3. Len(Killing) = 7 /\ Len(Running) = 9 /\ Len(Sounding) = 11
    BY DEF Killing, Running, Sounding
  <2>4. \A i \in 1 .. 7 : Running[i] = Killing[i] /\ Sounding[i] = Killing[i]
    BY DEF Killing, Running, Sounding
  <2>5. /\ Running[8] = "restart" /\ Running[9] = "fetch"
        /\ Sounding[8] = "tone" /\ Sounding[9] = "write"
        /\ Sounding[10] = "single" /\ Sounding[11] = "profile1"
    BY DEF Running, Sounding
  <2> HIDE DEF s
  <2> QED
    BY <2>1, <2>2, <2>3, <2>4, <2>5, Zenon
<1>2. /\ Head(calls) = s[k + 1]
      /\ s[k + 1] # "fetch" =>
           IF k + 1 < n THEN Remains(s, k + 1)' ELSE calls' = <<>>
  BY <1>1, Makes
<1>3. k \in 0 .. 10 /\ k < n
  BY <1>1 DEF Remains
<1>4. \/ v = "rfkill" /\ n = 7
      \/ v = "run" /\ n = 9
      \/ v = "tone" /\ n = 11
  BY <1>1, Zenon
<1>5. k + 1 \in 0 .. 10 /\ SwitchingAt(v, k + 1)' => Switching'
  BY Zenon DEF Switching
<1> HIDE DEF s, n
<1> USE DEF chip, lines, task
<1>6. CASE k < 7
  <2>1. /\ Head(calls) = Killing[k + 1] /\ Killing[k + 1] # "fetch"
        /\ k < 6 => Remains(s, k + 1)'
        /\ k = 6 => IF v = "rfkill" THEN calls' = <<>> ELSE Remains(s, 7)'
    <3>1. \A i \in 1 .. 7 : Killing[i] # "fetch"
      BY DEF Killing
    <3>2. /\ k + 1 \in 1 .. 7 /\ (k < 6 => k + 1 < n) /\ (k = 6 => k + 1 = 7)
          /\ v = "rfkill" => ~(7 < n)
          /\ v # "rfkill" => 7 < n
      BY <1>6, <1>3, <1>4
    <3>3. s[k + 1] = Killing[k + 1] /\ Killing[k + 1] # "fetch"
      BY <1>1, <3>1, <3>2, Zenon
    <3> QED
      BY <1>2, <3>2, <3>3
  <2>2. CASE k = 0
    <3>1. TimerStop
      BY <2>1, <2>2, CallIs DEF Killing
    <3>2. Always' /\ tim' = "reset" /\ pending' = pending
      BY <3>1 DEF TimerStop, Select, Choice, Selected, TypeOK, Always, Quiet
    <3> QED
      BY <1>5, <2>1, <2>2, <3>2 DEF SwitchingAt, s
  <2>3. CASE k = 1
    <3>1. ToArm
      BY <2>1, <2>3, CallIs DEF Killing
    <3>2. Always' /\ pins' = "cpu" /\ UNCHANGED <<tim, pending>>
      BY <3>1 DEF ToArm, Steer, Select, Choice, Selected, TypeOK, Always, Quiet
    <3> QED
      BY <1>5, <2>1, <2>3, <3>2 DEF SwitchingAt, s
  <2>4. CASE k = 2
    <3>1. Park
      BY <2>1, <2>4, CallIs DEF Killing
    <3>2. Always' /\ ~shadow'.ramp /\ UNCHANGED <<tim, pending, pins>>
      BY <3>1 DEF Park, Store, TypeOK, Contents, Always, Quiet
    <3> QED
      BY <1>5, <2>1, <2>4, <3>2 DEF SwitchingAt, s
  <2>5. CASE k = 3
    <3>1. Write
      BY <2>1, <2>5, CallIs DEF Killing
    <3>2. Always' /\ UNCHANGED <<tim, pending, pins, shadow>>
      BY <3>1 DEF Write, Always, Quiet
    <3> QED
      BY <1>5, <2>1, <2>5, <3>2 DEF SwitchingAt, s
  <2>6. CASE k = 4
    <3>1. Update
      BY <2>1, <2>6, CallIs DEF Killing
    <3>2. Always' /\ UNCHANGED <<tim, pending, pins, shadow>>
      BY <3>1 DEF Update, Always, Quiet
    <3> QED
      BY <1>5, <2>1, <2>6, <3>2 DEF SwitchingAt, s
  <2>7. CASE k = 5
    <3>1. Profile0
      BY <2>1, <2>7, CallIs DEF Killing
    <3>2. Always' /\ latch' = 0 /\ UNCHANGED <<tim, pending, pins, shadow>>
      BY <3>1 DEF Profile0, Steer, Select, Always, Quiet
    <3> QED
      BY <1>5, <2>1, <2>7, <3>2 DEF SwitchingAt, s
  <2>8. CASE k = 6
    <3>1. LedReset
      BY <2>1, <2>8, CallIs DEF Killing
    <3>2. Always' /\ mode' = "off" /\ UNCHANGED <<tim, pending, pins, shadow, latch>>
      BY <2>8, <3>1 DEF LedReset, SwitchingAt, TypeOK, Always, Quiet
    <3>3. CASE v = "rfkill"
      BY <2>1, <2>8, <3>2, <3>3 DEF SwitchingAt, AtRest, Armed
    <3>4. CASE v # "rfkill"
      BY <1>5, <2>1, <2>8, <3>2, <3>4 DEF SwitchingAt, s
    <3> QED
      BY <3>3, <3>4
  <2> QED
    BY <1>6, <2>2, <2>3, <2>4, <2>5, <2>6, <2>7, <2>8
<1>7. CASE k = 7 /\ v = "run"
  <2>1. Restart
    BY <1>1, <1>2, <1>7, CallIs
  <2>2. Remains(s, 8)'
    BY <1>1, <1>2, <1>7, <1>3, <1>4
  <2>3. calls' # <<>> /\ Head(calls') = "fetch"
    <3>1. /\ 8 \in 0 .. Len(s) - 1 /\ calls' = Rest(s, 8)
          /\ s[8 + 1] = "fetch"
      BY <1>1, <1>7, <2>2 DEF Remains, s
    <3> QED
      BY <1>1, <3>1, RestIs
  <2> QED
    BY <1>7, <2>1, <2>3 DEF Restart, SwitchingAt, Fetching, Still, Always, Quiet
<1>8. CASE k >= 7 /\ v = "tone"
  <2>1. /\ Head(calls) = s[k + 1] /\ k \in 7 .. 10
        /\ IF k < 10 THEN Remains(s, k + 1)' ELSE calls' = <<>>
    BY <1>1, <1>2, <1>8, <1>3, <1>4
  <2>2. CASE k = 7
    <3>1. Tone
      BY <1>1, <1>8, <2>1, <2>2, CallIs
    <3>2. /\ Always' /\ shadow'.prof[1] = "tone" /\ shadow'.fsc = "tone" /\ ~shadow'.ramp
          /\ UNCHANGED <<tim, pending, pins, latch, mode>>
      BY <2>2, <3>1 DEF Tone, Store, TypeOK, Contents, SwitchingAt, Always, Quiet
    <3> QED
      BY <1>5, <1>8, <2>1, <2>2, <3>2 DEF SwitchingAt, s
  <2>3. CASE k = 8
    <3>1. Write
      BY <1>1, <1>8, <2>1, <2>3, CallIs
    <3>2. /\ Always' /\ Plain(buffer)'
          /\ UNCHANGED <<shadow, tim, pending, pins, latch, mode>>
      BY <2>3, <3>1 DEF Write, Plain, SwitchingAt, Always, Quiet
    <3> QED
      BY <1>5, <1>8, <2>1, <2>3, <3>2 DEF SwitchingAt, s
  <2>4. CASE k = 9
    <3>1. SafetyOff("single", FALSE)
      <4>1. Head(calls) = "single"
        BY <1>1, <1>8, <2>1, <2>4
      <4> QED
        BY <4>1, CallIs, Zenon
    <3>2. /\ Always' /\ Plain(buffer)' /\ ~buffer'.reset
          /\ UNCHANGED <<shadow, tim, pending, pins, latch, mode>>
      <4>1. ~shadow.ram /\ Plain(buffer)
        BY <2>4 DEF Always, SwitchingAt
      <4>2. Plain(buffer)' /\ ~buffer'.reset /\ ~buffer'.ram
        BY <3>1, <4>1, Released, Zenon DEF Plain
      <4>3. UNCHANGED <<shadow, active, tim, pending, pins, latch, wave, mode>>
        BY <3>1 DEF SafetyOff
      <4> QED
        BY <4>2, <4>3 DEF Always, Quiet
    <3> QED
      BY <1>5, <1>8, <2>1, <2>4, <3>2 DEF SwitchingAt, s
  <2>5. CASE k = 10
    <3>1. Profile1
      BY <1>1, <1>8, <2>1, <2>5, CallIs
    <3>2. /\ Always' /\ active' = buffer /\ latch' = 1 /\ mode' = "tone"
          /\ tim = "reset" /\ tim' = "reset" /\ pins' = "cpu" /\ Plain(buffer) /\ ~buffer.reset
      BY <1>8, <2>5, <3>1 DEF Profile1, Steer, Select, Choice, Selected, SwitchingAt, Always, Quiet
    <3> QED
      BY <2>1, <2>5, <3>2 DEF AtRest, Armed, Plain
  <2> QED
    BY <2>1, <2>2, <2>3, <2>4, <2>5
<1> QED
  <2>1. v = "rfkill" => k < 7
    BY <1>3, <1>4
  <2>2. v = "run" => k < 8
    BY DEF SwitchingAt
  <2> QED
    BY <1>6, <1>7, <1>8, <2>1, <2>2

LEMMA PreparingStep ==
  ASSUME Context, TypeOK, TypeOK', Always, Call, Still,
         NEW e \in Entries, entry = e, NEW k \in 0 .. 13, PreparingAt(k)
  PROVE  Always' /\ (AtRest' \/ Preparing')
<1> DEFINE s == Callback(e)
           at(j) == IF e \in Images \/ j < 3 THEN j ELSE j - 5
           q == IF k = 2 /\ e \notin Images THEN 8 ELSE k + 1
<1>1. /\ Head(calls) = IF k = 11 /\ e \notin Images THEN "single" ELSE WithImage[k + 1]
      /\ k < 13 => Remains(s, at(q))'
      /\ k = 13 => calls' = <<>>
  <2>1. /\ s \in Seq(Calls) /\ Remains(s, at(k))
        /\ e \notin Images => k \notin 3 .. 7
    BY ScriptsAreCalls DEF PreparingAt
  <2>2. /\ at(k) \in 0 .. Len(s) - 1 /\ Head(calls) = s[at(k) + 1]
        /\ s[at(k) + 1] # "fetch" =>
             IF at(k) + 1 < Len(s) THEN Remains(s, at(k) + 1)' ELSE calls' = <<>>
    BY <2>1, Makes
  <2>3. CASE e \in Images
    <3>1. s = WithImage /\ Len(WithImage) = 14 /\ \A i \in 1 .. 14 : WithImage[i] # "fetch"
      BY <2>3, Callbacks DEF WithImage
    <3>2. at(k) = k /\ (k < 13 => at(q) = k + 1)
      BY <2>3
    <3> HIDE DEF s, at, q
    <3>3. k + 1 \in 1 .. 14
      OBVIOUS
    <3> QED
      BY <2>2, <2>3, <3>1, <3>2, <3>3
  <2>4. CASE e \notin Images
    <3>1. /\ s = WithNone /\ Len(WithNone) = 9 /\ \A i \in 1 .. 9 : WithNone[i] # "fetch"
      BY <2>4, Callbacks DEF WithNone
    <3>2. /\ \A i \in 1 .. 3 : WithNone[i] = WithImage[i]
          /\ \A i \in {4, 5, 6, 8, 9} : WithNone[i] = WithImage[i + 5]
          /\ WithNone[7] = "single"
      BY DEF WithNone, WithImage
    <3>3. /\ k \in 0 .. 2 \/ k \in 8 .. 13
          /\ at(k) = IF k < 3 THEN k ELSE k - 5
          /\ k < 13 => at(q) = at(k) + 1
          /\ k = 13 => at(k) = 8
      BY <2>1, <2>4
    <3>4. Head(calls) = IF k = 11 THEN "single" ELSE WithImage[k + 1]
      <4>1. Head(calls) = WithNone[at(k) + 1]
        BY <2>2, <3>1
      <4> HIDE DEF at, q, s
      <4> QED
        BY <3>2, <3>3, <4>1
    <3> HIDE DEF at, q, s
    <3>5. at(k) + 1 \in 1 .. 9 /\ (k < 13 => at(k) + 1 < 9)
      BY <3>3
    <3> QED
      BY <2>2, <2>4, <3>1, <3>3, <3>4, <3>5
  <2> QED
    BY <2>3, <2>4
<1>2. /\ k \in 0 .. 13 /\ (e \notin Images => k \notin 3 .. 7)
      /\ latch = 0 /\ wave = 0 /\ mode # "tone" /\ ~shadow.ram /\ Selected = 0
  BY DEF PreparingAt, Still, Always, TypeOK, Selected, Choice
<1>3. ASSUME k < 13, entry' = entry, Still', PreparingAt(q)'
      PROVE  Preparing'
  <2>1. q \in 0 .. 13
    BY <1>2, <1>3
  <2> QED
    BY <1>3, <2>1, Zenon DEF Preparing
<1>4. ASSUME entry' = entry, k < 13
      PROVE  /\ Remains(Callback(entry), IF entry \in Images \/ q < 3 THEN q ELSE q - 5)'
             /\ (entry \notin Images => q \notin 3 .. 7)'
  BY <1>1, <1>2, <1>4
<1>5. /\ k \in 0 .. 1 => q = k + 1
      /\ k = 2 => q = IF e \in Images THEN 3 ELSE 8
      /\ k \in 3 .. 13 => q = k + 1
  BY <1>2
<1> HIDE DEF s, at, q
<1> USE DEF chip, lines, task
<1>6. CASE k = 0
  <2>1. Disarm
    BY <1>1, <1>6, CallIs DEF WithImage
  <2>2. Always' /\ Still' /\ entry' = entry
    BY <2>1 DEF Disarm, Always, Quiet, Still, TypeOK
  <2> QED
    BY <1>3, <1>4, <1>5, <1>6, <2>2 DEF PreparingAt
<1>7. CASE k = 1
  <2>1. ToArm
    BY <1>1, <1>7, CallIs DEF WithImage
  <2>2. Always' /\ Still' /\ entry' = entry /\ pins' = "cpu"
    BY <1>2, <2>1 DEF ToArm, Steer, Select, Always, Quiet, Still
  <2> QED
    BY <1>3, <1>4, <1>5, <1>7, <2>2 DEF PreparingAt
<1>8. CASE k = 2
  <2>1. Ramp
    BY <1>1, <1>8, CallIs DEF WithImage
  <2>2. Always' /\ Still' /\ entry' = entry /\ pins' = pins /\ Swept(shadow)'
    <3>1. CASE e \in Sweeps
      <4>1. /\ shadow'.ramp = TRUE /\ shadow'.limits = e
            /\ shadow'.reset = shadow.reset /\ shadow'.ram = shadow.ram
        BY <2>1, <3>1 DEF Ramp, Store, TypeOK, Contents
      <4> QED
        BY <2>1, <3>1, <4>1 DEF Ramp, Store, Always, Quiet, Still, Swept
    <3>2. CASE e \notin Sweeps
      <4>1. shadow'.ramp = FALSE /\ shadow'.reset = shadow.reset /\ shadow'.ram = shadow.ram
        BY <2>1, <3>2 DEF Ramp, Store, TypeOK, Contents
      <4> QED
        BY <2>1, <3>2, <4>1 DEF Ramp, Store, Always, Quiet, Still, Swept
    <3> QED
      BY <3>1, <3>2
  <2>3. pins = "cpu"
    BY <1>8 DEF PreparingAt
  <2> QED
    BY <1>3, <1>4, <1>5, <1>8, <2>2, <2>3 DEF PreparingAt, Stored
<1>9. CASE k = 3
  <2>1. RamProfile
    BY <1>1, <1>9, CallIs DEF WithImage
  <2>2. /\ Always' /\ Still' /\ entry' = entry /\ pins' = pins
        /\ Swept(shadow)' /\ shadow'.prof[0] = "whole"
    BY <1>9, <2>1
    DEF RamProfile, Store, Always, Quiet, Still, Swept, TypeOK, Contents, PreparingAt
  <2> QED
    BY <1>3, <1>4, <1>5, <1>9, <2>2 DEF PreparingAt
<1>10. CASE k = 4
  <2>1. Write
    BY <1>1, <1>10, CallIs DEF WithImage
  <2>2. /\ Always' /\ Still' /\ entry' = entry /\ pins' = pins /\ shadow' = shadow
        /\ buffer' = shadow /\ shadow.prof[0] = "whole" /\ ~shadow.ram
    BY <1>10, <2>1 DEF Write, Always, Quiet, Still, PreparingAt
  <2> QED
    BY <1>3, <1>4, <1>5, <1>10, <2>2 DEF PreparingAt, Swept
<1>11. CASE k = 5
  <2>1. Update
    BY <1>1, <1>11, CallIs DEF WithImage
  <2>2. /\ Always' /\ Still' /\ entry' = entry /\ pins' = pins /\ shadow' = shadow
        /\ active' = buffer /\ buffer.prof[0] = "whole" /\ ~buffer.ram
    BY <1>11, <2>1 DEF Update, Always, Quiet, Still, PreparingAt
  <2> QED
    BY <1>3, <1>4, <1>5, <1>11, <2>2 DEF PreparingAt, Swept
<1>12. CASE k = 6
  <2>1. Profile0
    BY <1>1, <1>12, CallIs DEF WithImage
  <2>2. /\ Always' /\ Still' /\ entry' = entry /\ pins' = pins /\ shadow' = shadow
        /\ active' = active
    BY <1>2, <2>1 DEF Profile0, Steer, Select, Selected, Always, Quiet, Still
  <2> QED
    BY <1>3, <1>4, <1>5, <1>12, <2>2 DEF PreparingAt, Swept
<1>13. CASE k = 7
  <2>1. Image /\ Head(calls) = "image"
    BY <1>1, <1>13, CallIs DEF WithImage
  <2>2. image' = entry
    BY <1>2, <1>13, <2>1 DEF Image, SendWords, Make, Loaded, PreparingAt
  <2>3. /\ Always' /\ Still' /\ entry' = entry /\ pins' = pins /\ shadow' = shadow
    BY <2>1 DEF Image, SendWords, Always, Quiet, Still
  <2> QED
    BY <1>3, <1>4, <1>5, <1>13, <2>2, <2>3 DEF PreparingAt, Swept, Stored
<1>14. CASE k = 8
  <2>1. Profiles
    BY <1>1, <1>14, CallIs DEF WithImage
  <2>2. Described(shadow)'
    BY <1>14, <2>1 DEF Profiles, Store, Described, Swept, PreparingAt, TypeOK, Contents
  <2>3. /\ Always' /\ Still' /\ entry' = entry /\ pins' = pins /\ image' = image
    BY <2>1 DEF Profiles, Store, Always, Quiet, Still, TypeOK, Contents
  <2> QED
    BY <1>3, <1>4, <1>5, <1>14, <2>2, <2>3 DEF PreparingAt, Described, Stored
<1>15. CASE k = 9
  <2>1. Write
    BY <1>1, <1>15, CallIs DEF WithImage
  <2>2. /\ Always' /\ Still' /\ entry' = entry /\ pins' = pins /\ shadow' = shadow
        /\ image' = image /\ buffer' = shadow
    BY <2>1 DEF Write, Always, Quiet, Still
  <2> QED
    BY <1>3, <1>4, <1>5, <1>15, <2>2 DEF PreparingAt, Described, Swept, Stored
<1>16. CASE k = 10
  <2>1. Update
    BY <1>1, <1>16, CallIs DEF WithImage
  <2>2. /\ Always' /\ Still' /\ entry' = entry /\ pins' = pins /\ shadow' = shadow
        /\ image' = image /\ buffer' = buffer
    BY <2>1 DEF Update, Always, Quiet, Still
  <2> QED
    BY <1>3, <1>4, <1>5, <1>16, <2>2 DEF PreparingAt, Described, Swept, Stored
<1>17. CASE k = 11
  <2>1. \/ e \in Images /\ SafetyOff("playback", TRUE)
        \/ e \notin Images /\ SafetyOff("single", FALSE)
    <3>1. Head(calls) = IF e \in Images THEN "playback" ELSE "single"
      BY <1>1, <1>17 DEF WithImage
    <3> QED
      BY <3>1, CallIs, Zenon
  <2>2. buffer = shadow /\ Described(shadow) /\ Stored /\ pins = "cpu"
    BY <1>17 DEF PreparingAt
  <2>3. /\ buffer'.reset = FALSE
        /\ \/ e \in Images /\ buffer'.ram = TRUE
           \/ e \notin Images /\ buffer'.ram = FALSE
        /\ buffer'.ramp = buffer.ramp /\ buffer'.limits = buffer.limits
        /\ buffer'.aux = buffer.aux /\ buffer'.prof = buffer.prof /\ buffer'.fsc = buffer.fsc
    BY <1>2, <2>1, Released, Zenon
  <2>4. UNCHANGED <<shadow, active, image, pins, latch, wave, tim, pending, entry, mode>>
    BY <2>1 DEF SafetyOff
  <2>5. Prepared(buffer)' /\ Swept(shadow)' /\ Described(shadow)' /\ Stored'
    BY <2>2, <2>3, <2>4 DEF Prepared, Described, Swept, Stored
  <2>6. buffer'.prof[0] \in Entries
    BY <2>2, <2>3 DEF Described
  <2>7. Always' /\ Still'
    BY <2>4, <2>6 DEF Always, Quiet, Still
  <2> QED
    BY <1>3, <1>4, <1>5, <1>17, <2>2, <2>4, <2>5, <2>7 DEF PreparingAt
<1>18. CASE k = 12
  <2>1. ToTim
    BY <1>1, <1>18, CallIs DEF WithImage
  <2>2. /\ Always' /\ Still' /\ pins' = "tim"
        /\ UNCHANGED <<entry, shadow, buffer, image>>
    BY <1>2, <2>1 DEF ToTim, Steer, Select, Selected, Always, Quiet, Still
  <2> QED
    BY <1>3, <1>4, <1>5, <1>18, <2>2
    DEF PreparingAt, Prepared, Described, Swept, Stored
<1>19. CASE k = 13
  <2>1. Arm
    BY <1>1, <1>19, CallIs DEF WithImage
  <2>2. /\ tim' = IF tim = "reset" THEN "reset" ELSE "armed"
        /\ UNCHANGED <<shadow, buffer, active, image, pins, latch, wave, pending, entry, mode>>
    BY <2>1 DEF Arm
  <2>3. Prepared(buffer) /\ Stored /\ pins = "tim"
    BY <1>19 DEF PreparingAt
  <2>4. Always'
    BY <1>2, <2>2 DEF Always, Quiet, Still
  <2>5. Armed'
    BY <1>2, <2>2, <2>3 DEF Armed, Prepared, Described, Swept, Stored
  <2> QED
    BY <1>1, <1>2, <1>19, <2>2, <2>4, <2>5 DEF AtRest, Still
<1> QED
  BY <1>6, <1>7, <1>8, <1>9, <1>10, <1>11, <1>12, <1>13, <1>14, <1>15, <1>16, <1>17, <1>18, <1>19

\* The tests do not radiate, whatever they do to the registers.
LEMMA TestingStep ==
  ASSUME Context, TypeOK, Always, Call, Testing
  PROVE  Always' /\ (AtRest' \/ Testing')
<1>1. PICK v \in {"write", "ram_test"}, k \in 0 .. 8 : Remains(Script(v), k)
  BY DEF Testing
<1> DEFINE s == Script(v)
           n == Len(s)
<1>2. /\ n = 1 \/ n = 9
      /\ \A i \in 1 .. n : s[i] \in {"ram_profile", "write", "update", "profile0", "pattern"}
  <2>1. \A i \in 1 .. 9 :
          RamTest[i] \in {"ram_profile", "write", "update", "profile0", "pattern"}
    BY DEF RamTest
  <2>2. CASE v = "write"
    <3>1. s = <<"write">>
      BY <2>2, Scripts
    <3>2. Len(<<"write">>) = 1 /\ \A i \in 1 .. 1 : <<"write">>[i] = "write"
      OBVIOUS
    <3> HIDE DEF s
    <3> QED
      BY <3>1, <3>2
  <2>3. CASE v = "ram_test"
    <3>1. s = RamTest /\ Len(RamTest) = 9
      BY <2>3, Scripts DEF RamTest
    <3> QED
      BY <2>1, <3>1
  <2> QED
    BY <2>2, <2>3
<1>3. /\ Head(calls) = s[k + 1] /\ k + 1 \in 1 .. n
      /\ s[k + 1] # "fetch" =>
           IF k + 1 < n THEN Remains(s, k + 1)' ELSE calls' = <<>>
  <2>1. s \in Seq(Calls)
    BY ScriptsAreCalls
  <2> QED
    BY <1>1, <2>1, Makes
<1>4. s[k + 1] \in {"ram_profile", "write", "update", "profile0", "pattern"}
  BY <1>2, <1>3
<1>5. \/ calls' = <<>>
      \/ \E j \in 0 .. 8 : Remains(s, j)'
  <2>1. k + 1 < n => k + 1 \in 0 .. 8
    <3> HIDE DEF n
    <3> QED
      BY <1>2
  <2> QED
    BY <1>3, <1>4, <2>1
<1>6. tim = "reset" /\ mode = "off" /\ wave = 0 /\ latch = 0
  BY DEF Testing, Always, TypeOK
<1>7. /\ Quiet(buffer)' /\ Quiet(active)'
      /\ shadow'.reset = shadow.reset /\ shadow'.ram = shadow.ram
      /\ UNCHANGED <<tim, mode, wave, latch, pending>>
  <2> HIDE DEF s
  <2> USE DEF chip, lines, task
  <2>1. CASE Head(calls) = "ram_profile"
    <3>1. RamProfile
      BY <2>1, CallIs
    <3> QED
      BY <3>1 DEF RamProfile, Store, Always, Quiet, TypeOK, Contents
  <2>2. CASE Head(calls) = "write"
    <3>1. Write
      BY <2>2, CallIs
    <3> QED
      BY <3>1 DEF Write, Always, Quiet
  <2>3. CASE Head(calls) = "update"
    <3>1. Update
      BY <2>3, CallIs
    <3> QED
      BY <3>1 DEF Update, Always, Quiet
  <2>4. CASE Head(calls) = "profile0"
    <3>1. Profile0
      BY <2>4, CallIs
    <3> QED
      BY <1>6, <3>1 DEF Profile0, Steer, Select, Always, Quiet
  <2>5. CASE Head(calls) = "pattern"
    <3>1. Image
      BY <2>5, CallIs
    <3> QED
      BY <3>1 DEF Image, SendWords, Always, Quiet
  <2> QED
    BY <1>3, <1>4, <2>1, <2>2, <2>3, <2>4, <2>5
<1>8. Always'
  BY <1>6, <1>7 DEF Always
<1>9. CASE calls' = <<>>
  BY <1>6, <1>7, <1>8, <1>9 DEF AtRest, Armed
<1>10. CASE \E j \in 0 .. 8 : Remains(s, j)'
  BY <1>6, <1>7, <1>8, <1>10 DEF Testing
<1> QED
  BY <1>5, <1>9, <1>10

\* What a script begins with.
LEMMA Begins ==
  ASSUME NEW s \in Seq(Calls), s # <<>>
  PROVE  0 \in 0 .. Len(s) - 1 /\ Rest(s, 0) = s
<1>1. Len(s) \in Nat /\ Len(s) # 0
  BY EmptySeq
<1> QED
  BY <1>1, SubSeqFull DEF Rest

LEMMA FetchingStep ==
  ASSUME Context, TypeOK, Always, Call, Fetching
  PROVE  Always' /\ Preparing'
<1> USE DEF chip, lines, task
<1>1. PICK e \in Entries : Fetch(e)
  BY CallIs DEF Fetching
<1>2. Callback(e) \in Seq(Calls) /\ Callback(e) # <<>>
  <2>1. WithImage # <<>> /\ WithNone # <<>>
    BY DEF WithImage, WithNone
  <2> QED
    BY <2>1, ScriptsAreCalls, Callbacks, Zenon
<1>3. entry' = e /\ calls' = Callback(e) /\ Remains(Callback(e), 0)'
  BY <1>1, <1>2, Begins DEF Fetch, Remains
<1>4. Always' /\ Still'
  BY <1>1 DEF Fetch, Fetching, Still, Always, Quiet
<1>5. PreparingAt(0)'
  BY <1>3 DEF PreparingAt
<1> QED
  BY <1>3, <1>4, <1>5 DEF Preparing

-----------------------------------------------------------------------------
(* The world.                                                               *)

LEMMA Busy ==
  ASSUME TypeOK, Switching \/ Testing \/ Fetching \/ Preparing
  PROVE  calls # <<>>
<1>1. ASSUME NEW s \in Seq(Calls), NEW k, Remains(s, k) PROVE calls # <<>>
  BY <1>1, RestIs DEF Remains
<1>2. CASE Switching
  BY <1>1, <1>2, ScriptsAreCalls DEF Switching, SwitchingAt
<1>3. CASE Testing
  BY <1>1, <1>3, ScriptsAreCalls DEF Testing
<1>4. CASE Fetching
  BY <1>4 DEF Fetching
<1>5. CASE Preparing
  BY <1>1, <1>5, ScriptsAreCalls DEF Preparing, PreparingAt
<1> QED
  BY <1>2, <1>3, <1>4, <1>5

LEMMA WorldStep ==
  ASSUME Context, IInv,
         \/ \E v \in Commands : Issue(v)
         \/ RunDeferred \/ Trigger \/ Note \/ PulseEnds
  PROVE  Always' /\ (AtRest' \/ Switching' \/ Testing' \/ Fetching')
<1> USE DEF chip, lines, task
<1>1. TypeOK /\ Always
  BY DEF IInv
<1>2. calls = <<>> => AtRest
  BY Busy DEF IInv
<1>3. CASE \E v \in Commands : Issue(v)
  <2>1. PICK v \in Commands : Issue(v)
    BY <1>3
  <2>2. AtRest /\ UNCHANGED <<chip, lines, tim, pending, entry, mode>>
    BY <1>2, <2>1 DEF Issue
  <2>3. Script(v) \in Seq(Calls) /\ Script(v) # <<>>
    <3>1. /\ Killing # <<>> /\ Running # <<>> /\ Sounding # <<>> /\ RamTest # <<>>
          /\ <<"write">> # <<>>
      BY DEF Killing, Running, Sounding, RamTest
    <3> QED
      BY <3>1, ScriptsAreCalls, Scripts, Zenon DEF Commands
  <2>4. Remains(Script(v), 0)'
    BY <2>1, <2>3, Begins DEF Issue, Remains
  <2>5. Always'
    BY <1>1, <2>2 DEF Always, Quiet
  <2>6. CASE v \in {"rfkill", "run", "tone"}
    <3>1. v # "rfkill" => ~pending /\ tim # "running"
      BY <2>1, <2>6 DEF Issue, Context
    <3>2. Armed'
      BY <2>2 DEF AtRest, Armed, Prepared, Described, Swept, Stored
    <3>3. SwitchingAt(v, 0)'
      BY <2>2, <2>4, <3>1, <3>2 DEF SwitchingAt
    <3> QED
      BY <2>5, <2>6, <3>3 DEF Switching
  <2>7. CASE v \in {"write", "ram_test"}
    <3>1. mode = "off"
      BY <2>1, <2>7 DEF Issue, Context
    <3> QED
      BY <2>2, <2>4, <2>5, <2>7, <3>1 DEF Testing
  <2> QED
    BY <2>6, <2>7 DEF Commands
<1>4. CASE RunDeferred
  BY <1>1, <1>2, <1>4 DEF RunDeferred, AtRest, Always, Quiet, Fetching, Still
<1>5. CASE Trigger
  <2>1. AtRest
    BY <1>2, <1>5 DEF Trigger, Context
  <2> QED
    BY <1>1, <1>5, <2>1
    DEF Trigger, AtRest, Always, Quiet, Armed, Prepared, Described, Swept, Stored
<1>6. CASE Note \/ PulseEnds
  <2>1. AtRest \/ Switching
    BY <1>6 DEF IInv, Note, PulseEnds, Testing, Fetching, Preparing, Still, Always
  <2>2. AtRest \/ Switching => Armed
    BY <1>1, <1>6 DEF AtRest, Switching, SwitchingAt, Note, PulseEnds
  <2>3. ASSUME NEW v \in {"rfkill", "run", "tone"}, NEW k \in 0 .. 10, SwitchingAt(v, k)
        PROVE  k = 0 /\ v = "rfkill" /\ Remains(Script(v), 0)
    BY <1>6, <2>3 DEF SwitchingAt, Note, PulseEnds
  <2>4. mode = "run" /\ tim = "running"
    BY <1>1, <1>6 DEF Note, PulseEnds, Always
  <2>5. CASE Note
    <3>1. /\ active' \in {active, buffer} /\ (wave' = 1 => active' = buffer) /\ tim' = tim
          /\ UNCHANGED <<shadow, buffer, image, pins, latch, task>>
      BY <1>1, <2>1, <2>2, <2>4, <2>5 DEF Note, Select, Selected, Choice, Armed, TypeOK
    <3>2. Always'
      BY <1>1, <2>4, <3>1 DEF Always, Quiet
    <3>3. Armed'
      BY <2>1, <2>2, <3>1 DEF Armed, Prepared, Described, Swept, Stored
    <3>4. AtRest => AtRest'
      BY <2>4, <3>1, <3>3 DEF AtRest
    <3>5. Switching => Switching'
      BY <2>3, <3>1, <3>3 DEF Switching, SwitchingAt, Remains
    <3> QED
      BY <2>1, <3>2, <3>4, <3>5
  <2>6. CASE PulseEnds
    <3>1. /\ tim' = "idle" /\ wave = 0
          /\ UNCHANGED <<chip, lines, calls, entry, mode>>
      BY <2>6 DEF PulseEnds
    <3>2. Always'
      BY <1>1, <2>4, <3>1 DEF Always, Quiet
    <3>3. AtRest => AtRest'
      BY <2>4, <3>1 DEF AtRest, Armed
    <3>4. Switching => Switching'
      BY <2>3, <3>1 DEF Switching, SwitchingAt, Remains, Armed
    <3> QED
      BY <2>1, <3>2, <3>3, <3>4
  <2> QED
    BY <1>6, <2>5, <2>6
<1> QED
  BY <1>3, <1>4, <1>5, <1>6

LEMMA Invariance ==
  ASSUME ~Anytime
  PROVE  Spec => []IInv
<1>1. Context
  BY EntriesAssumption, AnytimeAssumption DEF Context
<1>2. Init => IInv
  <2> SUFFICES ASSUME Init PROVE IInv
    OBVIOUS
  <2>1. TypeOK
    <3>1. {"none", "zero"} \subseteq Values
      BY DEF Values, Marks
    <3>2. Parked \in Contents
      <4>1. [p \in {0, 1} |-> IF p = 0 THEN "zero" ELSE "none"] \in [{0, 1} -> Values]
        BY <3>1
      <4>2. "none" \in Values
        BY <3>1
      <4> QED
        BY <4>1, <4>2 DEF Parked, Contents
    <3>3. <<>> \in Seq(Calls) /\ "none" \in Values
      BY <3>1
    <3> QED
      BY <3>2, <3>3 DEF Init, TypeOK
  <2> QED
    BY <2>1 DEF Init, IInv, Always, Quiet, AtRest, Armed, Parked
<1>3. IInv /\ [Next]_vars => IInv'
  <2> SUFFICES ASSUME IInv, [Next]_vars PROVE IInv'
    OBVIOUS
  <2>1. TypeOK /\ Always /\ TypeOK'
    BY <1>1, TypeStep DEF IInv
  <2>2. CASE Call
    <3>1. calls # <<>>
      BY <2>2, CallIs
    <3>2. CASE Switching
      <4>1. PICK v \in {"rfkill", "run", "tone"}, k \in 0 .. 10 : SwitchingAt(v, k)
        BY <3>2 DEF Switching
      <4> QED
        BY <1>1, <2>1, <2>2, <4>1, SwitchingStep DEF IInv
    <3>3. CASE Testing
      BY <1>1, <2>1, <2>2, <3>3, TestingStep DEF IInv
    <3>4. CASE Fetching
      BY <1>1, <2>1, <2>2, <3>4, FetchingStep DEF IInv
    <3>5. CASE Preparing
      <4>1. PICK k \in 0 .. 13 : PreparingAt(k)
        BY <3>5 DEF Preparing
      <4>2. Still /\ entry \in Entries
        BY <3>5 DEF Preparing
      <4> QED
        BY <1>1, <2>1, <2>2, <4>1, <4>2, PreparingStep DEF IInv
    <3> QED
      BY <3>1, <3>2, <3>3, <3>4, <3>5 DEF IInv, AtRest
  <2>3. CASE UNCHANGED vars
    BY <2>3
    DEF IInv, vars, chip, lines, task, TypeOK, Always, Quiet, AtRest, Armed, Prepared, Described,
        Swept, Stored, Plain, Switching, SwitchingAt, Testing, Fetching, Still, Preparing,
        PreparingAt, Remains
  <2>4. CASE Next /\ ~Call
    BY <1>1, <2>1, <2>4, WorldStep DEF IInv, Next
  <2> QED
    BY <2>2, <2>3, <2>4
<1> QED
  BY <1>2, <1>3, PTL DEF Spec

-----------------------------------------------------------------------------
(* The theorems.                                                            *)

\* A pulse emits what was programmed for it, whatever its predecessors have
\* left in the snapshot.  (sequencer.c:255-298, ad9910/misc.c:29-54)
THEOREM Emits ==
  ASSUME ~Anytime
  PROVE  Spec => []EmitsAsProgrammed
<1>1. IInv => EmitsAsProgrammed
  <2> SUFFICES ASSUME IInv, tim = "running", Selected = 1 PROVE EmitsAsProgrammed
    BY DEF EmitsAsProgrammed
  <2>1. Armed
    BY DEF IInv, Always, AtRest, Switching, SwitchingAt, Testing, Fetching, Preparing, Still
  <2>2. active = buffer /\ Prepared(buffer) /\ Stored /\ buffer \in Contents
    BY <2>1 DEF Armed, Selected, Choice, IInv, TypeOK
  <2> QED
    BY <2>2 DEF EmitsAsProgrammed, Prepared, Described, Swept, Stored, Contents
<1> QED
  BY <1>1, Invariance, PTL

\* Nothing is radiated but by a triggered pulse or a tone.
\* (ad9910/misc.c:36-39, sequencer.c:304)
THEOREM Silent ==
  ASSUME ~Anytime
  PROVE  Spec => []SilentUnlessAsked
<1>1. IInv => SilentUnlessAsked
  <2> SUFFICES ASSUME IInv PROVE SilentUnlessAsked
    OBVIOUS
  <2>1. Selected = 1 => tim = "running" \/ mode = "tone"
    BY DEF IInv, Always, TypeOK, Selected, Choice
  <2>2. ~(active.ram /\ active.prof[0] \in Marks)
    BY EntriesAssumption DEF IInv, Always, Quiet, Marks
  <2> QED
    BY <2>1, <2>2 DEF SilentUnlessAsked
<1> QED
  BY <1>1, Invariance, PTL

\* A tone is a plain sine of the frequency and current asked for.
\* (sequencer.c:320-332)
THEOREM Sounds ==
  ASSUME ~Anytime
  PROVE  Spec => []ToneSounds
<1>1. IInv => ToneSounds
  BY Busy DEF IInv, ToneSounds, AtRest, Selected, Choice, Plain
<1> QED
  BY <1>1, Invariance, PTL
=============================================================================
