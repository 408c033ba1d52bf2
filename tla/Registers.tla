----------------------------- MODULE Registers -----------------------------
(***************************************************************************)
(* The registers of the AD9910 and the order in which the firmware loads   *)
(* them (ad9910/ and the second half of sequencer.c).                      *)
(*                                                                         *)
(* A value passes three stages.  The setters of ad9910/ change a snapshot  *)
(* in the memory of the CPU (regmap).  ad_write_all() and ad_safety_off()  *)
(* send it to the buffers of the chip.  The chip takes the buffers over    *)
(* on IO_UPDATE and whenever the selected profile changes: that is how a   *)
(* pulse, which is nothing but a change of profile, releases what was      *)
(* prepared for it.                                                        *)
(*                                                                         *)
(* A command is a script, a sequence of calls that the init task makes     *)
(* one by one; the trigger and the timers act between any two of them.     *)
(* Profile 0 is the one between pulses, profile 1 that of a pulse.         *)
(***************************************************************************)
EXTENDS Integers, Sequences

CONSTANTS
  Entries,    (* pulse descriptors (seq_entry_t)                           *)
  Sweeps,     (* those with sweep.fstep_ftw > 0                            *)
  Images,     (* those with ram_image.size > 0                             *)
  Anytime     (* the operators give any command at any time               *)

ASSUME EntriesAssumption ==
  /\ Sweeps \subseteq Entries /\ Images \subseteq Entries
  /\ Entries \cap {"none", "zero", "tone", "whole"} = {}
ASSUME AnytimeAssumption == Anytime \in BOOLEAN

VARIABLES
  shadow,   (* regmap: r00 .. r16                                          *)
  buffer,   (* the I/O buffers of the AD9910                               *)
  active,   (* its active registers                                        *)
  image,    (* what its RAM holds                                          *)
  pins,     (* who drives the profile pins: "cpu" or "tim"                 *)
  latch,    (* the profile set_profile() selected                          *)
  wave,     (* the profile the timers' outputs select                      *)
  tim,      (* the timers                                                  *)
  pending,  (* pulse_complete_callback() is queued                         *)
  calls,    (* what remains of the script the init task executes           *)
  entry,    (* the descriptor fetched last                                 *)
  mode      (* history: what the last command asked for                    *)

chip  == <<shadow, buffer, active, image>>
lines == <<pins, latch, wave>>
task  == <<pending, calls, entry, mode>>
vars  == <<chip, lines, tim, task>>

Marks  == {"none", "zero", "tone", "whole"}
Values == Entries \cup Marks

\* The fields that the properties tell apart: the static resets, the switch
\* of RAM playback and that of the ramp generator in CFR1 and CFR2; the ramp
\* limits with step and rate; the secondary parameters with the RAM
\* destination; profiles 0 and 1 (2 to 7 are treated like 1); the current.
Contents ==
  [reset : BOOLEAN, ram : BOOLEAN, ramp : BOOLEAN, limits : Values,
   aux : Values, prof : [{0, 1} -> Values], fsc : Values]

Calls == {"timer_stop", "to_arm", "park", "write", "update", "profile0",
          "led_reset", "restart", "fetch", "disarm", "ramp", "ram_profile",
          "image", "pattern", "profiles", "playback", "single", "to_tim",
          "arm", "tone", "profile1"}

TypeOK ==
  /\ shadow \in Contents /\ buffer \in Contents /\ active \in Contents
  /\ image \in Values
  /\ pins \in {"cpu", "tim"} /\ latch \in {0, 1} /\ wave \in {0, 1}
  /\ tim \in {"reset", "idle", "armed", "running"}
  /\ pending \in BOOLEAN
  /\ calls \in Seq(Calls)
  /\ entry \in Values
  /\ mode \in {"off", "run", "tone"}

\* After ad_init() and enter_rfkill_mode().
Parked == [reset |-> TRUE, ram |-> FALSE, ramp |-> FALSE, limits |-> "none",
           aux |-> "none", prof |-> [p \in {0, 1} |-> IF p = 0 THEN "zero" ELSE "none"], fsc |-> "none"]

Init ==
  /\ shadow = Parked /\ buffer = Parked /\ active = Parked
  /\ image = "none"
  /\ pins = "cpu" /\ latch = 0 /\ wave = 0
  /\ tim = "reset"
  /\ pending = FALSE /\ calls = <<>> /\ entry = "none" /\ mode = "off"

-----------------------------------------------------------------------------
(* The chip.                                                                *)

Choice(p, l, w) == IF p = "tim" THEN w ELSE l
Selected == Choice(pins, latch, wave)

\* The profile pins get their levels; a change takes the buffers over.
Select(p, l, w) ==
  /\ pins' = p /\ latch' = l /\ wave' = w
  /\ active' = IF Choice(p, l, w) # Selected THEN buffer ELSE active

\* The whole RAM is addressed only through a profile that covers it, and only
\* while it is not being played; otherwise the words land somewhere.
Loaded(e) ==
  IF active.prof[Selected] = "whole" /\ ~active.ram THEN e ELSE "none"

-----------------------------------------------------------------------------
(* Scripts.                                                                 *)

\* enter_rfkill_mode()
Rfkill ==
  <<"timer_stop", "to_arm", "park", "write", "update", "profile0", "led_reset">>

\* How ad_write_ram() and ad_read_ram() begin.
Address == <<"ram_profile", "write", "update", "profile0">>

\* Mutant: the image is loaded after the profiles.
CallbackSpoilt(e) ==
  <<"disarm", "to_arm", "ramp", "profiles">>
  \o (IF e \in Images THEN Append(Address, "image") ELSE <<>>)
  \o <<"write", "update", IF e \in Images THEN "playback" ELSE "single",
       "to_tim", "arm">>

\* pulse_complete_callback() once it has fetched e: spi_write_entry(),
\* ad_safety_off(with an image or not), ad_slave_to_tim(), logic_blaster_arm().
Callback(e) ==
  <<"disarm", "to_arm", "ramp">>
  \o (IF e \in Images THEN Append(Address, "image") ELSE <<>>)
  \o <<"profiles", "write", "update",
       IF e \in Images THEN "playback" ELSE "single", "to_tim", "arm">>

Script(v) ==
  CASE v = "rfkill"   -> Rfkill
    [] v = "run"      -> Rfkill \o <<"restart", "fetch">>
    [] v = "tone"     -> Rfkill \o <<"tone", "write", "single", "profile1">>
    [] v = "write"    -> <<"write">>
    [] v = "ram_test" -> Append(Address, "pattern") \o Address

Commands == {"rfkill", "run", "tone", "write", "ram_test"}

-----------------------------------------------------------------------------
(* The world: operators, the trigger, the timers.                           *)

\* parse() starts a command: the queue is served in order, so a callback queued
\* before has been handled.  Unless Anytime, the commands that radiate are
\* given between pulses, and those that test the chip while nothing uses it.
Issue(v) ==
  /\ calls = <<>> /\ ~pending
  /\ \/ Anytime
     \/ v = "rfkill"
     \/ v \in {"run", "tone"} /\ tim # "running"
     \/ v \in {"write", "ram_test"} /\ mode = "off"
  /\ calls' = Script(v)
  /\ UNCHANGED <<chip, lines, tim, pending, entry, mode>>

\* The init task takes the completion callback from its queue.
RunDeferred ==
  /\ calls = <<>> /\ pending
  /\ pending' = FALSE /\ calls' = <<"fetch">>
  /\ UNCHANGED <<chip, lines, tim, entry, mode>>

\* The external trigger starts the armed timers.  Unless Anytime, it is silent
\* while a command is executed.
Trigger ==
  /\ tim = "armed" /\ tim' = "running"
  /\ Anytime \/ calls = <<>>
  /\ UNCHANGED <<chip, lines, task>>

\* The next note changes the profile.
Note ==
  /\ tim = "running" /\ Select(pins, latch, 1 - wave)
  /\ UNCHANGED <<shadow, buffer, image, tim, task>>

\* The last note parks the profile; the counters run on until the callback
\* stops them, which is nobody's concern here.
PulseEnds ==
  /\ tim = "running" /\ wave = 0
  /\ tim' = "idle" /\ pending' = TRUE
  /\ UNCHANGED <<chip, lines, calls, entry, mode>>

-----------------------------------------------------------------------------
(* Calls.                                                                   *)

Make(c) == calls # <<>> /\ Head(calls) = c /\ calls' = Tail(calls)

\* timer_stop(): the outputs of timers in reset are pulled to profile 0.
TimerStop ==
  /\ Make("timer_stop") /\ tim' = "reset"
  /\ Select(pins, latch, 0)
  /\ UNCHANGED <<shadow, buffer, image, pending, entry, mode>>

\* timer_restart()
Restart ==
  /\ Make("restart") /\ tim' = "idle" /\ mode' = "run"
  /\ UNCHANGED <<chip, lines, pending, entry>>

\* seq_entry_t entry = sequence->elements[..]: whichever comes next.
Fetch(e) ==
  /\ calls # <<>> /\ Head(calls) = "fetch"
  /\ calls' = Callback(e) /\ entry' = e
  /\ UNCHANGED <<chip, lines, tim, pending, mode>>

\* logic_blaster_disarm() and logic_blaster_arm().
Disarm ==
  /\ Make("disarm")
  /\ tim' = IF tim = "reset" THEN "reset" ELSE "idle"
  /\ UNCHANGED <<chip, lines, pending, entry, mode>>

Arm ==
  /\ Make("arm")
  /\ tim' = IF tim = "reset" THEN "reset" ELSE "armed"
  /\ UNCHANGED <<chip, lines, pending, entry, mode>>

\* The calls that move the profile pins.
Steer(c, p, l) ==
  /\ Make(c) /\ Select(p, l, wave)
  /\ UNCHANGED <<shadow, buffer, image, tim, pending, entry>>

ToArm    == Steer("to_arm", "cpu", latch) /\ UNCHANGED mode
ToTim    == Steer("to_tim", "tim", latch) /\ UNCHANGED mode

Profile0 == Steer("profile0", pins, 0) /\ UNCHANGED mode

\* set_profile(1) ends enter_test_tone_mode().
Profile1 == Steer("profile1", pins, 1) /\ mode' = "tone"

\* led_arm_reset() ends enter_rfkill_mode().
LedReset ==
  /\ Make("led_reset") /\ mode' = "off"
  /\ UNCHANGED <<chip, lines, tim, pending, entry>>

\* The calls that change the snapshot.
Store(c, r) ==
  /\ Make(c) /\ shadow' = r
  /\ UNCHANGED <<buffer, active, image, lines, tim, pending, entry, mode>>

\* Mutant: the ramp generator is left on.
ParkSwept == Store("park", [shadow EXCEPT !.prof[0] = "zero"])

\* ad_set_profile_freq(0, 0), ad_set_profile_amplitude(0, 0) and
\* ad_disable_ramp().
Park == Store("park", [shadow EXCEPT !.prof[0] = "zero", !.ramp = FALSE])

\* ad_enable_ramp() with limits, step and rate, or ad_disable_ramp().
Ramp ==
  Store("ramp", IF entry \in Sweeps
                THEN [shadow EXCEPT !.ramp = TRUE, !.limits = entry]
                ELSE [shadow EXCEPT !.ramp = FALSE])

\* ad_set_ram_profile(0, 0, 0, count - 1, ..): no amplitude.
RamProfile == Store("ram_profile", [shadow EXCEPT !.prof[0] = "whole"])

\* All profiles in the format of the descriptor, the RAM destination and the
\* secondary parameters, and the full scale current.
Profiles ==
  Store("profiles",
    [shadow EXCEPT !.prof = [p \in {0, 1} |-> entry], !.fsc = entry,
                   !.aux = IF entry \in Images THEN entry ELSE @])

\* Profile 1 and the current of enter_test_tone_mode().
Tone == Store("tone", [shadow EXCEPT !.prof[1] = "tone", !.fsc = "tone"])

\* ad_write_all(): the RAM is not a register and is left alone.
Write ==
  /\ Make("write") /\ buffer' = shadow
  /\ UNCHANGED <<shadow, active, image, lines, tim, pending, entry, mode>>

\* ad_pulse_io_update()
Update ==
  /\ Make("update") /\ active' = buffer
  /\ UNCHANGED <<shadow, buffer, image, lines, tim, pending, entry, mode>>

\* The words that ad_write_ram() sends: an image, or the pattern of ram_test.
SendWords(c, words) ==
  /\ Make(c) /\ image' = Loaded(words)
  /\ UNCHANGED <<shadow, buffer, active, lines, tim, pending, entry, mode>>

Image == SendWords("image", entry) \/ SendWords("pattern", "whole")

\* Mutant: the snapshot is altered as well.
SafetyOffKept(c, playback) ==
  LET released(r) == [r EXCEPT !.reset = FALSE, !.ram = shadow.ram \/ playback] IN
  /\ Make(c) /\ buffer' = released(buffer) /\ shadow' = released(shadow)
  /\ UNCHANGED <<active, image, lines, tim, pending, entry, mode>>

\* ad_safety_off(): CFR1 as in the snapshot, but with the static resets
\* released and RAM playback on if asked; the snapshot stays as it is.
SafetyOff(c, playback) ==
  /\ Make(c)
  /\ buffer' = [buffer EXCEPT !.reset = FALSE, !.ram = shadow.ram \/ playback]
  /\ UNCHANGED <<shadow, active, image, lines, tim, pending, entry, mode>>

Call ==
  \/ TimerStop \/ Restart \/ Disarm \/ Arm \/ LedReset
  \/ ToArm \/ ToTim \/ Profile0 \/ Profile1
  \/ Park \/ Ramp \/ RamProfile \/ Profiles \/ Tone
  \/ Write \/ Update \/ Image
  \/ SafetyOff("playback", TRUE) \/ SafetyOff("single", FALSE)
  \/ \E e \in Entries : Fetch(e)

Next ==
  \/ \E v \in Commands : Issue(v)
  \/ RunDeferred
  \/ Trigger \/ Note \/ PulseEnds
  \/ Call

Spec == Init /\ [][Next]_vars

-----------------------------------------------------------------------------
(* Properties.                                                              *)

\* Whenever a pulse selects profile 1, the chip plays the descriptor fetched
\* for it: the resets are released, the ramp generator runs within its limits
\* if and only if it is a sweep, the RAM plays its image if and only if it has
\* one, and the profiles and the current are its own.  All of it was prepared
\* with other pulses' settings still in the snapshot, and ad_write_ram() uses
\* profile 0 on the way.  (sequencer.c:255-298, ad9910/misc.c:29-54)
EmitsAsProgrammed ==
  tim = "running" /\ Selected = 1 =>
    /\ ~active.reset
    /\ active.ramp = (entry \in Sweeps)
    /\ entry \in Sweeps => active.limits = entry
    /\ active.ram = (entry \in Images)
    /\ entry \in Images => active.aux = entry /\ image = entry
    /\ \A p \in {0, 1} : active.prof[p] = entry
    /\ active.fsc = entry

\* Nothing is radiated but by a pulse that was triggered or by a tone: no call
\* of a script selects profile 1 or plays the RAM on the way, though
\* ad_write_ram() updates the chip with a profile 0 that covers the whole RAM,
\* and rfkill interrupts pulses whose playback is on.
\* (ad9910/misc.c:36-39, sequencer.c:304)
SilentUnlessAsked ==
  Selected = 1 \/ (active.ram /\ active.prof[0] \in Marks)
    => tim = "running" \/ mode = "tone"

\* A tone is a plain sine of the frequency and the current asked for, whatever
\* was emitted before: no sweep, no playback and no static reset remain.
\* (sequencer.c:320-332)
ToneSounds ==
  mode = "tone" /\ calls = <<>> =>
    /\ Selected = 1
    /\ active.prof[1] = "tone" /\ active.fsc = "tone"
    /\ ~active.ramp /\ ~active.ram /\ ~active.reset
=============================================================================
