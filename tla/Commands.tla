------------------------------ MODULE Commands ------------------------------
(***************************************************************************)
(* The commands of uart_cli.c that make pulse descriptors (seq_entry_t):   *)
(* they compute profiles, an image for the RAM or a ramp, and a list of    *)
(* pin states for lower_logic_sequence(); "seq json" reads that list from  *)
(* a JSON text with the queries of json.c.                                 *)
(*                                                                         *)
(* What the AD9910 does with a descriptor is the second half: which signal *)
(* it gives at every moment after the trigger.                             *)
(*                                                                         *)
(* A frequency is its tuning word.  The pin states are reduced to the      *)
(* profile they select (P_0, P_1) and DR_CTL.  Unless "Slips" has them,    *)
(* operators do not make certain mistakes.                                 *)
(***************************************************************************)
EXTENDS LowerLogic, Json

CONSTANTS
  Quad,       (* ns of a clock of RAM playback and ramp (4)                *)
  FieldMax,   (* largest step rate of playback and ramp (0xFFFF)           *)
  RamSize,    (* words of the RAM (1024)                                   *)
  FtwSize,    (* number of tuning words (2^32)                             *)
  Grain,      (* a word whose low bits are cut is a multiple of it (2^18)  *)
  Parking,    (* hold_ns of each of TERMINATOR's parking states (10*1000)  *)
  Short,      (* and of those of the commands without TERMINATOR (1*1000)  *)
  LoadMax,    (* items of a list in JSON are fewer (16383 - 2)             *)
  Freqs, Offsets, Durations, Rises, Intervals, Steps,  (* arguments        *)
  MaxData,    (* bound: symbols of a transmission                          *)
  MaxEntries, (* bound: descriptors in the sequence                        *)
  Slips       (* mistakes that operators make                              *)

ASSUME UnitsAssumption ==
  /\ Quad \in Nat \ {0} /\ FieldMax \in Nat \ {0} /\ RamSize \in Nat \ (0 .. 2)
  /\ FtwSize \in Nat \ {0} /\ Grain \in Nat \ {0} /\ Parking \in Nat \ {0} /\ Short \in Nat \ {0} /\ LoadMax \in Nat
ASSUME ArgumentsAssumption ==
  /\ Freqs \subseteq 0 .. FtwSize \div 2 - 1
  /\ Offsets \subseteq Nat /\ Durations \subseteq Nat /\ Steps \subseteq Nat
  /\ Rises \subseteq Int /\ Intervals \subseteq Nat
  /\ MaxData \in Nat /\ MaxEntries \in Nat \ {0}

\* The query for a member of item i.
Idx(i, name) == <<CHOOSE w \in Numerals : Number(w) = i, name>>

ASSUME LoadAssumption ==
  /\ <<>> \in Queries
  /\ \A i \in 0 .. LoadMax - 2 :
       /\ \E w \in Numerals : Number(w) = i
       /\ \A name \in {"hold_ns", "state"} : Idx(i, name) \in Queries
ASSUME SlipsAssumption ==
  Slips \subseteq {"zero hold", "zero frequency", "flat sweep", "wide sweep", "slow sweep",
                   "slow symbols", "long image"}

VARIABLES
  sequence,  (* the descriptors                                            *)
  asked,     (* history: the command that each comes from                  *)
  blocks,    (* blocks of the heap that commands and descriptors hold      *)
  halted     (* an assertion has failed                                    *)

cvars == <<vars, sequence, asked, blocks, halted>>

-----------------------------------------------------------------------------
(* Descriptors.                                                             *)

DR_CTL == 4
Profile(state) == state % DR_CTL

Tone(ftw, pow) == [ftw |-> ftw, pow |-> pow, asf |-> 1]
Silence == [ftw |-> 0, pow |-> 0, asf |-> 0]
\* ram_profile_t, whose rate has 16 bits.
Playback(first, last, rate, mode) ==
  [start |-> first, end |-> last, rate |-> rate % (FieldMax + 1), mode |-> mode]
Silent == [p \in 0 .. 3 |-> Silence]
Unplayed == [p \in 0 .. 3 |-> Playback(0, 0, 0, "switch")]
Word(pow) == [pow |-> pow, asf |-> 1]
Blank == [pow |-> 0, asf |-> 0]

NoSweep == [fstep |-> 0, tstep |-> 0, lower |-> 0, upper |-> 0]

Entry(profiles, ram, ftw, sweep, states) ==
  [profiles |-> profiles, ram |-> ram, ftw |-> ftw, sweep |-> sweep, logic |-> Lower(states)]

State(hold, state) == [hold |-> hold, state |-> state]
Optional(offset) == IF offset # 0 THEN <<State(offset, 0)>> ELSE <<>>
TERMINATOR == <<State(Parking, 0), State(Parking, 0), State(0, 0)>>

\* The list of a command that sends one pulse.
OnePulse(offset, duration, state) ==
  Optional(offset) \o <<State(duration, state)>> \o TERMINATOR

\* The list of xmitdata: a state for every symbol.
Symbols(offset, tstep, data) ==
  Optional(offset)
  \o [i \in DOMAIN data |-> State(tstep, IF data[i] # 0 THEN 2 ELSE 3)]
  \o <<State(Short, 0), State(0, 0)>>

\* Blocks of a descriptor, three arrays of notes and an image, and of several.
Owned(e) == 3 + (IF e.ram # <<>> THEN 1 ELSE 0)
Held(seq) == 3 * Len(seq) + Cardinality({i \in DOMAIN seq : seq[i].ram # <<>>})

\* A vector is two blocks.
Vec == 2

-----------------------------------------------------------------------------
(* The commands.                                                            *)

Idle == ~halted /\ open = <<>> /\ phase = "root"

\* An assertion fails: the firmware stops where it is.
Halt == halted' = TRUE /\ UNCHANGED <<sequence, asked, blocks>>

Return == UNCHANGED <<sequence, asked, blocks, halted>>

\* The command comes back without a descriptor, and holds n blocks for good.
GiveUp(n) == blocks' = blocks + n /\ UNCHANGED <<sequence, asked, halted>>

\* sequencer_add().
Add(e, what) ==
  /\ Len(sequence) < MaxEntries
  /\ sequence' = Append(sequence, e) /\ asked' = Append(asked, what)
  /\ blocks' = blocks + Owned(e)
  /\ UNCHANGED halted

\* sequencer_reset(), then sequencer_add().
Only(e, what) ==
  /\ sequence' = <<e>> /\ asked' = <<what>>
  /\ blocks' = blocks - Held(sequence) + Owned(e)
  /\ UNCHANGED halted

\* Mutant: images are forgotten.
ResetPartly ==
  /\ Idle
  /\ sequence' = <<>> /\ asked' = <<>>
  /\ blocks' = blocks - 3 * Len(sequence)
  /\ UNCHANGED <<vars, halted>>

\* sequencer_reset(), the destructor of the descriptors.
Reset ==
  /\ Idle
  /\ sequence' = <<>> /\ asked' = <<>>
  /\ blocks' = blocks - Held(sequence)
  /\ UNCHANGED <<vars, halted>>

\* "seq pulse".
SeqPulse(o, d, f) ==
  LET states == OnePulse(o, d, 1)
  IN /\ Idle
     /\ IF f = 0 THEN Return
        ELSE IF ~Lowers(states) THEN Halt
        ELSE Add(Entry([Silent EXCEPT ![1] = Tone(f, 0)], <<>>, 0, NoSweep, states),
                 [kind |-> "pulse", offset |-> o, duration |-> d, freq |-> f])
     /\ UNCHANGED vars

\* fit_time(): of RAM words whose steps fill the time exactly and whose rate
\* fits its field, the fewest; 0 if there are none.
Fit_time(d) ==
  LET clocks == d \div Quad
      fits == {n \in 1 .. RamSize - 1 : clocks \div n <= FieldMax /\ d % (Quad * n) = 0}
  IN IF d % Quad # 0 \/ fits = {} THEN 0 ELSE clocks \div Min(fits)

\* "basic_pulse": played from the RAM.
BasicPulse(o, d, f) ==
  LET rate == Fit_time(d)
      n == (d \div Quad) \div rate
      states == OnePulse(o, d, 1)
  IN /\ Idle
     /\ IF f = 0 \/ rate = 0 THEN Return
        ELSE IF ~Lowers(states) THEN Halt
        ELSE Only(Entry([Unplayed EXCEPT ![0] = Playback(n, n, 0, "switch"),
                                         ![1] = Playback(0, n, rate, "rampup")],
                        Append([i \in 1 .. n |-> Word(0)], Blank), f, NoSweep, states),
                  [kind |-> "basic_pulse", offset |-> o, duration |-> d, freq |-> f])
     /\ UNCHANGED vars

\* ad_calc_ftw() of the frequency where a sweep begins: the centre less half
\* the span, to the nearest word; the conversion of a negative number gives 0.
Begins(fc, a, steps) ==
  LET twice == 2 * fc - a * (steps - 1) + 1
  IN IF twice < 0 THEN 0 ELSE (twice \div 2) % FtwSize

\* A sweep from and to frequencies that the unit can give.
InBand(fc, a, steps) ==
  \A k \in {0, steps - 1} : 2 * fc - a * (steps - 1) + 2 * a * k \in 1 .. FtwSize - 3

Negated(ftw) == (FtwSize - ftw) % FtwSize

\* "seq sweep", and "basic_sweep" with reset and run.
Sweep(o, d, fc, a, b, run) ==
  LET steps == d \div (Quad * b)
      f1 == Begins(fc, a, steps)
      f2 == (f1 + a * (steps - 1)) % FtwSize
      ramp == [fstep |-> IF a < 0 THEN -a ELSE a,
               tstep |-> b % (FieldMax + 1),
               lower |-> IF a < 0 THEN Negated(f1) ELSE f1,
               upper |-> IF a < 0 THEN Negated(f2) ELSE f2]
      states == OnePulse(o, d, 1 + DR_CTL)
      what == [kind |-> "sweep", offset |-> o, duration |-> d, freq |-> fc, a |-> a, b |-> b]
      e == Entry([Silent EXCEPT ![1] = Tone(0, 0)], <<>>, 0, ramp, states)
  IN /\ Idle
     /\ IF b < 1 \/ d % (Quad * b) # 0 THEN Return
        ELSE /\ "flat sweep" \notin Slips => a # 0 /\ steps > 1
             /\ "wide sweep" \notin Slips => InBand(fc, a, steps)
             /\ "slow sweep" \notin Slips => b <= FieldMax
             /\ IF ~Lowers(states) THEN Halt ELSE IF run THEN Only(e, what) ELSE Add(e, what)
     /\ UNCHANGED vars

\* "basic_xmitdata fsk", "psk" and "zc_psk": the symbols are pin states.  Both
\* vectors are made before the frequency is looked at, and freed at the end.
Xmit(o, freqs, tstep, data, profiles, ram, ftw, what) ==
  LET states == Symbols(o, tstep, data)
  IN /\ Idle
     /\ "zero frequency" \notin Slips => 0 \notin freqs
     /\ IF 0 \in freqs THEN GiveUp(2 * Vec)
        ELSE IF ~Lowers(states) THEN Halt
        ELSE Only(Entry(profiles, ram, ftw, NoSweep, states), what)
     /\ UNCHANGED vars

XmitFsk(o, f1, f2, tstep, data) ==
  Xmit(o, {f1, f2}, tstep, data,
       [Silent EXCEPT ![2] = Tone(f1, 0), ![3] = Tone(f2, 0)], <<>>, 0,
       [kind |-> "fsk", offset |-> o, tstep |-> tstep, data |-> data, freq |-> <<f2, f1>>])

\* Where a symbol of 1 has phase `one` and that of 0 the opposite.
Shifted(kind, o, f, tstep, data, one) ==
  [kind |-> kind, offset |-> o, tstep |-> tstep, data |-> data, freq |-> f, one |-> one]

XmitPsk(o, f, tstep, data) ==
  Xmit(o, {f}, tstep, data,
       [Silent EXCEPT ![2] = Tone(f, 0), ![3] = Tone(f, 1)], <<>>, 0,
       Shifted("psk", o, f, tstep, data, 0))

\* A tuning word without its low 18 bits (0xFFFC0000).
Coarse(ftw) == ftw - (ftw % Grain)

XmitZcPsk(o, f, tstep, data) ==
  Xmit(o, {f}, tstep, data,
       [Unplayed EXCEPT ![2] = Playback(1, 1, 0, "crossing"), ![3] = Playback(2, 2, 0, "crossing")],
       <<Blank, Word(0), Word(1)>>, Coarse(f),
       Shifted("zc_psk", o, f, tstep, data, 0))

\* "basic_xmitdata ram_psk": the symbols are words of the RAM, of opposite phase.
XmitRamPsk(o, f, tstep, data) ==
  LET n == Len(data)
      states == OnePulse(o, tstep * n, 1)
  IN /\ Idle
     /\ "zero frequency" \notin Slips => f # 0
     /\ "slow symbols" \notin Slips => tstep \div Quad <= FieldMax
     /\ "long image" \notin Slips => n < RamSize
     /\ IF f = 0 THEN GiveUp(Vec + 1)
        ELSE IF tstep % Quad # 0 \/ ~Lowers(states) THEN Halt
        ELSE Only(Entry([Unplayed EXCEPT ![0] = Playback(n, n, 0, "switch"),
                           ![1] = Playback(0, n, tstep \div Quad, "rampup")],
                        Append([i \in 1 .. n |-> Word(IF data[i] = 0 THEN 0 ELSE 1)], Blank),
                        f, NoSweep, states),
                  Shifted("ram_psk", o, f, tstep, data, 1))
     /\ UNCHANGED vars

-----------------------------------------------------------------------------
(* "seq json".                                                              *)

\* The text is that of the list, `json + offset` once its location is found.
WriteList == ~halted /\ Len(sequence) < MaxEntries /\ Write /\ UNCHANGED <<sequence, asked, blocks, halted>>

\* What _json_load_logic_level_sequence() makes of n items and these answers.
List(n, answers) ==
  [i \in 1 .. n |-> State(answers[Idx(i - 1, "hold_ns")], answers[Idx(i - 1, "state")])]

\* The parking states that it adds.
Parked == <<State(Short, 0), State(Short, 0), State(0, 0)>>

\* _json_load_tone_profiles() has made the profiles of a shorter list.
JsonProfiles == [Silent EXCEPT ![1] = Tone(1, 0), ![2] = Tone(2, 1)]

\* json_query_i32() asserts that the member is there and begins with a number.
SeqJson ==
  LET n == count[<<>>]
      states == List(n, value) \o Parked
      items == List(n, meant)
  IN /\ ~halted /\ phase = "end"
     /\ IF n <= 0 \/ n >= LoadMax
           \/ \E i \in 1 .. n : \E name \in {"hold_ns", "state"} : value[Idx(i - 1, name)] = -1
        THEN Halt
        ELSE /\ "zero hold" \notin Slips => \A i \in 1 .. n : items[i].hold # 0
             /\ IF ~Lowers(states) THEN Halt
                ELSE Add(Entry(JsonProfiles, <<>>, 0, NoSweep, states),
                         [kind |-> "list", items |-> items])
     /\ open' = <<>> /\ phase' = "root" /\ self' = Unread
     /\ loc' = [q \in Queries |-> "none"] /\ value' = Unanswered /\ count' = Unanswered
     /\ meant' = Unanswered /\ total' = Unanswered

Data == UNION {[1 .. n -> {0, 1}] : n \in 0 .. MaxData}

Command ==
  \/ Reset
  \/ \E o \in Offsets, d \in Durations, f \in Freqs : SeqPulse(o, d, f)
  \/ \E o \in Offsets, d \in Durations, f \in Freqs : BasicPulse(o, d, f)
  \/ \E o \in Offsets, d \in Durations, f \in Freqs, a \in Rises, b \in Intervals, run \in BOOLEAN :
       Sweep(o, d, f, a, b, run)
  \/ \E o \in Offsets, f1, f2 \in Freqs, t \in Steps, data \in Data : XmitFsk(o, f1, f2, t, data)
  \/ \E o \in Offsets, f \in Freqs, t \in Steps, data \in Data : XmitPsk(o, f, t, data)
  \/ \E o \in Offsets, f \in Freqs, t \in Steps, data \in Data : XmitZcPsk(o, f, t, data)
  \/ \E o \in Offsets, f \in Freqs, t \in Steps, data \in Data : XmitRamPsk(o, f, t, data)
  \/ SeqJson

Init == JsonInit /\ sequence = <<>> /\ asked = <<>> /\ blocks = 0 /\ halted = FALSE
Next == WriteList \/ Command
Spec == Init /\ [][Next]_cvars

-----------------------------------------------------------------------------
(* The signal.  A moment is counted in units of which a period of the     *)
(* timer's clock is Milli and a ns is Mhz, from the first compare match: a *)
(* tick after the trigger, for which the counter waits with CNT = 1.       *)

Ns(n) == n * Mhz

\* A frequency above half the clock is heard as its image below.
Heard(ftw) == IF 2 * ftw > FtwSize THEN FtwSize - ftw ELSE ftw

Off == <<0, 0>>
Sound(ftw, pow, asf) == IF asf = 0 THEN Off ELSE <<Heard(ftw), pow>>

\* A note is written to the timer's ARR as it is (sequencer.c:194), and the
\* counter that runs down from ARR to 0 takes ARR + 1 ticks to come round.
Ticks(hold) == hold + 1

\* When note i ends.
Ends(logic, i) ==
  Sums([k \in DOMAIN logic.notes |-> Ticks(logic.notes[k].hold) * (logic.prescaler + 1) * Milli])[i]

\* The note played at t; the pins keep the last one.
NoteAt(logic, t) ==
  Min({i \in DOMAIN logic.notes : Ends(logic, i) > t} \cup {Len(logic.notes)})

\* Where the state of note i began: the same pins are no change.
FirstOf(logic, i) ==
  Min({j \in 1 .. i : \A k \in j .. i : logic.notes[k].state = logic.notes[i].state})

\* The word of the RAM that is played for so long after its profile was selected.
WordAt(e, p, since) ==
  LET r == e.profiles[p]
  IN e.ram[1 + (IF r.mode = "rampup" /\ r.rate # 0
                THEN Min({r.end, r.start + since \div Ns(r.rate * Quad)}) ELSE r.start)]

\* The frequency of the ramp generator, which begins with the pulse.
RampAt(ramp, state, since) ==
  IF state < DR_CTL \/ ramp.tstep = 0 THEN ramp.lower
  ELSE Min({ramp.upper, ramp.lower + ramp.fstep * (since \div Ns(ramp.tstep * Quad))})

\* The signal of descriptor e at moment t after its trigger.
SignalAt(e, t) ==
  LET i == NoteAt(e.logic, t)
      state == e.logic.notes[i].state
      since == t - Ends(e.logic, FirstOf(e.logic, i) - 1)
      p == Profile(state)
  IN IF e.ram # <<>>
     THEN LET w == WordAt(e, p, since) IN Sound(e.ftw, w.pow, w.asf)
     ELSE Sound(IF e.sweep.fstep > 0 THEN RampAt(e.sweep, state, since) ELSE e.profiles[p].ftw,
                e.profiles[p].pow, e.profiles[p].asf)

\* The assertions of ad_set_ramp_limits() and ad_write_ram() hold.
Loads(e) ==
  /\ e.sweep.fstep > 0 => e.sweep.lower < e.sweep.upper
  /\ Len(e.ram) <= RamSize

-----------------------------------------------------------------------------
(* What was asked for.                                                      *)

\* How long a state is on the pins: a tick longer, for each of its notes, than
\* it was asked to; with a tick of 0, as it was asked to.
Lasts(hold, tick) ==
  Ns(hold) + IF tick = 0 THEN 0 ELSE Slots(((hold * Mhz) \div Milli) \div tick) * tick * Milli

\* The same of a part of a signal: the AD9910 keeps the time of what it plays
\* from its RAM.
Given(c, hold, tick) ==
  IF c.kind \in {"basic_pulse", "ram_psk"} THEN Ns(hold) ELSE Lasts(hold, tick)

\* Item of a list that is due t after its beginning, 0 after its end.
Due(items, tick, t) ==
  LET ends == Sums([i \in DOMAIN items |-> Lasts(items[i].hold, tick)])
      left == {i \in DOMAIN items : ends[i] > t}
  IN IF left = {} THEN 0 ELSE Min(left)

\* The signal that command c is to give so long after its offset: a pulse, a
\* sweep that stays at its end, or the symbols of a transmission.
After(c, tick, since) ==
  CASE c.kind \in {"pulse", "basic_pulse"} ->
         IF since < Given(c, c.duration, tick) THEN <<c.freq, 0>> ELSE Off
    [] c.kind = "sweep" ->
         LET steps == c.duration \div (Quad * c.b)
         IN IF since < Given(c, c.duration, tick)
            THEN <<Begins(c.freq, c.a, steps)
                     + c.a * Min({steps - 1, since \div Ns(Quad * c.b)}), 0>>
            ELSE Off
    [] OTHER ->
         LET s == 1 + since \div Given(c, c.tstep, tick)
         IN IF c.tstep = 0 \/ s > Len(c.data) THEN Off
            ELSE IF c.kind = "fsk" THEN <<c.freq[1 + c.data[s]], 0>>
            ELSE <<c.freq, IF c.data[s] = 1 THEN c.one ELSE 1 - c.one>>

\* And t after it begins, if the timer has such ticks.
AskedAt(c, tick, t) ==
  IF c.kind = "list"
  THEN LET s == Due(c.items, tick, t)
           tone == JsonProfiles[IF s = 0 THEN 0 ELSE Profile(c.items[s].state)]
       IN Sound(tone.ftw, tone.pow, tone.asf)
  ELSE IF t < Lasts(c.offset, tick) THEN Off ELSE After(c, tick, t - Lasts(c.offset, tick))

\* Signal s is the one asked of c; zc_psk is content with a coarser frequency.
Meets(s, c, signal) ==
  /\ signal[1] - s[1] \in 0 .. (IF c.kind = "zc_psk" THEN Grain - 1 ELSE 0)
  /\ s[2] = signal[2]

\* Beyond all notes.
Horizon(e) == Ends(e.logic, Len(e.logic.notes))

-----------------------------------------------------------------------------
(* Properties.                                                              *)

\* Every descriptor of the sequence makes the AD9910 give the signal that its
\* command asked for, at every moment, each state a tick longer for each of its
\* notes, and nothing before or after it; and the callback accepts it when it
\* loads it, long after the command.  (uart_cli.c:100 "the coarsest quantum of
\* the timer that divides ALL durations exactly", the usages of the commands)
SoundsAsAsked ==
  \A k \in DOMAIN sequence :
    LET e == sequence[k]
    IN /\ Loads(e)
       /\ \A t \in 0 .. Horizon(e) :
            Meets(SignalAt(e, t), asked[k], AskedAt(asked[k], e.logic.prescaler + 1, t))

\* Likewise with the times that were asked for: a signal comes and goes within
\* a clock of the AD9910 of them.  (uart_cli.c:74-75 "the true duration of the
\* emission will jump within 4 ns")
SoundsOnTime ==
  \A k \in DOMAIN sequence :
    LET e == sequence[k]
    IN \A t \in 0 .. Horizon(e) : \E u \in t - Ns(Quad) .. t + Ns(Quad) :
         Meets(SignalAt(e, t), asked[k], AskedAt(asked[k], 0, u))

\* The notes that the third pass writes fill the arrays that were allocated
\* from the second pass's count, no more and no less, and each fits its 16
\* bits; so does the prescaler.
ArraysFilled ==
  \A k \in DOMAIN sequence :
    LET logic == sequence[k].logic
    IN /\ Len(logic.notes) = logic.count /\ logic.count <= NotesMax
       /\ \A i \in DOMAIN logic.notes : logic.notes[i].hold \in 1 .. SlotMax
       /\ logic.prescaler \in 0 .. DividerMax - 1

\* Between commands, the heap holds for them the blocks of the descriptors in
\* the sequence and no others.  (sequencer.c:39 "free all memory")
BlocksOwned == blocks = Held(sequence)
=============================================================================
