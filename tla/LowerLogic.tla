----------------------------- MODULE LowerLogic -----------------------------
(***************************************************************************)
(* lower_logic_sequence() of uart_cli.c: a list of pin states, each held   *)
(* for a time, becomes notes for the DMA.  A note is held for at most      *)
(* SlotMax ticks of a prescaled timer, a longer state takes several notes. *)
(* The first pass finds the coarsest tick that divides every time, the     *)
(* second counts the notes and the third, into arrays of that size, writes *)
(* them.                                                                   *)
(***************************************************************************)
EXTENDS Integers, FiniteSetsExt, SequencesExt

CONSTANTS
  Mhz,         (* periods of the timer's clock in Milli ns: 216            *)
  Milli,       (* 1000                                                     *)
  SlotMax,     (* ticks of the longest note (0xFFFF)                       *)
  DividerMax,  (* largest ratio of the prescaler (65536)                   *)
  NotesMax     (* notes that one DMA transfer can hold (0x7FFF)            *)

ASSUME SizesAssumption ==
  /\ Mhz \in Nat \ {0} /\ Milli \in Nat \ {0}
  /\ SlotMax \in Nat \ {0} /\ DividerMax \in Nat \ {0}
  /\ NotesMax \in Nat \ {0}

\* The sums f[1] + ... + f[n] of a sequence, by n.
Sums(f) ==
  LET sum[n \in 0 .. Len(f)] == IF n = 0 THEN 0 ELSE sum[n - 1] + f[n] IN sum

\* How long each state is held, in periods.
Times(states) == [i \in DOMAIN states |-> (states[i].hold * Mhz) \div Milli]

\* The first pass asserts that every time is a whole number of periods, and
\* that there is a state.
Exact(states) ==
  states # <<>> /\ \A i \in DOMAIN states : (states[i].hold * Mhz) % Milli = 0

\* Mutant: only the first state is tried.
DividesFirst(d, seq) == seq[1] % d = 0

Divides(d, seq) == \A i \in DOMAIN seq : seq[i] % d = 0

Cap(seq) == Min({DividerMax} \cup ToSet(seq))

\* The coarsest tick: trials go down from the cap.
Divider(seq) == Max({d \in 1 .. Cap(seq) : Divides(d, seq)})

\* Mutant: rounded down.
SlotsDown(ticks) == ticks \div SlotMax

\* The second pass: slots for so many ticks, rounded up.
Slots(ticks) == (ticks + SlotMax - 1) \div SlotMax

\* The third pass: the notes for so many ticks.
Notes[ticks \in Nat] ==
  IF ticks = 0 THEN <<>>
  ELSE LET n == IF ticks > SlotMax THEN SlotMax ELSE ticks
       IN <<n>> \o Notes[ticks - n]

\* The slots that are allocated, with ticks of d.
Allocated(seq, d) == Sums([i \in DOMAIN seq |-> Slots(seq[i] \div d)])[Len(seq)]

\* The list ends before the first state that is held for no time.
Listed(states) ==
  LET ends == {i \in DOMAIN states : states[i].hold = 0}
  IN IF ends = {} THEN states ELSE SubSeq(states, 1, Min(ends) - 1)

\* lower_logic_sequence() passes its assertions.
Lowers(states) ==
  LET s == Listed(states)
  IN Exact(s) /\ Allocated(Times(s), Divider(Times(s))) <= NotesMax

\* And what it returns: hold_time[] with the states of slave_a_stream[] and
\* slave_b_stream[], `count`, and `prescaler`.
Lower(states) ==
  LET s == Listed(states)
      times == Times(s)
      d == Divider(times)
  IN [notes |-> FlattenSeq([i \in DOMAIN s |->
                  [k \in DOMAIN Notes[times[i] \div d] |->
                     [hold |-> Notes[times[i] \div d][k], state |-> s[i].state]]]),
      count |-> Allocated(times, d),
      prescaler |-> d - 1]
=============================================================================
