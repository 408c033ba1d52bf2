---------------------------- MODULE LogicBlaster ----------------------------
(***************************************************************************)
(* One pulse after another on the logic level generator of                 *)
(* timer/sequencing.c: how TIM3 and the DMA stream of its compare channel  *)
(* play the notes of an entry, and how DMA1_Stream4_IRQHandler (isr.c) and *)
(* the init task find out that it is over.                                 *)
(*                                                                         *)
(* At each compare match the note that is loaded in CCMR1 and CCMR2 starts *)
(* and the stream loads the next one; a forced match before the pulse      *)
(* primes the first.  So the stream runs dry (NDTR = 0) when the last note *)
(* but one starts, and what matters of an entry is how many notes it has   *)
(* and which is the last that radiates.  The priming alone exhausts an     *)
(* entry of one note.                                                      *)
(***************************************************************************)
EXTENDS Integers, FiniteSets

CONSTANTS
  MaxOn,   (* bound: notes before those that park the pins                 *)
  Prompt   (* no note is as short as the interrupt handler's first steps   *)

\* How a list of states ends: with the two parking states of TERMINATOR or of
\* the JSON loader, with the single one of the xmitdata commands, or with
\* neither, cut at a state that is held for no time.
Forms == {"parked", "xmit", "cut"}

ASSUME MaxOnAssumption == MaxOn \in Nat \ {0}
ASSUME PromptAssumption == Prompt \in BOOLEAN

VARIABLES
  last,     (* the last note of the entry that radiates, 0 if none does    *)
  count,    (* notes in the entry: logic_level_sequence.count              *)
  loaded,   (* notes the stream has transferred: NDTR = 2*(count - loaded) *)
  playing,  (* the note on the pins, 0 before the first                    *)
  timer,    (* "off", "armed" or "running"                                 *)
  flags,    (* interrupt flags of the stream: "half", "full"               *)
  enabled,  (* those of them that raise an interrupt                       *)
  handle,   (* state of the stream's DMA handle                            *)
  isr,      (* "in" between the handler's look at NDTR and at the flags    *)
  calls,    (* completion callbacks in the deferred queue                  *)
  task      (* the init task: "idle", "stopped" or "loaded"                *)

entry  == <<last, count>>
stream == <<loaded, flags, enabled, handle>>
vars   == <<entry, stream, playing, timer, isr, calls, task>>

TypeOK ==
  /\ last \in 0 .. MaxOn /\ count \in 1 .. MaxOn + 2 /\ last <= count
  /\ loaded \in 0 .. count /\ playing \in 0 .. count
  /\ timer \in {"off", "armed", "running"}
  /\ flags \subseteq {"half", "full"} /\ enabled \subseteq {"half", "full"}
  /\ handle \in {"ready", "busy"}
  /\ isr \in {"out", "in"}
  /\ calls \in Nat
  /\ task \in {"idle", "stopped", "loaded"}

\* Parking notes after the states that a command lists.  (The terminator of
\* zero length is not lowered to a note.)
Tail(form) == CASE form = "parked" -> 2 [] form = "xmit" -> 1 [] form = "cut" -> 0

\* timer_restart() is done: pulse_complete_callback() is called directly.
Init ==
  /\ last = 1 /\ count = 1 /\ loaded = 0 /\ playing = 0
  /\ timer = "off"
  /\ flags = {} /\ enabled = {} /\ handle = "ready"
  /\ isr = "out" /\ calls = 0
  /\ task = "stopped"

Exhausted == loaded = count      \* NDTR = 0

\* The flags a stream raises on having transferred n notes of m.
Raised(n, m) == {f \in {"half", "full"} : IF f = "half" THEN 2 * n >= m /\ 2 * (n - 1) < m
                                          ELSE n = m}

(***************************************************************************)
(* Hardware.                                                               *)
(***************************************************************************)

\* The external trigger starts the counters.
Trigger ==
  /\ timer = "armed"
  /\ timer' = "running"
  /\ UNCHANGED <<entry, stream, playing, isr, calls, task>>

\* A compare match: the loaded note starts, and the stream loads another.
Match ==
  /\ timer = "running" /\ playing < count
  /\ Prompt => isr = "out"
  /\ playing' = playing + 1
  /\ IF Exhausted
     THEN UNCHANGED <<loaded, flags>>
     ELSE loaded' = loaded + 1 /\ flags' = flags \cup Raised(loaded + 1, count)
  /\ UNCHANGED <<entry, enabled, handle, timer, isr, calls, task>>

(***************************************************************************)
(* DMA1_Stream4_IRQHandler().                                              *)
(***************************************************************************)

Interrupt == flags \cap enabled # {}

\* Mutant: the callback is queued by every interrupt of the stream.
EnterAlways ==
  /\ Interrupt /\ isr = "out"
  /\ isr' = "in"
  /\ calls' = calls + 1
  /\ UNCHANGED <<entry, stream, playing, timer, task>>

\* Mutant: the callback is not queued.
EnterNever ==
  /\ Interrupt /\ isr = "out"
  /\ isr' = "in"
  /\ UNCHANGED <<entry, stream, playing, timer, calls, task>>

\* The handler looks at NDTR, and queues the callback if the data has ended.
Enter ==
  /\ Interrupt /\ isr = "out"
  /\ isr' = "in"
  /\ calls' = IF Exhausted THEN calls + 1 ELSE calls
  /\ UNCHANGED <<entry, stream, playing, timer, task>>

\* Mutant: the handle stays busy.
HandleKept ==
  /\ isr = "in"
  /\ isr' = "out"
  /\ flags' = flags \ enabled /\ enabled' = enabled \ flags
  /\ UNCHANGED <<entry, loaded, handle, playing, timer, calls, task>>

\* HAL_DMA_IRQHandler() samples the flags once, clears and disables those it
\* has seen, and on "full" marks the handle ready.
Handle ==
  /\ isr = "in"
  /\ isr' = "out"
  /\ flags' = flags \ enabled /\ enabled' = enabled \ flags
  /\ handle' = IF "full" \in flags \cap enabled THEN "ready" ELSE handle
  /\ UNCHANGED <<entry, loaded, playing, timer, calls, task>>

(***************************************************************************)
(* The init task in pulse_complete_callback(); interrupts preempt it.      *)
(***************************************************************************)

TaskRuns == isr = "out" /\ ~Interrupt

\* logic_blaster_disarm(): the counters stop where they are.
Disarm ==
  /\ TaskRuns /\ task = "idle" /\ calls > 0
  /\ calls' = calls - 1 /\ timer' = "off" /\ task' = "stopped"
  /\ UNCHANGED <<entry, stream, playing, isr>>

\* dma_abort(), the start of the stream for the next entry, of n notes before
\* those that park the pins, and the priming.  Of these notes the last one
\* that radiates may be any or none: offsets and states 0 do not.
Load(form, n, lit) ==
  /\ TaskRuns /\ task = "stopped"
  /\ lit <= n /\ n + Tail(form) > 0
  /\ last' = lit /\ count' = n + Tail(form)
  /\ loaded' = 1 /\ flags' = Raised(1, count')
  /\ enabled' = {"half", "full"} /\ handle' = "busy"
  /\ playing' = 0 /\ task' = "loaded"
  /\ UNCHANGED <<timer, isr, calls>>

\* logic_blaster_arm().
Arm ==
  /\ TaskRuns /\ task = "loaded"
  /\ timer' = "armed" /\ task' = "idle"
  /\ UNCHANGED <<entry, stream, playing, isr, calls>>

Task == Disarm \/ (\E form \in Forms, n, lit \in 0 .. MaxOn : Load(form, n, lit)) \/ Arm

Next == Trigger \/ Match \/ Enter \/ Handle \/ Task

\* Counters count, interrupts are taken, the init task is scheduled.
Fairness == WF_vars(Match) /\ WF_vars(Enter) /\ WF_vars(Handle) /\ WF_vars(Task)

Spec == Init /\ [][Next]_vars /\ Fairness

-----------------------------------------------------------------------------
(* Properties.                                                              *)

\* With two notes behind the last radiating one, as TERMINATOR gives them, the
\* counters are not stopped before the first of these has started: the emission
\* has its full length, and the pins are parked when the CPU reprograms the
\* AD9910.  (uart_cli.c:53-56: the second element is there "to delay the moment
\* NDTR == 0 to the end of the emission")
EmittedInFull ==
  [][timer = "running" /\ timer' = "off" => (count >= last + 2 => playing > last)]_vars

\* The same of every entry, whatever its list ends with.
EmittedAlways == [][timer = "running" /\ timer' = "off" => playing > last]_vars

\* When the init task gets to run the callback, the stream has ended and its
\* handle has been released.  (isr.c:162-164 "the DMA must be inert at this
\* moment")
DmaInert == calls > 0 /\ isr = "out" => Exhausted /\ handle = "ready"

\* Each triggered pulse makes one callback, and only a triggered pulse does,
\* unless its entry has a single note, which the priming takes from the stream
\* (sequencer.c:220): then the callback is queued before any trigger.
OneCallPerPulse ==
  calls <= 1 /\ (calls = 1 => (timer = "running" /\ task = "idle") \/ count = 1)

\* The same of every entry, of one note too.
OnlyTriggered == calls = 1 => timer = "running"

\* A pulse that has been triggered is followed by another that is armed.
\* (isr.c:162-164 "has the data ended? schedule the writing of the parameters
\* of the next pulse")
Continues == (timer = "running") ~> (timer = "armed")
=============================================================================
