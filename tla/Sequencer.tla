----------------------------- MODULE Sequencer -----------------------------
(***************************************************************************)
(* The pulse sequencer of sequencer.c and the actors that share it.        *)
(*                                                                         *)
(* The init task (main.c) runs the deferred calls that interrupts queue    *)
(* (deferred.c): the completion callback of a pulse and the parser of a    *)
(* UART line.  TCP client tasks (server.c) run the same commands at the    *)
(* same priority and preempt the init task anywhere.  The interrupt of     *)
(* the DMA stream that feeds TIM3 (isr.c) queues the completion callback.  *)
(* The timers, once armed, start by hardware on an external trigger.       *)
(*                                                                         *)
(* A task executes one step of its command per action: its program         *)
(* counter pc[t] names the call of sequencer.c it is about to make.        *)
(***************************************************************************)
EXTENDS Integers, Sequences

CONSTANTS
  InitTask,    (* the task of main.c that runs the deferred calls          *)
  Clients,     (* TCP client tasks: server.c admits at most one at a time  *)
  Entries,     (* pulse descriptors (seq_entry_t) the commands may add     *)
  RamEntries,  (* those that carry a RAM image                             *)
  Verbs,       (* the commands the operators use                           *)
  MaxLen,      (* bound: entries in the sequence                           *)
  IndexWrap,   (* a common multiple of the lengths; see Index              *)
  QueueCap,    (* length of the deferred call queue (deferred.c: 32)       *)
  MaxCmds,     (* bound: commands issued in a behaviour                    *)
  Gated        (* the operators silence the trigger before a command       *)

Streams == {"upA", "upB", "ccA", "ccB"}   \* the DMA streams of TIM3 and TIM4
Bursts  == {"ccA", "ccB"}                 \* those run as timer DMA bursts

Tasks == {InitTask} \cup Clients

\* What a seq_entry_t can hold when it is not a live entry: "cleared" is one
\* whose buffer pointers sequencer_reset() has set to NULL, "wild" one whose
\* pointers lead to freed or never initialised memory.
Ghosts == {"cleared", "wild"}
Descr  == Entries \cup Ghosts

AllVerbs == {"stop", "reset", "run", "tone", "pulse", "basic"}

ASSUME InitTaskAssumption == InitTask \notin Clients
ASSUME EntriesAssumption ==
  /\ RamEntries \subseteq Entries
  /\ Entries \cap (Ghosts \cup {"none", "parked", "tone"}) = {}
ASSUME VerbsAssumption == Verbs \subseteq AllVerbs
ASSUME BoundsAssumption ==
  /\ MaxLen \in Nat \ {0} /\ QueueCap \in Nat \ {0} /\ MaxCmds \in Nat
  /\ IndexWrap \in Nat \ {0} /\ \A n \in 1 .. MaxLen : IndexWrap % n = 0
ASSUME GatedAssumption == Gated \in BOOLEAN

VARIABLES
  pc,      (* the step each task is about to take                          *)
  verb,    (* the command a task executes, "callback", or "none"           *)
  entry,   (* the local copy `entry` of pulse_complete_callback()          *)
  elems,   (* sequence->elements[0 .. size-1]                              *)
  index,   (* seq_index, modulo IndexWrap                                  *)
  line,    (* the command waiting in the UART input buffer, or "none"      *)
  queue,   (* deferred_fn_calls                                            *)
  cmds,    (* number of commands issued: bounds the model                  *)
  tim,     (* the timers TIM2, TIM3, TIM4 as one machine                   *)
  busy,    (* streams whose DMA handle is in HAL_DMA_STATE_BUSY            *)
  burst,   (* streams whose timer is in HAL_DMA_BURST_STATE_BUSY           *)
  src,     (* the descriptor whose buffer a stream reads                   *)
  dds,     (* what the registers of the AD9910 were last loaded with       *)
  pins,    (* who drives the profile pins: "cpu" or "tim"                  *)
  profile, (* the profile the CPU's pin latches select                     *)
  led,     (* the emission indicator                                       *)
  mode     (* history: what the last command to finish asked for           *)

cpu  == <<verb, entry, elems, index>>
io   == <<line, queue, cmds>>
dma  == <<busy, burst, src>>
dev  == <<dds, pins, profile>>
vars == <<pc, cpu, io, tim, dma, dev, led, mode>>

Hung == {"hung_dma", "hung_burst", "hung_arm", "hung_wild"}
Labels == Hung \cup Streams \cup
  {"idle", "timer_stop", "park", "profile0", "rewind", "restart", "fetch",
   "quench", "program", "prime", "arm", "free", "renew", "add", "tone"}

TimStates == {"reset", "idle", "primed", "armed", "running", "done"}

TypeOK ==
  /\ pc \in [Tasks -> Labels]
  /\ verb \in [Tasks -> AllVerbs \cup {"callback", "none"}]
  /\ entry \in [Tasks -> Descr \cup {"none"}]
  /\ elems \in Seq(Entries \cup {"cleared"})
  /\ index \in 0 .. IndexWrap - 1
  /\ line \in AllVerbs \cup {"none"}
  /\ queue \in Seq({"pulse", "parse"})
  /\ cmds \in 0 .. MaxCmds
  /\ tim \in TimStates
  /\ busy \subseteq Streams
  /\ burst \subseteq Bursts
  /\ src \in [Streams -> Descr \cup {"none"}]
  /\ dds \in Descr \cup {"parked", "tone"}
  /\ pins \in {"cpu", "tim"}
  /\ profile \in {0, 1}
  /\ led \in BOOLEAN
  /\ mode \in {"off", "run", "tone"}

\* system_init() ends with sequencer_init() and enter_rfkill_mode().
Init ==
  /\ pc = [t \in Tasks |-> "idle"]
  /\ verb = [t \in Tasks |-> "none"]
  /\ entry = [t \in Tasks |-> "none"]
  /\ elems = <<>> /\ index = 0
  /\ line = "none" /\ queue = <<>> /\ cmds = 0
  /\ tim = "reset"
  /\ busy = {} /\ burst = {} /\ src = [s \in Streams |-> "none"]
  /\ dds = "parked" /\ pins = "cpu" /\ profile = 0
  /\ led = FALSE /\ mode = "off"

-----------------------------------------------------------------------------
(* Interrupts, operators and the trigger.                                   *)

\* xQueueSendFromISR(): the result is ignored, a call that does not fit is
\* dropped.
RunLater(f) == queue' = IF Len(queue) < QueueCap THEN Append(queue, f) ELSE queue

NoCommand == line = "none" /\ \A t \in Tasks : verb[t] \in {"none", "callback"}

\* No pulse is in flight and no completion callback is pending.
Quiet ==
  /\ tim \notin {"running", "done"}
  /\ queue = <<>>
  /\ \A t \in Tasks : verb[t] = "none"

\* Under Gated, one command at a time, and only once the trigger is silent.
MayCommand(v) ==
  /\ cmds < MaxCmds
  /\ v = "pulse" => Len(elems) < MaxLen
  /\ Gated => NoCommand /\ Quiet

Begin(t, v) ==
  /\ verb' = [verb EXCEPT ![t] = v]
  /\ pc' = [pc EXCEPT ![t] = IF v = "pulse" THEN "add"
                             ELSE IF v = "callback" THEN "fetch"
                             ELSE "timer_stop"]

\* A line ends: the receive interrupt stops reception and queues parse().
TypeLine(v) ==
  /\ MayCommand(v) /\ line = "none"
  /\ line' = v /\ RunLater("parse") /\ cmds' = cmds + 1
  /\ UNCHANGED <<pc, cpu, tim, dma, dev, led, mode>>

\* A TCP client task has received a line and runs it itself.
ClientLine(c, v) ==
  /\ MayCommand(v) /\ pc[c] = "idle"
  /\ Begin(c, v) /\ cmds' = cmds + 1
  /\ UNCHANGED <<entry, elems, index, line, queue, tim, dma, dev, led, mode>>

\* deferred_daemon_run_all(): take a call from the queue and make it.
RunDeferred ==
  /\ pc[InitTask] = "idle" /\ queue # <<>>
  /\ queue' = Tail(queue)
  /\ Begin(InitTask, IF Head(queue) = "parse" THEN line ELSE "callback")
  /\ UNCHANGED <<entry, elems, index, line, cmds, tim, dma, dev, led, mode>>

\* The external trigger starts the counters of armed timers.
Trigger ==
  /\ tim = "armed"
  /\ Gated => NoCommand
  /\ tim' = "running"
  /\ UNCHANGED <<pc, cpu, io, dma, dev, led, mode>>

\* Mutant: the interrupt queues nothing.
PulseCompleteSilent ==
  /\ tim = "running" /\ Bursts \subseteq busy
  /\ tim' = "done" /\ busy' = busy \ Bursts
  /\ UNCHANGED <<pc, cpu, io, burst, src, dev, led, mode>>

\* Mutant: the callback is queued twice, as if the interrupts of both timers'
\* streams did it.
PulseCompleteTwice ==
  /\ tim = "running" /\ Bursts \subseteq busy
  /\ tim' = "done" /\ busy' = busy \ Bursts
  /\ queue' = queue \o <<"pulse", "pulse">>
  /\ UNCHANGED <<pc, cpu, line, cmds, burst, src, dev, led, mode>>

\* The streams run dry.  DMA1_Stream4_IRQHandler sees NDTR = 0, queues the
\* callback, and HAL_DMA_IRQHandler marks the burst handles ready.
PulseComplete ==
  /\ tim = "running" /\ Bursts \subseteq busy
  /\ tim' = "done"
  /\ busy' = busy \ Bursts
  /\ RunLater("pulse")
  /\ UNCHANGED <<pc, cpu, line, cmds, burst, src, dev, led, mode>>

-----------------------------------------------------------------------------
(* Steps of a task.                                                         *)

Goto(t, from, to) ==
  /\ pc[t] = from
  /\ pc' = [pc EXCEPT ![t] = to]

\* The command of t is over.  parse() then restarts reception on the UART.
Finish(t) ==
  /\ verb' = [verb EXCEPT ![t] = "none"]
  /\ line' = IF t = InitTask /\ verb[t] # "callback" THEN "none" ELSE line

(* enter_rfkill_mode(): every command that touches the sequencer but       *)
(* sequencer_add() goes through it first.                                  *)

\* Mutant: the counters are disabled, not reset.
TimerStopSoft(t) ==
  /\ Goto(t, "timer_stop", "park")
  /\ tim' = IF tim = "reset" THEN "reset" ELSE "idle"
  /\ UNCHANGED <<cpu, io, dma, dev, led, mode>>

\* Mutant: the timers are left alone.
TimerStopNot(t) ==
  /\ Goto(t, "timer_stop", "park")
  /\ UNCHANGED <<cpu, io, tim, dma, dev, led, mode>>

\* timer_stop(): TIM2, TIM3 and TIM4 are held in reset.
TimerStop(t) ==
  /\ Goto(t, "timer_stop", "park")
  /\ tim' = "reset"
  /\ UNCHANGED <<cpu, io, dma, dev, led, mode>>

\* The CPU takes the pins back and loads a silent profile 0.
Park(t) ==
  /\ Goto(t, "park", "profile0")
  /\ pins' = "cpu" /\ dds' = "parked"
  /\ UNCHANGED <<cpu, io, tim, dma, profile, led, mode>>

AfterRfkill(v) == CASE v \in {"reset", "basic"} -> "free"
                    [] v = "run"  -> "rewind"
                    [] v = "tone" -> "tone"
                    [] OTHER      -> "idle"    \* seq stop, rfkill

\* set_profile(0), led_arm_reset(), and back to the command.
Profile0(t) ==
  /\ Goto(t, "profile0", AfterRfkill(verb[t]))
  /\ profile' = 0 /\ led' = FALSE /\ mode' = "off"
  /\ IF AfterRfkill(verb[t]) = "idle" THEN Finish(t) ELSE UNCHANGED <<verb, line>>
  /\ UNCHANGED <<entry, elems, index, queue, cmds, tim, dma, dds, pins>>

\* Mutant: profile 1 is loaded but never selected.
ToneUnselected(t) ==
  /\ Goto(t, "tone", "idle")
  /\ led' = TRUE /\ dds' = "tone" /\ mode' = "tone"
  /\ Finish(t)
  /\ UNCHANGED <<entry, elems, index, queue, cmds, tim, dma, pins, profile>>

\* enter_test_tone_mode() after its rfkill: profile 1 carries the tone.
Tone(t) ==
  /\ Goto(t, "tone", "idle")
  /\ led' = TRUE /\ dds' = "tone" /\ profile' = 1 /\ mode' = "tone"
  /\ Finish(t)
  /\ UNCHANGED <<entry, elems, index, queue, cmds, tim, dma, pins>>

(* sequencer_reset() after its rfkill.                                      *)

\* The buffers of every entry are freed and the pointers in the vector set
\* to NULL: copies made earlier, and the streams, keep the old addresses.
Free(t) ==
  LET Dangle(d) == IF d \in Entries THEN "wild" ELSE d IN
  /\ Goto(t, "free", "renew")
  /\ elems' = [i \in 1 .. Len(elems) |-> "cleared"]
  /\ entry' = [u \in Tasks |-> Dangle(entry[u])]
  /\ src' = [s \in Streams |-> Dangle(src[s])]
  /\ UNCHANGED <<verb, index, io, tim, busy, burst, dev, led, mode>>

\* free_vec(), sequencer_init(): an empty vector of uninitialised elements.
Renew(t) ==
  /\ Goto(t, "renew", IF verb[t] = "basic" THEN "add" ELSE "idle")
  /\ elems' = <<>>
  /\ IF verb[t] = "basic" THEN UNCHANGED <<verb, line>> ELSE Finish(t)
  /\ UNCHANGED <<entry, index, queue, cmds, tim, dma, dev, led, mode>>

\* sequencer_add().  basic_pulse goes on with sequencer_run().
Add(t, e) ==
  /\ Len(elems) < MaxLen
  /\ elems' = Append(elems, e)
  /\ IF verb[t] = "basic"
     THEN /\ Goto(t, "add", "timer_stop")
          /\ verb' = [verb EXCEPT ![t] = "run"]
          /\ UNCHANGED line
     ELSE Goto(t, "add", "idle") /\ Finish(t)
  /\ UNCHANGED <<entry, index, queue, cmds, tim, dma, dev, led, mode>>

(* sequencer_run() after its rfkill.                                        *)

\* Mutant: the index is not reset.
RewindNot(t) ==
  /\ Goto(t, "rewind", IF elems = <<>> THEN "idle" ELSE "restart")
  /\ IF elems = <<>> THEN Finish(t) ELSE UNCHANGED <<verb, line>>
  /\ UNCHANGED <<entry, elems, index, queue, cmds, tim, dma, dev, led, mode>>

\* seq_index = 0, and an empty sequence ends the command.
Rewind(t) ==
  /\ Goto(t, "rewind", IF elems = <<>> THEN "idle" ELSE "restart")
  /\ index' = 0
  /\ IF elems = <<>> THEN Finish(t) ELSE UNCHANGED <<verb, line>>
  /\ UNCHANGED <<entry, elems, queue, cmds, tim, dma, dev, led, mode>>

\* led_arm_set(), timer_restart(): registers and timer handles start afresh.
Restart(t) ==
  /\ Goto(t, "restart", "fetch")
  /\ led' = TRUE /\ mode' = "run"
  /\ tim' = "idle" /\ burst' = {}
  /\ UNCHANGED <<cpu, io, busy, src, dev>>

(* pulse_complete_callback(): called by sequencer_run() for the first pulse *)
(* and by the init task when a pulse is complete.                           *)

IndexStuck   == index       \* Mutant: the index is not advanced.

\* seq_index is an int that only counts up; with every length dividing
\* IndexWrap, the index modulo IndexWrap selects the same elements.
Index == (index + 1) % IndexWrap

\* entry = elements[seq_index++ % size].  On this core x / 0 is 0, so with no
\* elements x % 0 is x: the copy is of memory nobody has initialised.
Fetched == IF elems = <<>> THEN Ghosts ELSE {elems[(index % Len(elems)) + 1]}

Fetch(t) ==
  /\ Goto(t, "fetch", "quench")
  /\ \E d \in Fetched : entry' = [entry EXCEPT ![t] = d]
  /\ index' = Index
  /\ UNCHANGED <<verb, elems, io, tim, dma, dev, led, mode>>

\* Mutant: dma_abort() is not called, only the bursts are stopped.
QuenchNoAbort(t) ==
  /\ Goto(t, "quench", "program")
  /\ tim' = IF tim = "reset" THEN "reset" ELSE "idle"
  /\ burst' = {} /\ busy' = busy \ Bursts
  /\ UNCHANGED <<cpu, io, src, dev, led, mode>>

\* Mutant: the bursts are not stopped.
QuenchNoStop(t) ==
  /\ Goto(t, "quench", "program")
  /\ tim' = IF tim = "reset" THEN "reset" ELSE "idle"
  /\ busy' = {}
  /\ UNCHANGED <<cpu, io, burst, src, dev, led, mode>>

\* logic_blaster_disarm(), dma_abort(): counters off, trigger path closed,
\* every handle ready.  Timers held in reset ignore the register writes.
Quench(t) ==
  /\ Goto(t, "quench", "program")
  /\ tim' = IF tim = "reset" THEN "reset" ELSE "idle"
  /\ busy' = {} /\ burst' = {}
  /\ UNCHANGED <<cpu, io, src, dev, led, mode>>

\* spi_write_entry(), ad_safety_off(): the CPU takes the pins and loads the
\* descriptor; ad_write_ram() selects profile 0.  A wild descriptor may hold
\* an image size or ramp limits whose assertion fails.
Program(t) ==
  /\ \/ Goto(t, "program", "upA")
     \/ entry[t] = "wild" /\ Goto(t, "program", "hung_wild")
  /\ pins' = "cpu" /\ dds' = entry[t]
  /\ \/ profile' = 0 /\ entry[t] \in RamEntries \cup Ghosts
     \/ profile' = profile /\ entry[t] \notin RamEntries
  /\ UNCHANGED <<cpu, io, tim, dma, led, mode>>

\* assert(HAL_DMA_Start(..) == HAL_OK): the handle must be ready.
StartUpdate(t, s, next) ==
  /\ IF s \in busy
     THEN Goto(t, s, "hung_dma") /\ UNCHANGED <<busy, src>>
     ELSE /\ Goto(t, s, next)
          /\ busy' = busy \cup {s}
          /\ src' = [src EXCEPT ![s] = entry[t]]
  /\ UNCHANGED <<cpu, io, tim, burst, dev, led, mode>>

\* assert(HAL_TIM_DMABurst_MultiWriteStart(..) == HAL_OK): neither the timer
\* nor the handle may be in use, and the buffer must not be NULL.
StartBurst(t, s, next) ==
  /\ IF s \in busy \cup burst \/ entry[t] = "cleared"
     THEN Goto(t, s, "hung_burst") /\ UNCHANGED <<busy, burst, src>>
     ELSE /\ Goto(t, s, next)
          /\ busy' = busy \cup {s} /\ burst' = burst \cup {s}
          /\ src' = [src EXCEPT ![s] = entry[t]]
  /\ UNCHANGED <<cpu, io, tim, dev, led, mode>>

StartStreams(t) ==
  \/ StartUpdate(t, "upA", "upB")
  \/ StartUpdate(t, "upB", "ccA")
  \/ StartBurst(t, "ccA", "ccB")
  \/ StartBurst(t, "ccB", "prime")

\* The update requests are enabled, software events make the streams load
\* the first note, and the pins go to the timers.
Prime(t) ==
  /\ Goto(t, "prime", "arm")
  /\ tim' = IF tim = "idle" THEN "primed" ELSE tim
  /\ pins' = "tim"
  /\ UNCHANGED <<cpu, io, dma, dds, profile, led, mode>>

\* logic_blaster_arm() asserts that the counters are off and opens the
\* trigger path; a READY event goes to the event queue (see Follow).
Arm(t) ==
  /\ IF tim \in {"running", "done"}
     THEN Goto(t, "arm", "hung_arm") /\ UNCHANGED <<verb, line, tim>>
     ELSE /\ Goto(t, "arm", "idle")
          /\ tim' = IF tim = "reset" THEN "reset" ELSE "armed"
          /\ Finish(t)
  /\ UNCHANGED <<entry, elems, index, queue, cmds, dma, dev, led, mode>>

Callback(t) ==
  \/ Fetch(t) \/ Quench(t) \/ Program(t)
  \/ StartStreams(t) \/ Prime(t) \/ Arm(t)

Rfkill(t) == TimerStop(t) \/ Park(t) \/ Profile0(t)

Command(t) ==
  \/ Rfkill(t) \/ Tone(t)
  \/ Free(t) \/ Renew(t)
  \/ \E e \in Entries : Add(t, e)
  \/ Rewind(t) \/ Restart(t)

Step(t) == Command(t) \/ Callback(t)

Next ==
  \/ \E v \in Verbs : TypeLine(v)
  \/ \E c \in Clients, v \in Verbs : ClientLine(c, v)
  \/ RunDeferred
  \/ Trigger
  \/ PulseComplete
  \/ \E t \in Tasks : Step(t)

\* The kernel time-slices tasks of equal priority and an armed pulse that was
\* triggered runs to its end; nobody promises triggers or commands.
Fairness ==
  /\ WF_vars(RunDeferred)
  /\ WF_vars(PulseComplete)
  /\ \A t \in Tasks : WF_vars(Step(t))

Spec == Init /\ [][Next]_vars /\ Fairness

-----------------------------------------------------------------------------
(* Properties.                                                              *)

Loaded == tim \in {"primed", "armed", "running", "done"}

\* The CPU holds the profile pins on the pulse profile of a loaded AD9910.
CpuRadiates == pins = "cpu" /\ profile = 1 /\ dds # "parked"

\* No call of HAL_DMA_Start() finds its handle busy and logic_blaster_arm()
\* never finds a counter running: dma_abort() and logic_blaster_disarm() have
\* always undone the previous pulse, whenever the callback comes.
\* (asserts of sequencer.c:194-195 and timer/sequencing.c:238-239)
HandlesReady == \A t \in Tasks : pc[t] \notin {"hung_dma", "hung_arm"}

\* No burst is refused: no timer is still bursting and no stream buffer is
\* NULL.  (asserts of sequencer.c:198-214)
BurstsStart == \A t \in Tasks : pc[t] # "hung_burst"

\* Whatever the timers may play, all four streams and the AD9910 hold the same
\* descriptor, and its buffers have not been freed.  (The registers and the
\* DMA addresses are loaded in different steps of the callback, and
\* sequencer_reset() frees the buffers the streams point to.)
Coherent ==
  Loaded => \E e \in Entries : dds = e /\ \A s \in Streams : src[s] = e

\* Once enter_rfkill_mode() has returned nothing is radiated until a command
\* asks for it, even if the completion of an earlier pulse is handled
\* afterwards and loads and arms another one: it does so on timers that are
\* held in reset.  (sequencer.c:304 "stop emitting signals")
KilledStaysSilent == mode = "off" => tim = "reset" /\ ~CpuRadiates

\* The indicator is lit whenever a pulse is awaited or emitted or a tone is
\* on, and goes out only after the emission has.  (users_manual.md:46)
LedWhileRadiating == tim \in {"armed", "running"} \/ CpuRadiates => led

\* A tone is continuous: it stays until another command.  (sequencer.c:320)
ToneHolds ==
  mode = "tone" /\ NoCommand => pins = "cpu" /\ profile = 1 /\ dds = "tone"

\* The callback never cuts off a pulse that is being emitted.
CutsNothing ==
  [][\A t \in Tasks : pc[t] = "quench" /\ pc'[t] # "quench" => tim # "running"]_vars

\* A pulse that was triggered is followed by the next one being armed, unless
\* a command stops the timers or an assertion the firmware.
Rearms ==
  (tim = "running") ~> (tim \in {"armed", "reset"} \/ \E t \in Tasks : pc[t] \in Hung)

\* While the sequence runs undisturbed and triggers keep coming, every entry
\* of it is emitted again and again.
RoundRobin ==
  WF_vars(Trigger) =>
    \A e \in Entries :
      <>[](mode = "run" /\ \E i \in 1 .. Len(elems) : elems[i] = e)
        => []<>(tim = "running" /\ dds = e)
-----------------------------------------------------------------------------
(* The sequencer as a pulse train.                                          *)

\* sequencer_reset() has freed the entries and not yet emptied the vector.
Freed == \E i \in 1 .. Len(elems) : elems[i] = "cleared"

\* The callback counts seq_index up when it starts, the train when the pulse
\* is armed.
Loading ==
  \E t \in Tasks : pc[t] \in Streams \cup {"quench", "program", "prime", "arm"}

Position == IF Loading THEN (index + IndexWrap - 1) % IndexWrap ELSE index

Phase == CASE tim = "reset" -> IF mode = "tone" THEN "tone" ELSE "off"
           [] tim \in {"idle", "primed", "done"} -> "gap"
           [] tim = "armed" -> "armed"
           [] tim = "running" -> "emitting"

Train == INSTANCE PulseTrain WITH
  program <- IF Freed THEN <<>> ELSE elems,
  phase <- Phase,
  pos <- Position,
  lit <- IF tim \in {"armed", "running"} THEN dds ELSE "none"

\* With a silenced trigger around commands the sequencer is a pulse train.
Refines == Train!Spec
=============================================================================
