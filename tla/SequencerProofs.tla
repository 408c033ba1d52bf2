-------------------------- MODULE SequencerProofs --------------------------
(***************************************************************************)
(* Proofs about Sequencer: the types of its state; the safety of a         *)
(* generator that is operated over the UART only, where the init task runs *)
(* every command and every callback; and the safety of one with any number *)
(* of clients whose trigger is silent while a command comes in (Gated),    *)
(* which is that of a PulseTrain.                                          *)
(***************************************************************************)
EXTENDS Sequencer, SequenceTheorems, TLAPS

Context == InitTaskAssumption /\ EntriesAssumption /\ VerbsAssumption
           /\ BoundsAssumption /\ GatedAssumption

(***************************************************************************)
(* The inductive invariant.  p is where the init task stands.              *)
(***************************************************************************)
p == pc[InitTask]

Loaders == Streams \cup {"program", "prime"}

\* The streams of the pulse being loaded that are already started.
Started == CASE p = "upB" -> {"upA"}
             [] p = "ccA" -> {"upA", "upB"}
             [] p = "ccB" -> {"upA", "upB", "ccA"}
             [] p = "prime" -> Streams
             [] OTHER -> {}

\* From dma_abort() on, the handles in use are exactly those started since.
HandlesOurs ==
  p \in Loaders => busy = Started /\ burst = Started \cap Bursts

\* The counters stand still while a pulse is loaded, and are in reset between
\* enter_rfkill_mode() and the end of the command it is part of.
TimersStill ==
  /\ p \in Loaders => tim \in {"reset", "idle"}
  /\ p = "arm" => tim \in {"reset", "primed"}
  /\ p \in {"park", "profile0", "tone", "free", "renew", "rewind", "restart"}
       => tim = "reset"

\* Timers out of reset imply a sequence of live entries to play.
SequenceLive ==
  /\ p # "renew" => \A i \in 1 .. Len(elems) : elems[i] \in Entries
  /\ tim # "reset" \/ p = "restart" => elems # <<>>

\* What has been loaded so far is the entry that was fetched.
LoadedOurs ==
  /\ p \in Loaders \cup {"quench"} /\ tim # "reset" => entry[InitTask] \in Entries
  /\ p \in Streams \cup {"prime"} => dds = entry[InitTask]
  /\ p \in Loaders => \A s \in Started : src[s] = entry[InitTask]

\* What the last command left behind.
ModeKept ==
  /\ mode = "off" => tim = "reset" /\ profile = 0
  /\ tim # "reset" \/ profile = 1 => led

UartInv ==
  /\ TypeOK /\ HandlesReady /\ Coherent
  /\ HandlesOurs /\ TimersStill /\ SequenceLive /\ LoadedOurs /\ ModeKept

(***************************************************************************)
(* Types.                                                                  *)
(***************************************************************************)

\* A task inside the callback has fetched its entry.
HasEntry == \A t \in Tasks : pc[t] \in Loaders \cup {"quench"} => entry[t] \in Descr

TypeInv == TypeOK /\ HasEntry

\* run_later() leaves a queue of the same calls.
LEMMA QueueType ==
  ASSUME queue \in Seq({"pulse", "parse"}), NEW f \in {"pulse", "parse"}, RunLater(f)
  PROVE  queue' \in Seq({"pulse", "parse"})
BY DEF RunLater

\* Initially.
LEMMA TypeInit ==
  ASSUME Context, Init
  PROVE  TypeInv
<1>1. index \in 0 .. IndexWrap - 1 /\ cmds \in 0 .. MaxCmds
  BY DEF Init, Context, BoundsAssumption
<1>2. pc \in [Tasks -> Labels] /\ HasEntry
  BY DEF Init, Labels, HasEntry, Loaders, Streams
<1>3. /\ verb \in [Tasks -> AllVerbs \cup {"callback", "none"}]
      /\ entry \in [Tasks -> Descr \cup {"none"}]
      /\ src \in [Streams -> Descr \cup {"none"}]
  BY DEF Init
<1>4. elems \in Seq(Entries \cup {"cleared"}) /\ queue \in Seq({"pulse", "parse"})
  BY DEF Init
<1> QED
  BY <1>1, <1>2, <1>3, <1>4 DEF Init, TypeInv, TypeOK, TimStates

\* Steps of the interrupts and the operators, and the start of a command.
LEMMA TypeEnvironment ==
  ASSUME Context, TypeInv,
         \/ \E v \in Verbs : TypeLine(v)
         \/ \E c \in Clients, v \in Verbs : ClientLine(c, v)
         \/ RunDeferred \/ Trigger \/ PulseComplete
  PROVE  TypeInv'
<1> USE DEF TypeInv, TypeOK, HasEntry, Tasks, Labels, Hung, Streams, Bursts,
            Loaders, cpu, io, dma, dev
<1>1. CASE \E v \in Verbs : TypeLine(v)
  <2>1. PICK v \in Verbs : TypeLine(v)
    BY <1>1
  <2>2. queue' \in Seq({"pulse", "parse"})
    BY <2>1, QueueType DEF TypeLine
  <2> QED
    BY <2>1, <2>2 DEF TypeLine, MayCommand, Context, VerbsAssumption, BoundsAssumption
<1>2. CASE \E c \in Clients, v \in Verbs : ClientLine(c, v)
  <2>1. PICK c \in Clients, v \in Verbs : ClientLine(c, v)
    BY <1>2
  <2> QED
    BY <2>1 DEF ClientLine, MayCommand, Begin, Context, VerbsAssumption, BoundsAssumption
<1>3. CASE RunDeferred
  <2>1. queue' \in Seq({"pulse", "parse"})
    BY <1>3 DEF RunDeferred
  <2> QED
    BY <1>3, <2>1 DEF RunDeferred, Begin
<1>4. CASE Trigger
  BY <1>4 DEF Trigger, TimStates
<1>5. CASE PulseComplete
  <2>1. queue' \in Seq({"pulse", "parse"})
    BY <1>5, QueueType DEF PulseComplete
  <2> QED
    BY <1>5, <2>1 DEF PulseComplete, TimStates
<1> QED
  BY <1>1, <1>2, <1>3, <1>4, <1>5

\* The steps of a command outside the callback.
LEMMA TypeCommand ==
  ASSUME Context, TypeInv, NEW t \in Tasks, Command(t)
  PROVE  TypeInv'
<1> USE DEF TypeInv, TypeOK, HasEntry, Labels, Hung, Streams, Bursts,
            Loaders, cpu, io, dma, dev, Goto, Finish
<1>1. CASE TimerStop(t)
  BY <1>1 DEF TimerStop, TimStates
<1>2. CASE Park(t)
  BY <1>2 DEF Park
<1>3. CASE Profile0(t)
  <2>1. AfterRfkill(verb[t]) \in {"free", "rewind", "tone", "idle"}
    BY DEF AfterRfkill
  <2> QED
    BY <1>3, <2>1 DEF Profile0
<1>4. CASE Tone(t)
  BY <1>4 DEF Tone
<1>5. CASE Free(t)
  <2>1. elems' \in Seq(Entries \cup {"cleared"})
    BY <1>5 DEF Free
  <2>2. entry' \in [Tasks -> Descr \cup {"none"}] /\ src' \in [Streams -> Descr \cup {"none"}]
    BY <1>5 DEF Free, Descr, Ghosts
  <2>3. ASSUME NEW u \in Tasks, pc'[u] \in Loaders \cup {"quench"}
        PROVE  entry'[u] \in Descr
    <3>1. pc[u] \in Loaders \cup {"quench"} /\ entry[u] \in Descr
      BY <1>5, <2>3 DEF Free
    <3> QED
      BY <1>5, <3>1 DEF Free, Descr, Ghosts
  <2> QED
    BY <1>5, <2>1, <2>2, <2>3 DEF Free
<1>6. CASE Renew(t)
  BY <1>6 DEF Renew
<1>7. CASE \E e \in Entries : Add(t, e)
  <2>1. PICK e \in Entries : Add(t, e)
    BY <1>7
  <2>2. elems' \in Seq(Entries \cup {"cleared"})
    BY <2>1 DEF Add
  <2>3. CASE verb[t] = "basic"
    <3>1. /\ pc' = [pc EXCEPT ![t] = "timer_stop"] /\ verb' = [verb EXCEPT ![t] = "run"]
          /\ UNCHANGED <<line, entry, index, queue, cmds, tim, dma, dev, led, mode>>
      BY <2>1, <2>3 DEF Add
    <3> QED
      BY <2>2, <3>1 DEF AllVerbs
  <2>4. CASE verb[t] # "basic"
    <3>1. /\ pc' = [pc EXCEPT ![t] = "idle"] /\ verb' = [verb EXCEPT ![t] = "none"]
          /\ UNCHANGED <<entry, index, queue, cmds, tim, dma, dev, led, mode>>
      BY <2>1, <2>4 DEF Add
    <3>2. line' = "none" \/ line' = line
      BY <2>1, <2>4 DEF Add
    <3> QED
      BY <2>2, <3>1, <3>2
  <2> QED
    BY <2>3, <2>4
<1>8. CASE Rewind(t)
  BY <1>8 DEF Rewind, Context, BoundsAssumption
<1>9. CASE Restart(t)
  BY <1>9 DEF Restart, TimStates
<1> QED
  BY <1>1, <1>2, <1>3, <1>4, <1>5, <1>6, <1>7, <1>8, <1>9 DEF Command, Rfkill

\* A loading task moves on, or hangs: it keeps the entry it has fetched.
LEMMA TypeMove ==
  ASSUME TypeInv, NEW t \in Tasks, NEW from \in Streams, NEW next \in Labels,
         Goto(t, from, next), UNCHANGED entry
  PROVE  pc' \in [Tasks -> Labels] /\ HasEntry' /\ entry[t] \in Descr
<1>1. pc \in [Tasks -> Labels] /\ HasEntry
  BY DEF TypeInv, TypeOK
<1>2. entry[t] \in Descr
  BY <1>1 DEF Goto, HasEntry, Loaders
<1>3. pc' = [pc EXCEPT ![t] = next]
  BY DEF Goto
<1>4. HasEntry'
  <2> SUFFICES ASSUME NEW u \in Tasks, pc'[u] \in Loaders \cup {"quench"}
               PROVE  entry[u] \in Descr
    BY DEF HasEntry
  <2> QED
    BY <1>1, <1>2, <1>3 DEF HasEntry
<1> QED
  BY <1>1, <1>2, <1>3, <1>4

\* Starting the stream of an update request.
LEMMA TypeStartUpdate ==
  ASSUME TypeInv, NEW t \in Tasks, NEW s \in Streams, NEW next \in Labels,
         StartUpdate(t, s, next)
  PROVE  TypeInv'
<1>1. /\ UNCHANGED <<verb, entry, elems, index, line, queue, cmds, tim, burst>>
      /\ UNCHANGED <<dds, pins, profile, led, mode>>
  BY DEF StartUpdate, cpu, io, dev
<1>2. CASE s \in busy
  <2>1. Goto(t, s, "hung_dma") /\ UNCHANGED <<busy, src>>
    BY <1>2 DEF StartUpdate
  <2>2. pc' \in [Tasks -> Labels] /\ HasEntry'
    BY <1>1, <2>1, TypeMove DEF Labels, Hung
  <2> QED
    BY <1>1, <2>1, <2>2 DEF TypeInv, TypeOK
<1>3. CASE s \notin busy
  <2>1. /\ Goto(t, s, next)
        /\ busy' = busy \cup {s} /\ src' = [src EXCEPT ![s] = entry[t]]
    BY <1>3 DEF StartUpdate
  <2>2. pc' \in [Tasks -> Labels] /\ HasEntry' /\ entry[t] \in Descr
    BY <1>1, <2>1, TypeMove
  <2>3. busy' \subseteq Streams /\ src' \in [Streams -> Descr \cup {"none"}]
    BY <2>1, <2>2 DEF TypeInv, TypeOK
  <2> QED
    BY <1>1, <2>2, <2>3 DEF TypeInv, TypeOK
<1> QED
  BY <1>2, <1>3

\* Starting a timer burst.
LEMMA TypeStartBurst ==
  ASSUME TypeInv, NEW t \in Tasks, NEW s \in Bursts, NEW next \in Labels,
         StartBurst(t, s, next)
  PROVE  TypeInv'
<1>1. /\ UNCHANGED <<verb, entry, elems, index, line, queue, cmds, tim>>
      /\ UNCHANGED <<dds, pins, profile, led, mode>>
  BY DEF StartBurst, cpu, io, dev
<1>2. s \in Streams
  BY DEF Streams, Bursts
<1>3. CASE s \in busy \cup burst \/ entry[t] = "cleared"
  <2>1. Goto(t, s, "hung_burst") /\ UNCHANGED <<busy, burst, src>>
    BY <1>3 DEF StartBurst
  <2>2. pc' \in [Tasks -> Labels] /\ HasEntry'
    BY <1>1, <1>2, <2>1, TypeMove DEF Labels, Hung
  <2> QED
    BY <1>1, <2>1, <2>2 DEF TypeInv, TypeOK
<1>4. CASE ~(s \in busy \cup burst \/ entry[t] = "cleared")
  <2>1. /\ Goto(t, s, next)
        /\ busy' = busy \cup {s} /\ burst' = burst \cup {s}
        /\ src' = [src EXCEPT ![s] = entry[t]]
    BY <1>4 DEF StartBurst
  <2>2. pc' \in [Tasks -> Labels] /\ HasEntry' /\ entry[t] \in Descr
    BY <1>1, <1>2, <2>1, TypeMove
  <2>3. /\ busy' \subseteq Streams /\ burst' \subseteq Bursts
        /\ src' \in [Streams -> Descr \cup {"none"}]
    BY <1>2, <2>1, <2>2 DEF TypeInv, TypeOK
  <2> QED
    BY <1>1, <2>2, <2>3 DEF TypeInv, TypeOK
<1> QED
  BY <1>3, <1>4

\* The steps of pulse_complete_callback().
LEMMA TypeCallback ==
  ASSUME Context, TypeInv, NEW t \in Tasks, Callback(t)
  PROVE  TypeInv'
<1> USE DEF TypeInv, TypeOK, HasEntry, Labels, Hung, Streams, Bursts,
            Loaders, cpu, io, dma, dev, Goto, Finish
<1>1. CASE Fetch(t)
  <2>1. Fetched \subseteq Descr
    BY DEF Fetched, Descr, Ghosts, Context, BoundsAssumption
  <2>2. index' \in 0 .. IndexWrap - 1
    BY <1>1 DEF Fetch, Index, Context, BoundsAssumption
  <2> QED
    BY <1>1, <2>1, <2>2 DEF Fetch
<1>2. CASE Quench(t)
  BY <1>2 DEF Quench, TimStates
<1>3. CASE Program(t)
  BY <1>3 DEF Program
<1>4. CASE StartStreams(t)
  <2>1. ASSUME NEW s \in Streams, NEW next \in Labels, StartUpdate(t, s, next)
        PROVE  TypeInv'
    BY <2>1, TypeStartUpdate
  <2>2. ASSUME NEW s \in Bursts, NEW next \in Labels, StartBurst(t, s, next)
        PROVE  TypeInv'
    BY <2>2, TypeStartBurst
  <2>3. CASE StartUpdate(t, "upA", "upB")
    BY <2>1, <2>3
  <2>4. CASE StartUpdate(t, "upB", "ccA")
    BY <2>1, <2>4
  <2>5. CASE StartBurst(t, "ccA", "ccB")
    BY <2>2, <2>5
  <2>6. CASE StartBurst(t, "ccB", "prime")
    BY <2>2, <2>6
  <2> QED
    BY <1>4, <2>3, <2>4, <2>5, <2>6 DEF StartStreams
<1>5. CASE Prime(t)
  BY <1>5 DEF Prime, TimStates
<1>6. CASE Arm(t)
  <2>1. CASE tim \in {"running", "done"}
    BY <1>6, <2>1 DEF Arm
  <2>2. CASE tim \notin {"running", "done"}
    BY <1>6, <2>2 DEF Arm, TimStates
  <2> QED
    BY <2>1, <2>2
<1> QED
  BY <1>1, <1>2, <1>3, <1>4, <1>5, <1>6 DEF Callback

\* TypeInv is inductive.
LEMMA TypeStep ==
  ASSUME Context, TypeInv, [Next]_vars
  PROVE  TypeInv'
<1>1. CASE \E t \in Tasks : Step(t)
  BY <1>1, TypeCommand, TypeCallback DEF Step
<1>2. CASE UNCHANGED vars
  BY <1>2 DEF vars, cpu, io, dma, dev, TypeInv, TypeOK, HasEntry
<1> QED
  BY <1>1, <1>2, TypeEnvironment DEF Next

\* Every variable of the sequencer keeps to its type, for any number of
\* clients, entries and commands: in particular the index stays in range.
THEOREM Typing == Spec => []TypeOK
<1>1. Context
  BY InitTaskAssumption, EntriesAssumption, VerbsAssumption, BoundsAssumption,
     GatedAssumption DEF Context
<1>2. Init => TypeInv
  BY <1>1, TypeInit
<1>3. TypeInv /\ [Next]_vars => TypeInv'
  BY <1>1, TypeStep
<1>4. TypeInv => TypeOK
  BY DEF TypeInv
<1> QED
  BY <1>2, <1>3, <1>4, PTL DEF Spec

(***************************************************************************)
(* Operation over the UART alone.                                          *)
(***************************************************************************)

\* A step of the init task acts on pc[InitTask], and there is no other task.
LEMMA OnlyInitTask == ASSUME Clients = {} PROVE Tasks = {InitTask}
BY DEF Tasks

\* UartInv holds at first.
LEMMA UartInit ==
  ASSUME Context, Clients = {}, Init
  PROVE  UartInv
<1>1. TypeOK
  BY TypeInit DEF TypeInv
<1>2. p = "idle"
  BY DEF Init, p, Tasks
<1>3. HandlesReady
  BY OnlyInitTask, <1>2 DEF HandlesReady, p
<1>4. HandlesOurs /\ TimersStill
  BY <1>2 DEF Init, HandlesOurs, TimersStill, Loaders, Streams
<1>5. Coherent /\ SequenceLive /\ ModeKept
  BY <1>2 DEF Init, Coherent, Loaded, SequenceLive, ModeKept
<1>6. LoadedOurs
  BY <1>2 DEF Init, LoadedOurs, Loaders, Streams
<1> QED
  BY <1>1, <1>3, <1>4, <1>5, <1>6 DEF UartInv

\* Only the init task moves its program counter: what happens around it, an
\* idle task that starts a command included, keeps the invariant.
LEMMA UartEnvironment ==
  ASSUME Context, Clients = {}, UartInv, TypeOK',
         \/ \E v \in Verbs : TypeLine(v)
         \/ RunDeferred \/ Trigger \/ PulseComplete
  PROVE  UartInv'
<1> USE OnlyInitTask DEF UartInv, cpu, io, dma, dev
<1>1. CASE \E v \in Verbs : TypeLine(v)
  <2>1. UNCHANGED <<pc, cpu, tim, dma, dev, led, mode>>
    BY <1>1 DEF TypeLine
  <2> QED
    BY <2>1 DEF HandlesReady, Coherent, Loaded, HandlesOurs, TimersStill, SequenceLive,
                LoadedOurs, ModeKept, p, Started
<1>2. CASE RunDeferred
  <2>1. /\ p = "idle" /\ p' \in {"add", "fetch", "timer_stop"}
        /\ UNCHANGED <<entry, elems, tim, busy, burst, src, dds, pins, profile, led, mode>>
    BY <1>2 DEF RunDeferred, Begin, p, TypeOK
  <2>2. HandlesReady'
    BY <2>1 DEF HandlesReady, p
  <2>3. HandlesOurs' /\ TimersStill' /\ LoadedOurs'
    BY <2>1 DEF HandlesOurs, TimersStill, LoadedOurs, Loaders, Streams
  <2>4. Coherent' /\ SequenceLive' /\ ModeKept'
    BY <2>1 DEF Coherent, Loaded, SequenceLive, ModeKept
  <2> QED
    BY <2>2, <2>3, <2>4
<1>3. CASE Trigger
  <2>1. /\ tim = "armed" /\ tim' = "running"
        /\ UNCHANGED <<pc, entry, elems, busy, burst, src, dds, pins, profile, led, mode>>
    BY <1>3 DEF Trigger
  <2>2. p \notin Loaders \cup {"arm"}
    BY <2>1 DEF TimersStill
  <2> QED
    BY <2>1, <2>2 DEF HandlesReady, Coherent, Loaded, HandlesOurs, TimersStill, SequenceLive,
                LoadedOurs, ModeKept, p, Started
<1>4. CASE PulseComplete
  <2>1. /\ tim = "running" /\ tim' = "done"
        /\ UNCHANGED <<pc, entry, elems, burst, src, dds, pins, profile, led, mode>>
    BY <1>4 DEF PulseComplete
  <2>2. p \notin Loaders \cup {"arm"}
    BY <2>1 DEF TimersStill
  <2> QED
    BY <2>1, <2>2 DEF HandlesReady, Coherent, Loaded, HandlesOurs, TimersStill, SequenceLive,
                LoadedOurs, ModeKept, p, Started
<1> QED
  BY <1>1, <1>2, <1>3, <1>4

\* A sequence of entries stays one when an entry is added.
LEMMA Added ==
  ASSUME NEW S, NEW s \in Seq(S), NEW e \in Entries \cap S,
         \A i \in 1 .. Len(s) : s[i] \in Entries
  PROVE  /\ Append(s, e) # <<>>
         /\ \A i \in 1 .. Len(Append(s, e)) : Append(s, e)[i] \in Entries
<1>1. /\ Len(s) \in Nat
      /\ Append(s, e) # <<>> /\ Len(Append(s, e)) = Len(s) + 1
      /\ \A i \in 1 .. Len(s) : Append(s, e)[i] = s[i]
      /\ Append(s, e)[Len(s) + 1] = e
  BY AppendProperties
<1> SUFFICES ASSUME NEW i \in 1 .. Len(Append(s, e)) PROVE Append(s, e)[i] \in Entries
  BY <1>1
<1>2. i = Len(s) + 1 \/ i \in 1 .. Len(s)
  BY <1>1
<1> QED BY <1>1, <1>2

\* A step of a command outside the callback keeps it.
LEMMA UartCommand ==
  ASSUME Context, Clients = {}, UartInv, TypeOK', Command(InitTask)
  PROVE  UartInv'
<1> DEFINE t == InitTask
<1> USE OnlyInitTask DEF UartInv, TypeOK, cpu, io, dma, dev, Goto,
        HandlesReady, HandlesOurs, TimersStill, LoadedOurs, Loaders, Streams, p,
        Coherent, Loaded, SequenceLive, ModeKept
<1>1. CASE TimerStop(t)
  BY <1>1 DEF TimerStop
<1>2. CASE Park(t)
  BY <1>2 DEF Park
<1>3. CASE Profile0(t)
  <2>1. AfterRfkill(verb[t]) \in {"free", "rewind", "tone", "idle"}
    BY DEF AfterRfkill
  <2> QED
    BY <1>3, <2>1 DEF Profile0
<1>4. CASE Tone(t)
  BY <1>4 DEF Tone
<1>5. CASE Free(t)
  BY <1>5 DEF Free
<1>6. CASE Renew(t)
  BY <1>6 DEF Renew
<1>7. CASE \E e \in Entries : Add(t, e)
  <2>1. PICK e \in Entries : Add(t, e)
    BY <1>7
  <2>2. p = "add" /\ p' \in {"idle", "timer_stop"}
    BY <2>1 DEF Add
  <2>3. /\ elems' # <<>>
        /\ \A i \in 1 .. Len(elems') : elems'[i] \in Entries
    <3>1. elems \in Seq(Entries \cup {"cleared"}) /\ elems' = Append(elems, e)
      BY <2>1 DEF Add
    <3>2. \A i \in 1 .. Len(elems) : elems[i] \in Entries
      BY <2>2
    <3> QED BY <3>1, <3>2, Added
  <2> QED
    BY <2>1, <2>2, <2>3 DEF Add
<1>8. CASE Rewind(t)
  BY <1>8 DEF Rewind
<1>9. CASE Restart(t)
  BY <1>9 DEF Restart
<1> QED
  BY <1>1, <1>2, <1>3, <1>4, <1>5, <1>6, <1>7, <1>8, <1>9 DEF Command, Rfkill

\* So does a step of the callback.
LEMMA UartCallback ==
  ASSUME Context, Clients = {}, UartInv, TypeOK', Callback(InitTask)
  PROVE  UartInv'
<1> DEFINE t == InitTask
<1> USE OnlyInitTask DEF UartInv, TypeOK, cpu, io, dma, dev, Goto,
        HandlesReady, HandlesOurs, TimersStill, LoadedOurs, Loaders, Streams, p,
        Coherent, Loaded, SequenceLive, ModeKept
<1>1. CASE Fetch(t)
  <2>1. tim # "reset" => Fetched \subseteq Entries
    BY <1>1 DEF Fetch, Fetched, Context, BoundsAssumption
  <2> QED
    BY <1>1, <2>1 DEF Fetch
<1>2. CASE Quench(t)
  BY <1>2 DEF Quench, Started
<1>3. CASE Program(t)
  BY <1>3 DEF Program, Started, Context, EntriesAssumption, Ghosts
<1>4. CASE StartUpdate(t, "upA", "upB")
  BY <1>4 DEF StartUpdate, Started, Bursts
<1>5. CASE StartUpdate(t, "upB", "ccA")
  BY <1>5 DEF StartUpdate, Started, Bursts
<1>6. CASE StartBurst(t, "ccA", "ccB")
  BY <1>6 DEF StartBurst, Started, Bursts
<1>7. CASE StartBurst(t, "ccB", "prime")
  BY <1>7 DEF StartBurst, Started, Bursts
<1>8. CASE Prime(t)
  BY <1>8 DEF Prime, Started
<1>9. CASE Arm(t)
  BY <1>9 DEF Arm
<1> QED
  BY <1>1, <1>2, <1>3, <1>4, <1>5, <1>6, <1>7, <1>8, <1>9 DEF Callback, StartStreams

\* UartInv is inductive.
LEMMA UartStep ==
  ASSUME Context, Clients = {}, UartInv, TypeInv, [Next]_vars
  PROVE  UartInv'
<1>1. TypeOK'
  BY TypeStep DEF TypeInv
<1>2. CASE Next
  <2>1. CASE \E t \in Tasks : Step(t)
    BY <1>1, <2>1, OnlyInitTask, UartCommand, UartCallback DEF Step
  <2>2. CASE ~ \E t \in Tasks : Step(t)
    BY <1>1, <1>2, <2>2, UartEnvironment DEF Next
  <2> QED
    BY <2>1, <2>2
<1>3. CASE UNCHANGED vars
  BY <1>1, <1>3, OnlyInitTask
  DEF vars, cpu, io, dma, dev, UartInv, HandlesReady, HandlesOurs, TimersStill,
      LoadedOurs, p, Started, Coherent, Loaded, SequenceLive, ModeKept
<1> QED
  BY <1>2, <1>3

LEMMA UartInvariance ==
  ASSUME Clients = {}
  PROVE  Spec => []UartInv
<1>1. Context
  BY InitTaskAssumption, EntriesAssumption, VerbsAssumption, BoundsAssumption,
     GatedAssumption DEF Context
<1>2. Init => TypeInv /\ UartInv
  BY <1>1, TypeInit, UartInit
<1>3. TypeInv /\ UartInv /\ [Next]_vars => TypeInv' /\ UartInv'
  BY <1>1, TypeStep, UartStep
<1> QED
  BY <1>2, <1>3, PTL DEF Spec

(* What follows holds with commands from the UART alone, in any number and  *)
(* at any moment, however many completion callbacks are pending or lost,    *)
(* and for every set of entries.                                            *)

\* No stream is started twice and the timers are never armed while they run.
\* (asserts of sequencer.c:192-207)
THEOREM UartReady ==
  ASSUME Clients = {}
  PROVE  Spec => []HandlesReady
BY UartInvariance, PTL DEF UartInv

\* What the timers play is one live entry, in all four streams and in the
\* AD9910.  (sequencer.c:178-207)
THEOREM UartCoherent ==
  ASSUME Clients = {}
  PROVE  Spec => []Coherent
BY UartInvariance, PTL DEF UartInv

\* A generator that was told to stop is silent.  (sequencer.c:305-318)
THEOREM UartSilent ==
  ASSUME Clients = {}
  PROVE  Spec => []KilledStaysSilent
<1>1. UartInv => KilledStaysSilent
  BY DEF UartInv, ModeKept, KilledStaysSilent, CpuRadiates
<1> QED
  BY <1>1, UartInvariance, PTL

\* The indicator is lit whenever something is awaited or emitted.
\* (sequencer.c:317)
THEOREM UartLit ==
  ASSUME Clients = {}
  PROVE  Spec => []LedWhileRadiating
<1>1. UartInv => LedWhileRadiating
  BY DEF UartInv, ModeKept, LedWhileRadiating, CpuRadiates
<1> QED
  BY <1>1, UartInvariance, PTL
(***************************************************************************)
(* Operation with a silenced trigger, by any number of clients.            *)
(*                                                                         *)
(* The invariant: there is a task t besides which all others are idle.     *)
(***************************************************************************)

\* The steps of a command that are not in the callback.
CommandSteps == {"add", "timer_stop", "park", "profile0", "tone", "free", "renew",
                 "rewind", "restart"}
Stopped == CommandSteps \ {"add", "timer_stop"}

StartedBy(t) == CASE pc[t] = "upB" -> {"upA"}
                  [] pc[t] = "ccA" -> {"upA", "upB"}
                  [] pc[t] = "ccB" -> {"upA", "upB", "ccA"}
                  [] pc[t] \in {"prime", "arm"} -> Streams
                  [] OTHER -> {}

\* The others are idle; what t does is known; and nothing waits for its turn
\* while it does.
Alone(t) ==
  /\ \A u \in Tasks : u # t => pc[u] = "idle" /\ verb[u] = "none"
  /\ pc[t] \notin Hung
  /\ pc[t] = "idle" <=> verb[t] = "none"
  /\ pc[t] \in CommandSteps => verb[t] \in AllVerbs
  /\ pc[t] # "idle" => queue = <<>>

\* The timers, step by step; at rest a callback is queued if and only if a
\* pulse is over, and no pulse is in flight when a command begins.
TimersKept(t) ==
  /\ pc[t] = "idle" =>
       \/ queue = <<>> /\ tim \in {"reset", "armed", "running"}
       \/ queue = <<"pulse">> /\ tim = "done"
       \/ queue = <<"parse">> /\ tim \in {"reset", "armed"} /\ line # "none"
  /\ pc[t] \in {"add", "timer_stop"} => tim \in {"reset", "armed"}
  /\ pc[t] \in Stopped => tim = "reset"
  /\ pc[t] \in {"fetch", "quench"} => tim \in {"idle", "done"}
  /\ pc[t] \in Loaders => tim = "idle"
  /\ pc[t] = "arm" => tim = "primed"

\* The handles in use are those started since dma_abort().
HandlesKept(t) ==
  pc[t] \in Loaders => busy = StartedBy(t) /\ burst = StartedBy(t) \cap Bursts

\* The entries are live, or about to be dropped; and there is one to play.
SequenceKept(t) ==
  /\ pc[t] # "renew" => \A i \in 1 .. Len(elems) : elems[i] \in Entries
  /\ pc[t] = "renew" => \A i \in 1 .. Len(elems) : elems[i] = "cleared"
  /\ tim # "reset" \/ pc[t] = "restart" => elems # <<>>
  /\ pc[t] = "restart" => index = 0

Before == IF index = 0 THEN IndexWrap - 1 ELSE index - 1

\* What is loaded is the entry whose turn it is.
LoadedKept(t) ==
  /\ pc[t] \in Loaders \cup {"quench", "arm"} =>
       entry[t] = elems[(Before % Len(elems)) + 1]
  /\ pc[t] \in Streams \cup {"prime", "arm"} => dds = entry[t]
  /\ pc[t] \in Loaders \cup {"arm"} => \A s \in StartedBy(t) : src[s] = entry[t]

\* What the last command left behind.
LeftBehind(t) ==
  /\ tim # "reset" => mode = "run"
  /\ mode = "off" => profile = 0
  /\ tim # "reset" \/ profile = 1 => led = TRUE
  /\ mode = "tone" =>
       \/ pc[t] = "profile0"
       \/ pins = "cpu" /\ profile = 1 /\ dds = "tone"
  /\ pc[t] \in Stopped \ {"park", "profile0"} => mode = "off"
  /\ pc[t] \in {"profile0", "tone"} => pins = "cpu"

Kept(t) == /\ Alone(t) /\ TimersKept(t) /\ HandlesKept(t) /\ SequenceKept(t)
           /\ LoadedKept(t) /\ LeftBehind(t)

GatedInv == TypeOK /\ Coherent /\ \E t \in Tasks : Kept(t)

\* A step is a step of the task that is not idle.
LEMMA NoOther ==
  ASSUME NEW t \in Tasks, NEW u \in Tasks, Alone(t), Step(u)
  PROVE  u = t /\ pc[t] # "idle"
<1>1. pc[u] # "idle"
  BY DEF Step, Command, Rfkill, Callback, StartStreams, TimerStop, Park, Profile0, Tone, Free,
         Renew, Add, Rewind, Restart, Fetch, Quench, Program, StartUpdate, StartBurst, Prime,
         Arm, Goto
<1> QED
  BY <1>1 DEF Alone

\* The index that has been counted up is behind the one that was used.
LEMMA Counted ==
  ASSUME Context, NEW i \in 0 .. IndexWrap - 1, NEW j, j = (i + 1) % IndexWrap
  PROVE  i = IF j = 0 THEN IndexWrap - 1 ELSE j - 1
<1>1. IndexWrap \in Nat \ {0}
  BY DEF Context, BoundsAssumption
<1>2. CASE i = IndexWrap - 1
  <2>1. IndexWrap % IndexWrap = 0
    BY <1>1
  <2> QED
    BY <1>1, <1>2, <2>1
<1>3. CASE i < IndexWrap - 1
  <2>1. i + 1 \in 0 .. IndexWrap - 1
    BY <1>1, <1>3
  <2>2. (i + 1) % IndexWrap = i + 1
    BY <1>1, <2>1
  <2> QED
    BY <1>1, <1>3, <2>2
<1> QED
  BY <1>1, <1>2, <1>3

\* At first.
LEMMA GatedInit ==
  ASSUME Context, Init
  PROVE  GatedInv
<1>1. TypeOK
  BY TypeInit DEF TypeInv
<1>2. InitTask \in Tasks /\ pc[InitTask] = "idle"
  BY DEF Init, Tasks
<1>3. Kept(InitTask)
  BY <1>2 DEF Init, Kept, Alone, Hung, TimersKept, HandlesKept, SequenceKept, LoadedKept,
              LeftBehind, CommandSteps, Stopped, Loaders, Streams
<1>4. Coherent
  BY DEF Init, Coherent, Loaded
<1> QED
  BY <1>1, <1>2, <1>3, <1>4 DEF GatedInv

\* A step of a command outside the callback.
LEMMA GatedCommand ==
  ASSUME Context, NEW t \in Tasks, TypeOK, TypeOK', Coherent, Kept(t), Command(t)
  PROVE  Kept(t)' /\ Coherent'
<1> USE DEF Kept, Alone, Hung, TimersKept, HandlesKept, SequenceKept, LoadedKept, LeftBehind,
            CommandSteps, Stopped, Loaders, Streams, TypeOK, cpu, io, dma, dev, Goto,
            Coherent, Loaded, Finish
<1>1. CASE TimerStop(t)
  BY <1>1 DEF TimerStop
<1>2. CASE Park(t)
  BY <1>2 DEF Park
<1>3. CASE Profile0(t)
  <2>1. CASE AfterRfkill(verb[t]) = "idle"
    <3>1. pc'[t] = "idle" /\ verb'[t] = "none"
      BY <1>3, <2>1 DEF Profile0
    <3> QED
      BY <1>3, <2>1, <3>1 DEF Profile0
  <2>2. CASE AfterRfkill(verb[t]) # "idle"
    <3>1. /\ pc'[t] = AfterRfkill(verb[t]) /\ verb' = verb
          /\ AfterRfkill(verb[t]) \in {"free", "rewind", "tone"}
      BY <1>3, <2>2 DEF Profile0, AfterRfkill
    <3> QED
      BY <1>3, <3>1 DEF Profile0
  <2> QED
    BY <2>1, <2>2
<1>4. CASE Tone(t)
  BY <1>4 DEF Tone
<1>5. CASE Free(t)
  BY <1>5 DEF Free
<1>6. CASE Renew(t)
  BY <1>6 DEF Renew
<1>7. CASE \E e \in Entries : Add(t, e)
  <2>1. PICK e \in Entries : Add(t, e)
    BY <1>7
  <2>2. pc[t] = "add" /\ pc'[t] \in {"idle", "timer_stop"}
    BY <2>1 DEF Add
  <2>3. /\ elems' # <<>>
        /\ \A i \in 1 .. Len(elems') : elems'[i] \in Entries
    <3>1. elems \in Seq(Entries \cup {"cleared"}) /\ elems' = Append(elems, e)
      BY <2>1 DEF Add
    <3>2. \A i \in 1 .. Len(elems) : elems[i] \in Entries
      BY <2>2
    <3>3. e \in Entries \cap (Entries \cup {"cleared"})
      OBVIOUS
    <3> HIDE DEF TypeOK, SequenceKept
    <3> QED BY ONLY <3>1, <3>2, <3>3, Added
  <2> QED
    BY <2>1, <2>2, <2>3 DEF Add
<1>8. CASE Rewind(t)
  BY <1>8 DEF Rewind
<1>9. CASE Restart(t)
  BY <1>9 DEF Restart
<1> QED
  BY <1>1, <1>2, <1>3, <1>4, <1>5, <1>6, <1>7, <1>8, <1>9 DEF Command, Rfkill

\* An entry that is being loaded is live.
LEMMA LiveEntry ==
  ASSUME Context, TypeOK, NEW t \in Tasks, TimersKept(t), SequenceKept(t), LoadedKept(t),
         pc[t] \in Loaders \cup {"quench"}
  PROVE  entry[t] \in Entries /\ entry[t] \notin Ghosts
<1>1. elems # <<>> /\ elems \in Seq(Entries \cup {"cleared"}) /\ pc[t] # "renew"
  BY DEF TimersKept, SequenceKept, TypeOK, Loaders, Streams
<1>2. Before \in Nat /\ Len(elems) \in Nat \ {0}
  BY <1>1 DEF Before, TypeOK, Context, BoundsAssumption
<1>3. \A a \in Nat, n \in Nat \ {0} : (a % n) + 1 \in 1 .. n
  OBVIOUS
<1>4. (Before % Len(elems)) + 1 \in 1 .. Len(elems)
  BY <1>2, <1>3, Zenon
<1> QED
  BY <1>1, <1>4 DEF SequenceKept, LoadedKept, Context, EntriesAssumption

\* A step of the callback.
LEMMA GatedCallback ==
  ASSUME Context, NEW t \in Tasks, TypeOK, TypeOK', Coherent, Kept(t), Callback(t)
  PROVE  Kept(t)' /\ Coherent'
<1> USE DEF Kept, Alone, Hung, TimersKept, HandlesKept, SequenceKept, LoadedKept, LeftBehind,
            CommandSteps, Stopped, Loaders, Streams, TypeOK, cpu, io, dma, dev, Goto,
            Coherent, Loaded, Finish
<1>1. CASE Fetch(t)
  <2>1. Fetched = {elems[(index % Len(elems)) + 1]}
    BY <1>1 DEF Fetch, Fetched
  <2>2. index = Before'
    BY <1>1, Counted DEF Fetch, Index, Before
  <2> QED
    BY <1>1, <2>1, <2>2 DEF Fetch
<1>2. CASE Quench(t)
  BY <1>2 DEF Quench, StartedBy, Before
<1>3. CASE Program(t)
  <2>1. entry[t] \in Entries /\ entry[t] \notin Ghosts
    BY <1>3, LiveEntry DEF Program
  <2>2. /\ pc[t] = "program" /\ pc' = [pc EXCEPT ![t] = "upA"]
        /\ dds' = entry[t] /\ pins' = "cpu"
        /\ UNCHANGED <<verb, entry, elems, index, line, queue, tim, busy, burst, src, led, mode>>
    BY <1>3, <2>1 DEF Program, Ghosts
  <2>3. profile' \in {0, profile}
    BY <1>3 DEF Program
  <2>4. Before' = Before
    BY <2>2 DEF Before
  <2> QED
    BY <2>2, <2>3, <2>4 DEF StartedBy
<1>4. ASSUME NEW s \in Streams, NEW next \in Streams,
             StartUpdate(t, s, next), s \notin StartedBy(t), s = pc[t],
             pc'[t] = next => StartedBy(t)' = StartedBy(t) \cup {s},
             s \notin Bursts
      PROVE  Kept(t)' /\ Coherent'
  <2>1. /\ pc' = [pc EXCEPT ![t] = next]
        /\ busy' = busy \cup {s} /\ src' = [src EXCEPT ![s] = entry[t]]
        /\ UNCHANGED <<verb, entry, elems, index, line, queue, tim, burst, dds, pins, profile, led, mode>>
    BY <1>4 DEF StartUpdate
  <2>2. Before' = Before
    BY <2>1 DEF Before
  <2> QED
    BY <1>4, <2>1, <2>2 DEF Bursts
<1>5. ASSUME NEW s \in Bursts, NEW next \in Streams \cup {"prime"},
             StartBurst(t, s, next), s \notin StartedBy(t), s = pc[t],
             pc'[t] = next => StartedBy(t)' = StartedBy(t) \cup {s}
      PROVE  Kept(t)' /\ Coherent'
  <2>1. entry[t] \in Entries /\ entry[t] \notin Ghosts
    BY <1>5, LiveEntry DEF Bursts
  <2>2. /\ pc' = [pc EXCEPT ![t] = next]
        /\ busy' = busy \cup {s} /\ burst' = burst \cup {s}
        /\ src' = [src EXCEPT ![s] = entry[t]]
        /\ UNCHANGED <<verb, entry, elems, index, line, queue, tim, dds, pins, profile, led, mode>>
    BY <1>5, <2>1 DEF StartBurst, Ghosts, Bursts
  <2>3. Before' = Before
    BY <2>2 DEF Before
  <2> QED
    BY <1>5, <2>2, <2>3 DEF Bursts
<1>6. CASE StartUpdate(t, "upA", "upB")
  <2>1. pc[t] = "upA" /\ (pc'[t] = "upB" => StartedBy(t)' = StartedBy(t) \cup {"upA"})
    BY <1>6 DEF StartUpdate, StartedBy
  <2> QED
    BY <1>4, <1>6, <2>1 DEF StartedBy, Bursts
<1>7. CASE StartUpdate(t, "upB", "ccA")
  <2>1. pc[t] = "upB" /\ (pc'[t] = "ccA" => StartedBy(t)' = StartedBy(t) \cup {"upB"})
    BY <1>7 DEF StartUpdate, StartedBy
  <2> QED
    BY <1>4, <1>7, <2>1 DEF StartedBy, Bursts
<1>8. CASE StartBurst(t, "ccA", "ccB")
  <2>1. pc[t] = "ccA" /\ (pc'[t] = "ccB" => StartedBy(t)' = StartedBy(t) \cup {"ccA"})
    BY <1>8 DEF StartBurst, StartedBy
  <2> QED
    BY <1>5, <1>8, <2>1 DEF StartedBy, Bursts
<1>9. CASE StartBurst(t, "ccB", "prime")
  <2>1. pc[t] = "ccB" /\ (pc'[t] = "prime" => StartedBy(t)' = StartedBy(t) \cup {"ccB"})
    BY <1>9 DEF StartBurst, StartedBy
  <2> QED
    BY <1>5, <1>9, <2>1 DEF StartedBy, Bursts
<1>10. CASE Prime(t)
  <2>1. entry[t] \in Entries
    BY <1>10, LiveEntry DEF Prime
  <2> QED
    BY <1>10, <2>1 DEF Prime, StartedBy, Before
<1>11. CASE Arm(t)
  BY <1>11 DEF Arm
<1> QED
  BY <1>1, <1>2, <1>3, <1>6, <1>7, <1>8, <1>9, <1>10, <1>11 DEF Callback, StartStreams

\* What happens around the tasks, and the start of a command.
LEMMA GatedEnvironment ==
  ASSUME Context, Gated, NEW t \in Tasks, TypeOK, TypeOK', Coherent, Kept(t),
         \/ \E v \in Verbs : TypeLine(v)
         \/ \E c \in Clients, v \in Verbs : ClientLine(c, v)
         \/ RunDeferred \/ Trigger \/ PulseComplete
  PROVE  (\E u \in Tasks : Kept(u)') /\ Coherent'
<1> USE DEF Kept, Alone, Hung, TimersKept, HandlesKept, SequenceKept, LoadedKept, LeftBehind,
            CommandSteps, Stopped, Loaders, Streams, TypeOK, cpu, io, dma, dev,
            Coherent, Loaded, Before, StartedBy
<1>1. CASE \E v \in Verbs : TypeLine(v)
  <2>1. PICK v \in Verbs : TypeLine(v)
    BY <1>1
  <2>2. pc[t] = "idle" /\ queue = <<>> /\ tim \in {"reset", "armed"}
    BY <2>1 DEF TypeLine, MayCommand, Quiet
  <2>3. queue' = <<"parse">> /\ line' = v /\ v # "none"
    <3>1. Len(queue) = 0 /\ Append(queue, "parse") = <<"parse">>
      BY <2>2
    <3>2. QueueCap > 0
      BY DEF Context, BoundsAssumption
    <3> QED
      BY <2>1, <2>2, <3>1, <3>2 DEF TypeLine, RunLater, Context, VerbsAssumption, AllVerbs
  <2> QED
    BY <2>1, <2>2, <2>3 DEF TypeLine
<1>2. CASE \E c \in Clients, v \in Verbs : ClientLine(c, v)
  <2>1. PICK c \in Clients, v \in Verbs : ClientLine(c, v)
    BY <1>2
  <2>2. /\ \A u \in Tasks : pc[u] = "idle" /\ verb[u] = "none"
        /\ queue = <<>> /\ tim \in {"reset", "armed"} /\ c \in Tasks
    BY <2>1 DEF ClientLine, MayCommand, Quiet, Tasks
  <2>3. v \in AllVerbs /\ v # "callback"
    BY DEF Context, VerbsAssumption, AllVerbs
  <2>4. /\ pc' = [pc EXCEPT ![c] = IF v = "pulse" THEN "add" ELSE "timer_stop"]
        /\ verb' = [verb EXCEPT ![c] = v]
        /\ UNCHANGED <<elems, index, queue, tim, src, dds, pins, profile, led, mode>>
    BY <2>1, <2>3 DEF ClientLine, Begin
  <2>5. Alone(c)'
    BY <2>2, <2>3, <2>4 DEF AllVerbs
  <2>6. TimersKept(c)'
    BY <2>2, <2>4
  <2>7. HandlesKept(c)'
    BY <2>2, <2>4
  <2>8. SequenceKept(c)'
    BY <2>2, <2>4
  <2>9. LoadedKept(c)'
    BY <2>2, <2>4
  <2>10. LeftBehind(c)'
    BY <2>2, <2>4
  <2>11. Coherent'
    BY <2>4
  <2> QED
    BY <2>2, <2>5, <2>6, <2>7, <2>8, <2>9, <2>10, <2>11
<1>3. CASE RunDeferred
  <2>1. /\ \A u \in Tasks : pc[u] = "idle" /\ verb[u] = "none"
        /\ InitTask \in Tasks /\ queue' = <<>>
        /\ UNCHANGED <<entry, elems, index, tim, src, dds, pins, profile, led, mode>>
    BY <1>3 DEF RunDeferred, Tasks
  <2>2. CASE queue = <<"parse">>
    <3>1. line \in AllVerbs /\ tim \in {"reset", "armed"} /\ Head(queue) = "parse"
      BY <2>1, <2>2
    <3>2. /\ pc' = [pc EXCEPT ![InitTask] = IF line = "pulse" THEN "add" ELSE "timer_stop"]
          /\ verb' = [verb EXCEPT ![InitTask] = line]
      BY <1>3, <3>1 DEF RunDeferred, Begin, AllVerbs
    <3> QED
      BY <2>1, <3>1, <3>2 DEF AllVerbs
  <2>3. CASE queue = <<"pulse">>
    <3>1. tim = "done" /\ Head(queue) # "parse"
      BY <2>1, <2>3
    <3>2. /\ pc' = [pc EXCEPT ![InitTask] = "fetch"]
          /\ verb' = [verb EXCEPT ![InitTask] = "callback"]
      BY <1>3, <3>1 DEF RunDeferred, Begin
    <3> QED
      BY <2>1, <3>1, <3>2
  <2> QED
    BY <1>3, <2>1, <2>2, <2>3 DEF RunDeferred
<1>4. CASE Trigger
  <2>1. tim = "armed" /\ tim' = "running" /\ NoCommand
        /\ UNCHANGED <<pc, verb, entry, elems, index, line, queue, busy, burst, src, dds, pins, profile, led, mode>>
    BY <1>4 DEF Trigger
  <2>2. pc[t] = "idle"
    BY <2>1 DEF NoCommand, AllVerbs, Labels
  <2>3. queue = <<>>
    BY <2>1, <2>2 DEF NoCommand
  <2> QED
    BY <2>1, <2>2, <2>3
<1>5. CASE PulseComplete
  <2>1. tim = "running" /\ tim' = "done" /\ RunLater("pulse")
        /\ UNCHANGED <<pc, verb, entry, elems, index, burst, src, dds, pins, profile, led, mode>>
    BY <1>5 DEF PulseComplete
  <2>2. pc[t] = "idle" /\ queue = <<>>
    BY <2>1 DEF Labels
  <2>3. queue' = <<"pulse">>
    BY <2>1, <2>2 DEF RunLater, Context, BoundsAssumption
  <2> QED
    BY <2>1, <2>2, <2>3
<1> QED
  BY <1>1, <1>2, <1>3, <1>4, <1>5

\* GatedInv is inductive.
LEMMA GatedStep ==
  ASSUME Context, Gated, GatedInv, TypeInv, [Next]_vars
  PROVE  GatedInv'
<1>1. TypeOK'
  BY TypeStep DEF TypeInv
<1>2. PICK t \in Tasks : Kept(t)
  BY DEF GatedInv
<1>3. CASE \E u \in Tasks : Step(u)
  <2>1. PICK u \in Tasks : Step(u)
    BY <1>3
  <2>2. u = t
    BY <1>2, <2>1, NoOther DEF Kept
  <2> QED
    BY <1>1, <1>2, <2>1, <2>2, GatedCommand, GatedCallback DEF GatedInv, Step
<1>4. CASE UNCHANGED vars
  <2>1. Kept(t)' /\ Coherent'
    BY <1>2, <1>4 DEF vars, cpu, io, dma, dev, GatedInv, Kept, Alone, TimersKept, HandlesKept,
       SequenceKept, LoadedKept, LeftBehind, Before, StartedBy, Coherent, Loaded
  <2> QED
    BY <1>1, <2>1 DEF GatedInv
<1>5. CASE Next /\ ~ \E u \in Tasks : Step(u)
  BY <1>1, <1>2, <1>5, GatedEnvironment DEF GatedInv, Next
<1> QED
  BY <1>3, <1>4, <1>5

LEMMA GatedInvariance ==
  ASSUME Gated
  PROVE  Spec => []GatedInv
<1>1. Context
  BY InitTaskAssumption, EntriesAssumption, VerbsAssumption, BoundsAssumption,
     GatedAssumption DEF Context
<1>2. Init => TypeInv /\ GatedInv
  BY <1>1, TypeInit, GatedInit
<1>3. TypeInv /\ GatedInv /\ [Next]_vars => TypeInv' /\ GatedInv'
  BY <1>1, TypeStep, GatedStep
<1> QED
  BY <1>2, <1>3, PTL DEF Spec

(* What follows holds for commands from the UART and from any number of     *)
(* clients, one at a time and only while the trigger is silent.             *)

\* No burst is refused, since no timer is still bursting and the entry whose
\* turn it is has not been freed.  (asserts of sequencer.c:198-214)
THEOREM GatedBursts ==
  ASSUME Gated
  PROVE  Spec => []BurstsStart
<1>1. GatedInv => BurstsStart
  BY DEF GatedInv, Kept, Alone, BurstsStart, Hung
<1> QED
  BY <1>1, GatedInvariance, PTL

\* Everything that is proved of operation over the UART holds with clients too.
THEOREM GatedSafe ==
  ASSUME Gated
  PROVE  Spec => [](HandlesReady /\ Coherent /\ KilledStaysSilent /\ LedWhileRadiating)
<1>1. GatedInv => HandlesReady /\ Coherent /\ KilledStaysSilent /\ LedWhileRadiating
  BY DEF GatedInv, TypeOK, Kept, Alone, LeftBehind, HandlesReady, Hung, KilledStaysSilent,
         LedWhileRadiating, CpuRadiates
<1> QED
  BY <1>1, GatedInvariance, PTL

\* A tone stays until another command.  (sequencer.c:320)
THEOREM GatedTone ==
  ASSUME Gated
  PROVE  Spec => []ToneHolds
<1>1. GatedInv => ToneHolds
  BY DEF GatedInv, Kept, Alone, LeftBehind, ToneHolds, NoCommand, CommandSteps, AllVerbs
<1> QED
  BY <1>1, GatedInvariance, PTL

\* The callback never cuts off a pulse: when it stops the counters, the one it
\* was queued for is over and the next one not yet armed.
THEOREM GatedUncut ==
  ASSUME Gated
  PROVE  Spec => CutsNothing
<1>1. GatedInv => \A t \in Tasks : pc[t] = "quench" => tim # "running"
  BY DEF GatedInv, Kept, Alone, TimersKept
<1>2. GatedInv /\ [Next]_vars
        => [\A t \in Tasks : pc[t] = "quench" /\ pc'[t] # "quench" => tim # "running"]_vars
  BY <1>1
<1> QED
  BY <1>2, GatedInvariance, PTL DEF Spec, CutsNothing

(***************************************************************************)
(* The refinement of PulseTrain, step by step.                             *)
(***************************************************************************)

\* The position of the train, if t is the only one to be busy.
LEMMA PositionIs ==
  ASSUME Context, TypeOK, NEW t \in Tasks, Alone(t)
  PROVE  Position = IF pc[t] \in Loaders \cup {"quench", "arm"} THEN Before ELSE index
<1>1. Loading <=> pc[t] \in Loaders \cup {"quench", "arm"}
  BY DEF Loading, Alone, Loaders, Streams
<1>2. index \in 0 .. IndexWrap - 1 /\ IndexWrap \in Nat \ {0}
  BY DEF TypeOK, Context, BoundsAssumption
<1>3. (index + IndexWrap - 1) % IndexWrap = Before
  <2>1. CASE index = 0
    <3>1. (IndexWrap - 1) % IndexWrap = IndexWrap - 1
      BY <1>2
    <3> QED
      BY <1>2, <2>1, <3>1 DEF Before
  <2>2. CASE index > 0
    <3>1. index - 1 \in 0 .. IndexWrap - 1
      BY <1>2, <2>2
    <3>2. ((index - 1) + 1 * IndexWrap) % IndexWrap = (index - 1) % IndexWrap
      BY <1>2, <3>1, SMTT(30)
    <3>3. (index - 1) % IndexWrap = index - 1
      BY <1>2, <3>1
    <3> QED
      BY <1>2, <2>2, <3>2, <3>3 DEF Before
  <2> QED
    BY <1>2, <2>1, <2>2
<1> QED
  BY <1>1, <1>3 DEF Position

\* Program, pulse and position of the train, if t is the only one to be busy.
Live == IF Freed THEN <<>> ELSE elems
Lit  == IF tim \in {"armed", "running"} THEN dds ELSE "none"

Mapped(t) ==
  /\ Live = IF pc[t] = "renew" THEN <<>> ELSE elems
  /\ Position = IF pc[t] \in Loaders \cup {"quench", "arm"} THEN Before ELSE index

LEMMA LiveIs ==
  ASSUME Context, TypeOK, NEW t \in Tasks, SequenceKept(t)
  PROVE  Live = IF pc[t] = "renew" THEN <<>> ELSE elems
<1>1. CASE pc[t] = "renew"
  <2>1. CASE elems = <<>>
    BY <2>1 DEF Live
  <2>2. CASE elems # <<>>
    <3>1. 1 \in 1 .. Len(elems)
      BY <2>2 DEF TypeOK
    <3> QED
      BY <1>1, <3>1 DEF Live, Freed, SequenceKept
  <2> QED
    BY <2>1, <2>2
<1>2. CASE pc[t] # "renew"
  BY <1>2 DEF Live, Freed, SequenceKept, Context, EntriesAssumption, Ghosts
<1> QED
  BY <1>1, <1>2

\* A step in which the train stands still.
LEMMA TrainStands ==
  ASSUME UNCHANGED <<Live, Phase, Position, Lit>>
  PROVE  UNCHANGED Train!vars
BY DEF Train!vars, Live, Lit

\* Operators and interrupts: a trigger fires the train and the end of a pulse
\* brings the next gap.
LEMMA TrainEnvironment ==
  ASSUME Context, Gated, NEW t \in Tasks, TypeOK, Kept(t),
         \/ \E v \in Verbs : TypeLine(v)
         \/ \E c \in Clients, v \in Verbs : ClientLine(c, v)
         \/ RunDeferred \/ Trigger \/ PulseComplete
  PROVE  [Train!Next]_Train!vars
<1> USE DEF cpu, io, dma, dev
<1>1. CASE \E v \in Verbs : TypeLine(v)
  BY <1>1, TrainStands DEF TypeLine, Live, Freed, Phase, Position, Loading, Lit
<1>2. CASE \E c \in Clients, v \in Verbs : ClientLine(c, v)
  <2>1. PICK c \in Clients, v \in Verbs : ClientLine(c, v)
    BY <1>2
  <2>2. pc[c] = "idle" /\ pc' = [pc EXCEPT ![c] = pc'[c]] /\ pc'[c] \in {"add", "timer_stop", "fetch"}
    BY <2>1 DEF ClientLine, Begin, TypeOK, Tasks
  <2>3. Loading' = Loading
    BY <2>2 DEF Loading, Streams, TypeOK, Tasks
  <2> QED
    BY <2>1, <2>3, TrainStands DEF ClientLine, Live, Freed, Phase, Position, Lit
<1>3. CASE RunDeferred
  <2>1. /\ pc[InitTask] = "idle" /\ pc' = [pc EXCEPT ![InitTask] = pc'[InitTask]]
        /\ pc'[InitTask] \in {"add", "timer_stop", "fetch"}
    BY <1>3 DEF RunDeferred, Begin, TypeOK, Tasks
  <2>2. Loading' = Loading
    BY <2>1 DEF Loading, Streams, TypeOK, Tasks
  <2> QED
    BY <1>3, <2>2, TrainStands DEF RunDeferred, Live, Freed, Phase, Position, Lit
<1>4. CASE Trigger
  <2>1. Train!Fire
    BY <1>4 DEF Trigger, Train!Fire, Phase, Freed, Position, Loading
  <2> QED
    BY <2>1 DEF Train!Next
<1>5. CASE PulseComplete
  <2>1. Train!Done
    BY <1>5 DEF PulseComplete, Train!Done, Phase, Freed, Position, Loading
  <2> QED
    BY <2>1 DEF Train!Next
<1> QED
  BY <1>1, <1>2, <1>3, <1>4, <1>5

\* Steps of a command: the train is stopped, cleared, extended, rewound,
\* started, or gives way to a tone.
LEMMA TrainCommand ==
  ASSUME NEW t \in Tasks, TypeOK, Kept(t), Mapped(t), Mapped(t)', Command(t)
  PROVE  [Train!Next]_Train!vars
<1>1. pc'[t] \notin Loaders \cup {"quench", "arm"} /\ pc[t] \notin Loaders \cup {"quench", "arm"}
  <2>1. AfterRfkill(verb[t]) \in {"free", "rewind", "tone", "idle"}
    BY DEF AfterRfkill
  <2> QED
    BY <2>1 DEF Command, Rfkill, TimerStop, Park, Profile0, Tone, Free, Renew, Add, Rewind,
                Restart, Goto, Loaders, Streams, TypeOK
<1>2. /\ Position = index /\ Position' = index'
  BY <1>1 DEF Mapped
<1> USE DEF Mapped, Goto, TypeOK, cpu, io, dma, dev, Phase, Lit
<1>3. CASE TimerStop(t)
  <2>1. /\ Live' = Live /\ Position' = Position /\ Lit' = "none" /\ mode' = mode
        /\ Phase' = IF mode = "tone" THEN "tone" ELSE "off"
    BY <1>2, <1>3 DEF TimerStop
  <2>2. CASE tim = "reset"
    BY <2>1, <2>2, TrainStands
  <2>3. CASE tim # "reset"
    <3>1. Phase' = "off"
      BY <2>1, <2>3 DEF Kept, LeftBehind
    <3>2. Train!Off
      BY <2>1, <3>1 DEF Train!Off, Live
    <3> QED
      BY <3>2 DEF Train!Next
  <2> QED
    BY <2>2, <2>3
<1>4. CASE Park(t)
  <2>1. /\ Live' = Live /\ Position' = Position /\ tim = "reset" /\ tim' = "reset" /\ mode' = mode
    BY <1>2, <1>4 DEF Park, Kept, TimersKept, Stopped, CommandSteps
  <2> QED
    BY <2>1, TrainStands
<1>5. CASE Profile0(t)
  <2>1. /\ Live' = Live /\ Position' = Position /\ tim = "reset" /\ tim' = "reset" /\ mode' = "off"
    BY <1>2, <1>5 DEF Profile0, AfterRfkill, Kept, TimersKept, Stopped, CommandSteps
  <2>2. Train!Off
    BY <2>1 DEF Train!Off, Live
  <2> QED
    BY <2>2 DEF Train!Next
<1>6. CASE Tone(t)
  <2>1. /\ Live' = Live /\ Position' = Position /\ tim = "reset" /\ tim' = "reset"
        /\ mode = "off" /\ mode' = "tone"
    BY <1>2, <1>6 DEF Tone, Kept, TimersKept, LeftBehind, Stopped, CommandSteps
  <2>2. Train!Sound
    BY <2>1 DEF Train!Sound, Live
  <2> QED
    BY <2>2 DEF Train!Next
<1>7. CASE Free(t)
  <2>1. /\ Live' = <<>> /\ Position' = Position /\ tim = "reset" /\ tim' = "reset"
        /\ mode = "off" /\ mode' = "off"
    BY <1>2, <1>7 DEF Free, Kept, TimersKept, LeftBehind, Stopped, CommandSteps
  <2>2. Train!Clear
    BY <2>1 DEF Train!Clear, Live
  <2> QED
    BY <2>2 DEF Train!Next
<1>8. CASE Renew(t)
  BY <1>2, <1>8, TrainStands DEF Renew
<1>9. CASE \E e \in Entries : Add(t, e)
  <2>1. PICK e \in Entries : Add(t, e)
    BY <1>9
  <2>2. /\ Live' = Append(Live, e) /\ Position' = Position
        /\ UNCHANGED <<tim, mode, dds>>
    BY <1>2, <2>1 DEF Add
  <2>3. Train!Extend(e)
    BY <2>2 DEF Train!Extend, Live
  <2> QED
    BY <2>3 DEF Train!Next
<1>10. CASE Rewind(t)
  <2>1. /\ Live' = Live /\ Position' = 0 /\ tim = "reset" /\ tim' = "reset"
        /\ mode = "off" /\ mode' = "off"
    BY <1>2, <1>10 DEF Rewind, Kept, TimersKept, LeftBehind, Stopped, CommandSteps
  <2>2. Train!Rewind
    BY <2>1 DEF Train!Rewind, Live
  <2> QED
    BY <2>2 DEF Train!Next
<1>11. CASE Restart(t)
  <2>1. /\ Live' = Live /\ Position' = Position /\ tim = "reset" /\ tim' = "idle"
        /\ mode = "off" /\ index = 0 /\ elems # <<>> /\ pc[t] = "restart"
    BY <1>2, <1>11
    DEF Restart, Kept, TimersKept, SequenceKept, LeftBehind, Stopped, CommandSteps
  <2>2. Train!Start
    BY <1>2, <2>1 DEF Train!Start, Live
  <2> QED
    BY <2>2 DEF Train!Next
<1> QED
  BY <1>3, <1>4, <1>5, <1>6, <1>7, <1>8, <1>9, <1>10, <1>11 DEF Command, Rfkill

\* Steps of the callback: the train is armed by the last one.
LEMMA TrainCallback ==
  ASSUME Context, NEW t \in Tasks, TypeOK, Kept(t), Kept(t)', Mapped(t), Mapped(t)',
         Callback(t)
  PROVE  [Train!Next]_Train!vars
<1>1. elems' = elems /\ pc[t] # "renew" /\ pc'[t] # "renew"
  <2>1. elems' = elems
    BY DEF Callback, StartStreams, Fetch, Quench, Program, StartUpdate, StartBurst, Prime, Arm, cpu
  <2>2. pc[t] # "renew" /\ pc'[t] # "renew"
    BY DEF Callback, StartStreams, Fetch, Quench, Program, StartUpdate, StartBurst, Prime, Arm,
           Goto, TypeOK
  <2> QED
    BY <2>1, <2>2
<1>2. Live = elems /\ Live' = elems
  BY <1>1 DEF Mapped
<1>3. CASE Fetch(t)
  <2>1. pc[t] = "fetch" /\ pc'[t] = "quench" /\ index' = Index /\ UNCHANGED <<tim, dds, mode>>
    BY <1>3 DEF Fetch, Goto, TypeOK, dev
  <2>2. Position = index /\ Position' = Before'
    BY <2>1 DEF Mapped, Loaders, Streams
  <2>3. Before' = index
    BY <2>1, Counted DEF Index, Before, TypeOK
  <2> QED
    BY <1>2, <2>1, <2>2, <2>3, TrainStands DEF Phase, Lit
<1>4. CASE Quench(t) \/ Program(t) \/ StartStreams(t) \/ Prime(t)
  <2>1. /\ pc[t] \in Loaders \cup {"quench", "arm"} /\ pc'[t] \in Loaders \cup {"quench", "arm"}
        /\ index' = index
    BY <1>4 DEF Quench, Program, StartStreams, StartUpdate, StartBurst, Prime, Goto, TypeOK, cpu,
            Loaders, Streams, Kept, Alone, Hung
  <2>2. Position' = Position
    BY <2>1 DEF Mapped, Before
  <2>3. tim \in {"idle", "done", "primed"} /\ tim' \in {"idle", "done", "primed"}
    BY <2>1 DEF Kept, TimersKept
  <2> QED
    BY <1>2, <2>2, <2>3, TrainStands DEF Phase, Lit
<1>5. CASE Arm(t)
  <2>1. pc[t] = "arm" /\ pc'[t] = "idle" /\ tim = "primed" /\ tim' = "armed"
        /\ UNCHANGED <<index, dds, mode>>
    BY <1>5 DEF Arm, Goto, TypeOK, Kept, TimersKept, Hung, dev
  <2>2. Position = Before /\ Position' = index
    BY <2>1 DEF Mapped, Loaders, Streams
  <2>3. index = (Before + 1) % IndexWrap
    <3>1. index \in 0 .. IndexWrap - 1 /\ IndexWrap \in Nat \ {0}
      BY DEF TypeOK, Context, BoundsAssumption
    <3>2. CASE index = 0
      <4>1. IndexWrap % IndexWrap = 0
        BY <3>1
      <4> QED
        BY <3>1, <3>2, <4>1 DEF Before
    <3>3. CASE index # 0
      <4>1. index % IndexWrap = index
        BY <3>1
      <4> QED
        BY <3>1, <3>3, <4>1 DEF Before
    <3> QED
      BY <3>2, <3>3
  <2>4. dds = elems[(Before % Len(elems)) + 1]
    BY <2>1 DEF Kept, LoadedKept
  <2>5. Train!Load
    BY <1>2, <2>1, <2>2, <2>3, <2>4 DEF Train!Load, Phase, Live
  <2> QED
    BY <2>5 DEF Train!Next
<1> QED
  BY <1>3, <1>4, <1>5 DEF Callback

\* With a silenced trigger every step of the sequencer is a step of a pulse
\* train or none of its business: the entries are emitted one per trigger, in
\* order and cyclically, from the first one after every start; nothing sounds
\* that was not asked for.  (sequencer.c:178-234, the safety of Refines)
THEOREM GatedTrain ==
  ASSUME Gated
  PROVE  Spec => Train!Init /\ [][Train!Next]_Train!vars
<1>1. Context
  BY InitTaskAssumption, EntriesAssumption, VerbsAssumption, BoundsAssumption,
     GatedAssumption DEF Context
<1>2. Init => Train!Init
  <2> SUFFICES ASSUME Init PROVE Train!Init
    OBVIOUS
  <2>1. ~Loading
    BY DEF Init, Loading, Streams
  <2> QED
    BY <2>1 DEF Init, Train!Init, Freed, Phase, Position
<1> DEFINE Seen == \A t \in Tasks : Kept(t) => Mapped(t)
<1>3. GatedInv => Seen
  BY <1>1, LiveIs, PositionIs DEF GatedInv, Kept, Mapped
<1>4. GatedInv /\ GatedInv' /\ Seen /\ Seen' /\ [Next]_vars => [Train!Next]_Train!vars
  <2> SUFFICES ASSUME GatedInv, GatedInv', Seen, Seen', [Next]_vars
               PROVE  [Train!Next]_Train!vars
    OBVIOUS
  <2>1. PICK t \in Tasks : Kept(t)
    BY DEF GatedInv
  <2>2. CASE \E u \in Tasks : Step(u)
    <3>1. Step(t)
      BY <2>1, <2>2, NoOther DEF Kept
    <3>2. Kept(t)'
      BY <1>1, <2>1, <3>1, GatedCommand, GatedCallback DEF GatedInv, Step
    <3>3. Mapped(t) /\ Mapped(t)'
      BY <2>1, <3>2
    <3>4. CASE Command(t)
      BY <1>1, <2>1, <3>2, <3>3, <3>4, TrainCommand DEF GatedInv
    <3>5. CASE Callback(t)
      BY <1>1, <2>1, <3>2, <3>3, <3>5, TrainCallback DEF GatedInv
    <3> QED
      BY <3>1, <3>4, <3>5 DEF Step
  <2>3. CASE UNCHANGED vars
    BY <2>3, TrainStands
    DEF vars, cpu, io, dma, dev, Live, Freed, Phase, Position, Loading, Lit
  <2>4. CASE Next /\ ~ \E u \in Tasks : Step(u)
    BY <1>1, <2>1, <2>4, TrainEnvironment DEF GatedInv, Next
  <2> QED
    BY <2>2, <2>3, <2>4
<1> QED
  BY <1>2, <1>3, <1>4, GatedInvariance, PTL DEF Spec
=============================================================================
