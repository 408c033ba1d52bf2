------------------------------- MODULE Follow -------------------------------
(***************************************************************************)
(* The `wait` command, wait_mcast_packet() of uart_cli.c: the generator    *)
(* follows a recording system (DDC) that acknowledges triggers with UDP    *)
(* packets.  The command reads the event queue (events.c), into which the  *)
(* capture interrupt of TIM2 puts every trigger, the completion callback   *)
(* every READY and the daemon of ack.c every packet.                       *)
(*                                                                         *)
(* The sequencer is seen from outside: off, armed, emitting, or done with  *)
(* its completion callback pending (module Sequencer).  A client over TCP  *)
(* runs the command in a task of its own; over the UART it runs in the     *)
(* init task, which is the one that also runs the completion callbacks.    *)
(***************************************************************************)
EXTENDS Integers, Sequences, FiniteSets

CONSTANTS
  QueueCap,   (* length of the event queue (events.c: 32)                  *)
  MaxSince,   (* bound: triggers after the last acknowledgement            *)
  Uart,       (* the command was typed on the UART                         *)
  Lossless    (* events come no faster than the command consumes them      *)

ASSUME QueueCapAssumption == QueueCap \in Nat \ {0}
ASSUME MaxSinceAssumption == MaxSince \in Nat \ {0, 1}
ASSUME ModeAssumption == Uart \in BOOLEAN /\ Lossless \in BOOLEAN

VARIABLES
  step,     (* where wait_mcast_packet() is                                *)
  unacked,  (* triggers_unacknowledged                                     *)
  events,   (* event_queue                                                 *)
  gen,      (* the sequencer: "off", "armed", "emitting" or "done"         *)
  pending,  (* a completion callback is in the deferred queue              *)
  ready,    (* the callback has armed and is about to push READY           *)
  closed,   (* the operator has closed the session                         *)
  since,    (* history: triggers since the last packet, at most MaxSince   *)
  acked     (* history: a packet came since the queue was first purged     *)

vars == <<step, unacked, events, gen, pending, ready, closed, since, acked>>

Steps == {"purge", "announce", "await", "repurge", "run", "watch", "reset", "over"}

Events == {"TRIG", "READY", "ACK"}

TypeOK ==
  /\ step \in Steps
  /\ unacked \in {0, 1, 2, 99}
  /\ events \in Seq(Events) /\ Len(events) <= QueueCap
  /\ gen \in {"off", "armed", "emitting", "done"}
  /\ pending \in BOOLEAN /\ ready \in BOOLEAN /\ closed \in BOOLEAN
  /\ since \in 0 .. MaxSince
  /\ acked \in BOOLEAN

\* The command starts on a queue nobody has been reading and a sequencer that
\* is off or runs.
Init ==
  /\ step = "purge" /\ unacked = 99
  /\ events \in UNION {[1 .. n -> Events] : n \in 0 .. QueueCap}
  /\ gen \in {"off", "armed"} /\ pending = FALSE /\ ready = FALSE
  /\ closed = FALSE /\ since = 0 /\ acked = FALSE

\* xQueueSend() and xQueueSendFromISR(): a full queue drops the event.
Push(e) ==
  events' = IF Len(events) < QueueCap THEN Append(events, e) ELSE events

\* Under Lossless, room is left for an event of the command and a READY.
Room == Lossless /\ step # "over" => Len(events) + 3 <= QueueCap

-----------------------------------------------------------------------------
(* The surroundings.                                                        *)

\* A trigger edge is captured whenever TIM2 runs; it starts an armed pulse.
Trigger ==
  /\ gen # "off" /\ Room
  /\ gen' = IF gen = "armed" THEN "emitting" ELSE gen
  /\ since' = IF since < MaxSince THEN since + 1 ELSE since
  /\ Push("TRIG")
  /\ UNCHANGED <<step, unacked, pending, ready, closed, acked>>

\* A packet of the DDC.
Packet ==
  /\ Room /\ Push("ACK")
  /\ since' = 0 /\ acked' = TRUE
  /\ UNCHANGED <<step, unacked, gen, pending, ready, closed>>

\* The emission ends and its interrupt queues the callback.
PulseEnds ==
  /\ gen = "emitting"
  /\ gen' = "done" /\ pending' = TRUE
  /\ UNCHANGED <<step, unacked, events, ready, closed, since, acked>>

\* The init task is busy with the command itself if that came over the UART.
DaemonFree == Uart => step = "over"

\* pulse_complete_callback(): loads and arms, on timers that are in reset
\* without effect.
Rearm ==
  /\ DaemonFree /\ pending /\ ~ready
  /\ pending' = FALSE /\ ready' = TRUE
  /\ gen' = IF gen = "off" THEN "off" ELSE "armed"
  /\ UNCHANGED <<step, unacked, events, closed, since, acked>>

\* Its last statement pushes the READY event.
PushReady ==
  /\ ready /\ ready' = FALSE
  /\ Push("READY")
  /\ UNCHANGED <<step, unacked, gen, pending, closed, since, acked>>

\* The operator leaves: from now on printf() to the session fails.
Close ==
  /\ ~closed /\ ~Uart /\ closed' = TRUE
  /\ UNCHANGED <<step, unacked, events, gen, pending, ready, since, acked>>

-----------------------------------------------------------------------------
(* wait_mcast_packet().                                                     *)

Goto(from, to) == step = from /\ step' = to

\* What printf() reports: it fails on a session that is gone, and may fail on
\* one whose send buffer is full; on the UART it does not.
Printf(sent) == (closed => ~sent) /\ (Uart => sent)

\* Mutant: the queue is not emptied first.
PurgeNot ==
  /\ Goto("purge", "announce")
  /\ UNCHANGED <<unacked, events, gen, pending, ready, closed, since, acked>>

\* The queue is emptied.
Purge ==
  /\ Goto("purge", "announce")
  /\ events' = <<>> /\ acked' = FALSE
  /\ UNCHANGED <<unacked, gen, pending, ready, closed, since>>

\* printf("Waiting..."): a failure ends the command.
Announce ==
  /\ \E sent \in BOOLEAN : Printf(sent) /\ Goto("announce", IF sent THEN "await" ELSE "over")
  /\ UNCHANGED <<unacked, events, gen, pending, ready, closed, since, acked>>

\* Events are received until the first acknowledgement.
Await ==
  /\ events # <<>>
  /\ events' = Tail(events)
  /\ IF Head(events) = "ACK"
     THEN Goto("await", "repurge") /\ unacked' = 0
     ELSE Goto("await", "await") /\ UNCHANGED unacked
  /\ UNCHANGED <<gen, pending, ready, closed, since, acked>>

\* No event for 1000 ms.
AwaitTimeout ==
  /\ events = <<>> /\ Goto("await", "announce")
  /\ UNCHANGED <<unacked, events, gen, pending, ready, closed, since, acked>>

\* Mutant: the queue is not emptied.
RepurgeNot ==
  /\ Goto("repurge", "run")
  /\ since' = 0
  /\ UNCHANGED <<unacked, events, gen, pending, ready, closed, acked>>

\* The queue is emptied again.
Repurge ==
  /\ Goto("repurge", "run")
  /\ events' = <<>> /\ since' = 0
  /\ UNCHANGED <<unacked, gen, pending, ready, closed, acked>>

\* sequencer_run(): arms the first pulse and pushes READY.
Run ==
  /\ Goto("run", "watch")
  /\ gen' = "armed" /\ Push("READY")
  /\ UNCHANGED <<unacked, pending, ready, closed, since, acked>>

\* printf() is not called for an acknowledgement of nothing.
Fails(e, sent) == ~sent /\ ~(e = "ACK" /\ unacked = 0)

\* Mutant: READY falls through into the acknowledgement (a missing break).
CountFallsThrough(n, e) == IF e = "TRIG" THEN n + 1 ELSE 0

Count(n, e) == CASE e = "TRIG" -> n + 1
                 [] e = "ACK"  -> 0
                 [] OTHER      -> n

\* Mutant: a failing printf() does not end the command.
WatchDeaf ==
  /\ step = "watch" /\ events # <<>>
  /\ events' = Tail(events)
  /\ unacked' = Count(unacked, Head(events))
  /\ step' = IF unacked' >= 2 THEN "reset" ELSE "watch"
  /\ UNCHANGED <<gen, pending, ready, closed, since, acked>>

\* An event is received and counted; two triggers without an acknowledgement,
\* or a failing printf(), end the loop.
Watch ==
  /\ step = "watch" /\ events # <<>>
  /\ events' = Tail(events)
  /\ unacked' = Count(unacked, Head(events))
  /\ \E sent \in BOOLEAN :
       /\ Printf(sent)
       /\ step' = IF unacked' >= 2 \/ Fails(Head(events), sent) THEN "reset" ELSE "watch"
  /\ UNCHANGED <<gen, pending, ready, closed, since, acked>>

\* No event for 1000 ms ends it too.
WatchTimeout ==
  /\ events = <<>> /\ Goto("watch", "reset")
  /\ UNCHANGED <<unacked, events, gen, pending, ready, closed, since, acked>>

\* sequencer_reset().
Reset ==
  /\ Goto("reset", "over")
  /\ gen' = "off"
  /\ UNCHANGED <<unacked, events, pending, ready, closed, since, acked>>

Command ==
  \/ Purge \/ Announce \/ Await \/ AwaitTimeout \/ Repurge \/ Run
  \/ Watch \/ WatchTimeout \/ Reset

Next ==
  \/ Trigger \/ Packet \/ PulseEnds \/ Rearm \/ PushReady \/ Close
  \/ Command

\* Tasks are time-sliced, a pulse ends, and 1000 ms of silence pass; nobody
\* promises triggers, packets or the end of the session.
Fairness ==
  /\ WF_vars(PulseEnds) /\ WF_vars(Rearm) /\ WF_vars(PushReady)
  /\ WF_vars(Command)

Spec == Init /\ [][Next]_vars /\ Fairness

\* A radar that keeps triggering while TIM2 runs.
TriggeredSpec == Spec /\ SF_vars(Trigger)

-----------------------------------------------------------------------------
(* Properties.                                                              *)

Acks == {i \in DOMAIN events : events[i] = "ACK"}

\* Triggers in the queue behind the last packet there.
Unanswered == {i \in DOMAIN events : events[i] = "TRIG" /\ \A j \in Acks : j < i}

\* Triggers counted, but for a packet to come, and triggers yet to be counted.
Total == (IF Acks = {} THEN unacked ELSE 0) + Cardinality(Unanswered)

\* What the command has counted and what it has yet to read add up to the
\* triggers that came since the last packet: none is lost or counted twice,
\* and any packet acknowledges all of them.  (uart_cli.c:1149)
CountsExact ==
  step = "watch" => since = IF Total > MaxSince THEN MaxSince ELSE Total

\* The sequencer starts only after a packet that came after the command.
\* (uart_cli.c:1147 "start at the first packet")
StartsOnPacket == [][step = "run" /\ step' = "watch" => acked]_vars

\* Two triggers without a packet, and without one to follow, stop the sequencer.
\* (uart_cli.c:1147 "stop if there are two unacknowledged triggers")
StopsUnacked == (step = "watch" /\ since >= 2) ~> (since < 2 \/ gen = "off")

\* The generator follows: after each pulse it gets ready for the next one.
\* (users_manual.md:295)
KeepsUp == (gen = "done") ~> (gen # "done")

\* Closing the session stops a generator that is following.
\* (users_manual.md:307 "the generator stops after c2.py is closed")
CloseStops == (closed /\ step = "watch") ~> (gen = "off")
=============================================================================
