---------------------------- MODULE MasterTimer ----------------------------
(***************************************************************************)
(* Time in timer/sequencing.c: TIM2 counts since the sequencer was started *)
(* and its interrupt counts its overflows.  The time of a trigger is the   *)
(* count captured by TIM2 on the edge, which the interrupt handler extends *)
(* by the overflows; other events are stamped by the tasks that push them  *)
(* with logic_blaster_hrtime(), which reads the same two counters.         *)
(***************************************************************************)
EXTENDS Integers

CONSTANTS
  Period,   (* of TIM2 (2^32)                                              *)
  MaxTime   (* bound: ticks since the start                                *)

ASSUME PeriodAssumption == Period \in Nat /\ Period > 1
ASSUME MaxTimeAssumption == MaxTime \in Nat

VARIABLES
  held,     (* TIM2 is held in reset                                       *)
  cnt,      (* CNT                                                         *)
  ccr1,     (* CCR1: the count at the last edge                            *)
  flags,    (* interrupt flags: "update", "cc1"                            *)
  up,       (* master_timer_up                                             *)
  isr,      (* where HAL_TIM_IRQHandler() is, "out" when not running       *)
  seen,     (* the flags it has sampled                                    *)
  stamp,    (* timestamp of the last trigger event                         *)
  hi, lo,   (* what a task in logic_blaster_hrtime() has read, or Unread   *)
  now,      (* history: ticks since the start                              *)
  edge,     (* history: time of the last edge                              *)
  begun     (* history: when that task began to read                       *)

timer   == <<held, cnt, ccr1>>
handler == <<isr, seen, stamp>>
read    == <<hi, lo, begun>>
clock   == <<timer, flags, up, handler, read, now, edge>>

Unread == -1

Times == 0 .. MaxTime

ClockTypeOK ==
  /\ held \in BOOLEAN
  /\ cnt \in 0 .. Period - 1 /\ ccr1 \in 0 .. Period - 1
  /\ flags \subseteq {"update", "cc1"} /\ seen \subseteq {"update", "cc1"}
  /\ up \in Nat
  /\ isr \in {"out", "cc1", "capture", "update"}
  /\ stamp \in Nat
  /\ hi \in Nat \cup {Unread} /\ lo \in 0 .. Period - 1 \cup {Unread}
  /\ now \in Times /\ edge \in Times /\ begun \in Times

ClockInit ==
  /\ held = TRUE /\ cnt = 0 /\ ccr1 = 0 /\ flags = {} /\ up = 0
  /\ isr = "out" /\ seen = {} /\ stamp = 0
  /\ hi = Unread /\ lo = Unread
  /\ now = 0 /\ edge = 0 /\ begun = 0

-----------------------------------------------------------------------------
(* TIM2.                                                                    *)

Wraps == cnt = Period - 1

\* The timer counts.  An overflow is handled before the next (20 s later).
Tick ==
  /\ ~held /\ now < MaxTime
  /\ Wraps => "update" \notin flags
  /\ now' = now + 1
  /\ cnt' = (cnt + 1) % Period
  /\ flags' = IF Wraps THEN flags \cup {"update"} ELSE flags
  /\ UNCHANGED <<held, ccr1, up, handler, read, edge>>

\* A trigger edge.
Edge ==
  /\ ~held
  /\ ccr1' = cnt /\ flags' = flags \cup {"cc1"}
  /\ edge' = now
  /\ UNCHANGED <<held, cnt, up, handler, read, now>>

-----------------------------------------------------------------------------
(* TIM2_IRQHandler().                                                       *)

\* The flags are sampled.
Enter ==
  /\ isr = "out" /\ flags # {}
  /\ isr' = "cc1" /\ seen' = flags
  /\ UNCHANGED <<timer, flags, up, stamp, read, now, edge>>

\* A capture that was seen is cleared ...
ClearCapture ==
  /\ isr = "cc1"
  /\ IF "cc1" \in seen THEN isr' = "capture" /\ flags' = flags \ {"cc1"}
                       ELSE isr' = "update" /\ UNCHANGED flags
  /\ UNCHANGED <<timer, up, seen, stamp, read, now, edge>>

\* Mutant: the overflow that was seen is counted in the stamp.
CaptureUpdated ==
  /\ isr = "capture"
  /\ stamp' = (IF "update" \in seen THEN up + 1 ELSE up) * Period + ccr1
  /\ isr' = "update"
  /\ UNCHANGED <<timer, flags, up, seen, read, now, edge>>

\* ... and HAL_TIM_IC_CaptureCallback() pushes the event.
Capture ==
  /\ isr = "capture"
  /\ stamp' = up * Period + ccr1
  /\ isr' = "update"
  /\ UNCHANGED <<timer, flags, up, seen, read, now, edge>>

\* An overflow that was seen is cleared and counted.
Update ==
  /\ isr = "update"
  /\ up' = IF "update" \in seen THEN up + 1 ELSE up
  /\ flags' = flags \ (seen \cap {"update"})
  /\ isr' = "out" /\ seen' = {}
  /\ UNCHANGED <<timer, stamp, read, now, edge>>

-----------------------------------------------------------------------------
(* Tasks: a pending interrupt preempts them.                                *)

TaskRuns == isr = "out" /\ flags = {}

\* timer_stop().
Stop ==
  /\ TaskRuns /\ ~held
  /\ held' = TRUE /\ cnt' = 0 /\ ccr1' = 0
  /\ UNCHANGED <<flags, up, handler, read, now, edge>>

\* Mutant: the overflows of the last run are kept.
RestartOld ==
  /\ TaskRuns /\ held
  /\ held' = FALSE
  /\ stamp' = 0 /\ now' = 0 /\ edge' = 0
  /\ hi' = Unread /\ lo' = Unread /\ begun' = 0
  /\ UNCHANGED <<cnt, ccr1, flags, up, isr, seen>>

\* timer_restart(): time starts anew.  A task that is about to read the clock
\* of the last run is not followed further.
Restart ==
  /\ TaskRuns /\ held
  /\ held' = FALSE /\ up' = 0
  /\ stamp' = 0 /\ now' = 0 /\ edge' = 0
  /\ hi' = Unread /\ lo' = Unread /\ begun' = 0
  /\ UNCHANGED <<cnt, ccr1, flags, isr, seen>>

\* logic_blaster_hrtime() reads two counters, in the order of the compiler's
\* choice.
Begin == IF hi = Unread /\ lo = Unread THEN now ELSE begun

ReadUp ==
  /\ TaskRuns /\ ~held /\ hi = Unread
  /\ hi' = up /\ begun' = Begin
  /\ UNCHANGED <<timer, flags, up, handler, lo, now, edge>>

ReadCnt ==
  /\ TaskRuns /\ ~held /\ lo = Unread
  /\ lo' = cnt /\ begun' = Begin
  /\ UNCHANGED <<timer, flags, up, handler, hi, now, edge>>

BothRead == hi # Unread /\ lo # Unread

\* It returns hrtime.
Return ==
  /\ TaskRuns /\ BothRead
  /\ hi' = Unread /\ lo' = Unread
  /\ UNCHANGED <<timer, flags, up, handler, begun, now, edge>>

ClockNext ==
  \/ Tick \/ Edge
  \/ Enter \/ ClearCapture \/ Capture \/ Update
  \/ Stop \/ Restart \/ ReadUp \/ ReadCnt \/ Return

ClockSpec == ClockInit /\ [][ClockNext]_clock

-----------------------------------------------------------------------------
(* Properties.                                                              *)

Pending == IF "update" \in flags THEN Period ELSE 0

\* The overflows that were counted, the one that is pending and the counter
\* make up the time since the sequencer was started: none is lost or counted
\* twice, however late the interrupt is and whatever it interrupts.
\* (timer/sequencing.c:70-71)
ClockExact == ~held => up * Period + cnt + Pending = now

\* A trigger is stamped with the time of its edge, or, if it comes with an
\* overflow that is yet to be counted, with one that is a period early, but
\* never with another time.
StampSound ==
  [][Capture => \/ stamp' = edge
                \/ stamp' = edge - Period /\ "update" \in flags]_clock

\* Triggers are stamped in the order in which they came.
\* (users_manual.md:297 "a stream of events tied to the time")
StampsOrdered == [][Capture => stamp <= stamp']_clock

hrtime == hi * Period + lo

\* What logic_blaster_hrtime() returns is a time at which it ran.
\* (timer/sequencing.c:70 "to get the time with high resolution")
ReadsTrue == BothRead => hrtime \in begun .. now
=============================================================================
