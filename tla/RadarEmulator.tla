--------------------------- MODULE RadarEmulator ---------------------------
(***************************************************************************)
(* The pulse generator of timer/emulator.c that stands in for a radar.     *)
(* TIM14 gives one pulse per period.  For a limited number of pulses its   *)
(* update interrupt counts the periods, and while the last one runs loads  *)
(* a period of zero, which the timer takes over when the period ends: with *)
(* that it stands still.                                                   *)
(***************************************************************************)
EXTENDS Integers

CONSTANTS
  Limits,    (* the numbers of pulses asked for; 0 is no limit             *)
  MaxCount   (* bound: pulses that are counted                             *)

ASSUME LimitsAssumption == Limits \subseteq Nat
ASSUME MaxCountAssumption == MaxCount \in Nat /\ \A n \in Limits : n < MaxCount

VARIABLES
  step,     (* where timer14_init() is: "reset", "limit", "count",         *)
            (* "start", or "idle" when nobody calls it                     *)
  limit,    (* its argument                                                *)
  on,       (* the counter is enabled                                      *)
  preload,  (* the period in ARR: "set" or "zero"                          *)
  shadow,   (* the period the counter runs with                            *)
  uif,      (* the update flag of TIM14                                    *)
  uie,      (* its interrupt is enabled                                    *)
  remain,   (* pulses_remain                                               *)
  sent      (* history: pulses since the start, at most MaxCount           *)

tim14    == <<on, preload, shadow>>
emulator == <<step, limit, tim14, uif, uie, remain, sent>>

EmulatorTypeOK ==
  /\ step \in {"reset", "limit", "count", "start", "idle"}
  /\ limit \in Limits \cup {0}
  /\ on \in BOOLEAN /\ uif \in BOOLEAN /\ uie \in BOOLEAN
  /\ preload \in {"set", "zero"} /\ shadow \in {"set", "zero"}
  /\ remain \in Nat
  /\ sent \in 0 .. MaxCount

\* system_init() has started an endless series.
EmulatorInit ==
  /\ step = "idle" /\ limit = 0
  /\ on = TRUE /\ preload = "set" /\ shadow = "set"
  /\ uif = TRUE /\ uie = FALSE
  /\ remain = 0 /\ sent = 0

PeriodOver == uif /\ uie
SetupRuns  == ~PeriodOver       \* it has the highest priority

-----------------------------------------------------------------------------
\* A period ends: its pulse has been given (it is at the end of the period).
\* The interrupt of the period before has been handled.
Overflow ==
  /\ on /\ shadow = "set" /\ ~PeriodOver
  /\ sent' = IF sent < MaxCount THEN sent + 1 ELSE sent
  /\ shadow' = preload /\ uif' = TRUE
  /\ UNCHANGED <<step, limit, on, preload, uie, remain>>

\* Mutant: the interrupt is disabled but the period is left as it is.
ScheduleStopNot ==
  IF remain > 1
  THEN remain' = remain - 1 /\ UNCHANGED <<preload, uie>>
  ELSE uie' = FALSE /\ UNCHANGED <<preload, remain>>

\* timer14_schedule_stop().
ScheduleStop ==
  IF remain > 1
  THEN remain' = remain - 1 /\ UNCHANGED <<preload, uie>>
  ELSE preload' = "zero" /\ uie' = FALSE /\ UNCHANGED remain

\* The interrupt: HAL_TIM_IRQHandler() clears the flag, unless the interrupt
\* has just been disabled.
HandlePeriod ==
  /\ PeriodOver
  /\ ScheduleStop
  /\ uif' = ~uie'
  /\ UNCHANGED <<step, limit, on, shadow, sent>>

-----------------------------------------------------------------------------
(* radar_emulator_start(), radar_emulator_stop().                           *)

\* The command has been parsed.
Call(n) ==
  /\ SetupRuns /\ step = "idle"
  /\ step' = "reset" /\ limit' = n
  /\ UNCHANGED <<tim14, uif, uie, remain, sent>>

\* TIM14 is reset and set up; the update event that loads the period raises
\* the flag.
Reset ==
  /\ SetupRuns /\ step = "reset"
  /\ on' = FALSE /\ preload' = "set" /\ shadow' = "set"
  /\ uif' = TRUE /\ uie' = FALSE /\ sent' = 0
  /\ step' = IF limit = 0 THEN "start" ELSE "limit"
  /\ UNCHANGED <<limit, remain>>

\* Mutant: the flag is not cleared first.
LimitRaised ==
  /\ SetupRuns /\ step = "limit"
  /\ remain' = limit /\ uie' = TRUE
  /\ step' = "count"
  /\ UNCHANGED <<limit, tim14, uif, sent>>

\* The flag is cleared before the interrupt is enabled.
Limit ==
  /\ SetupRuns /\ step = "limit"
  /\ remain' = limit /\ uif' = FALSE /\ uie' = TRUE
  /\ step' = "count"
  /\ UNCHANGED <<limit, tim14, sent>>

\* The first of the pulses is accounted for.
Count ==
  /\ SetupRuns /\ step = "count"
  /\ ScheduleStop
  /\ step' = "start"
  /\ UNCHANGED <<limit, on, shadow, uif, sent>>

Start ==
  /\ SetupRuns /\ step = "start"
  /\ on' = TRUE /\ step' = "idle"
  /\ UNCHANGED <<limit, preload, shadow, uif, uie, remain, sent>>

\* timer14_stop(): the counter is disabled.
Stop ==
  /\ SetupRuns /\ step = "idle" /\ on
  /\ on' = FALSE
  /\ UNCHANGED <<step, limit, preload, shadow, uif, uie, remain, sent>>

Setup == Reset \/ Limit \/ Count \/ Start

EmulatorNext ==
  \/ Overflow \/ HandlePeriod
  \/ \E n \in Limits : Call(n)
  \/ Setup \/ Stop

\* The timer counts, interrupts are taken, a command that was begun goes on.
EmulatorSpec ==
  /\ EmulatorInit /\ [][EmulatorNext]_emulator
  /\ WF_emulator(Overflow) /\ WF_emulator(HandlePeriod) /\ WF_emulator(Setup)

-----------------------------------------------------------------------------
(* Properties.                                                              *)

\* A limited series stands still only after exactly the pulses asked for, and
\* gives no more of them; an endless one never stands still, whatever series
\* it replaces.  (timer/emulator.c:36-37 "with limit = 0 pulses follow
\* endlessly, with limit = x there are x pulses")
ExactlyAsAsked ==
  step = "idle" => /\ limit > 0 => sent <= limit
                   /\ shadow = "zero" => limit > 0 /\ sent = limit

\* A limited series is given to its end, unless a command comes in between.
GivenInFull ==
  (step = "idle" /\ on /\ limit > 0)
    ~> ((shadow = "zero" /\ sent = limit) \/ ~on \/ step # "idle")
=============================================================================
