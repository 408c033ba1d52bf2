----------------------------- MODULE PulseTrain ----------------------------
(***************************************************************************)
(* What the sequencer promises the operator: the entries of a program are  *)
(* emitted one per trigger, in order and cyclically, from the first one    *)
(* after every start; a tone is continuous; and nothing is emitted when    *)
(* neither has been asked for.                                             *)
(***************************************************************************)
EXTENDS Integers, Sequences

CONSTANTS
  Entries,   (* the pulses                                                 *)
  IndexWrap  (* a common multiple of the program lengths in use            *)

VARIABLES
  program,   (* the entries to emit                                        *)
  phase,     (* "off", "tone", "gap", "armed" or "emitting"                *)
  pos,       (* number of entries armed since the start, modulo IndexWrap  *)
  lit        (* the entry armed or being emitted, "none" otherwise         *)

vars == <<program, phase, pos, lit>>

TypeOK ==
  /\ program \in Seq(Entries)
  /\ phase \in {"off", "tone", "gap", "armed", "emitting"}
  /\ pos \in 0 .. IndexWrap - 1
  /\ lit \in Entries \cup {"none"}

Init == program = <<>> /\ phase = "off" /\ pos = 0 /\ lit = "none"

Off == phase' = "off" /\ lit' = "none" /\ UNCHANGED <<program, pos>>

Clear == phase = "off" /\ program' = <<>> /\ UNCHANGED <<phase, pos, lit>>

Extend(e) == program' = Append(program, e) /\ UNCHANGED <<phase, pos, lit>>

Sound ==
  /\ phase = "off"
  /\ phase' = "tone"
  /\ UNCHANGED <<program, pos, lit>>

Rewind == phase = "off" /\ pos' = 0 /\ UNCHANGED <<program, phase, lit>>

Start ==
  /\ phase = "off" /\ program # <<>> /\ pos = 0
  /\ phase' = "gap"
  /\ UNCHANGED <<program, pos, lit>>

Load ==
  /\ phase = "gap"
  /\ phase' = "armed"
  /\ lit' = program[(pos % Len(program)) + 1]
  /\ pos' = (pos + 1) % IndexWrap
  /\ UNCHANGED program

Fire == phase = "armed" /\ phase' = "emitting" /\ UNCHANGED <<program, pos, lit>>

Done ==
  /\ phase = "emitting"
  /\ phase' = "gap" /\ lit' = "none"
  /\ UNCHANGED <<program, pos>>

Next ==
  \/ Off \/ Clear \/ Sound \/ Rewind \/ Start
  \/ \E e \in Entries : Extend(e)
  \/ Load \/ Fire \/ Done

\* Pulses that were triggered end and gaps between pulses end.
Spec == Init /\ [][Next]_vars /\ WF_vars(Load) /\ WF_vars(Done)
=============================================================================
