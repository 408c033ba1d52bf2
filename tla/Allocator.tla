----------------------------- MODULE Allocator ------------------------------
(***************************************************************************)
(* What the firmware's heap promises to the tasks that share it: what is   *)
(* handed out is large enough, touches nothing that another holds, stays   *)
(* theirs until they give it back, and is available again then.  Where it  *)
(* lies is the allocator's choice.                                         *)
(***************************************************************************)
EXTENDS Integers, FiniteSetsExt

CONSTANTS
  End,      (* units of memory                                             *)
  MaxSize,  (* bound: largest size asked for                               *)
  Header,   (* units that a block takes beyond its memory                  *)
  Excess    (* units that it may have beyond that                          *)

VARIABLES
  given,    (* the blocks that tasks hold                                  *)
  room      (* units that are left                                         *)

vars == <<given, room>>

Blocks == [at : 0 .. End - 1, size : 1 .. End]

Apart(b, c) == b.at + b.size <= c.at \/ c.at + c.size <= b.at

Init == given = {} /\ room = End

\* b is a block for n units that nobody holds, of those in `held`.
Serves(b, n, held) ==
  /\ b.at + b.size <= End
  /\ b.size \in n + Header .. n + Header + Excess
  /\ \A c \in held : Apart(b, c)

\* malloc() of n.
Give(n) ==
  \E b \in Blocks :
    /\ Serves(b, n, given)
    /\ given' = given \cup {b} /\ room' = room - b.size

\* free() of b.
Back(b) == given' = given \ {b} /\ room' = room + b.size

\* realloc() of b for n: while the memory is copied both are held.
Exchange(b, n) ==
  \E c \in Blocks :
    /\ Serves(c, n, given)
    /\ given' = (given \cup {c}) \ {b} /\ room' = room - c.size + b.size

Next ==
  \/ \E n \in 1 .. MaxSize : Give(n)
  \/ \E b \in given : Back(b) \/ \E n \in 1 .. MaxSize : Exchange(b, n)

Spec == Init /\ [][Next]_vars
=============================================================================
