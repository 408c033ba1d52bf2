----------------------------- MODULE MCCommands -----------------------------
(***************************************************************************)
(* Commands on a small instance: a clock of 3 periods in 2 ns, playback    *)
(* and ramp with a clock of 3 ns, tuning words of 5 bits, rates of 2.      *)
(***************************************************************************)
EXTENDS Commands

\* strtoul() of the words "0" and "1".
MCNumber(w) == IF w = "1" THEN 1 ELSE 0

\* Every query that the loader makes of a list of two items.
MCQueries == {<<>>} \cup {<<w, name>> : w \in {"0", "1"}, name \in {"hold_ns", "state"}}

MCRises == {-2, -1, 0, 1, 2}
=============================================================================
