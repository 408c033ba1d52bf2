---------------------------- MODULE MCSequencer ----------------------------
(***************************************************************************)
(* Sequencer for TLC: a client, and two entries of which one has an image. *)
(***************************************************************************)
EXTENDS Sequencer

CONSTANTS daemon, client, e1, e2

OneClient  == {client}
NoClients  == {}
TwoEntries == {e1, e2}
WithRam    == {e2}
=============================================================================
