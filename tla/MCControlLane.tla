---------------------------- MODULE MCControlLane ----------------------------
(***************************************************************************)
(* The control lane on small instances.  The two kinds of command are one  *)
(* that changes the track and one that does not.                           *)
(***************************************************************************)
EXTENDS ControlLaneOutcomes

TwoKinds == {"player.next", "player.pause"}
TrackChangesOnly == {"player.next"}

=============================================================================
