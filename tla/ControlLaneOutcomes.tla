------------------------- MODULE ControlLaneOutcomes -------------------------
(***************************************************************************)
(* The control lane implements ControlOutcomes: a transaction's status is  *)
(* the outcome of its command, its dependsOnControlVersion what it needs.  *)
(***************************************************************************)
EXTENDS ControlLane

Outcomes == INSTANCE ControlOutcomes WITH
    outcome <- [v \in Versions |-> tx[v].status],
    needs <- [v \in Versions |-> tx[v].dependsOn]

(* Whatever the timers, connections and restarts do, a controller sees     *)
(* numbered commands with one outcome each, in order and with their        *)
(* dependencies, database failures included.                               *)
ImplementsOutcomes == Outcomes!Spec

(* Without database failures it also sees an outcome for each of them.     *)
ImplementsFairOutcomes == Outcomes!FairSpec

=============================================================================
