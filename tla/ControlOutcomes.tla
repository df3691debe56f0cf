--------------------------- MODULE ControlOutcomes ---------------------------
(***************************************************************************)
(* What the control lane promises the controllers of a playback context,   *)
(* without locks, leases, connections or restarts: a command gets a number *)
(* and exactly one outcome, commands commit in the order of their numbers, *)
(* a command that needs another commits only after it and fails with it,   *)
(* and no command is left without an outcome.                              *)
(***************************************************************************)
EXTENDS Integers

CONSTANT Versions       \* the controlVersions a command can be given

VARIABLES
    outcome,            \* of each command, "absent" before it is issued
    needs               \* the command it needs, 0 if none

vars == <<outcome, needs>>

Init ==
    /\ outcome = [v \in Versions |-> "absent"]
    /\ needs = [v \in Versions |-> 0]

Unsettled == {v \in Versions : outcome[v] = "pending"}

Issue(v, d) ==
    /\ \A u \in Versions : u >= v => outcome[u] = "absent"
    /\ d \in Unsettled \cup {0}
    /\ outcome' = [outcome EXCEPT ![v] = "pending"]
    /\ needs' = [needs EXCEPT ![v] = d]

Commit(v) ==
    /\ v \in Unsettled
    /\ \A u \in Unsettled : v <= u
    /\ needs[v] # 0 => outcome[needs[v]] = "committed"
    /\ outcome' = [outcome EXCEPT ![v] = "committed"]
    /\ UNCHANGED needs

(* Commands fail together with everything that still needs them.           *)
Fail(S) ==
    /\ S # {} /\ S \subseteq Unsettled
    /\ \A w \in Unsettled : needs[w] \in S => w \in S
    /\ outcome' = [v \in Versions |-> IF v \in S THEN "failed" ELSE outcome[v]]
    /\ UNCHANGED needs

(* A person at the device overrides everything that is unsettled.          *)
Supersede ==
    /\ Unsettled # {}
    /\ outcome' = [v \in Versions |->
                    IF v \in Unsettled THEN "superseded" ELSE outcome[v]]
    /\ UNCHANGED needs

Next ==
    \/ \E v \in Versions, d \in Versions \cup {0} : Issue(v, d)
    \/ \E v \in Versions : Commit(v)
    \/ \E S \in SUBSET Versions : Fail(S)
    \/ Supersede

Settled(v) ==
    \/ Commit(v)
    \/ \E S \in SUBSET Versions : v \in S /\ Fail(S)
    \/ Supersede

Spec == Init /\ [][Next]_vars

FairSpec == Spec /\ \A v \in Versions : WF_vars(Settled(v))

=============================================================================
