-------------------------- MODULE ControlLane_proofs --------------------------
(***************************************************************************)
(* Proofs about the control lane for every bound, every set of actions and *)
(* of local intents, with and without database failures.                   *)
(***************************************************************************)
EXTENDS ControlLaneOutcomes, TLAPS

Table == [Versions -> Transaction]
Applied == Versions \cup {None}

(***************************************************************************)
(* The operators on the table return a table.                              *)
(***************************************************************************)
LEMMA NoTransactionType == NoTransaction \in Transaction
  BY DEF NoTransaction, Transaction, Statuses, Leases, Errors, None

LEMMA SettleType ==
  ASSUME NEW t \in Table, NEW v \in Versions, NEW status \in Statuses,
         NEW error \in Errors, NEW applied \in Applied
  PROVE  Settle(t, v, status, error, applied) \in Table
<1>1. [t[v] EXCEPT !.status = status, !.error = error, !.applied = applied] \in Transaction
  BY DEF Table, Transaction, Applied
<1> QED
  BY <1>1 DEF Settle, Table

LEMMA FailDependentsType ==
  ASSUME NEW t \in Table, NEW seeds, NEW r \in Versions, NEW applied \in Applied
  PROVE  FailDependents(t, seeds, r, applied) \in Table
<1> DEFINE D == Cascade(t, seeds)
<1> DEFINE F(v) == [t[v] EXCEPT
                     !.status = "failed", !.error = "dependency_failed",
                     !.applied = applied,
                     !.dependsOn = IF v \in seeds THEN r ELSE @]
<1>1. ASSUME NEW v \in Versions PROVE F(v) \in Transaction
  BY DEF Table, Transaction, Applied, Statuses, Errors
<1>2. FailDependents(t, seeds, r, applied) = [v \in Versions |-> IF v \notin D THEN t[v] ELSE F(v)]
  BY DEF FailDependents
<1> HIDE DEF F, D
<1> QED
  BY <1>1, <1>2 DEF Table

LEMMA GrantLeaseType ==
  ASSUME NEW t \in Table, NEW S
  PROVE  GrantLease(t, S) \in Table
<1> DEFINE F(v) == [t[v] EXCEPT !.lease = IF @ # "none" THEN @
                                    ELSE IF t[v].timed THEN "scheduled"
                                    ELSE "running"]
<1>1. ASSUME NEW v \in Versions PROVE F(v) \in Transaction
  BY DEF Table, Transaction, Leases
<1>2. GrantLease(t, S) = [v \in Versions |-> IF v \notin S THEN t[v] ELSE F(v)]
  BY DEF GrantLease
<1> HIDE DEF F
<1> QED
  BY <1>1, <1>2 DEF Table

LEMMA SettleUnknownType ==
  ASSUME TypeOK, NEW v
  PROVE  SettleUnknown(tx, v) \in Table
<1>1. tx \in Table
  BY DEF TypeOK, Table
<1>2. LastApplied \in Applied
  BY ConstantsAssumption DEF LastApplied, TypeOK, Applied, Versions, None
<1>3. CASE v \in Pending(tx)
  <2>1. v \in Versions
    BY <1>3 DEF Pending
  <2>2. Settle(tx, v, "failed", "execution_unknown", LastApplied) \in Table
    BY <1>1, <1>2, <2>1, SettleType DEF Statuses, Errors
  <2>3. FailDependents(Settle(tx, v, "failed", "execution_unknown", LastApplied),
                       DirectDependents(tx, v), v, LastApplied) \in Table
    BY <1>2, <2>1, <2>2, FailDependentsType
  <2> QED
    BY <1>3, <2>3 DEF SettleUnknown
<1>4. CASE v \notin Pending(tx)
  BY <1>1, <1>4 DEF SettleUnknown
<1> QED
  BY <1>3, <1>4

LEMMA SupersededType ==
  ASSUME NEW t \in Table, NEW by \in Versions
  PROVE  Superseded(t, by) \in Table
<1>1. ASSUME NEW v \in Versions
      PROVE  [t[v] EXCEPT !.status = "superseded", !.applied = by] \in Transaction
  BY DEF Table, Transaction, Statuses
<1> QED
  BY <1>1 DEF Superseded, Table

LEMMA RecoveredType ==
  ASSUME NEW t \in Table
  PROVE  Recovered(t) \in Table
<1>1. ASSUME NEW r \in Versions PROVE RootApplied(t, r) \in Applied
  BY DEF Table, Transaction, RootApplied, Applied, None
<1>2. ASSUME NEW v \in Versions PROVE Recovered(t)[v] \in Transaction
  <2> DEFINE P == \E r \in Roots(t) : v \in Cascade(t, {r})
             c == CHOOSE r \in Roots(t) : v \in Cascade(t, {r})
  <2>1. P => RootApplied(t, c) \in Applied
    BY <1>1 DEF Roots, Pending
  <2>2. CASE v \notin Pending(t)
    BY <2>2 DEF Recovered, Table
  <2>3. CASE v \in Pending(t) /\ v \in Roots(t)
    <3> DEFINE e == IF RootDependencyFailed(t, v) THEN "dependency_failed" ELSE "execution_unknown"
    <3>1. e \in Errors
      BY DEF Errors
    <3>2. Recovered(t)[v] = [t[v] EXCEPT
                !.status = "failed", !.applied = RootApplied(t, v), !.error = e]
      BY <2>3 DEF Recovered
    <3> HIDE DEF e
    <3> QED
      BY <3>1, <3>2, <1>1 DEF Table, Transaction, Statuses, Applied
  <2>4. CASE v \in Pending(t) /\ v \notin Roots(t) /\ P
    <3>1. Recovered(t)[v] = [t[v] EXCEPT
                !.status = "failed", !.error = "dependency_failed",
                !.applied = RootApplied(t, c)]
      BY <2>4 DEF Recovered
    <3> HIDE DEF c
    <3> QED
      BY <2>1, <2>4, <3>1 DEF Table, Transaction, Statuses, Errors, Applied
  <2>5. CASE v \in Pending(t) /\ v \notin Roots(t) /\ ~P
    <3>1. Recovered(t)[v] = [t[v] EXCEPT !.status = "failed", !.error = "execution_unknown"]
      BY <2>5 DEF Recovered
    <3> QED
      BY <3>1 DEF Table, Transaction, Statuses, Errors
  <2> QED
    BY <2>2, <2>3, <2>4, <2>5
<1>3. Recovered(t) = [v \in Versions |-> Recovered(t)[v]]
  BY DEF Recovered
<1> QED
  BY <1>2, <1>3 DEF Table

(***************************************************************************)
(* Type correctness.                                                       *)
(***************************************************************************)
LEMMA VersionsType == Versions \subseteq Nat /\ 1 \in Versions /\ None \notin Versions
  BY ConstantsAssumption DEF Versions, None

LEMMA NextVersionType ==
  ASSUME TypeOK, controlVersion < MaxControlVersion
  PROVE  controlVersion + 1 \in Versions
  BY ConstantsAssumption DEF TypeOK, Versions

LEMMA GiveUpType ==
  ASSUME TypeOK, NEW v, GiveUp(v)
  PROVE  tx' \in Table
  BY SettleUnknownType DEF GiveUp, TypeOK, Table

LEMMA KeepControlType ==
  ASSUME TypeOK, NEW t \in Table, NEW applied \in Versions, KeepControl(t, applied)
  PROVE  /\ controlVersion' \in Versions /\ tx' \in Table
         /\ device' \in Applied /\ reconciliations' \subseteq Reconciliation
  BY DEF KeepControl, TypeOK, Applied

LEMMA ReconcileType ==
  ASSUME TypeOK, NEW t \in Table, NEW applied \in Versions, Reconcile(t, applied)
  PROVE  /\ controlVersion' \in Versions /\ tx' \in Table
         /\ device' \in Applied /\ reconciliations' \subseteq Reconciliation
<1> DEFINE by == controlVersion + 1
<1>1. by \in Versions
  BY NextVersionType DEF Reconcile
<1>2. ASSUME NEW v \in Versions PROVE [t[v] EXCEPT !.reconciledBy = by] \in Transaction
  BY <1>1 DEF Table, Transaction
<1>3. tx' \in Table
  BY <1>2 DEF Reconcile, Table
<1>4. [from |-> applied, through |-> controlVersion] \in Reconciliation
  BY DEF TypeOK, Reconciliation
<1> QED
  BY <1>1, <1>3, <1>4 DEF Reconcile, TypeOK, Applied

LEMMA TypeStep == TypeOK /\ [Next]_vars => TypeOK'
<1> SUFFICES ASSUME TypeOK, [Next]_vars
             PROVE  TypeOK'
  OBVIOUS
<1> USE DEF Release
<1>0. tx \in Table
  BY DEF TypeOK, Table
<1>1. ASSUME NEW action \in Actions, NEW timed \in EffectiveAt, AcceptControl(action, timed)
      PROVE  TypeOK'
  <2>1. controlVersion + 1 \in Versions
    BY <1>1, NextVersionType DEF AcceptControl
  <2>2. PICK d \in Versions \cup {None} :
          tx' = [tx EXCEPT ![controlVersion + 1] =
                  [NoTransaction EXCEPT
                      !.status = "pending", !.action = action,
                      !.timed = timed, !.dependsOn = d, !.routed = conn]]
    BY <1>1 DEF AcceptControl
  <2>3. timed \in BOOLEAN
    BY ConstantsAssumption
  <2>4. [NoTransaction EXCEPT
            !.status = "pending", !.action = action,
            !.timed = timed, !.dependsOn = d, !.routed = conn] \in Transaction
    BY <2>3, NoTransactionType DEF Transaction, Statuses, TypeOK
  <2> QED
    BY <1>1, <2>1, <2>2, <2>4 DEF AcceptControl, TypeOK, registry
<1>2. CASE DispatchControl
  <2>1. ASSUME inflight \in Versions
        PROVE  [tx EXCEPT ![inflight].sent = TRUE] \in [Versions -> Transaction]
    BY <2>1 DEF TypeOK, Transaction
  <2>2. ASSUME inflight \notin Versions
        PROVE  [tx EXCEPT ![inflight].sent = TRUE] \in [Versions -> Transaction]
    BY <2>2 DEF TypeOK
  <2> QED
    BY <1>2, <2>1, <2>2 DEF DispatchControl, TypeOK, registry
<1>3. CASE DispatchFails
  BY <1>3, GiveUpType DEF DispatchFails, TypeOK, Table, registry
<1>4. CASE FinishControl
  BY <1>4, <1>0, GrantLeaseType DEF FinishControl, TypeOK, Table, registry
<1>5. CASE LeaseFails
  BY <1>5, GiveUpType DEF LeaseFails, TypeOK, Table, registry
<1>6. ASSUME NEW v \in Versions, LeaseAdvances(v)
      PROVE  TypeOK'
  <2>1. ASSUME NEW lease \in Leases
        PROVE  [tx EXCEPT ![v].lease = lease] \in [Versions -> Transaction]
    BY DEF TypeOK, Transaction
  <2> QED
    BY <1>6, <2>1 DEF LeaseAdvances, TypeOK, Leases, registry, handler
<1>7. ASSUME NEW v \in Versions, ExpireControl(v)
      PROVE  TypeOK'
  BY <1>7, SettleUnknownType DEF ExpireControl, TypeOK, Table, registry, handler
<1>8. ASSUME NEW applied \in Versions, NEW known \in BOOLEAN, PassiveUpdate(applied, known)
      PROVE  TypeOK'
  BY <1>0, <1>8, KeepControlType, ReconcileType
     DEF PassiveUpdate, TypeOK, Table, Applied, registry, handler
<1>9. ASSUME NEW v \in Versions, RemoteCommitted(v)
      PROVE  TypeOK'
  <2> DEFINE dependents == DirectDependents(tx, v)
  <2> DEFINE t == GrantLease(Settle(tx, v, "committed", "none", v), dependents)
  <2>1. t \in Table
    BY <1>0, SettleType, GrantLeaseType DEF Statuses, Errors, Applied
  <2>2. dependents \subseteq Versions
    BY DEF DirectDependents, Pending
  <2>3. KeepControl(t, v)
    BY <1>9 DEF RemoteCommitted
  <2>4. lock' \in {lock, "update"} /\ inflight' = inflight /\ work' \in {work, dependents}
    BY <1>9 DEF RemoteCommitted, handler
  <2> HIDE DEF t, dependents
  <2> QED
    BY <1>9, <2>1, <2>2, <2>3, <2>4, KeepControlType
       DEF RemoteCommitted, TypeOK, Table, Applied, registry
<1>10. ASSUME NEW v \in Versions, NEW applied \in Versions, NEW known \in BOOLEAN,
              RemoteFailed(v, applied, known)
       PROVE  TypeOK'
  <2> DEFINE direct == DirectDependents(tx, v)
             seeds == IF direct # {} THEN direct ELSE LegacyDependents(tx, v) \ {v}
             t == FailDependents(Settle(tx, v, "failed", "execution_failed", applied),
                                 seeds, v, applied)
  <2>1. t \in Table
    BY <1>0, SettleType, FailDependentsType DEF Statuses, Errors, Applied
  <2>2. Reconcile(t, applied) \/ KeepControl(t, applied)
    BY <1>10 DEF RemoteFailed
  <2>3. UNCHANGED <<server, intents, registry, handler>>
    BY <1>10 DEF RemoteFailed
  <2> HIDE DEF t
  <2> QED
    BY <2>1, <2>2, <2>3, KeepControlType, ReconcileType
       DEF TypeOK, Table, Applied, registry, handler
<1>11. ASSUME NEW v \in Versions, ActivateDependent(v)
       PROVE  TypeOK'
  BY <1>11, GiveUpType DEF ActivateDependent, TypeOK, Table, registry
<1>12. ASSUME NEW v \in Versions, ActivationFails(v)
       PROVE  TypeOK'
  BY <1>12, GiveUpType DEF ActivationFails, TypeOK, Table, registry
<1>13. ASSUME NEW i \in Intents, LocalIntent(i)
       PROVE  TypeOK'
  <2>1. controlVersion' \in Versions
    BY <1>13, NextVersionType DEF LocalIntent
  <2>2. tx' \in Table
    BY <1>0, <1>13, <2>1, SupersededType DEF LocalIntent
  <2> QED
    BY <1>13, <2>1, <2>2 DEF LocalIntent, TypeOK, Table, registry, handler
<1>14. CASE SyncQueue
  BY <1>14, NextVersionType DEF SyncQueue, AdvanceDevice, TypeOK, registry, handler
<1>15. CASE DropSocket
  BY <1>15 DEF DropSocket, TypeOK, durable, handler
<1>16. CASE BeginDisconnect
  BY <1>16 DEF BeginDisconnect, TypeOK, durable, registry, RoutedTo, Pending
<1>17. CASE BeginRegister
  BY <1>17 DEF BeginRegister, TypeOK, durable, registry, RoutedTo, Pending
<1>18. ASSUME NEW v \in Versions, SettleRouted(v)
       PROVE  TypeOK'
  BY <1>18, SettleUnknownType DEF SettleRouted, TypeOK, Table, registry
<1>19. CASE FinishDisconnect
  BY <1>19 DEF FinishDisconnect, TypeOK, durable
<1>20. CASE FinishRegister
  BY <1>20, ConstantsAssumption DEF FinishRegister, TypeOK, durable, Connections, None
<1>21. CASE SettleRoutedFails
  BY <1>21 DEF SettleRoutedFails, TypeOK, durable
<1>22. CASE PruneAuthority
  BY <1>22 DEF PruneAuthority, TypeOK, durable, handler
<1>23. CASE Crash
  BY <1>23 DEF Crash, TypeOK, durable
<1>24. CASE BeginStartup
  BY <1>24 DEF BeginStartup, TypeOK, durable, registry, handler
<1>25. CASE RecoverControls
  BY <1>0, <1>25, RecoveredType DEF RecoverControls, TypeOK, Table, registry, handler
<1>26. CASE CompleteStartup
  BY <1>26 DEF CompleteStartup, TypeOK, durable, registry, handler
<1>27. CASE FailStartup
  BY <1>27 DEF FailStartup, TypeOK, durable, registry, handler
<1>28. CASE UNCHANGED vars
  BY <1>28 DEF vars, TypeOK, durable, registry, handler
<1> QED
  BY <1>1, <1>2, <1>3, <1>4, <1>5, <1>6, <1>7, <1>8, <1>9, <1>10, <1>11, <1>12,
     <1>13, <1>14, <1>15, <1>16, <1>17, <1>18, <1>19, <1>20, <1>21, <1>22, <1>23,
     <1>24, <1>25, <1>26, <1>27, <1>28
     DEF Next, ControlStep, AuthorityReport, ConnectionStep, ProcessStep

(* Every variable keeps its type in every step of the lane, whatever the   *)
(* constants are.                                                          *)
THEOREM TypeCorrect == Spec => []TypeOK
<1>1. Init => TypeOK
  BY NoTransactionType, VersionsType DEF Init, TypeOK
<1> QED
  BY <1>1, TypeStep, PTL DEF Spec

-----------------------------------------------------------------------------
(***************************************************************************)
(* The inductive invariant.  Its parts about the table are stated for any  *)
(* table and canonical version, so that what one operator of the model     *)
(* preserves is a lemma about that operator.                               *)
(***************************************************************************)
NothingAhead(t, cv) == \A v \in Versions : v > cv => t[v].status = "absent"

(* A dependency is an earlier track change that was really accepted.       *)
DependsBackwards(t) ==
    \A v \in Versions : t[v].dependsOn # None =>
        /\ t[v].dependsOn < v
        /\ t[t[v].dependsOn].status # "absent"
        /\ TrackChanging(t, t[v].dependsOn)

Gated(t) ==
    \A v \in Pending(t) : t[v].dependsOn # None =>
        /\ t[t[v].dependsOn].status \in {"pending", "committed"}
        /\ (t[v].lease # "none") <=> (t[t[v].dependsOn].status = "committed")

Ordered(t) ==
    \A v \in Versions : t[v].status = "committed" =>
        /\ \A u \in Pending(t) : u > v
        /\ t[v].lease # "none"
        /\ t[v].dependsOn # None => t[t[v].dependsOn].status = "committed"

Caused(t) ==
    \A v \in Versions : t[v].error = "dependency_failed" =>
        t[v].dependsOn # None /\ t[t[v].dependsOn].status = "failed"

(* A pending command without a dependency came when no track change below  *)
(* it was pending.                                                         *)
Rooted(t) ==
    \A v \in Pending(t) : t[v].dependsOn = None => PendingTrackChanges(t, v) = {}

TableInv(t, cv) ==
    /\ t \in Table
    /\ NothingAhead(t, cv)
    /\ DependsBackwards(t)
    /\ Gated(t)
    /\ Ordered(t)
    /\ Caused(t)
    /\ Rooted(t)

(* A dispatching handler works on the newest command, which no one else    *)
(* has touched: it is pending and has no lease.                            *)
HandlerInv ==
    lock \in {"accepted", "dispatched"} =>
        /\ inflight = controlVersion
        /\ tx[controlVersion].status = "pending"
        /\ tx[controlVersion].lease = "none"

(* Between recovery and the opening of the gate nothing is pending, and    *)
(* nobody holds the lock before the gate opens.                            *)
StartupInv ==
    /\ server = "recovered" => Pending(tx) = {}
    /\ ~Serving => lock = "free"

AppliedInv ==
    /\ device <= controlVersion
    /\ \A v \in Versions : tx[v].status = "committed" => v <= device

IInv ==
    /\ TypeOK
    /\ TableInv(tx, controlVersion)
    /\ HandlerInv
    /\ StartupInv
    /\ AppliedInv

-----------------------------------------------------------------------------
(***************************************************************************)
(* What a failure reaches.                                                 *)
(***************************************************************************)
LEMMA CascadeClosed ==
  ASSUME NEW t, NEW seeds \in SUBSET Versions
  PROVE  /\ Cascade(t, seeds) \subseteq Versions
         /\ seeds \subseteq Cascade(t, seeds)
         /\ \A w \in Pending(t) : t[w].dependsOn \in Cascade(t, seeds)
                => w \in Cascade(t, seeds)
<1>1. Cascade(t, seeds) \subseteq Versions
  BY DEF Cascade
<1>2. seeds \subseteq Cascade(t, seeds)
  BY DEF Cascade
<1>3. ASSUME NEW w \in Pending(t), t[w].dependsOn \in Cascade(t, seeds)
      PROVE  w \in Cascade(t, seeds)
  BY <1>3 DEF Cascade, Pending
<1> QED
  BY <1>1, <1>2, <1>3

LEMMA CascadeLeast ==
  ASSUME NEW t, NEW seeds, NEW S \in SUBSET Versions,
         seeds \subseteq S,
         \A w \in Pending(t) : t[w].dependsOn \in S => w \in S
  PROVE  Cascade(t, seeds) \subseteq S
  BY DEF Cascade

(* A failure reaches only pending commands, and those that it reaches      *)
(* without being seeds depend on one that it reaches.                      *)
LEMMA CascadeOfPending ==
  ASSUME NEW t, NEW seeds \in SUBSET Pending(t)
  PROVE  /\ Cascade(t, seeds) \subseteq Pending(t)
         /\ \A w \in Cascade(t, seeds) \ seeds : t[w].dependsOn \in Cascade(t, seeds)
<1> DEFINE C == Cascade(t, seeds)
<1> DEFINE S == {w \in C : w \in seeds \/ t[w].dependsOn \in C}
<1>1. Pending(t) \subseteq Versions
  BY DEF Pending
<1>2. C \subseteq Pending(t)
  BY <1>1, CascadeLeast
<1>3. /\ C \subseteq Versions /\ seeds \subseteq C
      /\ \A w \in Pending(t) : t[w].dependsOn \in C => w \in C
  BY <1>1, CascadeClosed
<1> HIDE DEF C
<1>4. seeds \subseteq S /\ S \in SUBSET Versions
  BY <1>3
<1>5. \A w \in Pending(t) : t[w].dependsOn \in S => w \in S
  BY <1>3
<1>6. Cascade(t, seeds) \subseteq S
  BY <1>4, <1>5, CascadeLeast
<1> QED
  BY <1>2, <1>6 DEF C

-----------------------------------------------------------------------------
(***************************************************************************)
(* What the operators on the table preserve.                               *)
(***************************************************************************)

(* Marks that are no outcome: sent, reconciledBy, and a lease that runs on.*)
SameShape(t, t2) ==
    \A v \in Versions :
        /\ t2[v].status = t[v].status /\ t2[v].dependsOn = t[v].dependsOn
        /\ t2[v].action = t[v].action /\ t2[v].error = t[v].error
        /\ (t2[v].lease = "none") <=> (t[v].lease = "none")

(* No outcome is touched, and what was pending stays as it is or fails.    *)
OnlyFails(t, t2) ==
    \A w \in Versions :
        \/ t2[w] = t[w]
        \/ w \in Pending(t) /\ t2[w].status = "failed"

LEMMA DependsOnType ==
  ASSUME NEW t \in Table, NEW v \in Versions, t[v].dependsOn # None
  PROVE  t[v].dependsOn \in Versions
  BY DEF Table, Transaction

LEMMA SameShapeInv ==
  ASSUME NEW t, NEW cv \in Nat, TableInv(t, cv),
         NEW t2 \in Table, SameShape(t, t2), NEW cv2 \in Nat, cv <= cv2
  PROVE  TableInv(t2, cv2)
<1>0. t \in Table /\ Pending(t2) = Pending(t)
  BY DEF TableInv, SameShape, Pending
<1>1. NothingAhead(t2, cv2)
  BY VersionsType DEF TableInv, NothingAhead, SameShape
<1>2. DependsBackwards(t2)
  BY <1>0, DependsOnType DEF TableInv, DependsBackwards, SameShape, TrackChanging
<1>3. Gated(t2)
  <2> SUFFICES ASSUME NEW v \in Pending(t), t[v].dependsOn # None
               PROVE  /\ t2[t[v].dependsOn].status \in {"pending", "committed"}
                      /\ (t2[v].lease # "none") <=> (t2[t[v].dependsOn].status = "committed")
    BY <1>0 DEF Gated, SameShape, Pending
  <2>1. v \in Versions /\ t[v].dependsOn \in Versions
    BY <1>0, DependsOnType DEF Pending
  <2> QED
    BY <2>1 DEF TableInv, Gated, SameShape
<1>4. Ordered(t2)
  <2> SUFFICES ASSUME NEW v \in Versions, t[v].status = "committed"
               PROVE  /\ \A u \in Pending(t) : u > v
                      /\ t2[v].lease # "none"
                      /\ t[v].dependsOn # None => t2[t[v].dependsOn].status = "committed"
    BY <1>0 DEF Ordered, SameShape
  <2> QED
    BY <1>0, DependsOnType DEF TableInv, Ordered, SameShape
<1>5. Caused(t2)
  BY <1>0, DependsOnType DEF TableInv, Caused, SameShape
<1>6. Rooted(t2)
  BY <1>0 DEF TableInv, Rooted, SameShape, PendingTrackChanges, TrackChanging, Pending
<1> QED
  BY <1>1, <1>2, <1>3, <1>4, <1>5, <1>6 DEF TableInv

(***************************************************************************)
(* A failure with the chain of commands behind it, as the device's report, *)
(* a timer, a disconnect and a handler that gives up settle it.            *)
(***************************************************************************)
Failed(t, v, error, applied, seeds) ==
    FailDependents(Settle(t, v, "failed", error, applied), seeds, v, applied)

LEMMA FailedTable ==
  ASSUME NEW t \in Table, NEW v \in Pending(t),
         NEW error \in Errors, NEW applied \in Applied,
         NEW seeds \in SUBSET (Pending(t) \ {v})
  PROVE  LET t1 == Settle(t, v, "failed", error, applied)
             C  == Cascade(t1, seeds)
             t2 == Failed(t, v, error, applied, seeds)
         IN  /\ t2 \in Table
             /\ C \subseteq Pending(t) \ {v}
             /\ seeds \subseteq C
             /\ \A w \in Pending(t) \ {v} : t[w].dependsOn \in C => w \in C
             /\ \A w \in C \ seeds : t[w].dependsOn \in C
             /\ t2[v].status = "failed" /\ t2[v].error = error
             /\ t2[v].dependsOn = t[v].dependsOn /\ t2[v].action = t[v].action
             /\ \A w \in C :
                    /\ t2[w].status = "failed" /\ t2[w].error = "dependency_failed"
                    /\ t2[w].action = t[w].action
                    /\ t2[w].dependsOn = IF w \in seeds THEN v ELSE t[w].dependsOn
             /\ \A w \in Versions : w \notin C /\ w # v => t2[w] = t[w]
<1> DEFINE t1 == Settle(t, v, "failed", error, applied)
           C  == Cascade(t1, seeds)
           t2 == Failed(t, v, error, applied, seeds)
<1>0. v \in Versions
  BY DEF Pending
<1>1. t1 \in Table
  BY <1>0, SettleType DEF Statuses
<1>2. t2 \in Table
  BY <1>0, <1>1, FailDependentsType DEF Failed
<1>3. /\ t1[v].status = "failed" /\ t1[v].error = error
      /\ t1[v].dependsOn = t[v].dependsOn /\ t1[v].action = t[v].action
      /\ \A w \in Versions : w # v => t1[w] = t[w]
  BY <1>0 DEF Settle, Table, Transaction
<1>4. Pending(t1) = Pending(t) \ {v}
  BY <1>3 DEF Pending
<1>5. /\ C \subseteq Pending(t) \ {v}
      /\ \A w \in C \ seeds : t1[w].dependsOn \in C
  BY <1>4, CascadeOfPending
<1>6. /\ seeds \subseteq C
      /\ \A w \in Pending(t) \ {v} : t1[w].dependsOn \in C => w \in C
  <2>1. seeds \in SUBSET Versions
    BY DEF Pending
  <2> QED
    BY <2>1, <1>4, CascadeClosed
<1> DEFINE F(w) == [t1[w] EXCEPT
                     !.status = "failed", !.error = "dependency_failed",
                     !.applied = applied,
                     !.dependsOn = IF w \in seeds THEN v ELSE @]
<1>7. t2 = [w \in Versions |-> IF w \notin C THEN t1[w] ELSE F(w)]
  BY DEF FailDependents, Failed
<1>8. ASSUME NEW w \in Versions
      PROVE  /\ F(w).status = "failed" /\ F(w).error = "dependency_failed"
             /\ F(w).action = t1[w].action
             /\ F(w).dependsOn = IF w \in seeds THEN v ELSE t1[w].dependsOn
  BY <1>1 DEF Table, Transaction
<1> HIDE DEF t1, C, t2, F
<1>9. C \subseteq Versions /\ v \notin C
  BY <1>5 DEF Pending
<1>10. \A w \in C : t2[w] = F(w)
  BY <1>7, <1>9
<1>11. \A w \in Versions : w \notin C => t2[w] = t1[w]
  BY <1>7
<1>12. \A w \in C : t1[w] = t[w]
  BY <1>3, <1>9
<1>13. \A w \in Versions : w \notin C /\ w # v => t2[w] = t[w]
  BY <1>3, <1>11
<1>14. \A w \in Pending(t) \ {v} : t[w].dependsOn \in C => w \in C
  BY <1>3, <1>6 DEF Pending
<1>15. \A w \in C :
          /\ t2[w].status = "failed" /\ t2[w].error = "dependency_failed"
          /\ t2[w].action = t[w].action
          /\ t2[w].dependsOn = IF w \in seeds THEN v ELSE t[w].dependsOn
  BY <1>8, <1>9, <1>10, <1>12
<1>16. /\ t2[v].status = "failed" /\ t2[v].error = error
       /\ t2[v].dependsOn = t[v].dependsOn /\ t2[v].action = t[v].action
  BY <1>0, <1>3, <1>9, <1>11
<1>17. \A w \in C \ seeds : t[w].dependsOn \in C
  BY <1>5, <1>12
<1> QED
  BY <1>2, <1>5, <1>6, <1>13, <1>14, <1>15, <1>16, <1>17 DEF t1, C, t2


(* The seeds of a failure: all direct dependents, none but later commands. *)
LEMMA FailedInv ==
  ASSUME NEW t, NEW cv \in Nat, TableInv(t, cv), NEW v \in Pending(t),
         NEW error \in {"execution_failed", "execution_unknown"},
         NEW applied \in Applied,
         NEW seeds \in SUBSET (Pending(t) \ {v}),
         DirectDependents(t, v) \subseteq seeds,
         \A w \in seeds : v < w /\ TrackChanging(t, v)
  PROVE  TableInv(Failed(t, v, error, applied, seeds), cv)
<1> DEFINE C  == Cascade(Settle(t, v, "failed", error, applied), seeds)
           t2 == Failed(t, v, error, applied, seeds)
<1>0. t \in Table /\ v \in Versions
  BY DEF TableInv, Pending
<1>1. /\ t2 \in Table
      /\ C \subseteq Pending(t) \ {v}
      /\ seeds \subseteq C
      /\ \A w \in Pending(t) \ {v} : t[w].dependsOn \in C => w \in C
      /\ \A w \in C \ seeds : t[w].dependsOn \in C
      /\ t2[v].status = "failed" /\ t2[v].error = error
      /\ t2[v].dependsOn = t[v].dependsOn /\ t2[v].action = t[v].action
      /\ \A w \in C :
            /\ t2[w].status = "failed" /\ t2[w].error = "dependency_failed"
            /\ t2[w].action = t[w].action
            /\ t2[w].dependsOn = IF w \in seeds THEN v ELSE t[w].dependsOn
      /\ \A w \in Versions : w \notin C /\ w # v => t2[w] = t[w]
  BY <1>0, FailedTable DEF Errors
<1> HIDE DEF C, t2
<1>2. C \subseteq Versions /\ v \notin C
  BY <1>1 DEF Pending
<1>3. \A w \in Versions : t2[w].action = t[w].action /\ (t2[w].status = "absent" <=> t[w].status = "absent")
  BY <1>0, <1>1 DEF Pending
<1>4. Pending(t2) \subseteq Pending(t)
      /\ \A w \in Pending(t2) : w \notin C /\ w # v /\ t2[w] = t[w] /\ t[w].dependsOn # v
  <2>1. \A w \in Pending(t2) : w \notin C /\ w # v
    BY <1>0, <1>1, <1>2 DEF Pending
  <2>2. \A w \in Pending(t2) : w \in Versions /\ t2[w] = t[w]
    BY <2>1, <1>1 DEF Pending
  <2>3. \A w \in Pending(t2) : t[w].dependsOn # v
    BY <2>1, <2>2, <1>1 DEF DirectDependents, Pending
  <2> QED
    BY <2>1, <2>2, <2>3 DEF Pending
<1>5. NothingAhead(t2, cv)
  BY <1>3 DEF TableInv, NothingAhead
<1>6. DependsBackwards(t2)
  <2> SUFFICES ASSUME NEW w \in Versions, t2[w].dependsOn # None
               PROVE  /\ t2[w].dependsOn < w
                      /\ t2[t2[w].dependsOn].status # "absent"
                      /\ TrackChanging(t2, t2[w].dependsOn)
    BY DEF DependsBackwards
  <2>1. CASE w \in seeds
    <3>1. t2[w].dependsOn = v /\ v < w /\ TrackChanging(t, v)
      BY <2>1, <1>1
    <3> QED
      BY <3>1, <1>0, <1>1, <1>3 DEF TrackChanging
  <2>2. CASE w \notin seeds
    <3>1. t2[w].dependsOn = t[w].dependsOn
      BY <2>2, <1>1
    <3>2. t[w].dependsOn \in Versions
      BY <3>1, <1>0, DependsOnType
    <3> QED
      BY <3>1, <3>2, <1>3 DEF TableInv, DependsBackwards, TrackChanging
  <2> QED
    BY <2>1, <2>2
<1>7. Gated(t2)
  <2> SUFFICES ASSUME NEW w \in Pending(t2), t2[w].dependsOn # None
               PROVE  /\ t2[t2[w].dependsOn].status \in {"pending", "committed"}
                      /\ (t2[w].lease # "none") <=> (t2[t2[w].dependsOn].status = "committed")
    BY DEF Gated
  <2>1. w \in Pending(t) \ {v} /\ w \notin C /\ t2[w] = t[w] /\ t[w].dependsOn # v
    BY <1>4
  <2>2. t[w].dependsOn \in Versions /\ t[w].dependsOn \notin C
    BY <2>1, <1>0, <1>1, DependsOnType DEF Pending
  <2>3. t2[t[w].dependsOn] = t[t[w].dependsOn]
    BY <2>1, <2>2, <1>1
  <2> QED
    BY <2>1, <2>3 DEF TableInv, Gated
<1>8. Ordered(t2)
  <2> SUFFICES ASSUME NEW w \in Versions, t2[w].status = "committed"
               PROVE  /\ \A u \in Pending(t2) : u > w
                      /\ t2[w].lease # "none"
                      /\ t2[w].dependsOn # None => t2[t2[w].dependsOn].status = "committed"
    BY DEF Ordered
  <2>1. t2[w] = t[w]
    BY <1>1
  <2>2. ASSUME t[w].dependsOn # None
        PROVE  t2[t[w].dependsOn].status = "committed"
    <3>1. t[w].dependsOn \in Versions /\ t[t[w].dependsOn].status = "committed"
      BY <2>1, <2>2, <1>0, DependsOnType DEF TableInv, Ordered
    <3>2. t[w].dependsOn \notin C /\ t[w].dependsOn # v
      BY <3>1, <1>1 DEF Pending
    <3> QED
      BY <3>1, <3>2, <1>1
  <2> QED
    BY <2>1, <2>2, <1>4 DEF TableInv, Ordered
<1>9. Caused(t2)
  <2> SUFFICES ASSUME NEW w \in Versions, t2[w].error = "dependency_failed"
               PROVE  t2[w].dependsOn # None /\ t2[t2[w].dependsOn].status = "failed"
    BY DEF Caused
  <2>1. CASE w \in seeds
    BY <2>1, <1>0, <1>1, VersionsType
  <2>2. CASE w \in C \ seeds
    BY <2>2, <1>1, <1>2, VersionsType
  <2>3. CASE w \notin C
    <3>1. w # v /\ t2[w] = t[w]
      BY <2>3, <1>1
    <3>2. t[w].dependsOn # None /\ t[t[w].dependsOn].status = "failed"
      BY <3>1 DEF TableInv, Caused
    <3>3. t[w].dependsOn \in Versions
      BY <3>2, <1>0, DependsOnType
    <3>4. t[w].dependsOn \notin C /\ t[w].dependsOn # v
      BY <3>2, <1>1 DEF Pending
    <3> QED
      BY <3>1, <3>2, <3>3, <3>4, <1>1
  <2> QED
    BY <2>1, <2>2, <2>3, <1>1
<1>10. Rooted(t2)
  BY <1>3, <1>4 DEF TableInv, Rooted, PendingTrackChanges, TrackChanging, Pending
<1> QED
  BY <1>1, <1>5, <1>6, <1>7, <1>8, <1>9, <1>10 DEF TableInv, t2


LEMMA DirectDependentsAfter ==
  ASSUME NEW t, NEW cv, TableInv(t, cv), NEW v \in Versions
  PROVE  /\ DirectDependents(t, v) \in SUBSET (Pending(t) \ {v})
         /\ \A w \in DirectDependents(t, v) : v < w /\ TrackChanging(t, v)
  BY VersionsType DEF TableInv, DependsBackwards, DirectDependents, Pending

LEMMA SettleUnknownInv ==
  ASSUME TypeOK, NEW cv \in Nat, TableInv(tx, cv), NEW v
  PROVE  TableInv(SettleUnknown(tx, v), cv)
<1>1. CASE v \in Pending(tx)
  <2>1. v \in Versions /\ LastApplied \in Applied
    BY <1>1, VersionsType DEF LastApplied, TypeOK, Applied, Pending
  <2>2. TableInv(Failed(tx, v, "execution_unknown", LastApplied, DirectDependents(tx, v)), cv)
    BY <1>1, <2>1, DirectDependentsAfter, FailedInv
  <2> QED
    BY <1>1, <2>2 DEF SettleUnknown, Failed
<1>2. CASE v \notin Pending(tx)
  BY <1>2 DEF SettleUnknown
<1> QED
  BY <1>1, <1>2

LEMMA GiveUpInv ==
  ASSUME TypeOK, NEW cv \in Nat, TableInv(tx, cv), NEW v, GiveUp(v)
  PROVE  TableInv(tx', cv)
  BY SettleUnknownInv DEF GiveUp

LEMMA GrantLeaseTable ==
  ASSUME NEW t \in Table, NEW S
  PROVE  /\ GrantLease(t, S) \in Table
         /\ \A w \in Versions :
              /\ w \notin S => GrantLease(t, S)[w] = t[w]
              /\ w \in S => GrantLease(t, S)[w].lease # "none"
              /\ GrantLease(t, S)[w].status = t[w].status
              /\ GrantLease(t, S)[w].dependsOn = t[w].dependsOn
              /\ GrantLease(t, S)[w].action = t[w].action
              /\ GrantLease(t, S)[w].error = t[w].error
              /\ t[w].lease # "none" => GrantLease(t, S)[w].lease # "none"
<1>1. GrantLease(t, S) \in Table
  BY GrantLeaseType
<1>2. ASSUME NEW w \in Versions, w \in S
      PROVE  GrantLease(t, S)[w] =
                [t[w] EXCEPT !.lease = IF t[w].lease # "none" THEN t[w].lease
                                       ELSE IF t[w].timed THEN "scheduled" ELSE "running"]
  BY <1>2 DEF GrantLease
<1>3. ASSUME NEW w \in Versions, w \notin S
      PROVE  GrantLease(t, S)[w] = t[w]
  BY <1>3 DEF GrantLease
<1> QED
  BY <1>1, <1>2, <1>3 DEF Table, Transaction

(* A lease for a pending command without a dependency.                     *)
LEMMA GrantRootInv ==
  ASSUME NEW t, NEW cv \in Nat, TableInv(t, cv),
         NEW v \in Pending(t), t[v].dependsOn = None
  PROVE  TableInv(GrantLease(t, {v}), cv)
<1> DEFINE t2 == GrantLease(t, {v})
<1>0. t \in Table /\ v \in Versions
  BY DEF TableInv, Pending
<1>1. /\ t2 \in Table
      /\ \A w \in Versions :
            /\ w # v => t2[w] = t[w]
            /\ t2[w].status = t[w].status /\ t2[w].dependsOn = t[w].dependsOn
            /\ t2[w].action = t[w].action /\ t2[w].error = t[w].error
            /\ t[w].lease # "none" => t2[w].lease # "none"
  BY <1>0, GrantLeaseTable
<1> HIDE DEF t2
<1>2. Pending(t2) = Pending(t)
  BY <1>1 DEF Pending
<1>3. NothingAhead(t2, cv) /\ Rooted(t2)
  BY <1>1, <1>2 DEF TableInv, NothingAhead, Rooted, PendingTrackChanges, TrackChanging, Pending
<1>4. DependsBackwards(t2) /\ Caused(t2)
  BY <1>0, <1>1, DependsOnType DEF TableInv, DependsBackwards, Caused, TrackChanging
<1>5. Gated(t2)
  <2> SUFFICES ASSUME NEW w \in Pending(t), t[w].dependsOn # None
               PROVE  /\ t2[t[w].dependsOn].status \in {"pending", "committed"}
                      /\ (t2[w].lease # "none") <=> (t2[t[w].dependsOn].status = "committed")
    BY <1>1, <1>2 DEF Gated, Pending
  <2>1. w \in Versions /\ w # v /\ t[w].dependsOn \in Versions
    BY <1>0, DependsOnType DEF Pending
  <2> QED
    BY <2>1, <1>1 DEF TableInv, Gated
<1>6. Ordered(t2)
  BY <1>0, <1>1, <1>2, DependsOnType DEF TableInv, Ordered
<1> QED
  BY <1>1, <1>3, <1>4, <1>5, <1>6 DEF TableInv, t2

(* A commit of the lowest pending command that has a lease.                *)
LEMMA CommitInv ==
  ASSUME NEW t, NEW cv \in Nat, TableInv(t, cv),
         NEW v \in Pending(t), t[v].lease # "none",
         \A u \in Pending(t) : u >= v
  PROVE  TableInv(GrantLease(Settle(t, v, "committed", "none", v), DirectDependents(t, v)), cv)
<1> DEFINE t1 == Settle(t, v, "committed", "none", v)
           D  == DirectDependents(t, v)
           t2 == GrantLease(t1, D)
<1>0. t \in Table /\ v \in Versions
  BY DEF TableInv, Pending
<1>1. t1 \in Table
  BY <1>0, SettleType DEF Statuses, Errors, Applied
<1>2. /\ t1[v].status = "committed" /\ t1[v].error = "none" /\ t1[v].lease = t[v].lease
      /\ t1[v].dependsOn = t[v].dependsOn /\ t1[v].action = t[v].action
      /\ \A w \in Versions : w # v => t1[w] = t[w]
  BY <1>0 DEF Settle, Table, Transaction
<1>3. /\ t2 \in Table
      /\ \A w \in Versions :
            /\ w \notin D => t2[w] = t1[w]
            /\ w \in D => t2[w].lease # "none"
            /\ t2[w].status = t1[w].status /\ t2[w].dependsOn = t1[w].dependsOn
            /\ t2[w].action = t1[w].action /\ t2[w].error = t1[w].error
            /\ t1[w].lease # "none" => t2[w].lease # "none"
  BY <1>1, GrantLeaseTable
<1> HIDE DEF t1, D, t2
<1>4. /\ t2[v].status = "committed" /\ t2[v].error = "none" /\ t2[v].lease # "none"
      /\ t2[v].dependsOn = t[v].dependsOn
      /\ \A w \in Versions :
            /\ t2[w].action = t[w].action /\ t2[w].dependsOn = t[w].dependsOn
            /\ w # v => t2[w].status = t[w].status /\ t2[w].error = t[w].error
            /\ t[w].lease # "none" => t2[w].lease # "none"
            /\ w \notin D /\ w # v => t2[w].lease = t[w].lease
  BY <1>0, <1>2, <1>3
<1>5. Pending(t2) = Pending(t) \ {v}
  BY <1>4 DEF Pending
<1>6. D \subseteq Versions /\ v \notin D
      /\ \A w \in Pending(t) : w \in D <=> t[w].dependsOn = v
  BY <1>0, VersionsType DEF D, DirectDependents, Pending, TableInv, DependsBackwards
<1>7. t[v].dependsOn # None => t[t[v].dependsOn].status = "committed"
  BY <1>0 DEF TableInv, Gated
<1>8. NothingAhead(t2, cv)
  BY <1>0, <1>4 DEF TableInv, NothingAhead, Pending
<1>9. DependsBackwards(t2)
  BY <1>0, <1>4, DependsOnType DEF TableInv, DependsBackwards, TrackChanging
<1>10. Gated(t2)
  <2> SUFFICES ASSUME NEW w \in Pending(t) \ {v}, t[w].dependsOn # None
               PROVE  /\ t2[t[w].dependsOn].status \in {"pending", "committed"}
                      /\ (t2[w].lease # "none") <=> (t2[t[w].dependsOn].status = "committed")
    BY <1>4, <1>5 DEF Gated, Pending
  <2>1. w \in Versions /\ t[w].dependsOn \in Versions
    BY <1>0, DependsOnType DEF Pending
  <2>2. CASE t[w].dependsOn = v
    BY <2>1, <2>2, <1>3, <1>4, <1>6
  <2>3. CASE t[w].dependsOn # v
    <3>1. t2[w].lease = t[w].lease /\ t2[t[w].dependsOn].status = t[t[w].dependsOn].status
      BY <2>1, <2>3, <1>4, <1>6
    <3> QED
      BY <3>1 DEF TableInv, Gated
  <2> QED
    BY <2>2, <2>3
<1>11. Ordered(t2)
  <2> SUFFICES ASSUME NEW w \in Versions, t2[w].status = "committed"
               PROVE  /\ \A u \in Pending(t) \ {v} : u > w
                      /\ t2[w].lease # "none"
                      /\ t[w].dependsOn # None => t2[t[w].dependsOn].status = "committed"
    BY <1>4, <1>5 DEF Ordered
  <2>1. CASE w = v
    <3>1. \A u \in Pending(t) \ {v} : u > v
      BY <1>0, VersionsType DEF Pending
    <3>2. t[v].dependsOn # None => t2[t[v].dependsOn].status = "committed"
      BY <1>0, <1>4, <1>7, DependsOnType
    <3> QED
      BY <2>1, <3>1, <3>2, <1>4
  <2>2. CASE w # v
    BY <2>2, <1>0, <1>4, DependsOnType DEF TableInv, Ordered
  <2> QED
    BY <2>1, <2>2
<1>12. Caused(t2)
  <2> SUFFICES ASSUME NEW w \in Versions, t2[w].error = "dependency_failed"
               PROVE  t[w].dependsOn # None /\ t2[t[w].dependsOn].status = "failed"
    BY <1>4 DEF Caused
  <2>1. w # v /\ t[w].error = "dependency_failed"
    BY <1>4
  <2>2. t[w].dependsOn # None /\ t[t[w].dependsOn].status = "failed"
    BY <2>1 DEF TableInv, Caused
  <2>3. t[w].dependsOn \in Versions /\ t[w].dependsOn # v
    BY <2>2, <1>0, DependsOnType DEF Pending
  <2> QED
    BY <2>2, <2>3, <1>4
<1>13. Rooted(t2)
  BY <1>4, <1>5 DEF TableInv, Rooted, PendingTrackChanges, TrackChanging, Pending
<1> QED
  BY <1>3, <1>8, <1>9, <1>10, <1>11, <1>12, <1>13 DEF TableInv, t1, D, t2


(* A person's own action supersedes what is pending.                       *)
LEMMA SupersedeInv ==
  ASSUME NEW t, NEW cv \in Nat, TableInv(t, cv), NEW by \in Versions
  PROVE  TableInv(Superseded(t, by), cv + 1) /\ Pending(Superseded(t, by)) = {}
<1> DEFINE t2 == Superseded(t, by)
<1>0. t \in Table
  BY DEF TableInv
<1>1. ASSUME NEW v \in Versions
      PROVE  LET r == [t[v] EXCEPT !.status = "superseded", !.applied = by]
             IN  /\ r \in Transaction
                 /\ r.status = "superseded" /\ r.dependsOn = t[v].dependsOn
                 /\ r.action = t[v].action /\ r.error = t[v].error /\ r.lease = t[v].lease
  BY <1>0 DEF Table, Transaction, Statuses
<1>2. t2 \in Table
  BY <1>0, <1>1 DEF Table, Superseded
<1>3. \A v \in Versions :
        /\ t2[v].dependsOn = t[v].dependsOn /\ t2[v].action = t[v].action
        /\ t2[v].error = t[v].error /\ t2[v].lease = t[v].lease
        /\ t2[v].status = IF v \in Pending(t) THEN "superseded" ELSE t[v].status
  BY <1>1 DEF Superseded
<1> HIDE DEF t2
<1>4. Pending(t2) = {}
  BY <1>3 DEF Pending
<1>5. NothingAhead(t2, cv + 1)
  <2>1. \A v \in Versions : v > cv + 1 => t[v].status = "absent"
    <3>1. \A v \in Versions : v > cv => t[v].status = "absent"
      BY DEF TableInv, NothingAhead
    <3>2. \A v \in Versions : v > cv + 1 => v > cv
      BY VersionsType
    <3> QED
      BY <3>1, <3>2
  <2> QED
    BY <2>1, <1>3 DEF NothingAhead, Pending
<1>6. DependsBackwards(t2) /\ Caused(t2)
  BY <1>0, <1>3, DependsOnType
     DEF TableInv, DependsBackwards, Caused, TrackChanging, Pending
<1>7. Ordered(t2)
  BY <1>0, <1>3, <1>4, DependsOnType DEF TableInv, Ordered, Pending
<1>8. Gated(t2) /\ Rooted(t2)
  BY <1>4 DEF Gated, Rooted
<1> QED
  BY <1>2, <1>4, <1>5, <1>6, <1>7, <1>8 DEF TableInv, t2

(* The recovery leaves nothing pending, and what it calls a dependency     *)
(* failure has a failed dependency: under the invariant no root does.      *)
LEMMA RecoveredInv ==
  ASSUME NEW t, NEW cv \in Nat, TableInv(t, cv)
  PROVE  /\ TableInv(Recovered(t), cv) /\ Pending(Recovered(t)) = {}
         /\ OnlyFails(t, Recovered(t))
<1> DEFINE t2 == Recovered(t)
<1>0. t \in Table
  BY DEF TableInv
<1>1. t2 \in Table
  BY <1>0, RecoveredType
<1>2. ASSUME NEW v \in Pending(t)
      PROVE  /\ t2[v].status = "failed"
             /\ t2[v].dependsOn = t[v].dependsOn /\ t2[v].action = t[v].action
             /\ t2[v].lease = t[v].lease
             /\ t2[v].error = "dependency_failed" =>
                    \E r \in Roots(t) : v \in Cascade(t, {r}) \ {r}
  <2>0. v \in Versions /\ t[v] \in Transaction
    BY <1>0 DEF Pending, Table
  <2>1. CASE v \in Roots(t)
    <3> DEFINE e == IF RootDependencyFailed(t, v) THEN "dependency_failed" ELSE "execution_unknown"
    <3>1. t2[v] = [t[v] EXCEPT
                !.status = "failed", !.applied = RootApplied(t, v), !.error = e]
      BY <2>0, <2>1 DEF Recovered
    <3>2. ~RootDependencyFailed(t, v)
      <4> SUFFICES ASSUME t[v].dependsOn # None
                   PROVE  t[t[v].dependsOn].status = "committed"
        BY DEF RootDependencyFailed
      <4>1. t[v].dependsOn \in Versions /\ t[v].dependsOn \notin Pending(t)
        BY <2>0, <2>1, <1>0, DependsOnType DEF Roots
      <4> QED
        BY <4>1 DEF TableInv, Gated, Pending
    <3>3. e = "execution_unknown"
      BY <3>2
    <3> HIDE DEF e, t2
    <3> QED
      BY <2>0, <3>1, <3>3 DEF Transaction
  <2>2. CASE v \notin Roots(t) /\ \E r \in Roots(t) : v \in Cascade(t, {r})
    <3> DEFINE a == RootApplied(t, CHOOSE r \in Roots(t) : v \in Cascade(t, {r}))
    <3>1. t2[v] = [t[v] EXCEPT
                !.status = "failed", !.error = "dependency_failed", !.applied = a]
      BY <2>0, <2>2 DEF Recovered
    <3> HIDE DEF a, t2
    <3> QED
      BY <2>0, <2>2, <3>1 DEF Transaction
  <2>3. CASE v \notin Roots(t) /\ ~ \E r \in Roots(t) : v \in Cascade(t, {r})
    <3>1. t2[v] = [t[v] EXCEPT !.status = "failed", !.error = "execution_unknown"]
      BY <2>0, <2>3 DEF Recovered
    <3> HIDE DEF t2
    <3> QED
      BY <2>0, <3>1 DEF Transaction
  <2> QED
    BY <2>1, <2>2, <2>3
<1>3. ASSUME NEW v \in Versions, v \notin Pending(t)
      PROVE  t2[v] = t[v]
  BY <1>3 DEF Recovered
<1> HIDE DEF t2
<1>4. \A v \in Versions :
        /\ t2[v].dependsOn = t[v].dependsOn /\ t2[v].action = t[v].action
        /\ t2[v].lease = t[v].lease
        /\ t2[v].status = IF v \in Pending(t) THEN "failed" ELSE t[v].status
  BY <1>2, <1>3
<1>5. Pending(t2) = {}
  BY <1>4 DEF Pending
<1>6. NothingAhead(t2, cv)
  BY <1>4 DEF TableInv, NothingAhead, Pending
<1>7. DependsBackwards(t2)
  BY <1>0, <1>4, DependsOnType DEF TableInv, DependsBackwards, TrackChanging, Pending
<1>8. Ordered(t2)
  BY <1>0, <1>4, <1>5, DependsOnType DEF TableInv, Ordered, Pending
<1>9. Caused(t2)
  <2> SUFFICES ASSUME NEW v \in Versions, t2[v].error = "dependency_failed"
               PROVE  t[v].dependsOn # None /\ t2[t[v].dependsOn].status = "failed"
    BY <1>4 DEF Caused
  <2>1. CASE v \in Pending(t)
    <3>1. PICK r \in Roots(t) : v \in Cascade(t, {r}) \ {r}
      BY <2>1, <1>2
    <3>2. {r} \in SUBSET Pending(t)
      BY DEF Roots
    <3>3. t[v].dependsOn \in Cascade(t, {r}) /\ Cascade(t, {r}) \subseteq Pending(t)
      BY <3>1, <3>2, CascadeOfPending
    <3> QED
      BY <3>3, <1>4, VersionsType DEF Pending
  <2>2. CASE v \notin Pending(t)
    <3>1. t[v].dependsOn # None /\ t[t[v].dependsOn].status = "failed"
      BY <2>2, <1>3 DEF TableInv, Caused
    <3>2. t[v].dependsOn \in Versions
      BY <3>1, <1>0, DependsOnType
    <3> QED
      BY <3>1, <3>2, <1>4 DEF Pending
  <2> QED
    BY <2>1, <2>2
<1>10. Gated(t2) /\ Rooted(t2)
  BY <1>5 DEF Gated, Rooted
<1>11. OnlyFails(t, t2)
  BY <1>2, <1>3 DEF OnlyFails
<1> QED
  BY <1>1, <1>5, <1>6, <1>7, <1>8, <1>9, <1>10, <1>11 DEF TableInv, t2

(* A new command at the next version, with the dependency it is given.     *)
LEMMA AcceptInv ==
  ASSUME NEW t, NEW cv \in Nat, TableInv(t, cv), cv + 1 \in Versions,
         NEW d \in Versions \cup {None}, IsDependency(t, cv + 1, d),
         NEW r \in Transaction,
         r.status = "pending", r.dependsOn = d, r.lease = "none", r.error = "none"
  PROVE  LET t2 == [t EXCEPT ![cv + 1] = r]
         IN  /\ TableInv(t2, cv + 1)
             /\ t2[cv + 1] = r
<1> DEFINE v == cv + 1
           t2 == [t EXCEPT ![v] = r]
<1>0. t \in Table /\ v \in Versions /\ t[v].status = "absent"
  BY DEF TableInv, NothingAhead
<1>1. t2 \in Table /\ t2[v] = r /\ \A w \in Versions : w # v => t2[w] = t[w]
  BY <1>0 DEF Table
<1>2. IsDependency(t, v, d)
  OBVIOUS
<1>3. d # None => d \in Versions /\ d < v /\ t[d].status = "pending" /\ TrackChanging(t, d)
  BY <1>2 DEF IsDependency, PendingTrackChanges, Pending
<1>4. d = None => PendingTrackChanges(t, v) = {}
  <2>1. d = None => d \notin Versions
    BY VersionsType
  <2> QED
    BY <1>2, <2>1 DEF IsDependency, PendingTrackChanges, Pending
<1>5. \A w \in Versions : w # v /\ w >= v => t[w].status = "absent"
  <2>1. \A w \in Versions : w > cv => t[w].status = "absent"
    BY DEF TableInv, NothingAhead
  <2>2. \A w \in Versions : w >= v => w > cv
    BY VersionsType
  <2> QED
    BY <2>1, <2>2
<1>6. v \in Nat
  OBVIOUS
<1> HIDE DEF v, t2
<1>7. Pending(t2) = Pending(t) \cup {v}
  BY <1>0, <1>1 DEF Pending
<1>8. NothingAhead(t2, v)
  BY <1>1, <1>5, <1>6, VersionsType DEF NothingAhead
<1>9. ASSUME NEW w \in Versions, w # v, t[w].dependsOn # None
      PROVE  t[w].dependsOn \in Versions /\ t[w].dependsOn # v
             /\ t2[t[w].dependsOn] = t[t[w].dependsOn]
  BY <1>0, <1>1, <1>9, DependsOnType DEF TableInv, DependsBackwards
<1>10. DependsBackwards(t2)
  <2> SUFFICES ASSUME NEW w \in Versions, t2[w].dependsOn # None
               PROVE  /\ t2[w].dependsOn < w
                      /\ t2[t2[w].dependsOn].status # "absent"
                      /\ TrackChanging(t2, t2[w].dependsOn)
    BY DEF DependsBackwards
  <2>1. CASE w = v
    <3>1. d \in Versions /\ d < v /\ d # v
      BY <2>1, <1>1, <1>3, <1>6, VersionsType
    <3> QED
      BY <2>1, <3>1, <1>1, <1>3 DEF TrackChanging
  <2>2. CASE w # v
    BY <2>2, <1>1, <1>9 DEF TableInv, DependsBackwards, TrackChanging
  <2> QED
    BY <2>1, <2>2
<1>11. Gated(t2)
  <2> SUFFICES ASSUME NEW w \in Pending(t2), t2[w].dependsOn # None
               PROVE  /\ t2[t2[w].dependsOn].status \in {"pending", "committed"}
                      /\ (t2[w].lease # "none") <=> (t2[t2[w].dependsOn].status = "committed")
    BY DEF Gated
  <2>1. CASE w = v
    <3>1. d \in Versions /\ d < v /\ d # v
      BY <2>1, <1>1, <1>3, <1>6, VersionsType
    <3> QED
      BY <2>1, <3>1, <1>1, <1>3
  <2>2. CASE w # v
    <3>1. w \in Pending(t) /\ w \in Versions
      BY <2>2, <1>7 DEF Pending
    <3> QED
      BY <2>2, <3>1, <1>1, <1>9 DEF TableInv, Gated
  <2> QED
    BY <2>1, <2>2
<1>12. Ordered(t2)
  <2> SUFFICES ASSUME NEW w \in Versions, t2[w].status = "committed"
               PROVE  /\ \A u \in Pending(t2) : u > w
                      /\ t2[w].lease # "none"
                      /\ t2[w].dependsOn # None => t2[t2[w].dependsOn].status = "committed"
    BY DEF Ordered
  <2>1. w # v /\ t2[w] = t[w] /\ w < v
    BY <1>1, <1>5, <1>6, VersionsType
  <2> QED
    BY <2>1, <1>7, <1>9 DEF TableInv, Ordered
<1>13. Caused(t2)
  BY <1>1, <1>9 DEF TableInv, Caused
<1>14. Rooted(t2)
  <2> SUFFICES ASSUME NEW w \in Pending(t2), t2[w].dependsOn = None
               PROVE  PendingTrackChanges(t2, w) = {}
    BY DEF Rooted
  <2>1. w \in Versions /\ w <= v
    BY <1>5, <1>6, <1>7, VersionsType DEF Pending
  <2>0. \A u \in Versions : u < w => u # v /\ t2[u] = t[u]
    BY <2>1, <1>1, <1>6, VersionsType
  <2>2. PendingTrackChanges(t2, w) = PendingTrackChanges(t, w)
    <3>1. ASSUME NEW u PROVE u \in PendingTrackChanges(t2, w) <=> u \in PendingTrackChanges(t, w)
      BY <2>0 DEF PendingTrackChanges, TrackChanging, Pending
    <3>2. PendingTrackChanges(t2, w) \subseteq Versions /\ PendingTrackChanges(t, w) \subseteq Versions
      BY DEF PendingTrackChanges, Pending
    <3> QED
      BY <3>1, <3>2
  <2>3. CASE w = v
    <3>1. d = None
      BY <2>3, <1>1
    <3> QED
      BY <2>2, <2>3, <3>1, <1>4
  <2>4. CASE w # v
    <3>1. w \in Pending(t) /\ t[w].dependsOn = None
      BY <2>1, <2>4, <1>1, <1>7
    <3> QED
      BY <2>2, <3>1 DEF TableInv, Rooted
  <2> QED
    BY <2>3, <2>4
<1> QED
  BY <1>1, <1>8, <1>10, <1>11, <1>12, <1>13, <1>14 DEF TableInv, v, t2


-----------------------------------------------------------------------------
(***************************************************************************)
(* What a step leaves alone.                                               *)
(***************************************************************************)

LEMMA FailedOnlyFails ==
  ASSUME NEW t \in Table, NEW v \in Pending(t), NEW error \in Errors,
         NEW applied \in Applied, NEW seeds \in SUBSET (Pending(t) \ {v})
  PROVE  OnlyFails(t, Failed(t, v, error, applied, seeds))
  BY FailedTable DEF OnlyFails

LEMMA SettleUnknownOnlyFails ==
  ASSUME TypeOK, NEW cv, TableInv(tx, cv), NEW v
  PROVE  OnlyFails(tx, SettleUnknown(tx, v))
<1>1. CASE v \in Pending(tx)
  <2>1. v \in Versions /\ LastApplied \in Applied /\ tx \in Table
    BY <1>1, VersionsType DEF LastApplied, TypeOK, Applied, Pending, Table
  <2>2. DirectDependents(tx, v) \in SUBSET (Pending(tx) \ {v})
    BY <2>1, DirectDependentsAfter
  <2>3. OnlyFails(tx, Failed(tx, v, "execution_unknown", LastApplied, DirectDependents(tx, v)))
    BY <1>1, <2>1, <2>2, FailedOnlyFails DEF Errors
  <2> QED
    BY <1>1, <2>3 DEF SettleUnknown, Failed
<1>2. CASE v \notin Pending(tx)
  BY <1>2 DEF SettleUnknown, OnlyFails
<1> QED
  BY <1>1, <1>2

LEMMA GiveUpOnlyFails ==
  ASSUME TypeOK, NEW cv, TableInv(tx, cv), NEW v, GiveUp(v)
  PROVE  OnlyFails(tx, tx')
  BY SettleUnknownOnlyFails DEF GiveUp, OnlyFails

(* The step of RemoteFailed on the table.                                  *)
LEMMA RemoteFailedTable ==
  ASSUME TypeOK, NEW cv \in Nat, TableInv(tx, cv), NEW v \in Pending(tx),
         NEW applied \in Versions
  PROVE  LET direct == DirectDependents(tx, v)
             seeds == IF direct # {} THEN direct ELSE LegacyDependents(tx, v) \ {v}
             t == FailDependents(Settle(tx, v, "failed", "execution_failed", applied),
                                 seeds, v, applied)
         IN  TableInv(t, cv) /\ OnlyFails(tx, t)
<1> DEFINE direct == DirectDependents(tx, v)
           seeds == IF direct # {} THEN direct ELSE LegacyDependents(tx, v) \ {v}
<1>1. v \in Versions /\ applied \in Applied /\ tx \in Table
  BY DEF Pending, Applied, TypeOK, Table
<1>2. /\ direct \in SUBSET (Pending(tx) \ {v})
      /\ \A w \in direct : v < w /\ TrackChanging(tx, v)
  BY <1>1, DirectDependentsAfter
<1>3. seeds \in SUBSET (Pending(tx) \ {v})
  BY <1>2 DEF LegacyDependents
<1>4. direct \subseteq seeds
  OBVIOUS
<1>5. \A w \in seeds : v < w /\ TrackChanging(tx, v)
  BY <1>1, <1>2, VersionsType DEF LegacyDependents, Pending
<1> HIDE DEF direct, seeds
<1>6. TableInv(Failed(tx, v, "execution_failed", applied, seeds), cv)
  BY <1>1, <1>3, <1>4, <1>5, FailedInv DEF direct
<1>7. OnlyFails(tx, Failed(tx, v, "execution_failed", applied, seeds))
  BY <1>1, <1>3, FailedOnlyFails DEF Errors
<1> QED
  BY <1>6, <1>7 DEF Failed, direct, seeds

LEMMA ReconcileInv ==
  ASSUME TypeOK, NEW t, TableInv(t, controlVersion), NEW applied \in Versions,
         Reconcile(t, applied)
  PROVE  TableInv(tx', controlVersion') /\ SameShape(t, tx')
<1>1. t \in Table /\ controlVersion \in Nat /\ controlVersion' = controlVersion + 1
  BY VersionsType DEF TableInv, TypeOK, Reconcile
<1>2. tx' \in Table
  BY <1>1, ReconcileType
<1>3. SameShape(t, tx')
  BY <1>1 DEF Reconcile, SameShape, Table, Transaction
<1> QED
  BY <1>1, <1>2, <1>3, SameShapeInv


-----------------------------------------------------------------------------
(***************************************************************************)
(* The invariant is inductive.                                             *)
(***************************************************************************)
LEMMA InitInv == Init => IInv
<1> SUFFICES ASSUME Init PROVE IInv
  OBVIOUS
<1>1. TypeOK
  BY NoTransactionType, VersionsType DEF Init, TypeOK
<1>2. \A v \in Versions : tx[v] = NoTransaction
  BY DEF Init
<1>3. \A v \in Versions :
        tx[v].status = "absent" /\ tx[v].dependsOn = None /\ tx[v].error = "none"
  BY <1>2 DEF NoTransaction
<1>4. Pending(tx) = {}
  BY <1>3 DEF Pending
<1>5. TableInv(tx, controlVersion)
  BY <1>1, <1>3, <1>4 DEF TableInv, TypeOK, Table, NothingAhead, DependsBackwards,
     Gated, Ordered, Caused, Rooted
<1>6. AppliedInv
  BY <1>3 DEF Init, AppliedInv, None
<1>7. HandlerInv /\ StartupInv
  BY <1>4 DEF Init, HandlerInv, StartupInv, Serving
<1> QED
  BY <1>1, <1>5, <1>6, <1>7 DEF IInv

(* Steps of the connection, the process and time do not touch the table in *)
(* a way that the invariant could see.                                     *)
LEMMA DurableUnchangedInv ==
  ASSUME IInv, UNCHANGED durable
  PROVE  TableInv(tx', controlVersion') /\ AppliedInv'
  BY DEF IInv, durable, AppliedInv

(* A settlement as failed leaves what was committed and when.              *)
LEMMA OnlyFailsApplied ==
  ASSUME IInv, OnlyFails(tx, tx'), UNCHANGED <<controlVersion, device>>
  PROVE  AppliedInv'
  BY DEF IInv, AppliedInv, OnlyFails

LEMMA ControlStepInv ==
  ASSUME IInv, TypeOK', ControlStep
  PROVE  TableInv(tx', controlVersion') /\ HandlerInv' /\ StartupInv' /\ AppliedInv'
<1>0. TypeOK /\ controlVersion \in Nat /\ TableInv(tx, controlVersion) /\ tx \in Table
  BY VersionsType DEF IInv, TypeOK, Table
<1>1. ASSUME NEW action \in Actions, NEW timed \in EffectiveAt, AcceptControl(action, timed)
      PROVE  TableInv(tx', controlVersion') /\ HandlerInv' /\ StartupInv' /\ AppliedInv'
  <2> DEFINE v == controlVersion + 1
  <2>1. v \in Versions /\ controlVersion' = v /\ inflight' = v /\ server' = server /\ Serving
    BY <1>0, <1>1, NextVersionType DEF AcceptControl
  <2>2. PICK d \in Versions \cup {None} :
            /\ IsDependency(tx, v, d)
            /\ tx' = [tx EXCEPT ![v] =
                    [NoTransaction EXCEPT
                        !.status = "pending", !.action = action,
                        !.timed = timed, !.dependsOn = d, !.routed = conn]]
    BY <1>1 DEF AcceptControl
  <2> DEFINE r == [NoTransaction EXCEPT
                        !.status = "pending", !.action = action,
                        !.timed = timed, !.dependsOn = d, !.routed = conn]
  <2>3. /\ r \in Transaction /\ r.status = "pending" /\ r.dependsOn = d
        /\ r.lease = "none" /\ r.error = "none"
    <3>1. timed \in BOOLEAN
      BY ConstantsAssumption
    <3> QED
      BY <3>1, <1>0, NoTransactionType DEF NoTransaction, Transaction, Statuses, TypeOK
  <2> HIDE DEF r
  <2>4. TableInv(tx', v) /\ tx'[v] = r
    <3>1. tx' = [tx EXCEPT ![v] = r]
      BY <2>2 DEF r
    <3>2. IsDependency(tx, v, d)
      BY <2>2
    <3>3. /\ TableInv([tx EXCEPT ![v] = r], v)
          /\ [tx EXCEPT ![v] = r][v] = r
      BY <1>0, <2>1, <2>3, <3>2, AcceptInv
    <3> QED
      BY <3>1, <3>3
  <2>5. \A w \in Versions : w # v => tx'[w] = tx[w]
    BY <1>0, <2>2
  <2>6. AppliedInv'
    <3>1. device' = device /\ device <= v
      BY <1>0, <1>1, VersionsType DEF AcceptControl, IInv, AppliedInv, TypeOK, None
    <3>2. \A w \in Versions : tx'[w].status = "committed" => w # v /\ tx[w].status = "committed"
      BY <2>3, <2>4, <2>5
    <3> QED
      BY <2>1, <3>1, <3>2 DEF AppliedInv, IInv
  <2> QED
    BY <2>1, <2>3, <2>4, <2>6 DEF HandlerInv, StartupInv, Serving
<1>2. CASE DispatchControl
  <2>1. /\ inflight = controlVersion /\ inflight \in Versions
        /\ tx' = [tx EXCEPT ![inflight].sent = TRUE]
        /\ UNCHANGED <<server, controlVersion, device, inflight>> /\ Serving
    BY <1>0, <1>2 DEF DispatchControl, IInv, HandlerInv, TypeOK
  <2>2. SameShape(tx, tx') /\ \A w \in Versions : tx'[w].lease = tx[w].lease
    BY <1>0, <2>1 DEF SameShape, Table, Transaction
  <2>3. tx' \in Table
    BY DEF TypeOK, Table
  <2>4. TableInv(tx', controlVersion')
    BY <1>0, <2>1, <2>2, <2>3, SameShapeInv
  <2>5. AppliedInv'
    BY <2>1, <2>2 DEF IInv, AppliedInv, SameShape
  <2> QED
    BY <1>2, <2>1, <2>2, <2>4, <2>5
       DEF DispatchControl, HandlerInv, StartupInv, Serving, SameShape, IInv
<1>3. CASE DispatchFails
  BY <1>0, <1>3, GiveUpInv, GiveUpOnlyFails, OnlyFailsApplied
     DEF DispatchFails, Release, HandlerInv, StartupInv, Serving
<1>4. CASE FinishControl
  <2>1. /\ inflight = controlVersion /\ inflight \in Pending(tx)
        /\ UNCHANGED <<server, controlVersion, device>> /\ Serving /\ lock' = "free"
        /\ tx' = IF tx[inflight].dependsOn = None THEN GrantLease(tx, {inflight}) ELSE tx
    BY <1>0, <1>4 DEF FinishControl, Release, IInv, HandlerInv, TypeOK, Pending
  <2>2. TableInv(tx', controlVersion')
    BY <1>0, <2>1, GrantRootInv
  <2>3. \A w \in Versions : tx'[w].status = tx[w].status
    BY <1>0, <2>1, GrantLeaseTable
  <2>4. AppliedInv'
    BY <2>1, <2>3 DEF IInv, AppliedInv
  <2> QED
    BY <2>1, <2>2, <2>4 DEF HandlerInv, StartupInv, Serving
<1>5. CASE LeaseFails
  BY <1>0, <1>5, GiveUpInv, GiveUpOnlyFails, OnlyFailsApplied
     DEF LeaseFails, Release, HandlerInv, StartupInv, Serving
<1>6. ASSUME NEW v \in Versions, LeaseAdvances(v)
      PROVE  TableInv(tx', controlVersion') /\ HandlerInv' /\ StartupInv' /\ AppliedInv'
  <2>1. PICK lease \in {"running", "expired"} : tx' = [tx EXCEPT ![v].lease = lease]
    BY <1>6 DEF LeaseAdvances
  <2>2. /\ v \in Pending(tx) /\ tx[v].lease # "none"
        /\ UNCHANGED <<server, controlVersion, device, lock, inflight>>
    BY <1>6 DEF LeaseAdvances, handler
  <2>3. SameShape(tx, tx')
    BY <1>0, <2>1, <2>2 DEF SameShape, Table, Transaction
  <2>4. tx' \in Table
    BY DEF TypeOK, Table
  <2>5. TableInv(tx', controlVersion')
    BY <1>0, <2>2, <2>3, <2>4, SameShapeInv
  <2>6. AppliedInv'
    BY <2>2, <2>3 DEF IInv, AppliedInv, SameShape
  <2>7. HandlerInv'
    BY <1>0, <2>2, <2>3 DEF IInv, HandlerInv, SameShape, TypeOK
  <2>8. StartupInv'
    BY <2>2 DEF IInv, StartupInv, Serving
  <2> QED
    BY <2>5, <2>6, <2>7, <2>8
<1>7. ASSUME NEW v \in Versions, ExpireControl(v)
      PROVE  TableInv(tx', controlVersion') /\ HandlerInv' /\ StartupInv' /\ AppliedInv'
  BY <1>0, <1>7, SettleUnknownInv, SettleUnknownOnlyFails, OnlyFailsApplied
     DEF ExpireControl, handler, HandlerInv, StartupInv, Serving
<1> QED
  BY <1>1, <1>2, <1>3, <1>4, <1>5, <1>6, <1>7 DEF ControlStep


LEMMA KeepControlInv ==
  ASSUME IInv, NEW t, TableInv(t, controlVersion), OnlyFails(tx, t),
         NEW applied \in Versions, applied <= controlVersion, StatesLastApplied(applied),
         KeepControl(t, applied)
  PROVE  TableInv(tx', controlVersion') /\ AppliedInv'
<1>1. tx' = t /\ controlVersion' = controlVersion /\ device' = applied
  BY DEF KeepControl
<1>2. \A v \in Versions : t[v].status = "committed" => tx[v].status = "committed"
  BY DEF OnlyFails
<1>3. \A v \in Versions : tx[v].status = "committed" => v <= applied
  BY VersionsType DEF IInv, AppliedInv, StatesLastApplied, None, Versions
<1> QED
  BY <1>1, <1>2, <1>3 DEF AppliedInv

LEMMA ReconciledAppliedInv ==
  ASSUME IInv, NEW t, TableInv(t, controlVersion), NEW applied \in Versions,
         Reconcile(t, applied)
  PROVE  TableInv(tx', controlVersion') /\ AppliedInv'
<1>1. TypeOK
  BY DEF IInv
<1>2. TableInv(tx', controlVersion') /\ SameShape(t, tx')
  BY <1>1, ReconcileInv
<1>3. controlVersion \in Nat /\ controlVersion' = controlVersion + 1 /\ device' = controlVersion + 1
  BY <1>1, VersionsType DEF TypeOK, Reconcile
<1>4. \A v \in Versions : v <= controlVersion \/ t[v].status = "absent"
  BY <1>3, VersionsType DEF TableInv, NothingAhead
<1>5. \A v \in Versions : tx'[v].status = "committed" => v <= controlVersion + 1
  BY <1>2, <1>3, <1>4, VersionsType DEF SameShape
<1> QED
  BY <1>2, <1>3, <1>5 DEF AppliedInv

LEMMA AuthorityReportInv ==
  ASSUME IInv, TypeOK', AuthorityReport
  PROVE  TableInv(tx', controlVersion') /\ HandlerInv' /\ StartupInv' /\ AppliedInv'
<1>0. TypeOK /\ controlVersion \in Nat /\ TableInv(tx, controlVersion) /\ tx \in Table
  BY VersionsType DEF IInv, TypeOK, Table
<1>1. ASSUME NEW applied \in Versions, NEW known \in BOOLEAN, PassiveUpdate(applied, known)
      PROVE  TableInv(tx', controlVersion') /\ HandlerInv' /\ StartupInv' /\ AppliedInv'
  <2>1. OnlyFails(tx, tx)
    BY DEF OnlyFails
  <2>2. TableInv(tx', controlVersion') /\ AppliedInv'
    BY <1>0, <1>1, <2>1, KeepControlInv, ReconciledAppliedInv DEF PassiveUpdate
  <2> QED
    BY <1>1, <2>2 DEF PassiveUpdate, UpdateAccepted, handler, HandlerInv, StartupInv, Serving
<1>2. ASSUME NEW v \in Versions, RemoteCommitted(v)
      PROVE  TableInv(tx', controlVersion') /\ HandlerInv' /\ StartupInv' /\ AppliedInv'
  <2> DEFINE D == DirectDependents(tx, v)
             t == GrantLease(Settle(tx, v, "committed", "none", v), D)
  <2>1. /\ v \in Pending(tx) /\ tx[v].lease # "none" /\ \A u \in Pending(tx) : u >= v
        /\ v <= controlVersion /\ (device # None => v >= device)
        /\ lock = "free" /\ lock' \in {"free", "update"} /\ server' = server /\ Serving
    BY <1>2 DEF RemoteCommitted, RemoteAccepted, UpdateAccepted, handler
  <2>2. tx' = t /\ controlVersion' = controlVersion /\ device' = v
    BY <1>2 DEF RemoteCommitted, KeepControl
  <2>3. TableInv(t, controlVersion)
    BY <1>0, <2>1, CommitInv
  <2>4. \A w \in Versions : w # v /\ t[w].status = "committed" => tx[w].status = "committed"
    <3>1. Settle(tx, v, "committed", "none", v) \in Table
      BY <1>0, SettleType DEF Statuses, Errors, Applied
    <3>2. \A w \in Versions : w # v => Settle(tx, v, "committed", "none", v)[w] = tx[w]
      BY <1>0 DEF Settle, Table
    <3>3. \A w \in Versions : t[w].status = Settle(tx, v, "committed", "none", v)[w].status
      BY <3>1, GrantLeaseTable
    <3> QED
      BY <3>2, <3>3
  <2> HIDE DEF t
  <2>5. \A w \in Versions : tx[w].status = "committed" => w <= v
    BY <2>1, VersionsType DEF IInv, AppliedInv, TypeOK, None, Versions
  <2>6. AppliedInv'
    BY <2>1, <2>2, <2>4, <2>5, VersionsType DEF AppliedInv
  <2> QED
    BY <2>1, <2>2, <2>3, <2>6 DEF HandlerInv, StartupInv, Serving
<1>3. ASSUME NEW v \in Versions, NEW applied \in Versions, NEW known \in BOOLEAN,
             RemoteFailed(v, applied, known)
      PROVE  TableInv(tx', controlVersion') /\ HandlerInv' /\ StartupInv' /\ AppliedInv'
  <2> DEFINE direct == DirectDependents(tx, v)
             seeds == IF direct # {} THEN direct ELSE LegacyDependents(tx, v) \ {v}
             t == FailDependents(Settle(tx, v, "failed", "execution_failed", applied),
                                 seeds, v, applied)
  <2>1. /\ v \in Pending(tx) /\ v <= controlVersion /\ applied < v /\ StatesLastApplied(applied)
        /\ UNCHANGED <<server, handler>> /\ lock = "free" /\ Serving
        /\ Reconcile(t, applied) \/ KeepControl(t, applied)
    BY <1>3 DEF RemoteFailed, RemoteAccepted, UpdateAccepted
  <2>2. TableInv(t, controlVersion) /\ OnlyFails(tx, t)
    BY <1>0, <2>1, RemoteFailedTable
  <2> HIDE DEF t
  <2>3. applied <= controlVersion
    BY <1>0, <2>1, VersionsType
  <2>4. TableInv(tx', controlVersion') /\ AppliedInv'
    BY <2>1, <2>2, <2>3, KeepControlInv, ReconciledAppliedInv
  <2> QED
    BY <2>1, <2>4 DEF handler, HandlerInv, StartupInv, Serving
<1>4. ASSUME NEW v \in Versions, ActivateDependent(v) \/ ActivationFails(v)
      PROVE  TableInv(tx', controlVersion') /\ HandlerInv' /\ StartupInv' /\ AppliedInv'
  <2>1. /\ GiveUp(v) \/ UNCHANGED tx
        /\ UNCHANGED <<server, controlVersion, device>> /\ Serving
        /\ lock = "update" /\ lock' \in {"free", "update"}
    BY <1>4 DEF ActivateDependent, ActivationFails
  <2>2. OnlyFails(tx, tx')
    BY <1>0, <2>1, GiveUpOnlyFails DEF OnlyFails
  <2>3. TableInv(tx', controlVersion')
    BY <1>0, <2>1, GiveUpInv
  <2> QED
    BY <2>1, <2>2, <2>3, OnlyFailsApplied DEF HandlerInv, StartupInv, Serving
<1>5. ASSUME NEW i \in Intents, LocalIntent(i)
      PROVE  TableInv(tx', controlVersion') /\ HandlerInv' /\ StartupInv' /\ AppliedInv'
  <2>1. /\ controlVersion' = controlVersion + 1 /\ device' = controlVersion'
        /\ controlVersion' \in Versions /\ tx' = Superseded(tx, controlVersion')
        /\ UNCHANGED <<server, handler>> /\ lock = "free" /\ Serving
    BY <1>0, <1>5, NextVersionType DEF LocalIntent, UpdateAccepted
  <2>2. TableInv(tx', controlVersion')
    BY <1>0, <2>1, SupersedeInv
  <2>3. AppliedInv'
    <3>1. \A w \in Versions : tx'[w].status = "committed" => w <= controlVersion'
      BY <1>0, <2>1, <2>2, VersionsType DEF TableInv, NothingAhead
    <3> QED
      BY <3>1, <2>1, VersionsType DEF AppliedInv
  <2> QED
    BY <2>1, <2>2, <2>3 DEF handler, HandlerInv, StartupInv, Serving
<1>6. CASE SyncQueue
  <2>1. /\ controlVersion' = controlVersion + 1 /\ device' = controlVersion'
        /\ controlVersion' \in Versions /\ tx' = tx /\ Pending(tx) = {}
        /\ UNCHANGED <<server, handler>> /\ Serving
    BY <1>0, <1>6, NextVersionType DEF SyncQueue, AdvanceDevice
  <2>2. TableInv(tx', controlVersion')
    <3>1. SameShape(tx, tx')
      BY <2>1 DEF SameShape
    <3> QED
      BY <1>0, <2>1, <3>1, SameShapeInv
  <2>3. AppliedInv'
    <3>1. \A w \in Versions : tx'[w].status = "committed" => w <= controlVersion'
      BY <1>0, <2>1, <2>2, VersionsType DEF TableInv, NothingAhead
    <3> QED
      BY <3>1, <2>1, VersionsType DEF AppliedInv
  <2>4. HandlerInv'
    BY <1>0, <2>1 DEF IInv, HandlerInv, handler, Pending, TypeOK
  <2> QED
    BY <2>1, <2>2, <2>3, <2>4 DEF StartupInv, Serving
<1> QED
  BY <1>1, <1>2, <1>3, <1>4, <1>5, <1>6 DEF AuthorityReport

LEMMA ConnectionStepInv ==
  ASSUME IInv, ConnectionStep
  PROVE  TableInv(tx', controlVersion') /\ HandlerInv' /\ StartupInv' /\ AppliedInv'
<1>0. TypeOK /\ controlVersion \in Nat /\ TableInv(tx, controlVersion)
  BY VersionsType DEF IInv, TypeOK
<1>1. ASSUME NEW v \in Versions, SettleRouted(v)
      PROVE  TableInv(tx', controlVersion') /\ HandlerInv' /\ StartupInv' /\ AppliedInv'
  BY <1>0, <1>1, SettleUnknownInv, SettleUnknownOnlyFails, OnlyFailsApplied
     DEF SettleRouted, HandlerInv, StartupInv, Serving
<1>2. CASE DropSocket
  BY <1>2, DurableUnchangedInv
     DEF DropSocket, durable, handler, IInv, HandlerInv, StartupInv, Serving
<1>3. CASE BeginDisconnect \/ BeginRegister
  BY <1>3, DurableUnchangedInv
     DEF BeginDisconnect, BeginRegister, HandlerInv, StartupInv, Serving
<1>4. CASE FinishDisconnect \/ FinishRegister \/ SettleRoutedFails
  BY <1>4, DurableUnchangedInv
     DEF FinishDisconnect, FinishRegister, SettleRoutedFails, Release,
         HandlerInv, StartupInv, Serving
<1>5. CASE PruneAuthority
  BY <1>5, DurableUnchangedInv
     DEF PruneAuthority, handler, HandlerInv, StartupInv, Serving
<1> QED
  BY <1>1, <1>2, <1>3, <1>4, <1>5 DEF ConnectionStep

LEMMA ProcessStepInv ==
  ASSUME IInv, ProcessStep
  PROVE  TableInv(tx', controlVersion') /\ HandlerInv' /\ StartupInv' /\ AppliedInv'
<1>0. TypeOK /\ controlVersion \in Nat /\ TableInv(tx, controlVersion) /\ tx \in Table
  BY VersionsType DEF IInv, TypeOK, Table
<1>1. CASE Crash
  BY <1>1, DurableUnchangedInv DEF Crash, Release, HandlerInv, StartupInv, Serving
<1>2. CASE BeginStartup \/ FailStartup
  BY <1>2, DurableUnchangedInv
     DEF BeginStartup, FailStartup, handler, IInv, HandlerInv, StartupInv, Serving
<1>3. CASE RecoverControls
  <2>1. /\ tx' = Recovered(tx) /\ server' = "recovered" /\ lock = "free"
        /\ UNCHANGED <<controlVersion, device, handler>>
    BY <1>3 DEF RecoverControls, IInv, StartupInv, Serving
  <2>2. TableInv(tx', controlVersion') /\ Pending(tx') = {}
    BY <1>0, <2>1, RecoveredInv
  <2>3. \A v \in Versions : tx'[v].status = "committed" => tx[v].status = "committed"
    BY <1>0, <2>1, RecoveredInv DEF OnlyFails
  <2>4. AppliedInv'
    BY <2>1, <2>3 DEF IInv, AppliedInv
  <2>5. HandlerInv' /\ StartupInv'
    BY <2>1, <2>2 DEF handler, HandlerInv, StartupInv, Serving, Pending
  <2> QED
    BY <2>2, <2>4, <2>5
<1>4. CASE CompleteStartup
  BY <1>4, DurableUnchangedInv
     DEF CompleteStartup, handler, IInv, HandlerInv, StartupInv, Serving
<1> QED
  BY <1>1, <1>2, <1>3, <1>4 DEF ProcessStep

(* The invariant holds in every reachable state of every instance.         *)
THEOREM InvariantCorrect == Spec => []IInv
<1>1. IInv /\ [Next]_vars => IInv'
  <2> SUFFICES ASSUME IInv, [Next]_vars PROVE IInv'
    OBVIOUS
  <2>1. TypeOK'
    BY TypeStep DEF IInv
  <2>2. CASE Next
    BY <2>1, <2>2, ControlStepInv, AuthorityReportInv, ConnectionStepInv, ProcessStepInv
       DEF Next, IInv
  <2>3. CASE UNCHANGED vars
    BY <2>3, <2>1, DurableUnchangedInv
       DEF vars, handler, IInv, HandlerInv, StartupInv, Serving, durable
  <2> QED
    BY <2>2, <2>3
<1> QED
  BY InitInv, <1>1, PTL DEF Spec


-----------------------------------------------------------------------------
(***************************************************************************)
(* The safety properties the runs check.                                   *)
(***************************************************************************)

(* A pending command has a dependency that can still succeed and a lease   *)
(* exactly when it has: what holds execution back until the track change   *)
(* was made.                                                               *)
THEOREM DependencyGateCorrect == Spec => []DependencyGate
<1>1. IInv => DependencyGate
  BY DEF IInv, TableInv, DependsBackwards, Gated, DependencyGate, Pending
<1> QED
  BY <1>1, InvariantCorrect, PTL

(* Commands commit in version order, on a lease and on a committed         *)
(* dependency, however reports, timers and disconnects interleave.         *)
THEOREM CommitsInOrderCorrect == Spec => []CommitsInOrder
<1>1. IInv => CommitsInOrder
  BY DEF IInv, TableInv, Ordered, CommitsInOrder
<1> QED
  BY <1>1, InvariantCorrect, PTL

(* Where a failure is blamed on a dependency, that dependency failed.      *)
THEOREM DependencyFailureHasCauseCorrect == Spec => []DependencyFailureHasCause
<1>1. IInv => DependencyFailureHasCause
  BY DEF IInv, TableInv, Caused, DependencyFailureHasCause
<1> QED
  BY <1>1, InvariantCorrect, PTL

(* The fallback for transactions of old servers finds nothing.             *)
THEOREM NoLegacyDependentsCorrect == Spec => []NoLegacyDependents
<1>1. ASSUME IInv, NEW r \in Pending(tx), NEW v \in LegacyDependents(tx, r)
      PROVE  FALSE
  <2>1. /\ v \in Pending(tx) /\ TrackChanging(tx, r) /\ v > r /\ tx[v].dependsOn = None
        /\ v \in Nat /\ r \in Nat
    BY <1>1, VersionsType DEF LegacyDependents, Pending
  <2>2. r \in PendingTrackChanges(tx, v)
    BY <2>1 DEF PendingTrackChanges
  <2> QED
    BY <1>1, <2>1, <2>2 DEF IInv, TableInv, Rooted
<1>2. IInv => NoLegacyDependents
  BY <1>1 DEF NoLegacyDependents
<1> QED
  BY <1>2, InvariantCorrect, PTL

(* What the server takes for applied covers all that it told controllers   *)
(* was committed.                                                          *)
THEOREM AppliedCoversCommitsCorrect == Spec => []AppliedCoversCommits
<1>1. IInv => AppliedCoversCommits
  BY DEF IInv, AppliedInv, AppliedCoversCommits
<1> QED
  BY <1>1, InvariantCorrect, PTL

-----------------------------------------------------------------------------
(***************************************************************************)
(* The action properties.  What a step does to the table is one of five:   *)
(* an absent command is accepted, a pending one commits, pending ones      *)
(* fail, all are superseded, or only marks change.                         *)
(***************************************************************************)
Accepted(t, t2) ==
    \E v \in Versions :
        /\ t[v].status = "absent" /\ t2[v].status = "pending"
        /\ \A w \in Versions : w # v => t2[w] = t[w]

OnlyReconciled(t, t2, by) ==
    \A w \in Versions :
        \/ t2[w] = t[w]
        \/ /\ t[w].reconciledBy = None /\ t2[w] = [t[w] EXCEPT !.reconciledBy = by]
           /\ t2[w].status = t[w].status

Committed(t, t2, v) ==
    /\ v \in Pending(t)
    /\ \A w \in Versions : w \notin Pending(t) => t2[w] = t[w]
    /\ \A w \in Pending(t) : w # v => t2[w].status = "pending"

OnlyMarks(t, t2) ==
    \A w \in Versions :
        IF w \in Pending(t) THEN t2[w].status \in {"pending", "superseded"}
        ELSE t2[w] = t[w]

(* The table after a failure whose gap is reconciled at once.              *)
FailsThenReconciled(t, t2, by) ==
    \E t1 : OnlyFails(t, t1) /\ OnlyReconciled(t1, t2, by)

TableStep ==
    \/ Accepted(tx, tx')
    \/ FailsThenReconciled(tx, tx', controlVersion + 1)
    \/ OnlyMarks(tx, tx')
    \/ \E v \in Versions : RemoteCommitted(v) /\ Committed(tx, tx', v)

LEMMA OnlyFailsStep ==
  ASSUME NEW t, NEW t2, NEW by, OnlyFails(t, t2)
  PROVE  FailsThenReconciled(t, t2, by)
  BY DEF FailsThenReconciled, OnlyReconciled

LEMMA ReconcileStep ==
  ASSUME NEW t, NEW applied, OnlyFails(tx, t), TypeOK, t \in Table,
         Reconcilable(t, applied), Reconcile(t, applied)
  PROVE  FailsThenReconciled(tx, tx', controlVersion + 1)
<1>1. OnlyReconciled(t, tx', controlVersion + 1)
  BY DEF Reconcile, Reconcilable, OnlyReconciled, Table, Transaction
<1> QED
  BY <1>1 DEF FailsThenReconciled

LEMMA EveryTableStep == IInv /\ Next => TableStep
<1> SUFFICES ASSUME IInv, Next PROVE TableStep
  OBVIOUS
<1>0. TypeOK /\ controlVersion \in Nat /\ TableInv(tx, controlVersion) /\ tx \in Table
  BY VersionsType DEF IInv, TypeOK, Table
<1>1. tx' = tx => TableStep
  BY DEF TableStep, OnlyMarks, Pending
<1>2. OnlyFails(tx, tx') => TableStep
  BY OnlyFailsStep DEF TableStep
<1>3. ASSUME NEW action \in Actions, NEW timed \in EffectiveAt, AcceptControl(action, timed)
      PROVE  TableStep
  <2> DEFINE v == controlVersion + 1
  <2>1. v \in Versions /\ tx[v].status = "absent"
    BY <1>0, <1>3, NextVersionType DEF AcceptControl, TableInv, NothingAhead
  <2>2. PICK d : tx' = [tx EXCEPT ![v] =
                    [NoTransaction EXCEPT
                        !.status = "pending", !.action = action,
                        !.timed = timed, !.dependsOn = d, !.routed = conn]]
    BY <1>3 DEF AcceptControl
  <2>3. Accepted(tx, tx')
    BY <1>0, <2>1, <2>2 DEF Accepted, NoTransaction, Table
  <2> QED
    BY <2>3 DEF TableStep
<1>4. CASE DispatchControl
  <2>1. inflight \in Pending(tx) /\ tx' = [tx EXCEPT ![inflight].sent = TRUE]
    BY <1>0, <1>4 DEF DispatchControl, IInv, HandlerInv, TypeOK, Pending
  <2>2. OnlyMarks(tx, tx')
    BY <1>0, <2>1 DEF OnlyMarks, Table, Transaction, Pending
  <2> QED
    BY <2>2 DEF TableStep
<1>5. CASE DispatchFails \/ LeaseFails
  BY <1>0, <1>2, <1>5, GiveUpOnlyFails DEF DispatchFails, LeaseFails
<1>6. CASE FinishControl
  <2>1. inflight \in Pending(tx) /\ (tx' = GrantLease(tx, {inflight}) \/ tx' = tx)
    BY <1>0, <1>6 DEF FinishControl, IInv, HandlerInv, TypeOK, Pending
  <2>2. OnlyMarks(tx, tx')
    BY <1>0, <2>1, GrantLeaseTable DEF OnlyMarks, Pending
  <2> QED
    BY <2>2 DEF TableStep
<1>7. ASSUME NEW v \in Versions, LeaseAdvances(v)
      PROVE  TableStep
  <2>1. PICK lease : v \in Pending(tx) /\ tx' = [tx EXCEPT ![v].lease = lease]
    BY <1>7 DEF LeaseAdvances
  <2>2. OnlyMarks(tx, tx')
    BY <1>0, <2>1 DEF OnlyMarks, Table, Transaction, Pending
  <2> QED
    BY <2>2 DEF TableStep
<1>8. ASSUME NEW v \in Versions, ExpireControl(v) \/ SettleRouted(v)
      PROVE  TableStep
  BY <1>0, <1>2, <1>8, SettleUnknownOnlyFails DEF ExpireControl, SettleRouted
<1>9. ASSUME NEW applied \in Versions, NEW known \in BOOLEAN, PassiveUpdate(applied, known)
      PROVE  TableStep
  <2>1. OnlyFails(tx, tx)
    BY DEF OnlyFails
  <2>2. tx' = tx \/ (Reconcilable(tx, applied) /\ Reconcile(tx, applied))
    BY <1>9 DEF PassiveUpdate, KeepControl
  <2> QED
    BY <1>0, <1>1, <2>1, <2>2, ReconcileStep DEF TableStep
<1>10. ASSUME NEW v \in Versions, RemoteCommitted(v)
       PROVE  TableStep
  <2> DEFINE t == Settle(tx, v, "committed", "none", v)
  <2>1. v \in Pending(tx) /\ tx' = GrantLease(t, DirectDependents(tx, v))
    BY <1>10 DEF RemoteCommitted, RemoteAccepted, KeepControl
  <2>2. t \in Table /\ \A w \in Versions : w # v => t[w] = tx[w]
    <3>1. t \in Table
      BY <1>0, SettleType DEF Statuses, Errors, Applied
    <3>2. \A w \in Versions : w # v => t[w] = tx[w]
      BY <1>0 DEF Settle, Table
    <3> QED
      BY <3>1, <3>2
  <2> HIDE DEF t
  <2>3. \A w \in Versions : w \notin Pending(tx) => tx'[w] = tx[w]
    BY <2>1, <2>2, GrantLeaseTable DEF DirectDependents
  <2>4. \A w \in Pending(tx) : w # v => tx'[w].status = "pending"
    BY <2>1, <2>2, GrantLeaseTable DEF Pending
  <2> QED
    BY <1>10, <2>1, <2>3, <2>4 DEF TableStep, Committed
<1>11. ASSUME NEW v \in Versions, NEW applied \in Versions, NEW known \in BOOLEAN,
              RemoteFailed(v, applied, known)
       PROVE  TableStep
  <2> DEFINE direct == DirectDependents(tx, v)
             seeds == IF direct # {} THEN direct ELSE LegacyDependents(tx, v) \ {v}
             t == FailDependents(Settle(tx, v, "failed", "execution_failed", applied),
                                 seeds, v, applied)
  <2>1. /\ v \in Pending(tx)
        /\ tx' = t \/ (Reconcilable(t, applied) /\ Reconcile(t, applied))
    BY <1>11 DEF RemoteFailed, RemoteAccepted, KeepControl
  <2>2. TableInv(t, controlVersion) /\ OnlyFails(tx, t)
    BY <1>0, <2>1, RemoteFailedTable
  <2>3. t \in Table
    BY <2>2 DEF TableInv
  <2> HIDE DEF t
  <2> QED
    BY <1>0, <1>2, <2>1, <2>2, <2>3, ReconcileStep DEF TableStep
<1>12. ASSUME NEW v \in Versions, ActivateDependent(v) \/ ActivationFails(v)
       PROVE  TableStep
  BY <1>0, <1>1, <1>2, <1>12, GiveUpOnlyFails DEF ActivateDependent, ActivationFails
<1>13. ASSUME NEW i \in Intents, LocalIntent(i)
       PROVE  TableStep
  <2>1. tx' = Superseded(tx, controlVersion')
    BY <1>13 DEF LocalIntent
  <2>2. OnlyMarks(tx, tx')
    BY <1>0, <2>1 DEF OnlyMarks, Superseded, Pending, Table, Transaction
  <2> QED
    BY <2>2 DEF TableStep
<1>14. CASE RecoverControls
  BY <1>0, <1>2, <1>14, RecoveredInv DEF RecoverControls
<1>15. CASE \/ SyncQueue \/ DropSocket \/ BeginDisconnect \/ BeginRegister \/ FinishDisconnect
            \/ FinishRegister \/ SettleRoutedFails \/ PruneAuthority
            \/ Crash \/ BeginStartup \/ CompleteStartup \/ FailStartup
  BY <1>1, <1>15
     DEF SyncQueue, AdvanceDevice, DropSocket, BeginDisconnect, BeginRegister, FinishDisconnect,
         FinishRegister, SettleRoutedFails, PruneAuthority,
         Crash, BeginStartup, CompleteStartup, FailStartup, durable
<1> QED
  BY <1>3, <1>4, <1>5, <1>6, <1>7, <1>8, <1>9, <1>10, <1>11, <1>12, <1>13, <1>14, <1>15
     DEF Next, ControlStep, AuthorityReport, ConnectionStep, ProcessStep


(* An outcome, once stored, is never rewritten; one reconciliation may     *)
(* mark it.                                                                *)
THEOREM OutcomesAreFinalCorrect == Spec => OutcomesAreFinal
<1> DEFINE A == \A v \in Versions : tx[v].status \in Terminal =>
                    \/ tx'[v] = tx[v]
                    \/ /\ tx[v].reconciledBy = None
                       /\ tx'[v] = [tx[v] EXCEPT !.reconciledBy = controlVersion + 1]
<1>1. TableStep => A
  <2> SUFFICES ASSUME TableStep, NEW v \in Versions, tx[v].status \in Terminal
               PROVE  \/ tx'[v] = tx[v]
                      \/ /\ tx[v].reconciledBy = None
                         /\ tx'[v] = [tx[v] EXCEPT !.reconciledBy = controlVersion + 1]
    OBVIOUS
  <2>1. v \notin Pending(tx) /\ tx[v].status # "absent"
    BY DEF Pending, Terminal
  <2>2. CASE FailsThenReconciled(tx, tx', controlVersion + 1)
    <3>1. PICK t1 : OnlyFails(tx, t1) /\ OnlyReconciled(t1, tx', controlVersion + 1)
      BY <2>2 DEF FailsThenReconciled
    <3>2. t1[v] = tx[v]
      BY <2>1, <3>1 DEF OnlyFails
    <3> QED
      BY <3>1, <3>2 DEF OnlyReconciled
  <2>3. CASE Accepted(tx, tx') \/ OnlyMarks(tx, tx')
            \/ \E u \in Versions : RemoteCommitted(u) /\ Committed(tx, tx', u)
    BY <2>1, <2>3 DEF Accepted, OnlyMarks, Committed
  <2> QED
    BY <2>2, <2>3 DEF TableStep
<1>2. IInv /\ [Next]_vars => [A]_vars
  BY <1>1, EveryTableStep
<1> QED
  BY <1>2, InvariantCorrect, PTL DEF Spec, OutcomesAreFinal

(* A command commits only on the word of the registered connection it was  *)
(* routed to, after its lease began.                                       *)
THEOREM CommittedByRoutedConnectionCorrect == Spec => CommittedByRoutedConnection
<1> DEFINE A == \A v \in Versions :
                    tx[v].status = "pending" /\ tx'[v].status = "committed" =>
                        /\ tx[v].routed = conn /\ conn # None
                        /\ tx[v].lease \in {"running", "expired"}
<1>1. TableStep => A
  <2> SUFFICES ASSUME TableStep, NEW v \in Versions,
                      tx[v].status = "pending", tx'[v].status = "committed"
               PROVE  /\ tx[v].routed = conn /\ conn # None
                      /\ tx[v].lease \in {"running", "expired"}
    OBVIOUS
  <2>1. v \in Pending(tx)
    BY DEF Pending
  <2>2. CASE \E u \in Versions : RemoteCommitted(u) /\ Committed(tx, tx', u)
    <3>1. RemoteCommitted(v)
      BY <2>1, <2>2 DEF Committed
    <3> QED
      BY <3>1 DEF RemoteCommitted, RemoteAccepted, UpdateAccepted, AuthorityReachable
  <2>3. CASE FailsThenReconciled(tx, tx', controlVersion + 1)
    <3>1. PICK t1 : OnlyFails(tx, t1) /\ OnlyReconciled(t1, tx', controlVersion + 1)
      BY <2>3 DEF FailsThenReconciled
    <3>2. t1[v].status \in {"pending", "failed"}
      BY <3>1 DEF OnlyFails
    <3>3. tx'[v].status = t1[v].status
      BY <3>1 DEF OnlyReconciled
    <3> QED
      BY <3>2, <3>3
  <2>4. CASE Accepted(tx, tx') \/ OnlyMarks(tx, tx')
    BY <2>1, <2>4 DEF Accepted, OnlyMarks
  <2> QED
    BY <2>2, <2>3, <2>4 DEF TableStep
<1>2. IInv /\ [Next]_vars => [A]_vars
  BY <1>1, EveryTableStep
<1> QED
  BY <1>2, InvariantCorrect, PTL DEF Spec, CommittedByRoutedConnection

(* The version the server takes for applied never goes back, not in a      *)
(* reconciliation, a queue sync or a restart.                              *)
THEOREM AppliedNeverRegressesCorrect == Spec => AppliedNeverRegresses
<1>1. IInv /\ [Next]_vars => [device' >= device]_vars
  <2> SUFFICES ASSUME IInv, Next PROVE device' >= device
    OBVIOUS
  <2>0. /\ controlVersion \in Versions /\ Versions \subseteq Nat
        /\ device \in Nat /\ device <= controlVersion
    BY VersionsType DEF IInv, TypeOK, AppliedInv, None
  <2>1. device' = device => device' >= device
    BY <2>0
  <2>2. ASSUME NEW t, NEW applied \in Versions, KeepControl(t, applied), device # None => applied >= device
        PROVE  device' >= device
    BY <2>0, <2>2 DEF KeepControl, None
  <2>3. ASSUME NEW t, NEW applied, Reconcile(t, applied)
        PROVE  device' >= device
    BY <2>0, <2>3 DEF Reconcile
  <2>4. CASE ControlStep
    BY <2>1, <2>4
       DEF ControlStep, AcceptControl, DispatchControl, DispatchFails, FinishControl,
           LeaseFails, LeaseAdvances, ExpireControl
  <2>5. CASE AuthorityReport
    <3>1. ASSUME NEW applied \in Versions, NEW known \in BOOLEAN, PassiveUpdate(applied, known)
          PROVE  device' >= device
      BY <2>0, <2>2, <2>3, <3>1 DEF PassiveUpdate, StatesLastApplied
    <3>2. ASSUME NEW v \in Versions, RemoteCommitted(v)
          PROVE  device' >= device
      BY <2>2, <3>2 DEF RemoteCommitted, RemoteAccepted
    <3>3. ASSUME NEW v \in Versions, NEW applied \in Versions, NEW known \in BOOLEAN,
                 RemoteFailed(v, applied, known)
          PROVE  device' >= device
      BY <2>2, <2>3, <3>3 DEF RemoteFailed, RemoteAccepted
    <3>4. ASSUME NEW i \in Intents, LocalIntent(i)
          PROVE  device' >= device
      BY <2>0, <3>4 DEF LocalIntent
    <3>5. CASE SyncQueue
      BY <2>0, <3>5 DEF SyncQueue, AdvanceDevice
    <3>6. ASSUME NEW v \in Versions, ActivateDependent(v) \/ ActivationFails(v)
          PROVE  device' >= device
      BY <2>1, <3>6 DEF ActivateDependent, ActivationFails
    <3> QED
      BY <2>5, <3>1, <3>2, <3>3, <3>4, <3>5, <3>6 DEF AuthorityReport
  <2>6. CASE ConnectionStep
    BY <2>1, <2>6
       DEF ConnectionStep, DropSocket, BeginDisconnect, BeginRegister, SettleRouted,
           FinishDisconnect, FinishRegister, SettleRoutedFails, PruneAuthority, durable
  <2>7. CASE ProcessStep
    BY <2>1, <2>7
       DEF ProcessStep, Crash, BeginStartup, RecoverControls, CompleteStartup,
           FailStartup, durable
  <2> QED
    BY <2>4, <2>5, <2>6, <2>7 DEF Next
<1> QED
  BY <1>1, InvariantCorrect, PTL DEF Spec, AppliedNeverRegresses

(* Whatever state a crash left, nothing is pending when the gate opens.    *)
THEOREM GateOpensCleanCorrect == Spec => GateOpensClean
<1>1. IInv /\ [Next]_vars => [~Serving /\ Serving' => Pending(tx') = {}]_vars
  <2> SUFFICES ASSUME IInv, Next, ~Serving, Serving' PROVE Pending(tx') = {}
    OBVIOUS
  <2>1. CASE CompleteStartup
    BY <2>1 DEF CompleteStartup, IInv, StartupInv, durable
  <2>2. CASE ProcessStep /\ ~CompleteStartup
    BY <2>2 DEF ProcessStep, Crash, BeginStartup, RecoverControls, FailStartup, Serving
  <2>3. CASE ControlStep
    BY <2>3
       DEF ControlStep, AcceptControl, DispatchControl, DispatchFails, FinishControl,
           LeaseFails, LeaseAdvances, ExpireControl, Serving
  <2>4. CASE AuthorityReport
    BY <2>4
       DEF AuthorityReport, PassiveUpdate, RemoteCommitted, RemoteFailed, RemoteAccepted,
           UpdateAccepted, ActivateDependent, ActivationFails, LocalIntent, SyncQueue, AdvanceDevice, Serving
  <2>5. CASE ConnectionStep
    BY <2>5
       DEF ConnectionStep, DropSocket, BeginDisconnect, BeginRegister, SettleRouted,
           FinishDisconnect, FinishRegister, SettleRoutedFails, PruneAuthority, Serving
  <2> QED
    BY <2>1, <2>2, <2>3, <2>4, <2>5 DEF Next
<1> QED
  BY <1>1, InvariantCorrect, PTL DEF Spec, GateOpensClean

-----------------------------------------------------------------------------
(***************************************************************************)
(* What every controlVersion is accounted for.  Settlements touch no mark  *)
(* of reconciliation and bring no transaction into being.                  *)
(***************************************************************************)
MarksKept(t, t2) == \A w \in Versions : t2[w].reconciledBy = t[w].reconciledBy

StatusKept(t, t2) ==
    \A w \in Versions :
        /\ (t2[w].status = "absent") <=> (t[w].status = "absent")
        /\ t[w].status \in Terminal => t2[w].status \in Terminal

LEMMA SettleMarks ==
  ASSUME NEW t \in Table, NEW v, NEW status, NEW error, NEW applied
  PROVE  MarksKept(t, Settle(t, v, status, error, applied))
  BY DEF Settle, MarksKept, Table, Transaction

LEMMA FailDependentsMarks ==
  ASSUME NEW t \in Table, NEW seeds, NEW r, NEW applied
  PROVE  MarksKept(t, FailDependents(t, seeds, r, applied))
<1> DEFINE D == Cascade(t, seeds)
<1> DEFINE F(v) == [t[v] EXCEPT
                     !.status = "failed", !.error = "dependency_failed",
                     !.applied = applied,
                     !.dependsOn = IF v \in seeds THEN r ELSE @]
<1>1. ASSUME NEW v \in Versions PROVE F(v).reconciledBy = t[v].reconciledBy
  BY DEF Table, Transaction
<1>2. FailDependents(t, seeds, r, applied) = [v \in Versions |-> IF v \notin D THEN t[v] ELSE F(v)]
  BY DEF FailDependents
<1> HIDE DEF F, D
<1> QED
  BY <1>1, <1>2 DEF MarksKept

LEMMA GrantLeaseMarks ==
  ASSUME NEW t \in Table, NEW S
  PROVE  MarksKept(t, GrantLease(t, S))
<1> DEFINE F(v) == [t[v] EXCEPT !.lease = IF @ # "none" THEN @
                                    ELSE IF t[v].timed THEN "scheduled"
                                    ELSE "running"]
<1>1. ASSUME NEW v \in Versions PROVE F(v).reconciledBy = t[v].reconciledBy
  BY DEF Table, Transaction
<1>2. GrantLease(t, S) = [v \in Versions |-> IF v \notin S THEN t[v] ELSE F(v)]
  BY DEF GrantLease
<1> HIDE DEF F
<1> QED
  BY <1>1, <1>2 DEF MarksKept

LEMMA MarksTransitive ==
  ASSUME NEW t, NEW t1, NEW t2, MarksKept(t, t1), MarksKept(t1, t2)
  PROVE  MarksKept(t, t2)
  BY DEF MarksKept

LEMMA SettleUnknownMarks ==
  ASSUME TypeOK, NEW v
  PROVE  MarksKept(tx, SettleUnknown(tx, v))
<1>1. tx \in Table
  BY DEF TypeOK, Table
<1>2. CASE v \notin Pending(tx)
  BY <1>2 DEF SettleUnknown, MarksKept
<1>3. CASE v \in Pending(tx)
  <2> DEFINE t1 == Settle(tx, v, "failed", "execution_unknown", LastApplied)
  <2>1. LastApplied \in Applied /\ v \in Versions
    BY <1>3, VersionsType DEF LastApplied, TypeOK, Applied, Pending
  <2>2. t1 \in Table /\ MarksKept(tx, t1)
    BY <1>1, <2>1, SettleType, SettleMarks DEF Statuses, Errors
  <2>3. SettleUnknown(tx, v) = FailDependents(t1, DirectDependents(tx, v), v, LastApplied)
    BY <1>3 DEF SettleUnknown
  <2> HIDE DEF t1
  <2> QED
    BY <2>2, <2>3, FailDependentsMarks, MarksTransitive
<1> QED
  BY <1>2, <1>3

LEMMA RecoveredMarks ==
  ASSUME NEW t \in Table
  PROVE  MarksKept(t, Recovered(t))
  BY DEF Recovered, MarksKept, Table, Transaction

LEMMA OnlyFailsStatus ==
  ASSUME NEW t, NEW t2, OnlyFails(t, t2)
  PROVE  StatusKept(t, t2)
  BY DEF OnlyFails, StatusKept, Pending, Terminal

-----------------------------------------------------------------------------
(* The numbers of commands, intents and reconciliations stay apart as      *)
(* long as a step makes no new one.                                        *)
LEMMA SettlementAccounted ==
  ASSUME IInv, VersionsAccounted, MarksKept(tx, tx'), StatusKept(tx, tx'),
         UNCHANGED <<controlVersion, intents, reconciliations>>,
         device' \in Nat, device' >= device
  PROVE  VersionsAccounted'
<1>0. device \in Nat /\ controlVersion \in Nat /\ Versions \subseteq Nat
      /\ reconciliations \subseteq Reconciliation
  BY VersionsType DEF IInv, TypeOK, None
<1>1. VersionsOwnedOnce'
  BY DEF VersionsAccounted, VersionsOwnedOnce, StatusKept, IntendedAt, ReconciledAt
<1>2. ReconciledOnce'
  <2>1. ASSUME NEW r \in reconciliations PROVE r.through < device'
    <3>1. r.through < device /\ r.through \in Nat
      BY <1>0 DEF VersionsAccounted, ReconciledOnce, Reconciliation
    <3> QED
      BY <1>0, <3>1
  <2>2. \A v \in Versions : tx'[v].reconciledBy # None => tx'[v].status \in Terminal
    BY DEF VersionsAccounted, ReconciledOnce, MarksKept, StatusKept
  <2>3. \A v \in Versions, r \in reconciliations :
            tx'[v].status # "absent" /\ r.from < v /\ v <= r.through
            => tx'[v].reconciledBy = r.through + 1
    BY DEF VersionsAccounted, ReconciledOnce, MarksKept, StatusKept
  <2> QED
    BY <2>1, <2>2, <2>3 DEF VersionsAccounted, ReconciledOnce
<1> QED
  BY <1>1, <1>2 DEF VersionsAccounted

(* A local intent and a queue sync take the next number.                   *)
LEMMA IntentAccounted ==
  ASSUME IInv, VersionsAccounted, MarksKept(tx, tx'), StatusKept(tx, tx'),
         controlVersion' = controlVersion + 1, device' = controlVersion',
         UNCHANGED reconciliations,
         \/ UNCHANGED intents
         \/ \E i \in Intents : /\ intents[i] = None
                               /\ intents' = [intents EXCEPT ![i] = controlVersion']
  PROVE  VersionsAccounted'
<1>0. /\ device \in Nat /\ controlVersion \in Nat /\ Versions \subseteq Nat
      /\ device <= controlVersion /\ None \notin Versions /\ None = 0
      /\ reconciliations \subseteq Reconciliation
      /\ intents \in [Intents -> Versions \cup {None}]
  BY VersionsType DEF IInv, TypeOK, AppliedInv, None
<1>1. \A v \in Versions : IntendedAt(v)' => IntendedAt(v) \/ v = controlVersion + 1
  BY <1>0 DEF IntendedAt
<1>2. \A v \in Versions : ReconciledAt(v) => v <= controlVersion
  BY DEF VersionsAccounted, VersionsOwnedOnce
<1>3. \A v \in Versions : tx[v].status # "absent" => v <= controlVersion
  BY DEF VersionsAccounted, VersionsOwnedOnce
<1>4. \A i, j \in Intents : intents'[i] = intents'[j] /\ intents'[i] # None => i = j
  <2>1. \A i \in Intents : intents[i] # None => intents[i] <= controlVersion
    BY <1>0 DEF VersionsAccounted, VersionsOwnedOnce, IntendedAt
  <2> QED
    BY <1>0, <2>1 DEF VersionsAccounted, VersionsOwnedOnce
<1>5. VersionsOwnedOnce'
  <2>1. ASSUME NEW v \in Versions
        PROVE  /\ tx'[v].status # "absent" =>
                    v <= controlVersion' /\ ~IntendedAt(v)' /\ ~ReconciledAt(v)'
               /\ IntendedAt(v)' => v <= controlVersion' /\ ~ReconciledAt(v)'
               /\ ReconciledAt(v)' => v <= controlVersion'
    <3>1. ReconciledAt(v)' <=> ReconciledAt(v)
      BY DEF ReconciledAt
    <3> QED
      BY <1>0, <1>1, <1>2, <1>3, <3>1
         DEF VersionsAccounted, VersionsOwnedOnce, StatusKept
  <2> QED
    BY <1>4, <2>1 DEF VersionsOwnedOnce
<1>6. ReconciledOnce'
  <2>1. ASSUME NEW r \in reconciliations PROVE r.through < device'
    <3>1. r.through < device /\ r.through \in Nat
      BY <1>0 DEF VersionsAccounted, ReconciledOnce, Reconciliation
    <3> QED
      BY <1>0, <3>1
  <2>2. \A v \in Versions : tx'[v].reconciledBy # None => tx'[v].status \in Terminal
    BY DEF VersionsAccounted, ReconciledOnce, MarksKept, StatusKept
  <2>3. \A v \in Versions, r \in reconciliations :
            tx'[v].status # "absent" /\ r.from < v /\ v <= r.through
            => tx'[v].reconciledBy = r.through + 1
    BY DEF VersionsAccounted, ReconciledOnce, MarksKept, StatusKept
  <2> QED
    BY <2>1, <2>2, <2>3 DEF VersionsAccounted, ReconciledOnce
<1> QED
  BY <1>5, <1>6 DEF VersionsAccounted

(* A command takes the next number.                                        *)
LEMMA AcceptAccounted ==
  ASSUME IInv, VersionsAccounted,
         NEW action \in Actions, NEW timed \in EffectiveAt, AcceptControl(action, timed)
  PROVE  VersionsAccounted'
<1> DEFINE n == controlVersion + 1
<1>0. /\ device \in Nat /\ controlVersion \in Nat /\ Versions \subseteq Nat
      /\ None \notin Versions /\ device <= controlVersion /\ n \in Versions
      /\ reconciliations \subseteq Reconciliation /\ tx \in Table
      /\ intents \in [Intents -> Versions \cup {None}]
  BY VersionsType, NextVersionType DEF IInv, TypeOK, AppliedInv, None, AcceptControl, Table
<1>1. /\ controlVersion' = n
      /\ \A w \in Versions : w # n => tx'[w] = tx[w]
      /\ tx'[n].status = "pending" /\ tx'[n].reconciledBy = None
      /\ UNCHANGED <<device, intents, reconciliations>>
  BY <1>0 DEF AcceptControl, NoTransaction, Table
<1>2. tx[n].status = "absent"
  BY <1>0 DEF IInv, TableInv, NothingAhead
<1> HIDE DEF n
<1>3. \A r \in reconciliations : r.through < device /\ r.through \in Nat
  BY <1>0 DEF VersionsAccounted, ReconciledOnce, Reconciliation
<1>4. n = controlVersion + 1
  BY DEF n
<1>5. VersionsOwnedOnce'
  <2>1. \A v \in Versions : (IntendedAt(v)' <=> IntendedAt(v)) /\ (ReconciledAt(v)' <=> ReconciledAt(v))
    BY <1>1 DEF IntendedAt, ReconciledAt
  <2>2. ~IntendedAt(n) /\ ~ReconciledAt(n)
    BY <1>0, <1>4 DEF VersionsAccounted, VersionsOwnedOnce
  <2>3. ASSUME NEW v \in Versions
        PROVE  /\ tx'[v].status # "absent" =>
                    v <= controlVersion' /\ ~IntendedAt(v)' /\ ~ReconciledAt(v)'
               /\ IntendedAt(v)' => v <= controlVersion' /\ ~ReconciledAt(v)'
               /\ ReconciledAt(v)' => v <= controlVersion'
    BY <1>0, <1>1, <1>4, <2>1, <2>2 DEF VersionsAccounted, VersionsOwnedOnce
  <2> QED
    BY <1>1, <2>3 DEF VersionsAccounted, VersionsOwnedOnce
<1>6. ReconciledOnce'
  <2>1. \A v \in Versions : tx'[v].reconciledBy # None => tx'[v].status \in Terminal
    BY <1>1 DEF VersionsAccounted, ReconciledOnce
  <2>2. \A v \in Versions, r \in reconciliations :
            tx'[v].status # "absent" /\ r.from < v /\ v <= r.through
            => tx'[v].reconciledBy = r.through + 1
    BY <1>0, <1>1, <1>3, <1>4 DEF VersionsAccounted, ReconciledOnce
  <2> QED
    BY <1>1, <1>3, <2>1, <2>2 DEF VersionsAccounted, ReconciledOnce
<1> QED
  BY <1>5, <1>6 DEF VersionsAccounted

(* A reconciliation takes the next number and absorbs what no other has:   *)
(* it starts where the device stands, above every earlier range.           *)
LEMMA ReconciliationAccounted ==
  ASSUME IInv, VersionsAccounted, NEW t \in Table, MarksKept(tx, t), StatusKept(tx, t),
         NEW applied \in Versions, StatesLastApplied(applied),
         Reconcilable(t, applied), Reconcile(t, applied), UNCHANGED intents
  PROVE  VersionsAccounted'
<1> DEFINE n == controlVersion + 1
           new == [from |-> applied, through |-> controlVersion]
<1>0. /\ device \in Nat /\ controlVersion \in Versions /\ Versions \subseteq Nat
      /\ None \notin Versions /\ None = 0 /\ device <= controlVersion /\ n \in Versions
      /\ reconciliations \subseteq Reconciliation /\ applied < controlVersion
      /\ intents \in [Intents -> Versions \cup {None}]
  BY VersionsType, NextVersionType DEF IInv, TypeOK, AppliedInv, None, Reconcile, Reconcilable
<1>1. /\ controlVersion' = n /\ device' = n
      /\ reconciliations' = reconciliations \cup {new}
      /\ \A w \in Gap(t, applied) : tx'[w].reconciledBy = n /\ tx'[w].status = t[w].status
      /\ \A w \in Versions : w \notin Gap(t, applied) => tx'[w] = t[w]
  BY DEF Reconcile, Gap, Table, Transaction
<1>2. \A r \in reconciliations :
        /\ r.through < device /\ r.through \in Nat /\ r.from \in Nat /\ r.through < applied
  <2> SUFFICES ASSUME NEW r \in reconciliations
               PROVE  r.through < device /\ r.through \in Nat /\ r.from \in Nat /\ r.through < applied
    OBVIOUS
  <2>1. r.through < device /\ r.through \in Nat /\ r.from \in Nat
    BY <1>0 DEF VersionsAccounted, ReconciledOnce, Reconciliation
  <2> QED
    BY <1>0, <2>1 DEF StatesLastApplied
<1>3. \A w \in Versions : tx[w].status # "absent" => w <= controlVersion
  BY DEF VersionsAccounted, VersionsOwnedOnce
<1>4. \A w \in Versions : (tx'[w].status # "absent") <=> (tx[w].status # "absent")
  BY <1>1 DEF StatusKept
<1>5. n = controlVersion + 1 /\ new.from = applied /\ new.through = controlVersion
  OBVIOUS
<1>6. \A w \in Gap(t, applied) : t[w].status \in Terminal
  <2>1. ASSUME NEW w \in Gap(t, applied) PROVE t[w].status \in Terminal
    <3>1. w \in Versions /\ t[w].status # "absent" /\ w \notin Pending(t)
      BY DEF Gap, Reconcilable
    <3> QED
      BY <3>1 DEF Pending, Terminal, Table, Transaction, Statuses
  <2> QED
    BY <2>1
<1> HIDE DEF n, new
<1>7. VersionsOwnedOnce'
  <2>1. \A v \in Versions : (IntendedAt(v)' <=> IntendedAt(v))
                             /\ (ReconciledAt(v)' => ReconciledAt(v) \/ v = n)
    BY <1>1, <1>5 DEF IntendedAt, ReconciledAt
  <2>2. ~IntendedAt(n)
    BY <1>0, <1>5 DEF VersionsAccounted, VersionsOwnedOnce
  <2>3. ASSUME NEW v \in Versions
        PROVE  /\ tx'[v].status # "absent" =>
                    v <= controlVersion' /\ ~IntendedAt(v)' /\ ~ReconciledAt(v)'
               /\ IntendedAt(v)' => v <= controlVersion' /\ ~ReconciledAt(v)'
               /\ ReconciledAt(v)' => v <= controlVersion'
    BY <1>0, <1>1, <1>3, <1>4, <1>5, <2>1, <2>2 DEF VersionsAccounted, VersionsOwnedOnce
  <2> QED
    BY <2>3 DEF VersionsAccounted, VersionsOwnedOnce
<1>8. ReconciledOnce'
  <2>1. ASSUME NEW r \in reconciliations', NEW s \in reconciliations', r # s
        PROVE  r.through < s.from \/ s.through < r.from
    BY <1>1, <1>2, <1>5, <2>1 DEF VersionsAccounted, ReconciledOnce
  <2>2. ASSUME NEW r \in reconciliations' PROVE r.through < device'
    BY <1>0, <1>1, <1>2, <1>5
  <2>3. ASSUME NEW v \in Versions, tx'[v].reconciledBy # None PROVE tx'[v].status \in Terminal
    BY <1>1, <1>6, <2>3 DEF VersionsAccounted, ReconciledOnce, MarksKept, StatusKept
  <2>4. ASSUME NEW v \in Versions, NEW r \in reconciliations',
               tx'[v].status # "absent", r.from < v, v <= r.through
        PROVE  tx'[v].reconciledBy = r.through + 1
    <3>1. tx[v].status # "absent" /\ t[v].status # "absent" /\ v \in Nat
      BY <1>0, <1>4, <2>4 DEF StatusKept
    <3>2. CASE r = new
      <4>1. v \in Gap(t, applied)
        BY <1>5, <2>4, <3>1, <3>2 DEF Gap
      <4> QED
        BY <1>1, <1>5, <3>2, <4>1
    <3>3. CASE r # new
      <4>1. r \in reconciliations
        BY <1>1, <3>3
      <4>2. v \notin Gap(t, applied)
        BY <1>0, <1>2, <2>4, <4>1 DEF Gap
      <4> QED
        BY <1>1, <2>4, <3>1, <4>1, <4>2 DEF VersionsAccounted, ReconciledOnce, MarksKept
    <3> QED
      BY <3>2, <3>3
  <2> QED
    BY <2>1, <2>2, <2>3, <2>4 DEF ReconciledOnce
<1> QED
  BY <1>7, <1>8 DEF VersionsAccounted

LEMMA EveryStepAccounted ==
  ASSUME IInv, VersionsAccounted, Next
  PROVE  VersionsAccounted'
<1>0. /\ TypeOK /\ TableInv(tx, controlVersion) /\ tx \in Table
      /\ controlVersion \in Nat /\ device \in Nat /\ Versions \subseteq Nat
  BY VersionsType DEF IInv, TypeOK, Table, None
<1>1. MarksKept(tx, tx) /\ StatusKept(tx, tx)
  BY DEF MarksKept, StatusKept
<1>2. ASSUME MarksKept(tx, tx'), StatusKept(tx, tx'),
             UNCHANGED <<controlVersion, device, intents, reconciliations>>
      PROVE  VersionsAccounted'
  BY <1>0, <1>2, SettlementAccounted
<1>3. ASSUME UNCHANGED durable PROVE VersionsAccounted'
  BY <1>1, <1>2, <1>3 DEF durable, MarksKept, StatusKept
<1>4. ASSUME NEW v, GiveUp(v) PROVE MarksKept(tx, tx') /\ StatusKept(tx, tx')
  BY <1>0, <1>1, <1>4, SettleUnknownMarks, GiveUpOnlyFails, OnlyFailsStatus DEF GiveUp
<1>5. ASSUME NEW v, tx' = SettleUnknown(tx, v) PROVE MarksKept(tx, tx') /\ StatusKept(tx, tx')
  BY <1>0, <1>5, SettleUnknownMarks, SettleUnknownOnlyFails, OnlyFailsStatus
<1>6. ASSUME NEW S, tx' = GrantLease(tx, S) PROVE MarksKept(tx, tx') /\ StatusKept(tx, tx')
  BY <1>0, <1>6, GrantLeaseMarks, GrantLeaseTable DEF StatusKept
<1>7. CASE ControlStep
  <2>1. ASSUME NEW action \in Actions, NEW timed \in EffectiveAt, AcceptControl(action, timed)
        PROVE  VersionsAccounted'
    BY <2>1, AcceptAccounted
  <2>2. CASE DispatchControl
    <3>1. inflight \in Versions
      BY <2>2 DEF DispatchControl, IInv, HandlerInv, TypeOK
    <3>2. MarksKept(tx, tx') /\ StatusKept(tx, tx')
      BY <1>0, <2>2, <3>1 DEF DispatchControl, MarksKept, StatusKept, Table, Transaction
    <3> QED
      BY <1>2, <2>2, <3>2 DEF DispatchControl
  <2>3. CASE DispatchFails \/ LeaseFails
    BY <1>2, <1>4, <2>3 DEF DispatchFails, LeaseFails
  <2>4. CASE FinishControl
    BY <1>1, <1>2, <1>6, <2>4 DEF FinishControl
  <2>5. ASSUME NEW v \in Versions, LeaseAdvances(v) PROVE VersionsAccounted'
    <3>1. PICK lease : tx' = [tx EXCEPT ![v].lease = lease]
      BY <2>5 DEF LeaseAdvances
    <3>2. MarksKept(tx, tx') /\ StatusKept(tx, tx')
      BY <1>0, <3>1 DEF MarksKept, StatusKept, Table, Transaction
    <3> QED
      BY <1>2, <2>5, <3>2 DEF LeaseAdvances
  <2>6. ASSUME NEW v \in Versions, ExpireControl(v) PROVE VersionsAccounted'
    BY <1>2, <1>5, <2>6 DEF ExpireControl
  <2> QED
    BY <1>7, <2>1, <2>2, <2>3, <2>4, <2>5, <2>6 DEF ControlStep
<1>8. CASE AuthorityReport
  <2>1. ASSUME NEW applied \in Versions, NEW known \in BOOLEAN, PassiveUpdate(applied, known)
        PROVE  VersionsAccounted'
    <3>1. StatesLastApplied(applied) /\ UNCHANGED intents
      BY <2>1 DEF PassiveUpdate
    <3>2. CASE Reconcilable(tx, applied) /\ Reconcile(tx, applied)
      BY <1>0, <1>1, <3>1, <3>2, ReconciliationAccounted
    <3>3. CASE KeepControl(tx, applied)
      <4>1. device' >= device /\ device' \in Nat
        BY <1>0, <3>1, <3>3 DEF KeepControl, StatesLastApplied, None
      <4> QED
        BY <1>1, <3>1, <3>3, <4>1, SettlementAccounted DEF KeepControl, MarksKept, StatusKept
    <3> QED
      BY <2>1, <3>2, <3>3 DEF PassiveUpdate
  <2>2. ASSUME NEW v \in Versions, RemoteCommitted(v) PROVE VersionsAccounted'
    <3> DEFINE t == Settle(tx, v, "committed", "none", v)
    <3>1. t \in Table /\ MarksKept(tx, t)
      BY <1>0, SettleType, SettleMarks DEF Statuses, Errors, Applied
    <3>2. /\ tx' = GrantLease(t, DirectDependents(tx, v)) /\ device' = v /\ v \in Pending(tx)
          /\ device # None => v >= device
          /\ UNCHANGED <<controlVersion, intents, reconciliations>>
      BY <2>2 DEF RemoteCommitted, RemoteAccepted, KeepControl
    <3>3. StatusKept(tx, t)
      BY <1>0, <3>2 DEF StatusKept, Settle, Table, Transaction, Pending, Terminal
    <3> HIDE DEF t
    <3>4. MarksKept(tx, tx')
      BY <3>1, <3>2, GrantLeaseMarks, MarksTransitive
    <3>5. StatusKept(tx, tx')
      BY <3>1, <3>2, <3>3, GrantLeaseTable DEF StatusKept
    <3>6. device' >= device /\ device' \in Nat
      BY <1>0, <3>2 DEF None
    <3> QED
      BY <3>2, <3>4, <3>5, <3>6, SettlementAccounted
  <2>3. ASSUME NEW v \in Versions, NEW applied \in Versions, NEW known \in BOOLEAN,
               RemoteFailed(v, applied, known)
        PROVE  VersionsAccounted'
    <3> DEFINE direct == DirectDependents(tx, v)
               seeds == IF direct # {} THEN direct ELSE LegacyDependents(tx, v) \ {v}
               t1 == Settle(tx, v, "failed", "execution_failed", applied)
               t == FailDependents(t1, seeds, v, applied)
    <3>1. /\ v \in Pending(tx) /\ StatesLastApplied(applied) /\ UNCHANGED intents
          /\ KeepControl(t, applied) \/ (Reconcilable(t, applied) /\ Reconcile(t, applied))
      BY <2>3 DEF RemoteFailed, RemoteAccepted
    <3>2. TableInv(t, controlVersion) /\ OnlyFails(tx, t)
      BY <1>0, <3>1, RemoteFailedTable
    <3>3. t1 \in Table /\ MarksKept(tx, t1)
      BY <1>0, SettleType, SettleMarks DEF Statuses, Errors, Applied
    <3> HIDE DEF t1, seeds
    <3>4. MarksKept(tx, t)
      BY <3>3, FailDependentsMarks, MarksTransitive
    <3>5. t \in Table /\ StatusKept(tx, t)
      BY <3>2, OnlyFailsStatus DEF TableInv
    <3> HIDE DEF t
    <3>6. CASE Reconcilable(t, applied) /\ Reconcile(t, applied)
      BY <3>1, <3>4, <3>5, <3>6, ReconciliationAccounted
    <3>7. CASE KeepControl(t, applied)
      <4>1. device' >= device /\ device' \in Nat
        BY <1>0, <3>1, <3>7 DEF KeepControl, StatesLastApplied, None
      <4> QED
        BY <3>1, <3>4, <3>5, <3>7, <4>1, SettlementAccounted DEF KeepControl
    <3> QED
      BY <3>1, <3>6, <3>7
  <2>4. ASSUME NEW v \in Versions, ActivateDependent(v) \/ ActivationFails(v)
        PROVE  VersionsAccounted'
    BY <1>1, <1>2, <1>4, <2>4 DEF ActivateDependent, ActivationFails, MarksKept, StatusKept
  <2>5. ASSUME NEW i \in Intents, LocalIntent(i) PROVE VersionsAccounted'
    <3>1. /\ tx' = Superseded(tx, controlVersion') /\ controlVersion' = controlVersion + 1
          /\ device' = controlVersion' /\ intents[i] = None
          /\ intents' = [intents EXCEPT ![i] = controlVersion']
          /\ UNCHANGED reconciliations
      BY <2>5 DEF LocalIntent, NewIntent
    <3>2. \A w \in Versions :
            IF w \in Pending(tx)
            THEN tx'[w].reconciledBy = tx[w].reconciledBy /\ tx'[w].status = "superseded"
            ELSE tx'[w] = tx[w]
      BY <1>0, <3>1 DEF Superseded, Table, Transaction
    <3>3. MarksKept(tx, tx') /\ StatusKept(tx, tx')
      BY <3>2 DEF MarksKept, StatusKept, Pending, Terminal
    <3> QED
      BY <3>1, <3>3, IntentAccounted
  <2>6. CASE SyncQueue
    BY <1>1, <2>6, IntentAccounted DEF SyncQueue, AdvanceDevice, MarksKept, StatusKept
  <2> QED
    BY <1>8, <2>1, <2>2, <2>3, <2>4, <2>5, <2>6 DEF AuthorityReport
<1>9. CASE ConnectionStep
  <2>1. ASSUME NEW v \in Versions, SettleRouted(v) PROVE VersionsAccounted'
    BY <1>2, <1>5, <2>1 DEF SettleRouted
  <2> QED
    BY <1>3, <1>9, <2>1
       DEF ConnectionStep, DropSocket, BeginDisconnect, BeginRegister,
           FinishDisconnect, FinishRegister, SettleRoutedFails, PruneAuthority
<1>10. CASE ProcessStep
  <2>1. CASE RecoverControls
    <3>1. MarksKept(tx, tx') /\ StatusKept(tx, tx')
      BY <1>0, <2>1, RecoveredMarks, RecoveredInv, OnlyFailsStatus DEF RecoverControls
    <3> QED
      BY <1>2, <2>1, <3>1 DEF RecoverControls
  <2> QED
    BY <1>3, <1>10, <2>1
       DEF ProcessStep, Crash, BeginStartup, CompleteStartup, FailStartup
<1> QED
  BY <1>7, <1>8, <1>9, <1>10 DEF Next

(* A controlVersion is used for one thing, and absorbed by one             *)
(* reconciliation at most, through any number of reconciliations.          *)
THEOREM VersionsAccountedCorrect == Spec => []VersionsAccounted
<1>1. Init => VersionsAccounted
  BY VersionsType
     DEF Init, VersionsAccounted, VersionsOwnedOnce, ReconciledOnce, IntendedAt,
         ReconciledAt, NoTransaction, None
<1>2. IInv /\ VersionsAccounted /\ [Next]_vars => VersionsAccounted'
  <2>1. CASE Next
    BY <2>1, EveryStepAccounted
  <2>2. CASE UNCHANGED vars
    BY <2>2 DEF vars, durable, VersionsAccounted, VersionsOwnedOnce, ReconciledOnce,
                IntendedAt, ReconciledAt
  <2> QED
    BY <2>1, <2>2
<1> QED
  BY <1>1, <1>2, InvariantCorrect, PTL DEF Spec

-----------------------------------------------------------------------------
(***************************************************************************)
(* The properties the runs check, put together from these.                 *)
(***************************************************************************)

(* The rules of dependencies hold together in every reachable state.       *)
THEOREM DependencyRulesCorrect == Spec => []DependencyRules
<1>1. DependencyGate /\ CommitsInOrder /\ DependencyFailureHasCause /\ NoLegacyDependents
      => DependencyRules
  BY DEF DependencyRules
<1> QED
  BY <1>1, DependencyGateCorrect, CommitsInOrderCorrect,
     DependencyFailureHasCauseCorrect, NoLegacyDependentsCorrect, PTL

(* A local intent keeps its version: only a new one is given one.          *)
THEOREM IntentAppliedOnceCorrect == Spec => IntentAppliedOnce
<1> DEFINE A == \A i \in Intents : intents[i] # None => intents'[i] = intents[i]
<1>1. Next => UNCHANGED intents \/ \E i \in Intents : LocalIntent(i)
  BY DEF Next, ControlStep, AcceptControl, DispatchControl, DispatchFails, FinishControl,
         LeaseFails, LeaseAdvances, ExpireControl,
         AuthorityReport, PassiveUpdate, RemoteCommitted, RemoteFailed,
         ActivateDependent, ActivationFails, SyncQueue, AdvanceDevice,
         ConnectionStep, DropSocket, BeginDisconnect, BeginRegister, SettleRouted,
         FinishDisconnect, FinishRegister, SettleRoutedFails, PruneAuthority,
         ProcessStep, Crash, BeginStartup, RecoverControls, CompleteStartup, FailStartup,
         durable
<1>2. ASSUME TypeOK, NEW i \in Intents, LocalIntent(i) PROVE A
  BY <1>2 DEF LocalIntent, NewIntent, TypeOK
<1>3. IInv /\ [Next]_vars => [A]_vars
  BY <1>1, <1>2 DEF IInv
<1> QED
  BY <1>3, InvariantCorrect, PTL DEF Spec, IntentAppliedOnce

(* What was settled, applied and intended stays, and nothing of the        *)
(* previous process is left when the gate opens.                           *)
THEOREM LaneHistoryCorrect == Spec => LaneHistory
<1> QED
  BY OutcomesAreFinalCorrect, AppliedNeverRegressesCorrect, IntentAppliedOnceCorrect,
     GateOpensCleanCorrect DEF LaneHistory

-----------------------------------------------------------------------------
(***************************************************************************)
(* The lane implements ControlOutcomes.  A step of the lane either keeps   *)
(* every status and dependency, or is one of the four of ControlOutcomes.  *)
(***************************************************************************)
KeepsOutcomes(t, t2) ==
    \A w \in Versions : t2[w].status = t[w].status /\ t2[w].dependsOn = t[w].dependsOn

FailsOutcomes(t, t2) ==
    \A w \in Versions :
        /\ t2[w].dependsOn = t[w].dependsOn
        /\ t2[w].status = t[w].status \/ (w \in Pending(t) /\ t2[w].status = "failed")

LEMMA UnsettledIsPending == Outcomes!Unsettled = Pending(tx)
BY DEF Outcomes!Unsettled, Pending

LEMMA KeptStutters == ASSUME KeepsOutcomes(tx, tx') PROVE UNCHANGED Outcomes!vars
BY DEF KeepsOutcomes, Outcomes!vars

(* Whatever fails takes with it all that needs it: what stayed pending has *)
(* a dependency that did not fail, because the gate holds afterwards.      *)
LEMMA FailureImplements ==
    ASSUME tx \in Table, Gated(tx'), FailsOutcomes(tx, tx')
    PROVE  [Outcomes!Next]_(Outcomes!vars)
<1> DEFINE S == {w \in Versions : tx'[w].status # tx[w].status}
<1>1. CASE S = {}
  BY <1>1, KeptStutters DEF FailsOutcomes, KeepsOutcomes
<1>2. CASE S # {}
  <2>1. S \subseteq Pending(tx)
    BY DEF FailsOutcomes
  <2>2. ASSUME NEW w \in Pending(tx), tx[w].dependsOn \in S PROVE w \in S
    <3> SUFFICES ASSUME w \notin S PROVE FALSE
      OBVIOUS
    <3>1. w \in Versions /\ w \in Pending(tx') /\ tx'[w].dependsOn = tx[w].dependsOn
      BY DEF Pending, FailsOutcomes
    <3>2. tx'[tx[w].dependsOn].status = "failed" /\ tx[w].dependsOn # None
      BY <2>2, VersionsType DEF FailsOutcomes
    <3> QED BY <3>1, <3>2 DEF Gated
  <2>3. Outcomes!Unsettled = Pending(tx)
    BY UnsettledIsPending
  <2>4. \A v \in Versions : tx'[v].status = IF v \in S THEN "failed" ELSE tx[v].status
    BY DEF FailsOutcomes
  <2>5. \A v \in Versions : tx'[v].dependsOn = tx[v].dependsOn
    BY DEF FailsOutcomes
  <2>6. S \in SUBSET Versions /\ \A v \in Pending(tx) : v \in Versions
    BY DEF Pending
  <2> HIDE DEF S
  <2>7. PICK F \in SUBSET Versions : F = S
    BY <2>6
  <2>8. Outcomes!Fail(F)
    BY <1>2, <2>1, <2>2, <2>3, <2>4, <2>5, <2>6, <2>7 DEF Outcomes!Fail
  <2> QED BY <2>8 DEF Outcomes!Next
<1> QED BY <1>1, <1>2

(* A failure of one command and its seeds changes no dependency.           *)
LEMMA FailedFailsOutcomes ==
    ASSUME NEW t \in Table, NEW v \in Pending(t), NEW error \in Errors, NEW applied \in Applied,
           DirectDependents(t, v) \in SUBSET (Pending(t) \ {v})
    PROVE  FailsOutcomes(t, Failed(t, v, error, applied, DirectDependents(t, v)))
<1> DEFINE C == Cascade(Settle(t, v, "failed", error, applied), DirectDependents(t, v))
<1>1. \A w \in C : w \in Pending(t)
  BY FailedTable
<1>2. \A w \in DirectDependents(t, v) : t[w].dependsOn = v
  BY DEF DirectDependents
<1> HIDE DEF C
<1> DEFINE t2 == Failed(t, v, error, applied, DirectDependents(t, v))
<1>3. /\ t2[v].status = "failed" /\ t2[v].dependsOn = t[v].dependsOn
      /\ \A w \in C : t2[w].status = "failed"
            /\ t2[w].dependsOn = IF w \in DirectDependents(t, v) THEN v ELSE t[w].dependsOn
      /\ \A w \in Versions : w \notin C /\ w # v => t2[w] = t[w]
  BY FailedTable DEF C
<1> HIDE DEF t2
<1>4. FailsOutcomes(t, t2)
  BY <1>1, <1>2, <1>3 DEF FailsOutcomes
<1> QED BY <1>4 DEF t2

LEMMA SettleUnknownFailsOutcomes ==
    ASSUME TypeOK, NEW cv, TableInv(tx, cv), NEW v
    PROVE  FailsOutcomes(tx, SettleUnknown(tx, v))
<1>1. CASE v \in Pending(tx)
  <2>1. v \in Versions /\ LastApplied \in Applied /\ tx \in Table
    BY <1>1, VersionsType DEF LastApplied, TypeOK, Applied, Pending, Table
  <2>2. DirectDependents(tx, v) \in SUBSET (Pending(tx) \ {v})
    BY <2>1, DirectDependentsAfter
  <2>3. FailsOutcomes(tx, Failed(tx, v, "execution_unknown", LastApplied, DirectDependents(tx, v)))
    BY <1>1, <2>1, <2>2, FailedFailsOutcomes DEF Errors
  <2> QED
    BY <1>1, <2>3 DEF SettleUnknown, Failed
<1>2. CASE v \notin Pending(tx)
  BY <1>2 DEF SettleUnknown, FailsOutcomes
<1> QED BY <1>1, <1>2

(* A command without a recorded dependency is never failed with a track    *)
(* change: under the invariant there is none behind a pending track change.*)
LEMMA RemoteFailedFailsOutcomes ==
    ASSUME TypeOK, NEW cv, TableInv(tx, cv), NEW v \in Pending(tx), NEW applied \in Versions
    PROVE  LET direct == DirectDependents(tx, v)
               seeds == IF direct # {} THEN direct ELSE LegacyDependents(tx, v) \ {v}
           IN  FailsOutcomes(tx,
                   FailDependents(Settle(tx, v, "failed", "execution_failed", applied),
                                  seeds, v, applied))
<1>1. v \in Versions /\ applied \in Applied /\ tx \in Table
  BY DEF Pending, Applied, TypeOK, Table
<1>2. DirectDependents(tx, v) \in SUBSET (Pending(tx) \ {v})
  BY <1>1, DirectDependentsAfter
<1>3. LegacyDependents(tx, v) = {}
  BY <1>1, VersionsType
  DEF LegacyDependents, TableInv, Rooted, PendingTrackChanges, Pending
<1>4. FailsOutcomes(tx, Failed(tx, v, "execution_failed", applied, DirectDependents(tx, v)))
  BY <1>1, <1>2, FailedFailsOutcomes DEF Errors
<1> QED BY <1>3, <1>4 DEF Failed

LEMMA RecoveredFailsOutcomes ==
    ASSUME NEW t \in Table
    PROVE  FailsOutcomes(t, Recovered(t))
<1> SUFFICES ASSUME NEW v \in Versions
             PROVE  /\ Recovered(t)[v].dependsOn = t[v].dependsOn
                    /\ \/ Recovered(t)[v].status = t[v].status
                       \/ v \in Pending(t) /\ Recovered(t)[v].status = "failed"
  BY DEF FailsOutcomes
<1>1. t[v] \in Transaction
  BY DEF Table
<1>2. CASE v \notin Pending(t)
  BY <1>2 DEF Recovered
<1>3. CASE v \in Pending(t)
  <2>1. \/ Recovered(t)[v] = [t[v] EXCEPT !.status = "failed", !.error = "execution_unknown"]
        \/ \E e, a : Recovered(t)[v] = [t[v] EXCEPT !.status = "failed", !.applied = a, !.error = e]
        \/ \E e, a : Recovered(t)[v] = [t[v] EXCEPT !.status = "failed", !.error = e, !.applied = a]
    BY <1>3 DEF Recovered
  <2> QED BY <1>1, <1>3, <2>1 DEF Transaction
<1> QED BY <1>2, <1>3

LEMMA ReconcileKeepsOutcomes ==
    ASSUME TypeOK, NEW t \in Table, NEW applied, Reconcile(t, applied)
    PROVE  KeepsOutcomes(t, tx')
BY DEF Reconcile, KeepsOutcomes, Table, Transaction

LEMMA AcceptImplements ==
    ASSUME IInv, NEW action, NEW timed, AcceptControl(action, timed)
    PROVE  Outcomes!Next
<1> DEFINE v == controlVersion + 1
<1>0. tx \in Table /\ controlVersion \in Nat
  BY VersionsType DEF IInv, TypeOK, Table
<1>1. v \in Versions /\ \A u \in Versions : u >= v => tx[u].status = "absent"
  BY <1>0, NextVersionType, VersionsType DEF AcceptControl, IInv, TableInv, NothingAhead
<1>2. PICK d \in Versions \cup {None} :
        /\ IsDependency(tx, v, d)
        /\ tx' = [tx EXCEPT ![v] =
                    [NoTransaction EXCEPT
                        !.status = "pending", !.action = action,
                        !.timed = timed, !.dependsOn = d, !.routed = conn]]
  BY DEF AcceptControl
<1>3. tx'[v].status = "pending" /\ tx'[v].dependsOn = d
  BY <1>0, <1>1, <1>2 DEF NoTransaction, Table
<1>4. \A w \in Versions : w # v => tx'[w] = tx[w]
  BY <1>0, <1>2 DEF Table
<1>5. d \in Pending(tx) \cup {0}
  BY <1>2 DEF IsDependency, PendingTrackChanges, None
<1> HIDE DEF v
<1>6. [w \in Versions |-> tx'[w].status] = [[w \in Versions |-> tx[w].status] EXCEPT ![v] = "pending"]
  BY <1>1, <1>3, <1>4
<1>7. [w \in Versions |-> tx'[w].dependsOn] = [[w \in Versions |-> tx[w].dependsOn] EXCEPT ![v] = d]
  BY <1>1, <1>3, <1>4
<1>8. Outcomes!Issue(v, d)
  BY <1>1, <1>5, <1>6, <1>7, UnsettledIsPending DEF Outcomes!Issue
<1> QED BY <1>1, <1>8, <1>2 DEF Outcomes!Next, None

LEMMA CommitImplements ==
    ASSUME IInv, NEW v \in Versions, RemoteCommitted(v)
    PROVE  Outcomes!Next
<1> DEFINE t == Settle(tx, v, "committed", "none", v)
<1>0. tx \in Table
  BY DEF IInv, TypeOK, Table
<1>1. /\ v \in Pending(tx) /\ tx[v].lease # "none" /\ \A u \in Pending(tx) : u >= v
      /\ tx' = GrantLease(t, DirectDependents(tx, v))
  BY DEF RemoteCommitted, RemoteAccepted, KeepControl
<1>2. t \in Table
  BY <1>0, SettleType DEF Statuses, Errors, Applied
<1>3. /\ t[v].status = "committed" /\ t[v].dependsOn = tx[v].dependsOn
      /\ \A w \in Versions : w # v => t[w] = tx[w]
  BY <1>0 DEF Settle, Table, Transaction
<1> HIDE DEF t
<1>4. \A w \in Versions : tx'[w].status = t[w].status /\ tx'[w].dependsOn = t[w].dependsOn
  BY <1>1, <1>2, GrantLeaseTable
<1>5. \A w \in Versions : /\ tx'[w].status = IF w = v THEN "committed" ELSE tx[w].status
                          /\ tx'[w].dependsOn = tx[w].dependsOn
  BY <1>3, <1>4
<1>6. tx[v].dependsOn # 0 => tx[v].dependsOn \in Versions /\ tx[tx[v].dependsOn].status = "committed"
  BY <1>0, <1>1, DependsOnType DEF IInv, TableInv, Gated, None
<1>7. \A u \in Pending(tx) : v <= u
  BY <1>1, VersionsType DEF Pending
<1>8. [w \in Versions |-> tx'[w].status] = [[w \in Versions |-> tx[w].status] EXCEPT ![v] = "committed"]
  BY <1>5
<1>9. [w \in Versions |-> tx'[w].dependsOn] = [w \in Versions |-> tx[w].dependsOn]
  BY <1>5
<1>10. Outcomes!Commit(v)
  BY <1>1, <1>6, <1>7, <1>8, <1>9, UnsettledIsPending DEF Outcomes!Commit
<1> QED BY <1>10 DEF Outcomes!Next

LEMMA IntentImplements ==
    ASSUME IInv, NEW i, LocalIntent(i)
    PROVE  [Outcomes!Next]_(Outcomes!vars)
<1>1. \A w \in Versions : /\ tx'[w].status = IF w \in Pending(tx) THEN "superseded" ELSE tx[w].status
                          /\ tx'[w].dependsOn = tx[w].dependsOn
  BY DEF LocalIntent, Superseded, IInv, TypeOK, Transaction
<1>2. CASE Pending(tx) = {}
  BY <1>1, <1>2, KeptStutters DEF KeepsOutcomes
<1>3. CASE Pending(tx) # {}
  BY <1>1, <1>3, UnsettledIsPending DEF Outcomes!Supersede, Outcomes!Next
<1> QED BY <1>2, <1>3

(* The initial state and every step of the lane, seen through the mapping. *)
LEMMA InitImplements == Init => Outcomes!Init
BY DEF Init, NoTransaction, None, Outcomes!Init

LEMMA StepImplements == ASSUME IInv, IInv', [Next]_vars PROVE [Outcomes!Next]_(Outcomes!vars)
<1>0. TypeOK /\ TableInv(tx, controlVersion) /\ tx \in Table /\ Gated(tx')
  BY DEF IInv, TypeOK, Table, TableInv
<1>1. tx' = tx => [Outcomes!Next]_(Outcomes!vars)
  BY KeptStutters DEF KeepsOutcomes
<1>2. FailsOutcomes(tx, tx') => [Outcomes!Next]_(Outcomes!vars)
  BY <1>0, FailureImplements
<1>3. KeepsOutcomes(tx, tx') => [Outcomes!Next]_(Outcomes!vars)
  BY KeptStutters
<1>4. ASSUME NEW v, GiveUp(v) \/ tx' = SettleUnknown(tx, v)
      PROVE  [Outcomes!Next]_(Outcomes!vars)
  BY <1>0, <1>1, <1>2, <1>4, SettleUnknownFailsOutcomes DEF GiveUp
<1>5. CASE DispatchControl
  <2>1. inflight \in Versions /\ tx' = [tx EXCEPT ![inflight].sent = TRUE]
    BY <1>0, <1>5 DEF DispatchControl, IInv, HandlerInv, TypeOK
  <2> QED BY <1>0, <1>3, <2>1 DEF KeepsOutcomes, Table, Transaction
<1>6. CASE FinishControl
  BY <1>0, <1>1, <1>3, <1>6, GrantLeaseTable DEF FinishControl, KeepsOutcomes
<1>7. ASSUME NEW v \in Versions, LeaseAdvances(v) PROVE [Outcomes!Next]_(Outcomes!vars)
  <2>1. PICK lease : tx' = [tx EXCEPT ![v].lease = lease]
    BY <1>7 DEF LeaseAdvances
  <2> QED BY <1>0, <1>3, <2>1 DEF KeepsOutcomes, Table, Transaction
<1>8. ASSUME NEW applied \in Versions, NEW known \in BOOLEAN, PassiveUpdate(applied, known)
      PROVE  [Outcomes!Next]_(Outcomes!vars)
  BY <1>0, <1>1, <1>3, <1>8, ReconcileKeepsOutcomes DEF PassiveUpdate, KeepControl
<1>9. ASSUME NEW v \in Versions, NEW applied \in Versions, NEW known \in BOOLEAN,
             RemoteFailed(v, applied, known)
      PROVE  [Outcomes!Next]_(Outcomes!vars)
  <2> DEFINE direct == DirectDependents(tx, v)
             seeds == IF direct # {} THEN direct ELSE LegacyDependents(tx, v) \ {v}
             t == FailDependents(Settle(tx, v, "failed", "execution_failed", applied),
                                 seeds, v, applied)
  <2>1. /\ v \in Pending(tx)
        /\ tx' = t \/ Reconcile(t, applied)
    BY <1>9 DEF RemoteFailed, RemoteAccepted, KeepControl
  <2>2. controlVersion \in Nat
    BY <1>0, VersionsType DEF TypeOK
  <2>3. t \in Table
    BY <1>0, <2>1, <2>2, RemoteFailedTable DEF TableInv
  <2>4. FailsOutcomes(tx, t)
    BY <1>0, <2>1, RemoteFailedFailsOutcomes
  <2> HIDE DEF t
  <2>5. FailsOutcomes(tx, tx')
    BY <1>0, <2>1, <2>3, <2>4, ReconcileKeepsOutcomes DEF FailsOutcomes, KeepsOutcomes
  <2> QED BY <1>2, <2>5
<1>10. CASE RecoverControls
  BY <1>0, <1>2, <1>10, RecoveredFailsOutcomes DEF RecoverControls
<1>11. CASE ControlStep
  <2>1. ASSUME NEW action, NEW timed, AcceptControl(action, timed) PROVE Outcomes!Next
    BY <2>1, AcceptImplements
  <2> QED
    BY <1>11, <2>1, <1>4, <1>5, <1>6, <1>7 DEF ControlStep, DispatchFails, LeaseFails, ExpireControl
<1>12. CASE AuthorityReport
  <2>1. ASSUME NEW v \in Versions, ActivateDependent(v) \/ ActivationFails(v)
        PROVE  [Outcomes!Next]_(Outcomes!vars)
    BY <1>1, <1>4, <2>1 DEF ActivateDependent, ActivationFails
  <2>2. SyncQueue => tx' = tx
    BY DEF SyncQueue
  <2> QED
    BY <1>12, <1>1, <1>8, <1>9, <2>1, <2>2, CommitImplements, IntentImplements DEF AuthorityReport
<1>13. CASE ConnectionStep
  BY <1>13, <1>1, <1>4
  DEF ConnectionStep, DropSocket, BeginDisconnect, BeginRegister, SettleRouted, FinishDisconnect,
      FinishRegister, SettleRoutedFails, PruneAuthority, durable
<1>14. CASE ProcessStep
  BY <1>14, <1>1, <1>10 DEF ProcessStep, Crash, BeginStartup, CompleteStartup, FailStartup, durable
<1>15. CASE UNCHANGED vars
  BY <1>15, <1>1 DEF vars, durable
<1> QED BY <1>11, <1>12, <1>13, <1>14, <1>15 DEF Next

(* Seen through its transactions, the lane is what ControlOutcomes         *)
(* promises the controllers, for every bound, with any number of restarts  *)
(* and database failures.                                                  *)
THEOREM ImplementsOutcomesCorrect == Spec => ImplementsOutcomes
<1>1. IInv /\ IInv' /\ [Next]_vars => [Outcomes!Next]_(Outcomes!vars)
  BY StepImplements
<1> QED
  BY <1>1, InitImplements, InvariantCorrect, PTL DEF Spec, ImplementsOutcomes, Outcomes!Spec

=============================================================================
