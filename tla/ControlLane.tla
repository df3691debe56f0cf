----------------------------- MODULE ControlLane -----------------------------
(***************************************************************************)
(* The ordinary control lane of one strict-v2 playback context: what the   *)
(* server in src/supysonic/emo does between the moment a controller's      *)
(* command is accepted and the moment its outcome is settled.              *)
(*                                                                         *)
(* Every accepted command owns one controlVersion and one durable          *)
(* transaction.  The authority device reports what it played, timers and   *)
(* disconnects settle what it did not report, and a restart settles what   *)
(* survived the process.  A command issued while a track change is still   *)
(* pending depends on that track change.                                   *)
(*                                                                         *)
(* Time is abstracted to the state of the execution lease: "none" is a     *)
(* null executionEligibleAtMs, "scheduled" one in the future, "running" a  *)
(* lease before its watchdogDeadlineAtMs and "expired" one after it.  The  *)
(* contents of the queue are abstracted to the two questions the lane asks *)
(* of them: does a command change the track, and can the reported track be *)
(* found in the queue exactly once.                                        *)
(***************************************************************************)
EXTENDS Integers, FiniteSets

CONSTANTS
    MaxControlVersion,   \* bound on controlVersion
    MaxConnection,       \* bound on the authority's connection generations
    Actions,             \* the ordinary control actions controllers send
    EffectiveAt,         \* whether they carry an effective-at time: a set of BOOLEANs
    Intents,             \* local intent identifiers of the authority device
    StoreFaults          \* whether a database call may raise

ASSUME ConstantsAssumption ==
    /\ MaxControlVersion \in Nat \ {0}
    /\ MaxConnection \in Nat
    /\ EffectiveAt \subseteq BOOLEAN
    /\ StoreFaults \in BOOLEAN

VARIABLES
    server,             \* the startup gate and the life of the process
    controlVersion,     \* canonical controlVersion of the context
    tx,                 \* EmoPlaybackControlTransaction, by commandControlVersion
    device,             \* appliedControlVersion of the authority's device state, 0 without a row
    intents,            \* EmoPlaybackLocalIntent: the controlVersion of each, 0 if unused
    reconciliations,    \* EmoPlaybackControlReconciliation rows
    conn,               \* connectionNonce of the registered authority, 0 if none
    lastConn,           \* last connectionNonce handed out
    socket,             \* what is_connected says of the registered socket
    lock,               \* who holds the authority's physical generation lock
    inflight,           \* the command the control handler is dispatching
    work                \* transactions the lock holder still has to treat

durable == <<controlVersion, tx, device, intents, reconciliations>>
registry == <<conn, lastConn, socket>>
handler == <<lock, inflight, work>>
vars == <<server, durable, registry, handler>>

None == 0
Versions == 1..MaxControlVersion
Connections == 1..MaxConnection

TrackChangingActions == {"queue.playItem", "player.next", "player.prev"}
Statuses == {"absent", "pending", "committed", "failed", "superseded"}
Terminal == {"committed", "failed", "superseded"}
Leases == {"none", "scheduled", "running", "expired"}
Errors == {"none", "execution_failed", "execution_unknown", "dependency_failed"}

Transaction ==
    [status : Statuses, action : Actions \cup {"none"}, timed : BOOLEAN,
     sent : BOOLEAN, dependsOn : Versions \cup {None}, lease : Leases,
     routed : Connections \cup {None}, applied : Versions \cup {None},
     error : Errors, reconciledBy : Versions \cup {None}]

NoTransaction ==
    [status |-> "absent", action |-> "none", timed |-> FALSE,
     sent |-> FALSE, dependsOn |-> None, lease |-> "none", routed |-> None,
     applied |-> None, error |-> "none", reconciledBy |-> None]

Reconciliation == [from : Versions, through : Versions]

TypeOK ==
    /\ server \in {"down", "recovering", "recovered", "ready", "failed"}
    /\ controlVersion \in Versions
    /\ tx \in [Versions -> Transaction]
    /\ device \in Versions \cup {None}
    /\ intents \in [Intents -> Versions \cup {None}]
    /\ reconciliations \subseteq Reconciliation
    /\ conn \in Connections \cup {None}
    /\ lastConn \in Connections \cup {None}
    /\ socket \in {"up", "dropped", "dead"}
    /\ lock \in {"free", "accepted", "dispatched", "update", "disconnect", "register"}
    /\ inflight \in Versions \cup {None}
    /\ work \subseteq Versions

(* The context was created with controlVersion 1 and no transaction, and   *)
(* the process is about to start.                                          *)
Init ==
    /\ server = "down"
    /\ controlVersion = 1
    /\ tx = [v \in Versions |-> NoTransaction]
    /\ device = None
    /\ intents = [i \in Intents |-> None]
    /\ reconciliations = {}
    /\ conn = None /\ lastConn = None /\ socket = "dead"
    /\ lock = "free" /\ inflight = None /\ work = {}

-----------------------------------------------------------------------------
(***************************************************************************)
(* Operators on the transaction table.  A definition whose name ends in    *)
(* _Something is a faulty variant of the one it precedes; no action uses   *)
(* it, the mutation runs put it in the place of the real one.              *)
(***************************************************************************)
Pending(t) == {v \in Versions : t[v].status = "pending"}

(* The dependency given to a new command: the highest pending lower track  *)
(* change, None when there is no such transaction.                         *)
TrackChanging(t, v) == t[v].action \in TrackChangingActions

PendingTrackChanges_Leased(t, v) ==
    {u \in Pending(t) : TrackChanging(t, u) /\ u < v /\ t[u].lease # "none"}

PendingTrackChanges(t, v) == {u \in Pending(t) : TrackChanging(t, u) /\ u < v}

IsDependency(t, v, d) ==
    \/ d = None /\ PendingTrackChanges(t, v) = {}
    \/ /\ d \in PendingTrackChanges(t, v)
       /\ \A u \in PendingTrackChanges(t, v) : u <= d

DirectDependents(t, r) == {v \in Pending(t) : t[v].dependsOn = r}

(* Transactions accepted before dependencies were recorded, which only a   *)
(* device's own failure report may fail.                                   *)
LegacyDependents(t, r) ==
    {v \in Pending(t) : TrackChanging(t, r) /\ v > r /\ t[v].dependsOn = None}

(* The least set that holds the seeds and every pending transaction whose  *)
(* direct dependency it holds: what the heap of the source visits.         *)
Cascade(t, seeds) ==
    {v \in Versions :
        \A S \in SUBSET Versions :
            (/\ seeds \subseteq S
             /\ \A w \in Pending(t) : t[w].dependsOn \in S => w \in S)
            => v \in S}

(* Settlement of one transaction, before its dependents are looked at.     *)
Settle_Swapped(t, v, status, error, applied) ==
    [t EXCEPT ![v].status = error, ![v].error = status, ![v].applied = applied]

Settle(t, v, status, error, applied) ==
    [t EXCEPT ![v] = [@ EXCEPT !.status = status, !.error = error, !.applied = applied]]

FailDependents_DirectOnly(t, seeds, r, applied) ==
    [v \in Versions |->
        IF v \notin seeds THEN t[v]
        ELSE [t[v] EXCEPT
                !.status = "failed", !.error = "dependency_failed",
                !.applied = applied, !.dependsOn = r]]

FailDependents(t, seeds, r, applied) ==
    LET doomed == Cascade(t, seeds)
    IN  [v \in Versions |->
            IF v \notin doomed THEN t[v]
            ELSE [t[v] EXCEPT
                    !.status = "failed", !.error = "dependency_failed",
                    !.applied = applied,
                    !.dependsOn = IF v \in seeds THEN r ELSE @]]

GrantLease(t, S) ==
    [v \in Versions |->
        IF v \notin S THEN t[v]
        ELSE [t[v] EXCEPT !.lease = IF @ # "none" THEN @
                                    ELSE IF t[v].timed THEN "scheduled"
                                    ELSE "running"]]

(* settlePlaybackControlTransaction(failed, execution_unknown): the device *)
(* row, or 1 without one, is what the server believes was applied.         *)
LastApplied == IF device = None THEN 1 ELSE device

SettleUnknown_Again(t, v) ==
    FailDependents(Settle(t, v, "failed", "execution_unknown", LastApplied),
                   DirectDependents(t, v), v, LastApplied)

SettleUnknown_NoCascade(t, v) ==
    IF v \notin Pending(t) THEN t
    ELSE Settle(t, v, "failed", "execution_unknown", LastApplied)

SettleUnknown(t, v) ==
    IF v \notin Pending(t) THEN t
    ELSE FailDependents(Settle(t, v, "failed", "execution_unknown", LastApplied),
                        DirectDependents(t, v), v, LastApplied)

-----------------------------------------------------------------------------
(***************************************************************************)
(* Controls: _handle_strict_v2_context_control and the Broadcast handler   *)
(* that dispatches the same way with an effective-at time (timed).         *)
(***************************************************************************)
Serving == server = "ready"
AuthorityReachable == conn # None /\ socket = "up"

AcceptControl(action, timed) ==
    /\ Serving /\ lock = "free" /\ AuthorityReachable
    /\ controlVersion < MaxControlVersion
    /\ LET v == controlVersion + 1
       IN  /\ \E d \in Versions \cup {None} :
                /\ IsDependency(tx, v, d)
                /\ tx' = [tx EXCEPT ![v] =
                        [NoTransaction EXCEPT
                            !.status = "pending", !.action = action,
                            !.timed = timed, !.dependsOn = d, !.routed = conn]]
           /\ controlVersion' = v
           /\ inflight' = v
    /\ lock' = "accepted"
    /\ UNCHANGED <<server, device, intents, reconciliations, registry, work>>

Release == lock' = "free" /\ inflight' = None /\ work' = {}

(* The two endings of a handler that gives its own command up: the         *)
(* settlement is persisted, or the database raises and the exception is    *)
(* logged and dropped.                                                     *)
GiveUp(v) ==
    \/ tx' = SettleUnknown(tx, v)
    \/ StoreFaults /\ UNCHANGED tx

(* The authority is checked again, then the command is emitted.            *)
DispatchControl ==
    /\ Serving /\ lock = "accepted" /\ AuthorityReachable
    /\ tx' = [tx EXCEPT ![inflight].sent = TRUE]
    /\ lock' = "dispatched"
    /\ UNCHANGED <<server, controlVersion, device, intents, reconciliations,
                   registry, inflight, work>>

(* The check fails, or the emit raises.                                    *)
DispatchFails ==
    /\ Serving /\ lock = "accepted"
    /\ GiveUp(inflight)
    /\ Release
    /\ UNCHANGED <<server, controlVersion, device, intents, reconciliations, registry>>

(* Only a command without a dependency gets its execution lease now.       *)
FinishControl ==
    /\ Serving /\ lock = "dispatched"
    /\ tx' = IF tx[inflight].dependsOn = None
             THEN GrantLease(tx, {inflight}) ELSE tx
    /\ Release
    /\ UNCHANGED <<server, controlVersion, device, intents, reconciliations, registry>>

(* Marking the command eligible or starting its watchdog raises.           *)
LeaseFails ==
    /\ StoreFaults /\ Serving /\ lock = "dispatched"
    /\ tx[inflight].dependsOn = None
    /\ GiveUp(inflight)
    /\ Release
    /\ UNCHANGED <<server, controlVersion, device, intents, reconciliations, registry>>

(* Time reaches executionEligibleAtMs, then watchdogDeadlineAtMs.          *)
LeaseAdvances(v) ==
    /\ v \in Pending(tx)
    /\ \/ tx[v].lease = "scheduled" /\ tx' = [tx EXCEPT ![v].lease = "running"]
       \/ tx[v].lease = "running" /\ tx' = [tx EXCEPT ![v].lease = "expired"]
    /\ UNCHANGED <<server, controlVersion, device, intents, reconciliations,
                   registry, handler>>

(* The watchdog task of a command, or the sweep that runs every second.    *)
ExpireControl(v) ==
    /\ Serving /\ lock = "free"
    /\ v \in Pending(tx) /\ tx[v].lease = "expired"
    /\ tx' = SettleUnknown(tx, v)
    /\ UNCHANGED <<server, controlVersion, device, intents, reconciliations,
                   registry, handler>>

-----------------------------------------------------------------------------
(***************************************************************************)
(* Reports of the authority device: applyStrictPlaybackUpdate under        *)
(* _handle_strict_v2_playback_update.  A report whose clientSeq or applied *)
(* version is stale, and a repeated one, is answered from what is stored   *)
(* and changes nothing here.                                               *)
(***************************************************************************)
UpdateAccepted == Serving /\ lock = "free" /\ AuthorityReachable

Gap(t, applied) ==
    {v \in Versions : applied < v /\ v <= controlVersion /\ t[v].status # "absent"}

Reconcilable(t, applied) ==
    /\ applied < controlVersion
    /\ Pending(t) = {}
    /\ \E v \in Gap(t, applied) : t[v].status = "failed"
    /\ \A v \in Gap(t, applied) : t[v].reconciledBy = None
    /\ \A r \in reconciliations :
            ~(applied < r.through /\ r.through <= controlVersion)

(* _reconcile_terminal_control_gap: the reported track is in the queue     *)
(* exactly once (known).                                                   *)
Reconcile(t, applied) ==
    LET by == controlVersion + 1
    IN  /\ controlVersion < MaxControlVersion
        /\ controlVersion' = by
        /\ device' = by
        /\ reconciliations' = reconciliations \cup
                {[from |-> applied, through |-> controlVersion]}
        /\ tx' = [v \in Versions |->
                    IF v \in Gap(t, applied)
                    THEN [t[v] EXCEPT !.reconciledBy = by] ELSE t[v]]

KeepControl_NoDevice(t, applied) ==
    /\ tx' = t
    /\ UNCHANGED <<controlVersion, device, reconciliations>>

KeepControl(t, applied) ==
    /\ tx' = t
    /\ device' = applied
    /\ UNCHANGED <<controlVersion, reconciliations>>

(* Without a device row there is nothing to compare the report with.       *)
StatesLastApplied_Unchecked(applied) == TRUE

StatesLastApplied(applied) == device # None => applied = device

PassiveUpdate(applied, known) ==
    /\ UpdateAccepted
    /\ applied <= controlVersion
    /\ StatesLastApplied(applied)
    /\ IF Reconcilable(tx, applied) /\ known
       THEN Reconcile(tx, applied) ELSE KeepControl(tx, applied)
    /\ UNCHANGED <<server, intents, registry, handler>>

(* What a device may report of a command: it was routed to this very       *)
(* connection, its lease has begun and nothing before it is pending.       *)
RemoteAccepted_AnyConnection(v, applied) ==
    /\ UpdateAccepted
    /\ v \in Pending(tx) /\ v <= controlVersion
    /\ tx[v].lease \in {"running", "expired"}
    /\ device # None => applied >= device
    /\ \A u \in Pending(tx) : u >= v

RemoteAccepted_AnyOrder(v, applied) ==
    /\ UpdateAccepted
    /\ v \in Pending(tx) /\ v <= controlVersion
    /\ tx[v].lease \in {"running", "expired"}
    /\ device # None => applied >= device
    /\ tx[v].routed = conn

RemoteAccepted(v, applied) ==
    /\ UpdateAccepted
    /\ v \in Pending(tx) /\ v <= controlVersion
    /\ tx[v].lease \in {"running", "expired"}
    /\ device # None => applied >= device
    /\ tx[v].routed = conn
    /\ \A u \in Pending(tx) : u >= v

(* The commit makes the direct dependents eligible in the same database    *)
(* transaction; the handler then looks at each of them.                    *)
RemoteCommitted(v) ==
    /\ RemoteAccepted(v, v)
    /\ LET dependents == DirectDependents(tx, v)
       IN  /\ KeepControl(GrantLease(Settle(tx, v, "committed", "none", v),
                                     dependents), v)
           /\ IF dependents = {} THEN UNCHANGED handler
              ELSE lock' = "update" /\ work' = dependents /\ UNCHANGED inflight
    /\ UNCHANGED <<server, intents, registry>>

RemoteFailed(v, applied, known) ==
    /\ RemoteAccepted(v, applied)
    /\ applied < v
    /\ StatesLastApplied(applied)
    /\ LET direct == DirectDependents(tx, v)
           seeds == IF direct # {} THEN direct ELSE LegacyDependents(tx, v) \ {v}
           t == FailDependents(Settle(tx, v, "failed", "execution_failed", applied),
                               seeds, v, applied)
       IN  /\ \A u \in Cascade(tx, seeds) : tx[u].lease # "scheduled"
           /\ IF Reconcilable(t, applied) /\ known
              THEN Reconcile(t, applied) ELSE KeepControl(t, applied)
    /\ UNCHANGED <<server, intents, registry, handler>>

First(S, v) == v \in S /\ \A u \in S : v <= u

(* _activate_execution_eligible_control_transaction, one dependent at a    *)
(* time: a command routed to a connection that is no longer there is given *)
(* up at once.                                                             *)
ActivateDependent(v) ==
    /\ Serving /\ lock = "update" /\ First(work, v)
    /\ IF tx[v].status = "pending" /\ ~(AuthorityReachable /\ tx[v].routed = conn)
       THEN GiveUp(v) ELSE UNCHANGED tx
    /\ work' = work \ {v}
    /\ lock' = IF work = {v} THEN "free" ELSE lock
    /\ UNCHANGED <<server, controlVersion, device, intents, reconciliations,
                   registry, inflight>>

(* The watchdog task of a dependent cannot be started.                     *)
ActivationFails(v) ==
    /\ StoreFaults /\ Serving /\ lock = "update" /\ First(work, v)
    /\ v \in Pending(tx)
    /\ GiveUp(v)
    /\ work' = work \ {v}
    /\ lock' = IF work = {v} THEN "free" ELSE lock
    /\ UNCHANGED <<server, controlVersion, device, intents, reconciliations,
                   registry, inflight>>

(* A person used the device: every pending command is superseded.  An      *)
(* intent that was already recorded is only answered again.                *)
NewIntent_Unchecked(i) == TRUE

NewIntent(i) == intents[i] = None

Superseded(t, by) ==
    [v \in Versions |->
        IF v \in Pending(t)
        THEN [t[v] EXCEPT !.status = "superseded", !.applied = by]
        ELSE t[v]]

LocalIntent_SameVersion(i) ==
    /\ UpdateAccepted /\ NewIntent(i)
    /\ intents' = [intents EXCEPT ![i] = controlVersion]
    /\ device' = controlVersion
    /\ tx' = Superseded(tx, controlVersion)
    /\ UNCHANGED <<server, controlVersion, reconciliations, registry, handler>>

LocalIntent(i) ==
    /\ UpdateAccepted
    /\ NewIntent(i)
    /\ \A v \in Pending(tx) : tx[v].lease # "scheduled"
    /\ controlVersion < MaxControlVersion
    /\ controlVersion' = controlVersion + 1
    /\ intents' = [intents EXCEPT ![i] = controlVersion']
    /\ device' = controlVersion'
    /\ tx' = Superseded(tx, controlVersion')
    /\ UNCHANGED <<server, reconciliations, registry, handler>>

(* queue.context.sync that changes the current item: it holds no lock but  *)
(* the one of its database transaction.                                    *)
AdvanceDevice == device' = controlVersion'

SyncQueue ==
    /\ Serving /\ conn # None
    /\ Pending(tx) = {}
    /\ controlVersion < MaxControlVersion
    /\ controlVersion' = controlVersion + 1
    /\ AdvanceDevice
    /\ UNCHANGED <<server, tx, intents, reconciliations, registry, handler>>

-----------------------------------------------------------------------------
(***************************************************************************)
(* The authority's connection.  on_disconnect and a replacing              *)
(* device.register first settle, in version order, what was routed to the  *)
(* old connection, and hold the physical generation lock meanwhile.        *)
(***************************************************************************)
RoutedTo(c) == {v \in Pending(tx) : tx[v].routed = c}

DropSocket ==
    /\ Serving /\ AuthorityReachable
    /\ socket' = "dropped"
    /\ UNCHANGED <<server, durable, conn, lastConn, handler>>

BeginDisconnect ==
    /\ Serving /\ lock = "free" /\ conn # None /\ socket = "dropped"
    /\ lock' = "disconnect" /\ work' = RoutedTo(conn)
    /\ UNCHANGED <<server, durable, registry, inflight>>

BeginRegister ==
    /\ Serving /\ lock = "free" /\ lastConn < MaxConnection
    /\ lock' = "register"
    /\ work' = IF conn = None THEN {} ELSE RoutedTo(conn)
    /\ UNCHANGED <<server, durable, registry, inflight>>

SettleRouted(v) ==
    /\ Serving /\ lock \in {"disconnect", "register"} /\ First(work, v)
    /\ tx' = SettleUnknown(tx, v)
    /\ work' = work \ {v}
    /\ UNCHANGED <<server, controlVersion, device, intents, reconciliations,
                   registry, lock, inflight>>

FinishDisconnect ==
    /\ Serving /\ lock = "disconnect" /\ work = {}
    /\ conn' = None /\ socket' = "dead"
    /\ Release
    /\ UNCHANGED <<server, durable, lastConn>>

FinishRegister ==
    /\ Serving /\ lock = "register" /\ work = {} /\ lastConn < MaxConnection
    /\ lastConn' = lastConn + 1 /\ conn' = lastConn' /\ socket' = "up"
    /\ Release
    /\ UNCHANGED <<server, durable>>

(* The database raises inside the loop: the handler ends there, and a      *)
(* disconnect leaves the dead session registered.                          *)
SettleRoutedFails ==
    /\ StoreFaults /\ Serving /\ lock \in {"disconnect", "register"} /\ work # {}
    /\ Release
    /\ socket' = IF lock = "disconnect" THEN "dead" ELSE socket
    /\ UNCHANGED <<server, durable, conn, lastConn>>

(* prune_stale_clients: the session goes, its controls are left alone.     *)
PruneAuthority ==
    /\ Serving /\ lock = "free" /\ conn # None
    /\ conn' = None /\ socket' = "dead"
    /\ UNCHANGED <<server, durable, lastConn, handler>>

-----------------------------------------------------------------------------
(***************************************************************************)
(* The process: a crash loses everything that is not durable, init_socketio*)
(* recovers the lane before the gate opens.                                *)
(***************************************************************************)
Crash ==
    /\ server # "down"
    /\ server' = "down"
    /\ conn' = None /\ socket' = "dead"
    /\ Release
    /\ UNCHANGED <<durable, lastConn>>

BeginStartup ==
    /\ server = "down"
    /\ server' = "recovering"
    /\ UNCHANGED <<durable, registry, handler>>

Roots(t) == {v \in Pending(t) : t[v].dependsOn \notin Pending(t)}

RootDependencyFailed(t, r) ==
    t[r].dependsOn # None /\ t[t[r].dependsOn].status # "committed"

RootApplied(t, r) ==
    IF t[r].dependsOn = None THEN None ELSE t[t[r].dependsOn].applied

(* What a recovery would do that forgets the dependents of the roots.      *)
Recovered_RootsOnly(t) ==
    [v \in Versions |->
        IF v \notin Roots(t) THEN t[v]
        ELSE [t[v] EXCEPT !.status = "failed", !.applied = RootApplied(t, v),
                          !.error = "execution_unknown"]]

(* recoverPendingPlaybackControlsForStartup: one database transaction that *)
(* fails the pending roots, then what depends on them, then the rest.      *)
Recovered(t) ==
    [v \in Versions |->
        IF v \notin Pending(t) THEN t[v]
        ELSE IF v \in Roots(t)
        THEN [t[v] EXCEPT
                !.status = "failed", !.applied = RootApplied(t, v),
                !.error = IF RootDependencyFailed(t, v)
                          THEN "dependency_failed" ELSE "execution_unknown"]
        ELSE IF \E r \in Roots(t) : v \in Cascade(t, {r})
        THEN [t[v] EXCEPT
                !.status = "failed", !.error = "dependency_failed",
                !.applied = RootApplied(t,
                    CHOOSE r \in Roots(t) : v \in Cascade(t, {r}))]
        ELSE [t[v] EXCEPT !.status = "failed", !.error = "execution_unknown"]]

RecoverControls ==
    /\ server = "recovering"
    /\ tx' = Recovered(tx)
    /\ server' = "recovered"
    /\ UNCHANGED <<controlVersion, device, intents, reconciliations, registry, handler>>

CompleteStartup ==
    /\ server = "recovered"
    /\ server' = "ready"
    /\ UNCHANGED <<durable, registry, handler>>

(* Any later step of the startup may raise: the gate then stays shut.      *)
FailStartup ==
    /\ StoreFaults /\ server \in {"recovering", "recovered"}
    /\ server' = "failed"
    /\ UNCHANGED <<durable, registry, handler>>

-----------------------------------------------------------------------------
ControlStep ==
    \/ \E action \in Actions, timed \in EffectiveAt : AcceptControl(action, timed)
    \/ DispatchControl
    \/ DispatchFails
    \/ FinishControl
    \/ LeaseFails
    \/ \E v \in Versions : LeaseAdvances(v)
    \/ \E v \in Versions : ExpireControl(v)

AuthorityReport ==
    \/ \E applied \in Versions, known \in BOOLEAN : PassiveUpdate(applied, known)
    \/ \E v \in Versions : RemoteCommitted(v)
    \/ \E v, applied \in Versions, known \in BOOLEAN : RemoteFailed(v, applied, known)
    \/ \E v \in Versions : ActivateDependent(v)
    \/ \E v \in Versions : ActivationFails(v)
    \/ \E i \in Intents : LocalIntent(i)
    \/ SyncQueue

ConnectionStep ==
    \/ DropSocket
    \/ BeginDisconnect
    \/ BeginRegister
    \/ \E v \in Versions : SettleRouted(v)
    \/ FinishDisconnect
    \/ FinishRegister
    \/ SettleRoutedFails
    \/ PruneAuthority

ProcessStep ==
    \/ Crash
    \/ BeginStartup
    \/ RecoverControls
    \/ CompleteStartup
    \/ FailStartup

Next == ControlStep \/ AuthorityReport \/ ConnectionStep \/ ProcessStep

Spec == Init /\ [][Next]_vars

-----------------------------------------------------------------------------
(***************************************************************************)
(* Fairness.  A handler that holds the lock goes on (its thread is         *)
(* scheduled), time passes, the sweep runs every second, a dropped socket  *)
(* is reported to on_disconnect, and a process that is restarted again and *)
(* again sooner or later finishes its recovery.  The authority owes        *)
(* nothing: it may never report.                                           *)
(***************************************************************************)
Fairness ==
    /\ WF_vars(DispatchControl \/ DispatchFails)
    /\ WF_vars(FinishControl \/ LeaseFails)
    /\ \A v \in Versions :
        /\ WF_vars(LeaseAdvances(v))
        /\ SF_vars(ExpireControl(v))
        /\ WF_vars(ActivateDependent(v) \/ ActivationFails(v))
        /\ WF_vars(SettleRouted(v) \/ SettleRoutedFails)
    /\ SF_vars(BeginDisconnect)
    /\ WF_vars(FinishDisconnect)
    /\ WF_vars(FinishRegister)
    /\ WF_vars(BeginStartup)
    /\ SF_vars(RecoverControls)
    /\ WF_vars(CompleteStartup)

FairSpec == Spec /\ Fairness

-----------------------------------------------------------------------------
(***************************************************************************)
(* Safety.                                                                 *)
(***************************************************************************)

(* A controlVersion names one thing: a command, a local intent or a        *)
(* reconciliation, never two of them, and nothing above the canonical      *)
(* controlVersion exists.                                                  *)
ReconciledAt(v) == \E r \in reconciliations : r.through + 1 = v
IntendedAt(v) == \E i \in Intents : intents[i] = v

VersionsOwnedOnce ==
    /\ \A v \in Versions :
        /\ tx[v].status # "absent" =>
                v <= controlVersion /\ ~IntendedAt(v) /\ ~ReconciledAt(v)
        /\ IntendedAt(v) => v <= controlVersion /\ ~ReconciledAt(v)
        /\ ReconciledAt(v) => v <= controlVersion
    /\ \A i, j \in Intents : intents[i] = intents[j] /\ intents[i] # None => i = j

(* The dependency rule of the lane: a pending command has a dependency     *)
(* that can still succeed, and it has an execution lease exactly when that *)
(* dependency has committed.                                               *)
DependencyGate ==
    \A v \in Pending(tx) :
        LET d == tx[v].dependsOn
        IN  d # None =>
                /\ d < v /\ TrackChanging(tx, d)
                /\ tx[d].status \in {"pending", "committed"}
                /\ (tx[v].lease # "none") <=> (tx[d].status = "committed")

(* Commands commit in version order and on a committed dependency: nothing *)
(* below a committed command is still pending.                             *)
CommitsInOrder ==
    \A v \in Versions : tx[v].status = "committed" =>
        /\ \A u \in Pending(tx) : u > v
        /\ tx[v].lease # "none"
        /\ tx[v].dependsOn # None => tx[tx[v].dependsOn].status = "committed"

(* dependency_failed is only ever said of a command whose direct           *)
(* dependency itself failed, and it names that dependency.                 *)
DependencyFailureHasCause ==
    \A v \in Versions : tx[v].error = "dependency_failed" =>
        /\ tx[v].dependsOn # None
        /\ tx[tx[v].dependsOn].status = "failed"

(* What the server believes the device applied covers every command it     *)
(* told a controller was committed, and stays within what was accepted.    *)
AppliedCoversCommits ==
    /\ device <= controlVersion
    /\ \A v \in Versions : tx[v].status = "committed" => v <= device

(* A stretch of failed commands is absorbed by one reconciliation: the     *)
(* ranges of two reconciliations share no version, every transaction of a  *)
(* range points at its reconciliation, and no pending one is absorbed.     *)
ReconciledOnce ==
    /\ \A r, s \in reconciliations :
        r # s => r.through < s.from \/ s.through < r.from
    /\ \A r \in reconciliations : r.through < device
    /\ \A v \in Versions :
        /\ tx[v].reconciledBy # None => tx[v].status \in Terminal
        /\ \A r \in reconciliations :
            tx[v].status # "absent" /\ r.from < v /\ v <= r.through
            => tx[v].reconciledBy = r.through + 1

(* The fallback for transactions without a recorded dependency never finds *)
(* one: every command accepted while a track change is pending has one.    *)
NoLegacyDependents == \A r \in Pending(tx) : LegacyDependents(tx, r) \subseteq {r}

(* What the lane keeps of dependencies across acceptance, reports, timers, *)
(* disconnects and recovery: the gate, the order of commits, the cause of  *)
(* each dependency_failed, and no command without its dependency.          *)
DependencyRules ==
    /\ DependencyGate
    /\ CommitsInOrder
    /\ DependencyFailureHasCause
    /\ NoLegacyDependents

(* Every controlVersion up to the canonical one is accounted for once:     *)
(* what it names, and by which reconciliation it was absorbed.             *)
VersionsAccounted == VersionsOwnedOnce /\ ReconciledOnce

-----------------------------------------------------------------------------
(***************************************************************************)
(* What a step may never do.                                               *)
(***************************************************************************)

(* A late report, a sweep, a disconnect or a restart never rewrites an     *)
(* outcome; the only later mark is a single reconciliation.                *)
OutcomesAreFinal ==
    [][\A v \in Versions : tx[v].status \in Terminal =>
        \/ tx'[v] = tx[v]
        \/ /\ tx[v].reconciledBy = None
           /\ tx'[v] = [tx[v] EXCEPT !.reconciledBy = controlVersion + 1]
      ]_vars

(* A command is only committed on the word of the connection it was routed *)
(* to, while that connection is the registered one and its lease runs.     *)
CommittedByRoutedConnection ==
    [][\A v \in Versions :
        tx[v].status = "pending" /\ tx'[v].status = "committed" =>
            /\ tx[v].routed = conn /\ conn # None
            /\ tx[v].lease \in {"running", "expired"}
      ]_vars

(* The applied version of the device never goes back.                      *)
AppliedNeverRegresses == [][device' >= device]_vars

(* Once recorded, a local intent keeps the controlVersion it was given,    *)
(* however often the device sends it again.                                *)
IntentAppliedOnce == [][\A i \in Intents : intents[i] # None => intents'[i] = intents[i]]_vars

(* The gate opens on a lane with nothing left from the previous process.   *)
GateOpensClean == [][~Serving /\ Serving' => Pending(tx') = {}]_vars

(* What is written of the past stays written: outcomes, the versions of    *)
(* local intents, the applied version; and a restart leaves nothing over.  *)
LaneHistory ==
    /\ OutcomesAreFinal
    /\ AppliedNeverRegresses
    /\ IntentAppliedOnce
    /\ GateOpensClean

=============================================================================
