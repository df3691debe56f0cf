------------------------------- MODULE Follow -------------------------------
(***************************************************************************)
(* One user's devices following each other's playback contexts.  While a   *)
(* device follows, its own context is frozen under a durable safety lease  *)
(* (supysonic/emo/follow_store.py), and what is in memory (ws_state.py)    *)
(* only remembers the relationship and goes with the process.  Handlers    *)
(* hold the generation locks of both devices and the locks of both         *)
(* contexts, so each is one step, except that the sweep and the close of a *)
(* context drop the relationship after they have released everything.      *)
(***************************************************************************)
EXTENDS Naturals, FiniteSets

CONSTANTS
    Clients,         \* the devices of the user, each with its device session
    Contexts,        \* the playback contexts that can exist
    MaxConnection,   \* bound: registrations, of all devices together
    MaxLeases,       \* MAX_USER_FOLLOW_SAFETY_LEASES
    NoContext,
    NoClient

ASSUME FollowAssumption ==
    /\ MaxConnection \in Nat \ {0}
    /\ MaxLeases \in Nat \ {0}
    /\ IsFiniteSet(Clients)
    /\ NoContext \notin Contexts
    /\ NoClient \notin Clients

VARIABLES
    connection,   \* the device's registered connection, 0 for none
    lastConnection, \* the registrations so far: each one has a nonce of its own
    context,      \* EmoPlaybackContext and its authority's reported fact
    lease,        \* EmoFollowSafetyLease of each follower
    relation,     \* _follow_relationships of ws_state.py
    removals      \* followers whose relationship is still to be dropped

vars == <<connection, lastConnection, context, lease, relation, removals>>

-----------------------------------------------------------------------------
Connections == 0 .. MaxConnection

\* A fact is settled when it applied the context's control version, stale
\* when the context plays and the report is older than the freshness limit.
FactStatus == {"settled", "pending", "stale"}

Context == [ lifecycle : {"absent", "active", "closed"},
             authority : Clients \cup {NoClient},
             reporter  : Connections,
             fact      : FactStatus ]

Phases == {"active", "reconnectGrace", "cleanupRequired"}
Deadline == {"none", "running", "passed"}

Lease == [ phase            : Phases,
           connection       : Connections,
           source           : Contexts,
           sourceAuthority  : Clients,
           sourceConnection : Connections,
           suspended        : Contexts,
           grace            : Deadline,
           recovery         : Deadline ]

\* No durable row: the follower is free.
NoLease == [phase |-> "none"]

\* What ws_state.py remembers of a follower, the context followed and whose it is.
NoRelation == [source |-> NoContext, sourceClient |-> NoClient, active |-> FALSE]
Relation == [ source       : Contexts \cup {NoContext},
              sourceClient : Clients \cup {NoClient},
              active       : BOOLEAN ]

Leased == {c \in Clients : lease[c] # NoLease}

\* requireFollowSafetyLeaseResourceAvailable: the context is under a lease.
Suspended(p) == \E c \in Leased : lease[c].suspended = p

Active(p) == context[p].lifecycle = "active"

\* listActivePlaybackContextBindings of one device.
Bindings(c) == {p \in Contexts : Active(p) /\ context[p].authority = c}

\* The authority's fact applied the control version on its present connection.
Settled(p) ==
    /\ context[p].fact = "settled"
    /\ context[p].reporter = connection[context[p].authority]

\* FAULTY: the row is written with its phase alone.
Cleanup_PhaseOnly(l) == [phase |-> "cleanupRequired"]

\* The follower is asked to clean up; no deadline runs any more.
Cleanup(l) == [l EXCEPT !.phase = "cleanupRequired", !.grace = "none", !.recovery = "none"]

Deactivated(r) == [r EXCEPT !.active = FALSE]

-----------------------------------------------------------------------------
(***************************************************************************)
(* Start, replay and stop.                                                 *)
(***************************************************************************)

\* FAULTY: nobody asks whether the source is itself frozen for a follow.
ResourcesAvailable_OwnOnly(source, own) == ~Suspended(own)

\* _require_follow_profile_resources_available, as far as other leases go.
ResourcesAvailable(source, own) == ~Suspended(source) /\ ~Suspended(own)

\* _validate_follow_start_transaction: another device's context, both connected
\* and both contexts reported on these connections.
Startable(c, source, own) ==
    LET authority == context[source].authority IN
    /\ authority # c /\ connection[authority] # 0
    /\ Settled(source) /\ Settled(own)

NewLease(c, source, own) ==
    [ phase |-> "active", connection |-> connection[c],
      source |-> source, sourceAuthority |-> context[source].authority,
      sourceConnection |-> connection[context[source].authority],
      suspended |-> own, grace |-> "none", recovery |-> "none" ]

\* start_follow_relationship.
Following(l) == [source |-> l.source, sourceClient |-> l.sourceAuthority, active |-> TRUE]

\* What the handler looks up before it takes the locks: the source is active, and
\* one context of the follower's own is.
Paired(c, source, own) == Active(source) /\ Bindings(c) = {own}

\* createFollowSafetyLease's own conditions, in the transaction.
Leasable(c, source, own) ==
    /\ lease[c] = NoLease /\ Cardinality(Leased) < MaxLeases
    /\ ResourcesAvailable(source, own)

\* _handle_follow_start of a free follower: createFollowSafetyLease.
Start(c, source) ==
    /\ connection[c] # 0
    /\ \E own \in Contexts :
         /\ Paired(c, source, own) /\ Startable(c, source, own) /\ Leasable(c, source, own)
         /\ lease' = [lease EXCEPT ![c] = NewLease(c, source, own)]
         /\ relation' = [relation EXCEPT ![c] = Following(NewLease(c, source, own))]
    /\ UNCHANGED <<connection, lastConnection, context, removals>>

\* resumeFollowSafetyLease: a repeated start on a live lease of this connection
\* or within the grace; a start after the grace only demands the cleanup.
Resumed(c) ==
    IF lease[c].phase = "reconnectGrace"
    THEN IF lease[c].grace = "passed"
         THEN Cleanup(lease[c])
         ELSE [lease[c] EXCEPT !.phase = "active", !.connection = connection[c],
                               !.grace = "none"]
    ELSE lease[c]

ResumeRefused(c) ==
    \/ lease[c].phase = "cleanupRequired"
    \/ lease[c].phase = "active" /\ lease[c].connection # connection[c]

\* _resume_follow_replay: memory follows again what the lease follows.
Restored(c) ==
    IF Resumed(c).phase = "active"
    THEN [relation EXCEPT ![c] = Following(lease[c])]
    ELSE relation

\* _handle_follow_start on an existing lease.
Resume(c) ==
    /\ connection[c] # 0 /\ lease[c] # NoLease
    /\ ~ResumeRefused(c)
    /\ lease' = [lease EXCEPT ![c] = Resumed(c)]
    /\ relation' = Restored(c)
    /\ UNCHANGED <<connection, lastConnection, context, removals>>

\* The stop names the context that is followed, in memory and in the lease.
StopMatches(c) == relation[c].active => relation[c].source = lease[c].source

\* _handle_follow_stop and stopFollowSafetyLease: the only way out of a lease.
Stop(c) ==
    /\ connection[c] # 0 /\ lease[c] # NoLease
    /\ StopMatches(c)
    /\ lease' = [lease EXCEPT ![c] = NoLease]
    /\ relation' = [relation EXCEPT ![c] = NoRelation]
    /\ UNCHANGED <<connection, lastConnection, context, removals>>

-----------------------------------------------------------------------------
(***************************************************************************)
(* Connections.                                                            *)
(***************************************************************************)

\* markFollowConnectionUnavailable for connection n of device c, on one lease.
Unavailable(f, c, n) ==
    LET l == lease[f]
        follower == f = c /\ l.connection = n /\ l.phase = "active"
        source == l.sourceAuthority = c /\ l.sourceConnection = n
    IN  [l EXCEPT
          !.phase = IF follower THEN "reconnectGrace" ELSE @,
          !.grace = IF follower THEN "running" ELSE @,
          !.recovery = IF source /\ l.phase # "cleanupRequired" /\ @ = "none"
                       THEN "running" ELSE @]

MarkUnavailable(c, n) ==
    lease' = [f \in Clients |-> IF f \in Leased THEN Unavailable(f, c, n) ELSE lease[f]]

\* FAULTY: the new connection replaces the old one without a word to the leases.
Register_Unmarked(c) ==
    /\ lastConnection < MaxConnection
    /\ lastConnection' = lastConnection + 1
    /\ connection' = [connection EXCEPT ![c] = lastConnection + 1]
    /\ UNCHANGED <<context, lease, relation, removals>>

\* device.register: the device's former connection is marked before it goes.
Register(c) ==
    /\ lastConnection < MaxConnection
    /\ IF connection[c] = 0
       THEN UNCHANGED <<lease, relation>>
       ELSE /\ MarkUnavailable(c, connection[c])
            /\ relation' = IF c \in Leased /\ lease[c].connection = connection[c]
                           THEN [relation EXCEPT ![c] = Deactivated(@)]
                           ELSE relation
    /\ lastConnection' = lastConnection + 1
    /\ connection' = [connection EXCEPT ![c] = lastConnection + 1]
    /\ UNCHANGED <<context, removals>>

\* on_disconnect, and the removal of a client that went stale.
Disconnect(c) ==
    /\ connection[c] # 0
    /\ MarkUnavailable(c, connection[c])
    /\ relation' = [relation EXCEPT ![c] = Deactivated(@)]
    /\ connection' = [connection EXCEPT ![c] = 0]
    /\ UNCHANGED <<lastConnection, context, removals>>

-----------------------------------------------------------------------------
(***************************************************************************)
(* The followed contexts.                                                  *)
(***************************************************************************)

\* refreshFollowSourceGeneration after a playback.update of source p by c.
Refreshed(f, c, p) ==
    IF /\ lease[f].source = p /\ lease[f].sourceAuthority = c
       /\ lease[f].phase # "cleanupRequired"
    THEN [lease[f] EXCEPT !.sourceConnection = connection[c], !.recovery = "none"]
    ELSE lease[f]

\* playback.update of an unsuspended context by its authority.
Update(c, p) ==
    /\ connection[c] # 0 /\ Active(p) /\ context[p].authority = c
    /\ ~Suspended(p)
    /\ context' = [context EXCEPT ![p].fact = "settled", ![p].reporter = connection[c]]
    /\ lease' = [f \in Clients |-> IF f \in Leased THEN Refreshed(f, c, p) ELSE lease[f]]
    /\ UNCHANGED <<connection, lastConnection, relation, removals>>

\* A player command is accepted: the fact is behind until the next update.
Command(p) ==
    /\ Active(p) /\ connection[context[p].authority] # 0
    /\ ~Suspended(p)
    /\ context' = [context EXCEPT ![p].fact = "pending"]
    /\ UNCHANGED <<connection, lastConnection, lease, relation, removals>>

\* A playing context's report grows older than the freshness limit.
GrowStale(p) ==
    /\ Active(p) /\ context[p].fact = "settled"
    /\ context' = [context EXCEPT ![p].fact = "stale"]
    /\ UNCHANGED <<connection, lastConnection, lease, relation, removals>>

\* playback.context.ensure: a device that neither leads nor follows gets a context.
Ensure(c, p) ==
    /\ connection[c] # 0 /\ c \notin Leased /\ Bindings(c) = {}
    /\ context[p].lifecycle = "absent"
    /\ context' = [context EXCEPT ![p] =
         [lifecycle |-> "active", authority |-> c, reporter |-> 0, fact |-> "pending"]]
    /\ UNCHANGED <<connection, lastConnection, lease, relation, removals>>

\* markFollowSourceContextsClosedInTransaction.
SourceClosed(f, p) ==
    IF f \in Leased /\ lease[f].source = p THEN Cleanup(lease[f]) ELSE lease[f]

\* FAULTY: the relationships with a closed source are left to the sweep, which
\* passes over leases that demand the cleanup already.
Close_KeepsRelation(p) ==
    /\ Active(p) /\ ~Suspended(p)
    /\ context' = [context EXCEPT ![p].lifecycle = "closed"]
    /\ lease' = [f \in Clients |-> SourceClosed(f, p)]
    /\ UNCHANGED <<connection, lastConnection, relation, removals>>

\* _handle_playback_context_close with markFollowSourceContextsClosedInTransaction
\* in the same transaction; the relationships go after the locks.
Close(p) ==
    /\ Active(p) /\ ~Suspended(p)
    /\ context' = [context EXCEPT ![p].lifecycle = "closed"]
    /\ lease' = [f \in Clients |-> SourceClosed(f, p)]
    /\ removals' = removals \cup {f \in Leased : lease[f].source = p}
    /\ UNCHANGED <<connection, lastConnection, relation>>

\* transferFollowSourceForHandoffInTransaction: the leases on the generation that
\* gave the context away follow it to the new one.
Transferred(f, p, n, target) ==
    IF /\ lease[f].source = p /\ lease[f].sourceAuthority = context[p].authority
       /\ lease[f].sourceConnection = n /\ lease[f].phase # "cleanupRequired"
    THEN [lease[f] EXCEPT !.sourceAuthority = target,
                          !.sourceConnection = connection[target], !.recovery = "none"]
    ELSE lease[f]

\* transfer_follow_relationship_source.
Redirected(r, p, source, target) ==
    IF r.source = p /\ r.sourceClient = source
    THEN [r EXCEPT !.sourceClient = target]
    ELSE r

\* FAULTY: a device that follows may be a target, and loses its frozen context.
Handoff_ToFollower(p, target) ==
    LET source == context[p].authority IN
    /\ Active(p) /\ source # target /\ connection[target] # 0
    /\ source \in Clients /\ connection[source] # 0 /\ Settled(p)
    /\ ~Suspended(p)
    /\ context' = [q \in Contexts |->
         IF q = p THEN [context[p] EXCEPT !.authority = target, !.reporter = connection[target]]
         ELSE IF q \in Bindings(target) THEN [context[q] EXCEPT !.lifecycle = "closed"]
         ELSE context[q]]
    /\ UNCHANGED <<connection, lastConnection, lease, relation, removals>>

\* playback.handoff.complete from the authority of p to a device that does not
\* follow; the target's own context, if it has one, is retired.
Handoff(p, target) ==
    LET source == context[p].authority IN
    /\ Active(p) /\ source # target /\ connection[target] # 0
    /\ source \in Clients /\ connection[source] # 0 /\ Settled(p)
    /\ ~Suspended(p) /\ target \notin Leased
    /\ context' = [q \in Contexts |->
         IF q = p THEN [context[p] EXCEPT !.authority = target, !.reporter = connection[target]]
         ELSE IF q \in Bindings(target) THEN [context[q] EXCEPT !.lifecycle = "closed"]
         ELSE context[q]]
    /\ lease' = [f \in Clients |->
         IF f \in Leased THEN Transferred(f, p, connection[source], target) ELSE lease[f]]
    /\ relation' = [f \in Clients |->
         IF f \in Leased /\ lease'[f] # lease[f] THEN Redirected(relation[f], p, source, target)
         ELSE relation[f]]
    /\ UNCHANGED <<connection, lastConnection, removals>>

-----------------------------------------------------------------------------
(***************************************************************************)
(* Deadlines, the sweep and the restart.                                   *)
(***************************************************************************)

\* _source_fact_requires_recovery.
RequiresRecovery(l) ==
    \/ context[l.source].authority # l.sourceAuthority
    \/ context[l.source].fact # "settled"
    \/ context[l.source].reporter # l.sourceConnection

GraceExpired(l) == l.phase = "reconnectGrace" /\ l.grace # "running"

\* FAULTY: only the source's deadline is looked at.
Swept_SourceOnly(l) ==
    IF l.phase = "cleanupRequired" THEN l
    ELSE IF ~Active(l.source) \/ l.recovery = "passed" THEN Cleanup(l)
    ELSE IF l.recovery = "none" /\ RequiresRecovery(l) THEN [l EXCEPT !.recovery = "running"]
    ELSE l

\* What sweepFollowSafetyLeaseDeadlines makes of one lease.
Swept(l) ==
    IF l.phase = "cleanupRequired" THEN l
    ELSE IF GraceExpired(l) \/ ~Active(l.source) \/ l.recovery = "passed" THEN Cleanup(l)
    ELSE IF l.recovery = "none" /\ RequiresRecovery(l) THEN [l EXCEPT !.recovery = "running"]
    ELSE l

\* One lease of _sweep_follow_safety_leases; its relationship goes later.
Sweep(f) ==
    /\ f \in Leased /\ Swept(lease[f]) # lease[f]
    /\ lease' = [lease EXCEPT ![f] = Swept(lease[f])]
    /\ removals' = IF lease'[f].phase = "cleanupRequired" THEN removals \cup {f} ELSE removals
    /\ UNCHANGED <<connection, lastConnection, context, relation>>

\* remove_follow_relationship of a swept lease or a closed context, by then
\* perhaps of another lease of the same follower.
RemoveRelation(f) ==
    /\ f \in removals
    /\ removals' = removals \ {f}
    /\ relation' = [relation EXCEPT ![f] = NoRelation]
    /\ UNCHANGED <<connection, lastConnection, context, lease>>

GracePasses(f) ==
    /\ f \in Leased /\ lease[f].grace = "running"
    /\ lease' = [lease EXCEPT ![f].grace = "passed"]
    /\ UNCHANGED <<connection, lastConnection, context, relation, removals>>

RecoveryPasses(f) ==
    /\ f \in Leased /\ lease[f].recovery = "running"
    /\ lease' = [lease EXCEPT ![f].recovery = "passed"]
    /\ UNCHANGED <<connection, lastConnection, context, relation, removals>>

\* FAULTY: every row found at startup gets a grace of its own.
Recovered_AllAgain(l) == [l EXCEPT !.phase = "reconnectGrace", !.grace = "running"]

\* What recoverFollowSafetyLeasesForStartup makes of one lease.
Recovered(l) ==
    CASE l.phase = "active" /\ l.recovery = "passed" -> Cleanup(l)
      [] l.phase = "active" /\ l.recovery # "passed" ->
           [l EXCEPT !.phase = "reconnectGrace", !.grace = "running"]
      [] GraceExpired(l) ->
           [l EXCEPT !.phase = "cleanupRequired", !.grace = "none"]
      [] OTHER -> l

\* The process ends, with it connections and relationships; the next one starts.
Restart ==
    /\ connection' = [c \in Clients |-> 0]
    /\ relation' = [c \in Clients |-> NoRelation]
    /\ removals' = {}
    /\ lease' = [f \in Clients |-> IF f \in Leased THEN Recovered(lease[f]) ELSE lease[f]]
    /\ UNCHANGED <<lastConnection, context>>

-----------------------------------------------------------------------------
\* Devices lead at most one context each, and nothing is followed.
Init ==
    /\ connection = [c \in Clients |-> 0]
    /\ lastConnection = 0
    /\ \E leader \in [Contexts -> Clients \cup {NoClient}] :
         /\ \A p, q \in Contexts : leader[p] = leader[q] => p = q \/ leader[p] = NoClient
         /\ context = [p \in Contexts |->
              [ lifecycle |-> IF leader[p] = NoClient THEN "absent" ELSE "active",
                authority |-> leader[p], reporter |-> 0, fact |-> "pending" ]]
    /\ lease = [c \in Clients |-> NoLease]
    /\ relation = [c \in Clients |-> NoRelation]
    /\ removals = {}

FollowStep(c) ==
    \/ \E source \in Contexts : Start(c, source)
    \/ Resume(c) \/ Stop(c) \/ Register(c) \/ Disconnect(c)
    \/ Sweep(c) \/ RemoveRelation(c) \/ GracePasses(c) \/ RecoveryPasses(c)

ContextStep(p) ==
    \/ Command(p) \/ GrowStale(p) \/ Close(p)
    \/ \E c \in Clients : Update(c, p) \/ Ensure(c, p) \/ Handoff(p, c)

Next ==
    \/ \E c \in Clients : FollowStep(c)
    \/ \E p \in Contexts : ContextStep(p)
    \/ Restart

Spec == Init /\ [][Next]_vars

\* Time passes, and the sweep runs again and again in its own thread.
FairSpec == Spec /\ \A c \in Clients : WF_vars(GracePasses(c)) /\ WF_vars(Sweep(c))

-----------------------------------------------------------------------------
(***************************************************************************)
(* Properties.                                                             *)
(***************************************************************************)

\* Every variable has the shape the code gives it.
TypeOK ==
    /\ connection \in [Clients -> Connections]
    /\ lastConnection \in Connections
    /\ context \in [Contexts -> Context]
    /\ lease \in [Clients -> Lease \cup {NoLease}]
    /\ relation \in [Clients -> Relation]
    /\ removals \subseteq Clients

\* An active lease belongs to the connection its device has now: neither a new
\* registration, a lost connection nor a restart leaves an old one active.
ActiveIsConnected ==
    \A f \in Leased :
        lease[f].phase = "active" => connection[f] # 0 /\ lease[f].connection = connection[f]

\* Devices never follow each other round in a circle, each frozen for the next:
\* among any followers there is one whose source none of them has frozen.  And
\* a context is frozen for one follower at most.
NoFollowCircle ==
    /\ \A f, g \in Leased : lease[f].suspended = lease[g].suspended => f = g
    /\ \A S \in (SUBSET Leased) \ {{}} :
         \E f \in S : \A g \in S : lease[f].source # lease[g].suspended

\* From start to stop, whatever happens to connections, deadlines, the source or
\* the server, nothing changes a follower's own context: it is resumed as it was,
\* only older.
Frozen(p) ==
    /\ context'[p].lifecycle = context[p].lifecycle
    /\ context'[p].authority = context[p].authority
    /\ context'[p].reporter = context[p].reporter
    /\ context'[p].fact = "pending" <=> context[p].fact = "pending"

FrozenWhileFollowing ==
    [][\A f \in Clients :
         f \in Leased /\ lease'[f] # NoLease =>
             /\ lease'[f].suspended = lease[f].suspended
             /\ Frozen(lease[f].suspended)]_vars

\* A lease that demands cleanup is never active again, and no lease, of whatever
\* phase, goes away except under a connection of its own device.
EndsWithItsFollower ==
    [][\A f \in Leased :
         /\ lease[f].phase = "cleanupRequired" /\ lease'[f] # NoLease =>
              lease'[f].phase = "cleanupRequired"
         /\ lease'[f] = NoLease => connection[f] # 0]_vars

\* A relationship in force stands on a lease on the same source, active or about
\* to lose the relationship.
RelationHasLease ==
    \A f \in Clients :
        relation[f].active =>
            /\ f \in Leased /\ relation[f].source = lease[f].source
            /\ lease[f].phase = "active" \/ f \in removals

\* What the durable rows, the relationships in memory and the connections say of
\* who follows whom agrees.
FollowsAreReal == ActiveIsConnected /\ RelationHasLease

\* A follower that lost its connection, or whose source was closed, does not stay
\* so: it resumes or stops, or its lease comes to demand the cleanup.
Unattended(f) ==
    /\ f \in Leased
    /\ \/ lease[f].phase = "reconnectGrace"
       \/ lease[f].phase = "active" /\ ~Active(lease[f].source)

EndsUnattended == \A f \in Clients : Unattended(f) ~> ~Unattended(f)

=============================================================================
