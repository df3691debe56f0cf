----------------------------- MODULE Broadcast -----------------------------
(***************************************************************************)
(* Broadcasts of one source context to the other devices of its user       *)
(* (supysonic/emo/broadcast_store.py and the r18 handlers of ws.py).  A    *)
(* participant's own context is fenced from the start until the device has *)
(* confirmed that it undid the mirror.  Every transaction runs under the   *)
(* locks of the broadcast and is one step.  A terminal event is sent after *)
(* that, to the connection the device has by then, and a registration      *)
(* reads what the device is owed in one step and takes effect in another.  *)
(* Other sends may arrive or not: a device may answer any delivery that    *)
(* was made for it, but a terminal one only once it was sent the event.    *)
(***************************************************************************)
EXTENDS Naturals, FiniteSets

CONSTANTS
    Clients,         \* the devices that can be ordinary participants
    Broadcasts,      \* the broadcasts that can be started, one per intent
    Mirrored,        \* bound: the broadcasts whose source changes something
    MaxRevision,     \* bound: revisions the source makes, of one broadcast
    MaxAttempt,      \* bound: deliveries of one revision to one device
    MaxSlots,        \* MAX_USER_RECOVERY_SLOTS
    Retained,        \* MIN_RETAINED_BROADCAST_REVISIONS
    NoBroadcast

ASSUME BroadcastAssumption ==
    /\ IsFiniteSet(Clients)
    /\ MaxRevision \in Nat \ {0}
    /\ MaxAttempt \in Nat \ {0}
    /\ MaxSlots \in Nat \ {0}
    /\ Retained \in Nat \ {0}
    /\ NoBroadcast \notin Broadcasts

VARIABLES
    broadcast,     \* EmoBroadcast
    participant,   \* EmoBroadcastParticipant
    ledger,        \* the current rows of EmoBroadcastDelivery
    fence,         \* the two ordinary EmoBroadcastFence rows of each device
    sourceFence,   \* the broadcast that fences the source, if any
    recovery,      \* EmoBroadcastTerminalRecovery of each device
    retired,       \* EmoPermanentDeviceDecommission
    source,        \* whether the source is registered
    suspending,    \* its disconnect has still to suspend its broadcast
    online,        \* the registered devices
    registering,   \* the registrations between their replay and their effect
    outbox,        \* terminal events that are still to be sent to a device
    told           \* the devices that were sent the terminal event

rows == <<broadcast, participant, ledger, fence, sourceFence, recovery, retired>>
links == <<source, suspending, online, registering>>
vars == <<rows, links, outbox, told>>

-----------------------------------------------------------------------------
\* A resumption or the loss of the source, and the end, can follow the last change.
LastRevision == MaxRevision + 2
Revisions == 1 .. LastRevision
Attempts == 1 .. MaxAttempt

Live == {"active", "waitingForSource"}

Record == [ lifecycle : {"absent", "active", "waitingForSource", "stopped", "compacted"},
            revision  : 0 .. LastRevision ]

At(lifecycle, revision) == [lifecycle |-> lifecycle, revision |-> revision]

\* A delivery is told from the others by its revision, its device and its attempt.
Delivery == [broadcast : Broadcasts, revision : Revisions, attempt : Attempts]

\* Of the sync status, open stands for pending, failed and timedOut.
Participant == [ target    : Delivery,
                 sync      : {"open", "lagging", "applied"},
                 applied   : 0 .. LastRevision,
                 restoring : BOOLEAN ]

\* The device takes no part in the broadcast, or the row is deleted.
NoParticipant == [sync |-> "none"]

\* A compacted broadcast keeps the terminal delivery of a device still to restore.
NoDelivery == [broadcast |-> NoBroadcast]

Fence == [broadcast : Broadcasts, phase : {"nonterminal", "restorePending"}]
NoFence == [broadcast |-> NoBroadcast]

\* The terminal event of a broadcast for a device.
Event == [client : Clients, broadcast : Broadcasts]

Of(b, r, a) == [broadcast |-> b, revision |-> r, attempt |-> a]

Members(b) == {c \in Clients : participant[b][c] # NoParticipant}

Entry(c, d) == [client |-> c, delivery |-> d]

Told(b, c) == told' = [told EXCEPT ![b] = @ \cup {c}]

-----------------------------------------------------------------------------
(***************************************************************************)
(* Revisions.                                                              *)
(***************************************************************************)

\* FAULTY: a settled participant keeps its status for the next target.
Targeted_KeepsStatus(p, d) == [p EXCEPT !.target = d]

\* _create_delivery for the participant's row, without resetDeadline.
Targeted(p, d) ==
    [p EXCEPT !.target = d,
              !.sync = IF @ = "applied" THEN "open" ELSE @]

\* The first delivery of revision r of b to each of these devices.
FirstDeliveries(b, r, members) == {Entry(c, Of(b, r, 1)) : c \in members}

\* _prune_revision_ledger: the revisions below the retained ones.
Prunable(b, r) ==
    {e \in ledger : e.delivery.broadcast = b /\ e.delivery.revision + Retained <= r}

NextRevision(b) == broadcast[b].revision + 1

\* commitBroadcastRevisionInTransaction; old revisions go once they have their age.
\* The bound leaves room for the end.
CommitRevision(b, lifecycle) ==
    /\ broadcast[b].lifecycle \in Live /\ NextRevision(b) < LastRevision
    /\ broadcast' = [broadcast EXCEPT ![b] = At(lifecycle, NextRevision(b))]
    /\ participant' = [participant EXCEPT ![b] = [c \in Clients |->
         IF c \in Members(b) THEN Targeted(@[c], Of(b, NextRevision(b), 1)) ELSE @[c]]]
    /\ \E pruned \in {{}, Prunable(b, NextRevision(b))} :
         ledger' = (ledger \ pruned) \cup FirstDeliveries(b, NextRevision(b), Members(b))
    /\ UNCHANGED <<fence, sourceFence, recovery, retired, outbox, told>>

\* A live participant comes to restore its own context at the terminal revision.
Ended(b, c) ==
    [Targeted(participant[b][c], Of(b, NextRevision(b), 1)) EXCEPT !.restoring = TRUE]

Restoring(f) == [f EXCEPT !.phase = "restorePending"]

\* The fence of a device is kept until it confirms that it has restored.
TerminalFence(b, c) == IF fence[c].broadcast = b THEN Restoring(fence[c]) ELSE fence[c]

\* terminalBroadcastStateInTransaction: only the source is free at once.
Terminate(b) ==
    /\ broadcast[b].lifecycle \in Live
    /\ broadcast' = [broadcast EXCEPT ![b] = At("stopped", NextRevision(b))]
    /\ participant' = [participant EXCEPT ![b] = [c \in Clients |->
         IF c \in Members(b) THEN Ended(b, c) ELSE @[c]]]
    /\ ledger' = ledger \cup FirstDeliveries(b, NextRevision(b), Members(b))
    /\ fence' = [c \in Clients |-> TerminalFence(b, c)]
    /\ sourceFence' = NoBroadcast
    /\ outbox' = outbox \cup {[client |-> c, broadcast |-> b] : c \in Members(b)}
    /\ UNCHANGED <<recovery, retired, told>>

-----------------------------------------------------------------------------
(***************************************************************************)
(* Start, source and stop.                                                 *)
(***************************************************************************)

\* _start_participant_is_available.
Available(c) == c \in online /\ fence[c] = NoFence

\* The recovery slots that are not reserved for a fenced device.
Slots == MaxSlots - Cardinality({c \in Clients : fence[c] # NoFence})

\* FAULTY: the row is created without the flag that the end of a broadcast sets.
NewParticipant_NoFlag(b) == [target |-> Of(b, 1, 1), sync |-> "open", applied |-> 0]

NewParticipant(b) ==
    [target |-> Of(b, 1, 1), sync |-> "open", applied |-> 0, restoring |-> FALSE]

\* _validate_start_source_records, which finds the source's context as the request
\* saw it, and no fence of another broadcast on it.
SourceReady == source /\ sourceFence = NoBroadcast

\* _resolve_strict_broadcast_start_participants.
Choices == {chosen \in SUBSET {c \in Clients : Available(c)} :
              chosen # {} /\ Cardinality(chosen) <= Slots}

\* _handle_strict_broadcast_start with createBroadcastState: the available devices,
\* as many as there are recovery slots for.
Start(b) ==
    /\ SourceReady /\ broadcast[b].lifecycle = "absent"
    /\ \E chosen \in Choices :
         /\ broadcast' = [broadcast EXCEPT ![b] = At("active", 1)]
         /\ participant' = [participant EXCEPT ![b] = [c \in Clients |->
              IF c \in chosen THEN NewParticipant(b) ELSE NoParticipant]]
         /\ fence' = [c \in Clients |->
              IF c \in chosen THEN [broadcast |-> b, phase |-> "nonterminal"] ELSE fence[c]]
         /\ sourceFence' = b
         /\ ledger' = ledger \cup FirstDeliveries(b, 1, chosen)
    /\ UNCHANGED <<recovery, retired, links, outbox, told>>

\* _validate_r18_broadcast_control_generations: the broadcast is live and its
\* source there.
Controllable(b) == source /\ broadcast[b].lifecycle = "active"

\* A control, a queue sync or a report of the source that the mirror follows.
Mirror(b) ==
    /\ Controllable(b)
    /\ b \in Mirrored /\ broadcast[b].revision < MaxRevision
    /\ CommitRevision(b, "active")
    /\ UNCHANGED links

\* The source reports again: _commit_r18_source_playback_update while waiting.
Resume(b) ==
    /\ source /\ broadcast[b].lifecycle = "waitingForSource"
    /\ b \in Mirrored /\ broadcast[b].revision <= MaxRevision
    /\ CommitRevision(b, "active")
    /\ UNCHANGED links

\* broadcast.stop by the owner or the source, and the source turning idle.
Stop(b) == Terminate(b) /\ UNCHANGED links

SourceConnects ==
    /\ ~source /\ source' = TRUE
    /\ UNCHANGED <<rows, suspending, online, registering, outbox, told>>

\* Bound: the source stays on after the last change it can make.
MayLeave ==
    /\ source
    /\ \A b \in Mirrored : broadcast[b].lifecycle \in Live => broadcast[b].revision < MaxRevision

\* on_disconnect unregisters under the generation lock and suspends after it.
SourceDisconnects ==
    /\ MayLeave /\ source' = FALSE /\ suspending' = TRUE
    /\ UNCHANGED <<rows, online, registering, outbox, told>>

\* prune_stale_clients: nothing is suspended, now or when the socket closes.
SourcePruned ==
    /\ MayLeave /\ source' = FALSE
    /\ UNCHANGED <<rows, suspending, online, registering, outbox, told>>

\* FAULTY: a source that disconnects leaves its broadcast as it is.
Suspend_Forgets ==
    /\ suspending /\ suspending' = FALSE
    /\ UNCHANGED <<rows, source, online, registering, outbox, told>>

\* suspendBroadcastForAuthorityDisconnect, of whichever broadcast is active by then.
Suspend ==
    /\ suspending /\ suspending' = FALSE
    /\ IF \E b \in Broadcasts : broadcast[b].lifecycle = "active"
       THEN \E b \in Broadcasts : /\ broadcast[b].lifecycle = "active"
                                  /\ CommitRevision(b, "waitingForSource")
       ELSE UNCHANGED <<rows, outbox, told>>
    /\ UNCHANGED <<source, online, registering>>

\* sweepBroadcastAuthorityDisconnectDeadlines, at any time the deadline may pass.
SweepSource(b) ==
    /\ broadcast[b].lifecycle = "waitingForSource"
    /\ Terminate(b)
    /\ UNCHANGED links

-----------------------------------------------------------------------------
(***************************************************************************)
(* Registrations and sending.                                              *)
(***************************************************************************)

\* _build_pair_replacement_delivery: another attempt at the present revision.
Replacement(b, c) == Of(b, broadcast[b].revision, participant[b][c].target.attempt + 1)

\* _create_delivery with resetDeadline: d takes the place of the current one.
Replaced(b, c, d) ==
    /\ d.attempt \in Attempts
    /\ ledger' = (ledger \ {Entry(c, participant[b][c].target)}) \cup {Entry(c, d)}
    /\ participant' = [participant EXCEPT ![b][c].target = d, ![b][c].sync = "open"]

\* What createBroadcastRegistrationReplay looks for.
Owed(b, c) ==
    /\ c \in Members(b)
    /\ \/ broadcast[b].lifecycle \in Live
       \/ broadcast[b].lifecycle = "stopped" /\ participant[b][c].restoring

\* The new connection goes on to its registration.
Registering(c) == registering' = registering \cup {c}

\* createBroadcastRegistrationReplay of a mirroring device; the resync comes later.
ReplayMirror(b, c) ==
    /\ Owed(b, c) /\ broadcast[b].lifecycle \in Live
    /\ Replaced(b, c, Replacement(b, c))
    /\ Registering(c)
    /\ UNCHANGED <<recovery, told>>

\* Of a device that has still to restore: the terminal event is sent before the
\* connection is registered, or the registration is given up.
ReplayTerminal(b, c) ==
    /\ Owed(b, c) /\ broadcast[b].lifecycle = "stopped"
    /\ Replaced(b, c, Replacement(b, c))
    /\ \/ Told(b, c) /\ Registering(c)
       \/ UNCHANGED <<registering, told>>
    /\ UNCHANGED recovery

Again(d) == [d EXCEPT !.attempt = @ + 1]

\* Of one that has still to restore from a compacted broadcast.
ReplayCompact(c) ==
    /\ \A b \in Broadcasts : ~Owed(b, c)
    /\ recovery[c] # NoDelivery /\ Again(recovery[c]).attempt \in Attempts
    /\ recovery' = [recovery EXCEPT ![c] = Again(@)]
    /\ \/ Told(recovery[c].broadcast, c) /\ Registering(c)
       \/ UNCHANGED <<registering, told>>
    /\ UNCHANGED <<participant, ledger>>

ReplayNothing(c) ==
    /\ \A b \in Broadcasts : ~Owed(b, c)
    /\ recovery[c] = NoDelivery
    /\ Registering(c)
    /\ UNCHANGED <<participant, ledger, recovery, told>>

\* device.register up to the replay, under the device's generation lock.
BeginRegister(c) ==
    /\ c \notin retired \cup registering
    /\ \/ \E b \in Broadcasts : ReplayMirror(b, c) \/ ReplayTerminal(b, c)
       \/ ReplayCompact(c)
       \/ ReplayNothing(c)
    /\ UNCHANGED <<broadcast, fence, sourceFence, retired, source, suspending, online, outbox>>

\* register_client, in place of any former connection of the device.
FinishRegister(c) ==
    /\ c \in registering
    /\ online' = online \cup {c} /\ registering' = registering \ {c}
    /\ UNCHANGED <<rows, source, suspending, outbox, told>>

Disconnect(c) ==
    /\ c \in online \ registering
    /\ online' = online \ {c}
    /\ UNCHANGED <<rows, source, suspending, registering, outbox, told>>

\* _emit_r18_broadcast_projection of a stop, for one device: it is skipped while the
\* device is not registered, and a connection it cannot be sent to is ended.
Emit(e) ==
    /\ e \in outbox /\ outbox' = outbox \ {e}
    /\ \/ e.client \in online /\ Told(e.broadcast, e.client) /\ UNCHANGED online
       \/ e.client \notin online /\ UNCHANGED <<online, told>>
       \/ e.client \in online /\ online' = online \ {e.client} /\ UNCHANGED told
    /\ UNCHANGED <<rows, source, suspending, registering>>

-----------------------------------------------------------------------------
(***************************************************************************)
(* Feedback.                                                               *)
(***************************************************************************)

\* The full record is there, or only what the compaction left of it.
Full(b) == broadcast[b].lifecycle \in Live \cup {"stopped"}

\* FAULTY: every delivery of a stopped broadcast counts as the terminal one.
IsTerminal_AnyRevision(d) == broadcast[d.broadcast].lifecycle = "stopped"

IsTerminal(d) ==
    /\ broadcast[d.broadcast].lifecycle = "stopped"
    /\ d.revision = broadcast[d.broadcast].revision

\* A delivery that device c may answer, current or not, on its present connection.
Answers(c, d) ==
    LET b == d.broadcast IN
    /\ c \in online /\ c \in Members(b) /\ Full(b)
    /\ d.revision <= broadcast[b].revision
    /\ broadcast[b].lifecycle = "stopped" /\ d.revision = broadcast[b].revision =>
         c \in told[b]

Settled(p, d) ==
    [p EXCEPT !.applied = d.revision,
              !.sync = IF d.revision = p.target.revision THEN "applied" ELSE "lagging",
              !.restoring = @ /\ ~IsTerminal(d)]

\* FAULTY: whatever fences the device is taken off.
Freed_Any(c, b) == [fence EXCEPT ![c] = NoFence]

\* The fences of this broadcast, and no other's, are taken off the device.
Freed(c, b) == [fence EXCEPT ![c] = IF @.broadcast = b THEN NoFence ELSE @]

\* settleBroadcastFeedback, executionStatus applied.
Applied(c, d) ==
    /\ Answers(c, d) /\ Entry(c, d) \in ledger
    /\ d.revision >= participant[d.broadcast][c].applied
    /\ participant' = [participant EXCEPT ![d.broadcast][c] = Settled(@, d)]
    /\ fence' = IF IsTerminal(d) THEN Freed(c, d.broadcast) ELSE fence
    /\ UNCHANGED <<broadcast, ledger, sourceFence, recovery, retired, links, outbox, told>>

\* executionStatus failed.
Failed(c, d) ==
    /\ Answers(c, d) /\ Entry(c, d) \in ledger
    /\ d.revision = participant[d.broadcast][c].target.revision
    /\ participant' = [participant EXCEPT ![d.broadcast][c].sync = "open"]
    /\ UNCHANGED <<broadcast, ledger, fence, sourceFence, recovery, retired, links, outbox, told>>

\* A delivery that is not current is rejected, and another one sent.
Rejected(c, d) ==
    LET b == d.broadcast IN
    /\ Answers(c, d) /\ Entry(c, d) \notin ledger
    /\ Replaced(b, c, Replacement(b, c))
    /\ \/ broadcast[b].lifecycle = "stopped" /\ Told(b, c)
       \/ UNCHANGED told
    /\ UNCHANGED <<broadcast, fence, sourceFence, recovery, retired, links, outbox>>

\* The same once the broadcast is compacted.
AnswersCompact(c, d) ==
    /\ c \in online /\ ~Full(d.broadcast)
    /\ c \in told[d.broadcast] /\ recovery[c].broadcast = d.broadcast

\* _settle_compact_broadcast_feedback, executionStatus applied.
AppliedCompact(c, d) ==
    /\ AnswersCompact(c, d) /\ recovery[c] = d
    /\ fence' = Freed(c, d.broadcast)
    /\ recovery' = [recovery EXCEPT ![c] = NoDelivery]
    /\ UNCHANGED <<broadcast, participant, ledger, sourceFence, retired, links, outbox, told>>

RejectedCompact(c, d) ==
    /\ AnswersCompact(c, d) /\ recovery[c] # d
    /\ Again(recovery[c]).attempt \in Attempts
    /\ recovery' = [recovery EXCEPT ![c] = Again(@)]
    /\ UNCHANGED <<broadcast, participant, ledger, fence, sourceFence, retired, links, outbox,
                   told>>

\* sweepBroadcastFeedbackDeadlines, for one device that has answered before.
TimeOut(b, c) ==
    /\ c \in Members(b) /\ participant[b][c].sync = "lagging"
    /\ participant' = [participant EXCEPT ![b][c].sync = "open"]
    /\ UNCHANGED <<broadcast, ledger, fence, sourceFence, recovery, retired, links, outbox, told>>

-----------------------------------------------------------------------------
(***************************************************************************)
(* Retention, decommission and restart.                                    *)
(***************************************************************************)

\* The members that have not confirmed the terminal revision.
Owing(b) == {c \in Members(b) : participant[b][c].restoring}

\* What the compaction keeps of a broadcast: the terminal deliveries still owed.
Kept(b) == [c \in Clients |-> IF c \in Owing(b) THEN participant[b][c].target ELSE recovery[c]]

\* compactExpiredBroadcastStates, days after everything was sent; the fences stay.
Compact(b) ==
    /\ broadcast[b].lifecycle = "stopped"
    /\ \A e \in outbox : e.broadcast # b
    /\ \A c \in Owing(b) : recovery[c] = NoDelivery
    /\ broadcast' = [broadcast EXCEPT ![b].lifecycle = "compacted"]
    /\ recovery' = Kept(b)
    /\ participant' = [participant EXCEPT ![b] = [c \in Clients |-> NoParticipant]]
    /\ ledger' = {e \in ledger : e.delivery.broadcast # b}
    /\ UNCHANGED <<fence, sourceFence, retired, links, outbox, told>>

\* The device has still to restore from the broadcast, compacted or not.
Abandonable(b, c) ==
    \/ broadcast[b].lifecycle = "stopped" /\ Owed(b, c)
    \/ ~Full(b) /\ recovery[c].broadcast = b

\* _validate_recovery_abandon_fences.
RestorePending(b, c) == fence[c] = [broadcast |-> b, phase |-> "restorePending"]

\* abandonBroadcastRecoveryAndDecommission: the device is given up for good.
Abandon(b, c) ==
    /\ c \notin retired \cup registering
    /\ Abandonable(b, c) /\ RestorePending(b, c)
    /\ retired' = retired \cup {c}
    /\ participant' = [participant EXCEPT ![b][c] = NoParticipant]
    /\ ledger' = {e \in ledger : e.client # c \/ e.delivery.broadcast # b}
    /\ recovery' = [recovery EXCEPT ![c] = NoDelivery]
    /\ fence' = Freed(c, b)
    /\ online' = online \ {c}
    /\ UNCHANGED <<broadcast, sourceFence, source, suspending, registering, outbox, told>>

\* stopNonterminalBroadcastsForRestart: live broadcasts are terminated, and nothing
\* is sent until the devices register again.
Restart ==
    LET live == {b \in Broadcasts : broadcast[b].lifecycle \in Live} IN
    /\ broadcast' = [b \in Broadcasts |->
         IF b \in live THEN At("stopped", NextRevision(b)) ELSE broadcast[b]]
    /\ participant' = [b \in Broadcasts |-> [c \in Clients |->
         IF b \in live /\ c \in Members(b) THEN Ended(b, c) ELSE participant[b][c]]]
    /\ ledger' = ledger \cup UNION {FirstDeliveries(b, NextRevision(b), Members(b)) : b \in live}
    /\ fence' = [c \in Clients |->
         IF fence[c].broadcast \in live THEN TerminalFence(fence[c].broadcast, c) ELSE fence[c]]
    /\ sourceFence' = NoBroadcast
    /\ source' = FALSE /\ suspending' = FALSE
    /\ online' = {} /\ registering' = {} /\ outbox' = {}
    /\ UNCHANGED <<recovery, retired, told>>

-----------------------------------------------------------------------------
Init ==
    /\ broadcast = [b \in Broadcasts |-> At("absent", 0)]
    /\ participant = [b \in Broadcasts |-> [c \in Clients |-> NoParticipant]]
    /\ ledger = {} /\ recovery = [c \in Clients |-> NoDelivery]
    /\ fence = [c \in Clients |-> NoFence] /\ sourceFence = NoBroadcast
    /\ retired = {}
    /\ source = FALSE /\ suspending = FALSE
    /\ online = {} /\ registering = {} /\ outbox = {}
    /\ told = [b \in Broadcasts |-> {}]

SourceStep ==
    \/ SourceConnects \/ SourceDisconnects \/ SourcePruned \/ Suspend
    \/ \E b \in Broadcasts : Start(b) \/ Mirror(b) \/ Resume(b) \/ Stop(b) \/ SweepSource(b)

FeedbackStep(c) ==
    \E d \in Delivery :
        \/ Applied(c, d) \/ Failed(c, d) \/ Rejected(c, d)
        \/ AppliedCompact(c, d) \/ RejectedCompact(c, d)

DeviceStep(c) ==
    \/ BeginRegister(c) \/ FinishRegister(c) \/ Disconnect(c) \/ FeedbackStep(c)
    \/ \E b \in Broadcasts : TimeOut(b, c) \/ Abandon(b, c)

Next ==
    \/ SourceStep
    \/ \E c \in Clients : DeviceStep(c)
    \/ \E e \in outbox : Emit(e)
    \/ \E b \in Broadcasts : Compact(b)
    \/ Restart

Spec == Init /\ [][Next]_vars

\* The disconnect handler finishes, and the sweep comes back after the deadline.
FairSpec == Spec /\ WF_vars(Suspend) /\ \A b \in Broadcasts : WF_vars(SweepSource(b))

-----------------------------------------------------------------------------
(***************************************************************************)
(* Properties.                                                             *)
(***************************************************************************)

\* Every variable has the shape the code gives it.
TypeOK ==
    /\ broadcast \in [Broadcasts -> Record]
    /\ participant \in [Broadcasts -> [Clients -> Participant \cup {NoParticipant}]]
    /\ ledger \subseteq [client : Clients, delivery : Delivery]
    /\ fence \in [Clients -> Fence \cup {NoFence}]
    /\ sourceFence \in Broadcasts \cup {NoBroadcast}
    /\ recovery \in [Clients -> Delivery \cup {NoDelivery}]
    /\ retired \subseteq Clients
    /\ source \in BOOLEAN /\ suspending \in BOOLEAN
    /\ online \subseteq Clients /\ registering \subseteq Clients
    /\ outbox \subseteq Event
    /\ told \in [Broadcasts -> SUBSET Clients]

\* The device mirrors the broadcast, or has still to undo that it did.
Mirrors(b, c) == c \in Members(b) /\ broadcast[b].lifecycle \in Live

Restores(b, c) ==
    \/ broadcast[b].lifecycle = "stopped" /\ c \in Owing(b)
    \/ recovery[c].broadcast = b

\* A device's own context is fenced exactly as long as it mirrors a broadcast or
\* has to restore after one, and for one broadcast at a time; the source's is
\* fenced exactly as long as its broadcast lives.
FencesExact ==
    /\ \A c \in Clients, b \in Broadcasts :
         /\ fence[c] = [broadcast |-> b, phase |-> "nonterminal"] <=> Mirrors(b, c)
         /\ fence[c] = [broadcast |-> b, phase |-> "restorePending"] <=> Restores(b, c)
    /\ \A b \in Broadcasts : sourceFence = b <=> broadcast[b].lifecycle \in Live

\* What the status says of a participant is true of the present revision: its
\* target is the present revision and the ledger has it, and the device counts
\* as applied only if it applied that.
StatusIsTrue ==
    \A b \in Broadcasts : \A c \in Members(b) :
        LET p == participant[b][c] IN
        /\ p.target.broadcast = b /\ p.target.revision = broadcast[b].revision
        /\ Entry(c, p.target) \in ledger
        /\ p.applied <= p.target.revision
        /\ p.sync = "applied" => p.applied = p.target.revision
        /\ p.sync = "lagging" => p.applied < p.target.revision

\* A device gets its own context back only after it was sent the terminal event
\* of that broadcast, or is given up for good: through lost sends, reconnections,
\* late reports on older deliveries, compaction and restarts.
FreedByItsDevice ==
    [][\A c \in Clients :
         fence[c] # NoFence /\ fence'[c].broadcast # fence[c].broadcast =>
             c \in retired' \cup told[fence[c].broadcast]]_vars

\* A broadcast does not stay on without a source that disconnected: the source
\* comes back, or the broadcast ends and its participants may restore.
LosesSource(b) == broadcast[b].lifecycle \in Live /\ ~source /\ suspending

SourcelessEnds ==
    \A b \in Broadcasts : LosesSource(b) ~> source \/ broadcast[b].lifecycle \notin Live

=============================================================================
