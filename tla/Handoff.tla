------------------------------- MODULE Handoff -------------------------------
(***************************************************************************)
(* The handoff of a playback context from the device that plays it to      *)
(* another one of the same user: start, prepare, ready, commit, complete,  *)
(* cancel, the two deadlines, disconnects, a changed source and restarts.  *)
(*                                                                         *)
(* A device has one device session, so a client stands for the pair        *)
(* (clientId, deviceSessionId), and its connections are numbered.  A       *)
(* handler runs under the generation locks of the handoff's source and     *)
(* target and is one step, unless a crash in its middle leaves something   *)
(* behind.  Follow relationships are left out.                             *)
(***************************************************************************)
EXTENDS Integers, FiniteSets

CONSTANTS
    Clients, Contexts, Handoffs,
    Origins,            \* clients that start handoffs
    MaxConnection,      \* connections of one client
    MaxControlVersion,  \* control version of a context
    SourceBroadcasts,   \* whether broadcasts are started
    NoClient, NoContext

ASSUME HandoffConstants ==
    /\ Origins \subseteq Clients
    /\ MaxConnection \in Nat /\ MaxControlVersion \in Nat
    /\ SourceBroadcasts \in BOOLEAN
    /\ NoClient \notin Clients /\ NoContext \notin Contexts

VARIABLES
    \* in the database
    context,            \* EmoPlaybackContext
    handoff,            \* EmoPlaybackHandoff
    broadcast,          \* contexts that are the source of a broadcast
    \* in memory
    connection,         \* number of each client's newest connection
    online,             \* clients whose newest connection is registered
    remembered,         \* the status in state._handoffs
    prepare,            \* the status of the prepare of a handoff
    timer,              \* the background task that waits for a handoff's deadline
    sending,            \* handoffs whose commit is between its storage and its message
    settling,           \* handoffs a playback.update has still to settle in memory
    \* the clock and the network
    due,                \* handoffs whose current deadline has passed
    sent                \* commit messages sent for each handoff

memory == <<connection, online, remembered, prepare, timer, sending, settling>>
vars == <<context, handoff, broadcast, memory, due, sent>>

Live == {"preparing", "committing", "committed"}
Terminal == {"completed", "cancelled", "failed", "timed_out"}
Statuses == Live \cup Terminal \cup {"none"}

NoRecord == [status |-> "none", context |-> NoContext, source |-> NoClient,
             sourceConnection |-> 0, target |-> NoClient, targetConnection |-> 0,
             origin |-> NoClient, base |-> 0, epoch |-> 0, standby |-> NoContext]

Record == [status : Statuses, context : Contexts \cup {NoContext},
           source : Clients \cup {NoClient}, sourceConnection : 0..MaxConnection,
           target : Clients \cup {NoClient}, targetConnection : 0..MaxConnection,
           origin : Origins \cup {NoClient}, base : 0..MaxControlVersion,
           epoch : Nat, standby : Contexts \cup {NoContext}]

Absent == [lifecycle |-> "absent", authority |-> NoClient, epoch |-> 0, control |-> 0,
           idle |-> TRUE]

Context == [lifecycle : {"absent", "active", "closed"}, authority : Clients \cup {NoClient},
            epoch : Nat, control : 0..MaxControlVersion, idle : BOOLEAN]

TypeOK ==
    /\ context \in [Contexts -> Context]
    /\ handoff \in [Handoffs -> Record]
    /\ broadcast \subseteq Contexts
    /\ connection \in [Clients -> 0..MaxConnection] /\ online \subseteq Clients
    /\ remembered \in [Handoffs -> Statuses]
    /\ prepare \in [Handoffs -> {"none", "preparing", "finished"}]
    /\ timer \in [Handoffs -> {"none", "prepare", "complete"}]
    /\ sending \subseteq Handoffs /\ settling \subseteq Handoffs
    /\ due \subseteq Handoffs /\ sent \in [Handoffs -> Nat]

Init ==
    /\ context = [p \in Contexts |-> Absent]
    /\ handoff = [h \in Handoffs |-> NoRecord]
    /\ broadcast = {}
    /\ connection = [c \in Clients |-> 0] /\ online = {}
    /\ remembered = [h \in Handoffs |-> "none"]
    /\ prepare = [h \in Handoffs |-> "none"]
    /\ timer = [h \in Handoffs |-> "none"]
    /\ sending = {} /\ settling = {}
    /\ due = {} /\ sent = [h \in Handoffs |-> 0]

-----------------------------------------------------------------------------
(***************************************************************************)
(* What occupies what.  As elsewhere, a definition whose name ends in      *)
(* _Something is a faulty variant that no action uses.                     *)
(***************************************************************************)
IsLive(h) == handoff[h].status \in Live
OccupiesContext(h, p) == IsLive(h) /\ p \in {handoff[h].context, handoff[h].standby}
OccupiesClient(h, c) == IsLive(h) /\ c \in {handoff[h].source, handoff[h].target}

ContextAvailable(p) == \A h \in Handoffs : ~OccupiesContext(h, p)
ClientAvailable(c) == \A h \in Handoffs : ~OccupiesClient(h, c)

ActiveContexts(c) == {p \in Contexts : context[p].lifecycle = "active" /\ context[p].authority = c}
Broadcasting(c) == \E p \in broadcast : context[p].authority = c

(* The generation locks of a handoff are held while its commit is sent.    *)
Unlocked(c) == \A h \in sending : c \notin {handoff[h].source, handoff[h].target}
UnlockedHandoff(h) == Unlocked(handoff[h].source) /\ Unlocked(handoff[h].target)

CurrentSource(h) ==
    handoff[h].source \in online /\ connection[handoff[h].source] = handoff[h].sourceConnection
CurrentTarget_AnyConnection(h) == handoff[h].target \in online
CurrentTarget(h) ==
    handoff[h].target \in online /\ connection[handoff[h].target] = handoff[h].targetConnection

(* terminateStrictPlaybackHandoff and the settlement in memory that every  *)
(* caller makes after it; the prepare is finished unless it already is.    *)
Ended(status, H) == [h \in Handoffs |-> IF h \in H THEN [handoff[h] EXCEPT !.status = status] ELSE handoff[h]]
Forgets(status, H) == [h \in Handoffs |-> IF h \in H THEN status ELSE remembered[h]]
Finishes(H) == [h \in Handoffs |-> IF h \in H /\ prepare[h] = "preparing" THEN "finished" ELSE prepare[h]]

Terminate(H, status) ==
    /\ handoff' = Ended(status, H)
    /\ remembered' = Forgets(status, H)
    /\ prepare' = Finishes(H)

-----------------------------------------------------------------------------
(***************************************************************************)
(* Contexts.  A context that a live handoff hands over, or that waits as   *)
(* its standby, is not changed by anybody, nor does its target get one.    *)
(***************************************************************************)
EnsureNew_TargetIgnored(p, c, idle) ==
    /\ context[p].lifecycle = "absent" /\ c \in online
    /\ ActiveContexts(c) = {} /\ ~Broadcasting(c)
    /\ MaxControlVersion >= 1
    /\ context' = [context EXCEPT ![p] =
            [lifecycle |-> "active", authority |-> c, epoch |-> 1, control |-> 1, idle |-> idle]]
    /\ UNCHANGED <<handoff, broadcast, memory, due, sent>>

EnsureNew(p, c, idle) ==
    /\ context[p].lifecycle = "absent" /\ c \in online
    /\ ActiveContexts(c) = {} /\ ClientAvailable(c) /\ ~Broadcasting(c)
    /\ MaxControlVersion >= 1
    /\ context' = [context EXCEPT ![p] =
            [lifecycle |-> "active", authority |-> c, epoch |-> 1, control |-> 1, idle |-> idle]]
    /\ UNCHANGED <<handoff, broadcast, memory, due, sent>>

(* An ensure with a queue fills the idle context of its client.            *)
EnsureQueue(p) ==
    /\ context[p].lifecycle = "active" /\ context[p].idle
    /\ context[p].authority \in online
    /\ ContextAvailable(p) /\ ClientAvailable(context[p].authority)
    /\ context[p].control < MaxControlVersion
    /\ context' = [context EXCEPT ![p].idle = FALSE, ![p].control = @ + 1]
    /\ UNCHANGED <<handoff, broadcast, memory, due, sent>>

(* A command of a controller, or the device's own buttons.                 *)
Control_Unfenced(p) ==
    /\ context[p].lifecycle = "active" /\ ~context[p].idle
    /\ context[p].control < MaxControlVersion
    /\ context' = [context EXCEPT ![p].control = @ + 1]
    /\ UNCHANGED <<handoff, broadcast, memory, due, sent>>

Control(p) ==
    /\ context[p].lifecycle = "active" /\ ~context[p].idle
    /\ ContextAvailable(p)
    /\ context[p].control < MaxControlVersion
    /\ context' = [context EXCEPT ![p].control = @ + 1]
    /\ UNCHANGED <<handoff, broadcast, memory, due, sent>>

CloseContext(p) ==
    /\ context[p].lifecycle = "active" /\ p \notin broadcast
    /\ ContextAvailable(p)
    /\ context' = [context EXCEPT ![p].lifecycle = "closed"]
    /\ UNCHANGED <<handoff, broadcast, memory, due, sent>>

(* The source of a live handoff may play on, but when a person uses its    *)
(* buttons, or what it reports differs from what the handoff froze, the    *)
(* handoff fails in the same transaction.  The server's memory follows     *)
(* after the locks are released.                                           *)
SourceUpdate(h) ==
    /\ IsLive(h) /\ CurrentSource(h) /\ UnlockedHandoff(h)
    /\ LET p == handoff[h].context
       IN  \E control \in {context[p].control, context[p].control + 1} :
                /\ control <= MaxControlVersion
                /\ context' = [context EXCEPT ![p].control = control]
    /\ handoff' = Ended("failed", {h})
    /\ settling' = settling \cup {h}
    /\ UNCHANGED <<broadcast, connection, online, remembered, prepare, timer, sending, due, sent>>

SettleInMemory_Skipped(h) ==
    /\ h \in settling
    /\ settling' = settling \ {h}
    /\ UNCHANGED <<context, handoff, broadcast, connection, online, remembered, prepare, timer, sending, due, sent>>

SettleInMemory(h) ==
    /\ h \in settling
    /\ settling' = settling \ {h}
    /\ remembered' = Forgets("failed", {h})
    /\ UNCHANGED <<context, handoff, broadcast, connection, online, prepare, timer, sending, due, sent>>

(* A broadcast keeps away from the target and the standby of a handoff;    *)
(* its own source may be the source of a handoff.                          *)
StartBroadcast(p) ==
    /\ SourceBroadcasts /\ p \notin broadcast
    /\ context[p].lifecycle = "active" /\ ~context[p].idle
    /\ context[p].authority \in online /\ Unlocked(context[p].authority)
    /\ \A h \in Handoffs : IsLive(h) =>
            handoff[h].target # context[p].authority /\ handoff[h].standby # p
    /\ broadcast' = broadcast \cup {p}
    /\ UNCHANGED <<context, handoff, memory, due, sent>>

StopBroadcast(p) ==
    /\ p \in broadcast
    /\ broadcast' = broadcast \ {p}
    /\ UNCHANGED <<context, handoff, memory, due, sent>>

-----------------------------------------------------------------------------
(***************************************************************************)
(* Connections and restarts.                                               *)
(***************************************************************************)
(* What ends with the newest connection of a client; at most one handoff.  *)
AsSource(c) == {h \in Handoffs : IsLive(h) /\ handoff[h].source = c
                                 /\ handoff[h].sourceConnection = connection[c]}
AsTarget(c) == {h \in Handoffs : IsLive(h) /\ handoff[h].target = c
                                 /\ handoff[h].targetConnection = connection[c]}
Involving(c) == AsSource(c) \cup AsTarget(c)

(* terminateStrictPlaybackHandoff raises for a context that a broadcast or *)
(* another handoff occupies.                                               *)
Barred(h) ==
    \/ handoff[h].context \in broadcast
    \/ \E k \in Handoffs \ {h} : OccupiesContext(k, handoff[h].context)

TerminateInvolving(c) ==
    Terminate(Involving(c), IF AsTarget(c) = {} THEN "cancelled" ELSE "failed")

Connect(c) ==
    /\ c \notin online /\ connection[c] < MaxConnection
    /\ connection' = [connection EXCEPT ![c] = @ + 1]
    /\ online' = online \cup {c}
    /\ UNCHANGED <<context, handoff, broadcast, remembered, prepare, timer, sending, settling, due, sent>>

(* A newer connection replaces the registered one; it is not registered    *)
(* when a handoff cannot be settled.                                       *)
Replace(c) ==
    /\ c \in online /\ connection[c] < MaxConnection /\ Unlocked(c)
    /\ \A h \in Involving(c) : ~Barred(h)
    /\ TerminateInvolving(c)
    /\ connection' = [connection EXCEPT ![c] = @ + 1]
    /\ UNCHANGED <<context, broadcast, online, timer, sending, settling, due, sent>>

Disconnect_Unsettled(c) ==
    /\ c \in online /\ Unlocked(c)
    /\ online' = online \ {c}
    /\ UNCHANGED <<context, handoff, broadcast, connection, remembered, prepare, timer, sending, settling, due, sent>>

(* on_disconnect goes on when the settlement raises.                       *)
Disconnect(c) ==
    /\ c \in online /\ Unlocked(c)
    /\ IF \E h \in Involving(c) : Barred(h)
       THEN UNCHANGED <<handoff, remembered, prepare>>
       ELSE TerminateInvolving(c)
    /\ online' = online \ {c}
    /\ UNCHANGED <<context, broadcast, connection, timer, sending, settling, due, sent>>

(* A crash at any point, and the recovery of handoffs and broadcasts       *)
(* before anybody can connect.                                             *)
Restart_Forgetful ==
    /\ online' = {} /\ sending' = {} /\ settling' = {} /\ broadcast' = {}
    /\ remembered' = [h \in Handoffs |-> "none"]
    /\ prepare' = [h \in Handoffs |-> "none"]
    /\ timer' = [h \in Handoffs |-> "none"]
    /\ UNCHANGED <<context, handoff, connection, due, sent>>

Restart ==
    /\ handoff' = Ended("failed", {h \in Handoffs : IsLive(h)})
    /\ online' = {} /\ sending' = {} /\ settling' = {} /\ broadcast' = {}
    /\ remembered' = [h \in Handoffs |-> "none"]
    /\ prepare' = [h \in Handoffs |-> "none"]
    /\ timer' = [h \in Handoffs |-> "none"]
    /\ UNCHANGED <<context, connection, due, sent>>

-----------------------------------------------------------------------------
(***************************************************************************)
(* The handoff.                                                            *)
(***************************************************************************)
(* The target has no context of its own, or one that is idle and becomes   *)
(* the standby.                                                            *)
StandbyOf(t) == IF ActiveContexts(t) = {} THEN {NoContext} ELSE ActiveContexts(t)

UsableStandby(q) == q # NoContext => context[q].idle /\ ContextAvailable(q) /\ q \notin broadcast

Startable(p, t, o) ==
    /\ context[p].lifecycle = "active" /\ ~context[p].idle
    /\ context[p].authority # t
    /\ {context[p].authority, t, o} \subseteq online
    /\ \A c \in {context[p].authority, t, o} : Unlocked(c)
    /\ p \notin broadcast /\ ~Broadcasting(o) /\ ~Broadcasting(t)
    /\ context[p].control < MaxControlVersion

(* No handoff that lives has the context or its future player.             *)
BothAvailable(p, t) == ContextAvailable(p) /\ ClientAvailable(t)

NotRemembered(p) ==
    \A k \in Handoffs : handoff[k].context = p => remembered[k] \notin {"preparing", "committed"}

Started(h, p, t, o, standby, status) ==
    [handoff EXCEPT ![h] =
        [status |-> status, context |-> p,
         source |-> context[p].authority, sourceConnection |-> connection[context[p].authority],
         target |-> t, targetConnection |-> connection[t], origin |-> o,
         base |-> context[p].control, epoch |-> context[p].epoch, standby |-> standby]]

(* The prepare is handed to the target's socket at once; when that fails   *)
(* the handoff has failed.                                                 *)
Start_Unfenced(h, p, t, o) ==
    /\ handoff[h].status = "none" /\ Startable(p, t, o)
    /\ \E standby \in StandbyOf(t) :
        /\ UsableStandby(standby)
        /\ handoff' = Started(h, p, t, o, standby, "preparing")
    /\ remembered' = [remembered EXCEPT ![h] = "preparing"]
    /\ prepare' = [prepare EXCEPT ![h] = "preparing"]
    /\ timer' = [timer EXCEPT ![h] = "prepare"]
    /\ UNCHANGED <<context, broadcast, connection, online, sending, settling, due, sent>>

Start(h, p, t, o) ==
    /\ handoff[h].status = "none" /\ Startable(p, t, o)
    /\ BothAvailable(p, t) /\ NotRemembered(p)
    /\ \E standby \in StandbyOf(t) :
        /\ UsableStandby(standby)
        /\ \/ /\ handoff' = Started(h, p, t, o, standby, "preparing")
              /\ remembered' = [remembered EXCEPT ![h] = "preparing"]
              /\ prepare' = [prepare EXCEPT ![h] = "preparing"]
              /\ timer' = [timer EXCEPT ![h] = "prepare"]
           \/ /\ handoff' = Started(h, p, t, o, standby, "failed")
              /\ remembered' = [remembered EXCEPT ![h] = "failed"]
              /\ prepare' = [prepare EXCEPT ![h] = "finished"]
              /\ UNCHANGED timer
    /\ UNCHANGED <<context, broadcast, connection, online, sending, settling, due, sent>>

Overdue(h) == remembered[h] \in Live /\ h \in due

(* The origin repeats its start after the deadline: what memory remembers  *)
(* is timed out; in the database a handoff that has ended stays as it is.  *)
StartAgain_EndsTwice(h) ==
    /\ Overdue(h)
    /\ handoff[h].origin \in online
    /\ UnlockedHandoff(h) /\ Unlocked(handoff[h].origin)
    /\ handoff[h].context \notin broadcast
    /\ ~Broadcasting(handoff[h].origin) /\ ~Broadcasting(handoff[h].target)
    /\ handoff' = Ended("timed_out", {h})
    /\ remembered' = Forgets("timed_out", {h})
    /\ prepare' = Finishes({h})
    /\ UNCHANGED <<context, broadcast, connection, online, timer, sending, settling, due, sent>>

StartAgain(h) ==
    /\ Overdue(h)
    /\ handoff[h].origin \in online
    /\ UnlockedHandoff(h) /\ Unlocked(handoff[h].origin)
    /\ handoff[h].context \notin broadcast
    /\ ~Broadcasting(handoff[h].origin) /\ ~Broadcasting(handoff[h].target)
    /\ handoff' = Ended("timed_out", {h} \cap {k \in Handoffs : IsLive(k)})
    /\ remembered' = Forgets("timed_out", {h})
    /\ prepare' = Finishes({h})
    /\ UNCHANGED <<context, broadcast, connection, online, timer, sending, settling, due, sent>>

TargetAnswers(h) ==
    /\ prepare[h] = "preparing" /\ CurrentTarget(h) /\ UnlockedHandoff(h)
    /\ IsLive(h) => CurrentSource(h)
    /\ handoff[h].context \notin broadcast /\ ~Broadcasting(handoff[h].target)

NotReady(h) ==
    /\ TargetAnswers(h)
    /\ handoff' = Ended("failed", {h} \cap {k \in Handoffs : IsLive(k)})
    /\ remembered' = Forgets("failed", {h})
    /\ prepare' = Finishes({h})
    /\ UNCHANGED <<context, broadcast, connection, online, timer, sending, settling, due, sent>>

(* _handoff_source_changed_before_commit, as far as the context goes.      *)
SourceAsFrozen(h) ==
    LET p == handoff[h].context
    IN  /\ context[p].lifecycle = "active" /\ context[p].authority = handoff[h].source
        /\ context[p].epoch = handoff[h].epoch /\ context[p].control = handoff[h].base

(* The target is ready and the commit is stored with a deadline of its     *)
(* own; the timer of the prepare has nothing to do any more.               *)
Ready(h) ==
    /\ TargetAnswers(h) /\ handoff[h].status = "preparing" /\ ~Barred(h)
    /\ SourceAsFrozen(h)
    /\ handoff' = Ended("committing", {h})
    /\ remembered' = Forgets("committing", {h})
    /\ prepare' = Finishes({h})
    /\ timer' = [timer EXCEPT ![h] = "none"]
    /\ sending' = sending \cup {h} /\ due' = due \ {h}
    /\ UNCHANGED <<context, broadcast, connection, online, settling, sent>>

(* The context or the playing device is not as it was frozen, or the track *)
(* would be over before the target could start it.                         *)
ReadyTooLate(h) ==
    /\ TargetAnswers(h) /\ handoff[h].status = "preparing" /\ ~Barred(h)
    /\ Terminate({h}, "failed")
    /\ UNCHANGED <<context, broadcast, connection, online, timer, sending, settling, due, sent>>

CommitSent_NoTimer(h) ==
    /\ h \in sending
    /\ sent' = [sent EXCEPT ![h] = @ + 1]
    /\ handoff' = Ended("committed", {h}) /\ remembered' = Forgets("committed", {h})
    /\ sending' = sending \ {h}
    /\ UNCHANGED <<context, broadcast, connection, online, prepare, timer, settling, due>>

CommitSent(h) ==
    /\ h \in sending
    /\ sent' = [sent EXCEPT ![h] = @ + 1]
    /\ handoff' = Ended("committed", {h}) /\ remembered' = Forgets("committed", {h})
    /\ timer' = [timer EXCEPT ![h] = "complete"]
    /\ sending' = sending \ {h}
    /\ UNCHANGED <<context, broadcast, connection, online, prepare, settling, due>>

CommitNotSent(h) ==
    /\ h \in sending
    /\ Terminate({h}, "failed")
    /\ sending' = sending \ {h}
    /\ UNCHANGED <<context, broadcast, connection, online, timer, settling, due, sent>>

(* The target plays.  A proof after the deadline ends the handoff, one     *)
(* before it moves the authority and retires the standby.                  *)
Completable(h) ==
    /\ handoff[h].status \in {"committing", "committed"}
    /\ CurrentSource(h) /\ CurrentTarget(h) /\ UnlockedHandoff(h)
    /\ ~Barred(h) /\ ~Broadcasting(handoff[h].target) /\ handoff[h].standby \notin broadcast

Moved_StandbyKept(h) ==
    [context EXCEPT ![handoff[h].context] =
        [@ EXCEPT !.authority = handoff[h].target, !.epoch = @ + 1, !.control = handoff[h].base + 1]]

Moved_Twice(h) ==
    [p \in Contexts |->
        IF p = handoff[h].context
        THEN [context[p] EXCEPT !.authority = handoff[h].target, !.epoch = @ + 1,
                                !.control = handoff[h].base + 2]
        ELSE IF p = handoff[h].standby THEN [context[p] EXCEPT !.lifecycle = "closed"]
        ELSE context[p]]

Moved(h) ==
    [p \in Contexts |->
        IF p = handoff[h].context
        THEN [context[p] EXCEPT !.authority = handoff[h].target, !.epoch = @ + 1,
                                !.control = handoff[h].base + 1]
        ELSE IF p = handoff[h].standby THEN [context[p] EXCEPT !.lifecycle = "closed"]
        ELSE context[p]]

Complete(h) ==
    /\ Completable(h) /\ h \notin due /\ SourceAsFrozen(h)
    /\ ActiveContexts(handoff[h].target) = {handoff[h].standby} \ {NoContext}
    /\ context' = Moved(h)
    /\ handoff' = Ended("completed", {h}) /\ remembered' = Forgets("completed", {h})
    /\ UNCHANGED <<broadcast, connection, online, prepare, timer, sending, settling, due, sent>>

CompleteLate(h) ==
    /\ Completable(h) /\ h \in due
    /\ Terminate({h}, "timed_out")
    /\ UNCHANGED <<context, broadcast, connection, online, timer, sending, settling, due, sent>>

(* The origin, the source or the target cancels, the last two only on the  *)
(* connection the handoff was started with; the target may also report     *)
(* that its commit failed.                                                 *)
Cancel(h, c) ==
    /\ IsLive(h) /\ c \in online
    /\ c \in {handoff[h].origin, handoff[h].source, handoff[h].target}
    /\ UnlockedHandoff(h) /\ Unlocked(c) /\ ~Barred(h)
    /\ c = handoff[h].source => CurrentSource(h)
    /\ c = handoff[h].target => CurrentTarget(h)
    /\ \/ Terminate({h}, "cancelled")
       \/ c = handoff[h].target /\ Terminate({h}, "failed")
    /\ UNCHANGED <<context, broadcast, connection, online, timer, sending, settling, due, sent>>

DeadlinePasses(h) ==
    /\ h \notin due /\ (IsLive(h) \/ timer[h] # "none")
    /\ due' = due \cup {h}
    /\ UNCHANGED <<context, handoff, broadcast, memory, sent>>

(* A timer runs once.  When the termination is refused its task dies.  An  *)
(* ended handoff whose target had answered is left to the update that      *)
(* ended it.                                                               *)
PrepareTimer_Early(h) ==
    /\ timer[h] = "prepare" /\ UnlockedHandoff(h)
    /\ timer' = [timer EXCEPT ![h] = "none"]
    /\ CASE h \notin due \/ prepare[h] # "preparing" \/ Barred(h) -> UNCHANGED <<handoff, remembered, prepare>>
         [] h \in due /\ prepare[h] = "preparing" /\ ~Barred(h) /\ IsLive(h) -> Terminate({h}, "timed_out")
         [] OTHER -> /\ remembered' = Forgets(handoff[h].status, {h})
                     /\ UNCHANGED <<handoff, prepare>>
    /\ UNCHANGED <<context, broadcast, connection, online, sending, settling, due, sent>>

PrepareTimer(h) ==
    /\ timer[h] = "prepare" /\ h \in due /\ UnlockedHandoff(h)
    /\ timer' = [timer EXCEPT ![h] = "none"]
    /\ CASE prepare[h] # "preparing" \/ Barred(h) -> UNCHANGED <<handoff, remembered, prepare>>
         [] prepare[h] = "preparing" /\ ~Barred(h) /\ IsLive(h) -> Terminate({h}, "timed_out")
         [] OTHER -> /\ remembered' \in {remembered, Forgets(handoff[h].status, {h})}
                     /\ UNCHANGED <<handoff, prepare>>
    /\ UNCHANGED <<context, broadcast, connection, online, sending, settling, due, sent>>

CompleteTimer(h) ==
    /\ timer[h] = "complete" /\ h \in due /\ UnlockedHandoff(h)
    /\ timer' = [timer EXCEPT ![h] = "none"]
    /\ CASE remembered[h] \notin {"committing", "committed"} \/ Barred(h) ->
                UNCHANGED <<handoff, remembered, prepare>>
         [] remembered[h] \in {"committing", "committed"} /\ ~Barred(h) /\ IsLive(h) ->
                Terminate({h}, "timed_out")
         [] OTHER -> /\ remembered' = Forgets(handoff[h].status, {h})
                     /\ UNCHANGED <<handoff, prepare>>
    /\ UNCHANGED <<context, broadcast, connection, online, sending, settling, due, sent>>

-----------------------------------------------------------------------------
ContextStep ==
    \/ \E p \in Contexts, c \in Clients, idle \in BOOLEAN : EnsureNew(p, c, idle)
    \/ \E p \in Contexts : EnsureQueue(p)
    \/ \E p \in Contexts : Control(p)
    \/ \E p \in Contexts : CloseContext(p)
    \/ \E p \in Contexts : StartBroadcast(p)
    \/ \E p \in Contexts : StopBroadcast(p)

ConnectionStep ==
    \/ \E c \in Clients : Connect(c)
    \/ \E c \in Clients : Replace(c)
    \/ \E c \in Clients : Disconnect(c)
    \/ Restart

(* What the devices do with a handoff.                                     *)
DeviceStep(h) ==
    \/ \E p \in Contexts, t \in Clients, o \in Origins : Start(h, p, t, o)
    \/ StartAgain(h)
    \/ NotReady(h)
    \/ Ready(h)
    \/ ReadyTooLate(h)
    \/ Complete(h)
    \/ CompleteLate(h)
    \/ \E c \in Clients : Cancel(h, c)
    \/ SourceUpdate(h)

(* What the server does by itself.                                         *)
Sends(h) == CommitSent(h) \/ CommitNotSent(h)
Timers(h) == PrepareTimer(h) \/ CompleteTimer(h)

ServerStep(h) ==
    \/ Sends(h)
    \/ SettleInMemory(h)
    \/ DeadlinePasses(h)
    \/ Timers(h)

Next ==
    \/ ContextStep
    \/ ConnectionStep
    \/ \E h \in Handoffs : DeviceStep(h)
    \/ \E h \in Handoffs : ServerStep(h)

Spec == Init /\ [][Next]_vars

(* Handlers go on, time passes and timers run; nobody has to answer, and   *)
(* every broadcast is stopped some day.                                    *)
FairSpec ==
    /\ Spec
    /\ \A h \in Handoffs : /\ WF_vars(Sends(h)) /\ WF_vars(SettleInMemory(h))
                           /\ WF_vars(DeadlinePasses(h)) /\ WF_vars(Timers(h))
    /\ \A p \in Contexts : WF_vars(StopBroadcast(p))

-----------------------------------------------------------------------------
(***************************************************************************)
(* Properties.                                                             *)
(***************************************************************************)
(* A device is the authority of at most one active context.                *)
OneContextPerClient ==
    \A p, q \in Contexts :
        /\ context[p].lifecycle = "active" /\ context[q].lifecycle = "active"
        /\ context[p].authority = context[q].authority
        => p = q

(* Two handoffs under way share no device and no context, in whichever     *)
(* roles.                                                                  *)
NothingShared ==
    \A h, k \in Handoffs :
        h # k /\ IsLive(h) /\ IsLive(k) =>
            /\ {handoff[h].source, handoff[h].target} \cap {handoff[k].source, handoff[k].target} = {}
            /\ ({handoff[h].context, handoff[h].standby} \cap {handoff[k].context, handoff[k].standby})
               \subseteq {NoContext}

(* So neither a device nor a context is ever promised twice.               *)
HandoffsApart == OneContextPerClient /\ NothingShared

(* What a handoff froze when it started holds until it ends: the context   *)
(* is the source's and not changed, and the target has nothing but its     *)
(* idle standby.                                                           *)
FrozenUntilEnd ==
    \A h \in Handoffs : IsLive(h) =>
        /\ SourceAsFrozen(h)
        /\ ActiveContexts(handoff[h].target) = {handoff[h].standby} \ {NoContext}
        /\ handoff[h].standby # NoContext => context[handoff[h].standby].idle

(* A handoff ends once, whatever of completion, cancellation, timeout,     *)
(* disconnect and restart meet.                                            *)
EndsOnce == [][\A h \in Handoffs : handoff[h].status \in Terminal => handoff'[h] = handoff[h]]_vars

(* The authority of a context only moves to the target of its handoff, to  *)
(* the very connection that was sent the commit, once, before the          *)
(* deadline, and with the next epoch and control version.                  *)
MovesOnProof ==
    [][\A p \in Contexts :
        context[p].lifecycle = "active" /\ context'[p].authority # context[p].authority =>
            \E h \in Handoffs :
                /\ handoff[h].context = p /\ IsLive(h) /\ handoff'[h].status = "completed"
                /\ sent[h] = 1 /\ h \notin due
                /\ handoff[h].target \in online
                /\ connection[handoff[h].target] = handoff[h].targetConnection
                /\ context'[p].authority = handoff[h].target
                /\ context'[p].epoch = context[p].epoch + 1
                /\ context'[p].control = context[p].control + 1]_vars

(* What the past of a handoff proves stays: it ends once, and only what it *)
(* proved moved an authority.                                              *)
HandoffHistory == EndsOnce /\ MovesOnProof

(* Memory holds no handoff for live that has ended, except while the       *)
(* update that ended it is on its way there: it would keep the context     *)
(* from every later handoff until the server restarts.                     *)
MemoryFollows ==
    \A h \in Handoffs : remembered[h] \in Live =>
        h \in settling \/ remembered[h] = handoff[h].status

(* Whatever its devices do or fail to do, a handoff ends.                  *)
HandoffEnds == \A h \in Handoffs : IsLive(h) ~> ~IsLive(h)

=============================================================================
