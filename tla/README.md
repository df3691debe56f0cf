# Verification of Emosonic-Server

Emosonic-Server is a music server with a Socket.IO protocol ("strict v2") that
lets the devices of a user control, follow, hand over and broadcast playback.
This directory holds TLA+ models translated from the Python source under
`src/`, the TLC runs that check them on small instances, and TLAPS proofs about
them for every size.

## Inventory

The server's own logic is in `src/supysonic/emo` (`ws.py`, `ws_store.py`,
`ws_state.py`, `broadcast_store.py`, `follow_store.py` and the `strict_v2_*`
files); the daemon, its watcher, scanner and jukebox are in `src/supysonic`.

| part | state | operations | hard behaviour | what makes it correct |
|---|---|---|---|---|
| control lane | `EmoPlaybackControlTransaction` of each accepted command, `controlVersion` and device state of a context, local intents, reconciliations, watchdog timers | accept, dispatch, make eligible, report, local intent, queue sync, timeout, disconnect, recovery | late and repeated reports, timers racing answers, dependency chains, swallowed database errors, restart between any two steps | one final outcome per command, commits in order and on committed dependencies |
| playback contexts | `EmoPlaybackContext`: epoch, version, queueRevision, controlVersion, authority, lifecycle; the copy in memory; subscriptions | ensure, rebind, close, queue sync, control, report, subscribe | handlers that overlap between the row and the copy, crash in between | one active context per device, cursors name one content, the copy catches up |
| prepares | `EmoPlaybackPrepareTransaction`, timers | request, answer, expire, settle by a queue, a close or a new authority | timer, answer and settlement at once, an emit that raises | one result, a deadline for each |
| handoff | `EmoPlaybackHandoff` with what it froze | start, ready, commit, complete, cancel, expire | source plays on, either device drops, commit stored and not sent | the authority moves once, and only on the target's proof |
| follow | `EmoFollowSafetyLease`, relationships in memory | start, stop, resume, grace, sweep, restart | crash between start and stop, devices that follow in turn | a frozen context stays as it was and goes back to its follower |
| broadcast | broadcast, participants, deliveries, fences, terminal recovery | start, mirror, suspend, resume, stop, feedback, replay, compact, decommission | the end is delivered until confirmed, over reconnections, compaction and restarts | a device is freed only after it was told the end |
| sessions and generation locks | sid, client, route, physical generation locks | connect, register, replace, disconnect, prune, decommission | late disconnect of a replaced socket, locks of several devices | the registered connection is the routed one; handlers act on current connections; no circle of locks |
| request cache | answers by connection and request | lookup, reserve, answer, expire, clear | repetition during execution, disconnect in between | a repetition has no second effect |
| safety gates | startup gate, drain, emit reservations, rate windows | recover, admit, reserve, release, shut down | shutdown racing requests | nothing before recovery or after the drain; reservations balance |
| legacy rooms | broadcasts, sessions, timelines and two-phase prepares of older clients, in memory, with rows written after | start, control, queue sync, prepare, ready, report, return, stop | superseded prepares, late writes, restart | one prepare per timeline, no command twice, a restart finds what the last handler left |
| watcher and scanner | queue of file events, tracks | note, merge, carry out, scan | merging within the delay, a scan beside the worker | the library is the disk |
| jukebox | playlist, index, thread, player | all commands, the play loop | commands while a song plays | the index is the song that is played |
| daemon, scheduler | listener, threads | terminate, jobs | end in the middle of anything | threads are joined in order |

Every handler runs on its own thread (or greenlet).  Handlers that act for a
device hold its *physical generation lock*
(`strictPhysicalGenerationLockSet`), those of one context are serialised by a
lock and a database transaction, and what is written to the copies in memory
(`ws_state.py`) is written under another lock and usually later.  Timers are
background tasks; a sweep runs once a second.  A restart loses what is in
memory and keeps the rows.

How the parts meet: a control command, a queue sync, a close and a handoff all
change the row of a context; handoff, follow and broadcast fence the contexts
of their devices against each other and against those; a disconnect or a
replacement settles controls, handoffs, follows and broadcasts of the lost
connection; all requests pass through the request cache and the gates.

## The modules

| module | what it is |
|---|---|
| `ControlLane` | the ordinary control lane of one context, with timers, connections, restarts and database failures |
| `ControlOutcomes`, `ControlLaneOutcomes` | the abstract specification of the lane, numbered commands with one outcome each, and the refinement mapping to it |
| `RequestPath` | a request's way through `on_message`: request cache, startup gate, drain, emit reservations |
| `Handoff` | handing a context to another device, with the contexts, broadcasts, connections and restarts it meets |
| `ContextAuthority`, `HandoffAuthority` | the abstract specification, one authority per context that only an offer moves, and the refinement mapping |
| `Follow` | safety leases of followers, relationships in memory, what contexts and connections do to them |
| `Broadcast` | broadcasts of one source, mirrored to the other devices, and the recovery after the end |
| `Generations` | connections of devices and their physical generation locks, lock by lock |
| `Contexts` | rows, copies, subscriptions and prepares of one device's contexts, handlers overlapping |
| `RoomPrepares`, `RoomBroadcasts`, `RoomSessions`, `Rooms` | the legacy rooms: two-phase prepares, broadcasts over them, sessions over them, and both together |
| `Watcher`, `Jukebox`, `Daemon` | the library and its threads, the jukebox, and the daemon that composes and ends them |
| `MC...` | definitions and symmetry for the runs |
| `Server_proofs` | theorems about `RequestPath` and `Daemon`, the two processes of the server |
| `..._proofs` | theorems about the module they are named after |

A definition whose name ends in `_Something` is a faulty variant of the
definition in front of the underscore.  No action uses one; put in the place of
the real definition it breaks the property it is listed with in
`PROJECT.json`, which shows that the property depends on that code.

## The models and the code

### ControlLane

`tx[v]` is the `EmoPlaybackControlTransaction` with
`commandControlVersion = v`; `controlVersion` and `device` are the context's
canonical control version and the `appliedControlVersion` of the authority's
device state; `intents` and `reconciliations` are the rows of
`EmoPlaybackLocalIntent` and `EmoPlaybackControlReconciliation`.  These survive
`Crash`.  `conn`, `socket` are the registered connection of the authority,
`lock` is its generation lock and `work` what the lock's holder has still to
settle.

A control request is three steps, because a crash, a dropped socket or a report
can come between them: `AcceptControl` (the transaction of
`mutateStrictPlaybackContextControl`), `DispatchControl` or `DispatchFails`
(re-validation, emit, or the settlement of a given-up command) and
`FinishControl` or `LeaseFails` (the lease and its timer).  `LeaseAdvances` is
time passing, `ExpireControl` both the watchdog task and the sweep.  What the
authority reports is `PassiveUpdate`, `RemoteCommitted`, `RemoteFailed`,
`LocalIntent`, `SyncQueue`; `ActivateDependent` is the activation that follows a
commit outside of its transaction.  A disconnect or a replacement takes the
lock, settles the routed transactions one at a time (`SettleRouted`, which may
fail part-way) and finishes.  `RecoverControls` is
`recoverPendingPlaybackControlsForStartup`.

Abstractions: time is the state of a lease (none, scheduled, running, expired);
the queue is whether an action changes the track and whether the reported track
is found; the settlement of a cascade is one step since it is one transaction.
`StoreFaults` says whether a database call may raise.

What the models show of the code, and no property claims: a command whose
dispatch fails and whose settlement cannot be stored stays pending without a
deadline (`ws.py:5205`); the first passive report of a device is compared with
nothing, so it may claim a command that did not commit (`ws_store.py:3862`).

### RequestPath

`cache` is `StrictRequestCache._entries`; `active`, `gate`, `shutdown`, `emits`
are the fields of `StrictV2Safety` (`shutdown` also says how far
`begin_strict_v2_shutdown` is), and `handler[h]` is what a thread that runs
`on_message` remembers: the key it read from the session when it received the
message, whether it was admitted, the answer it is about to give, and the
connection for which it holds an emit reservation.  Every call that takes one of
the two locks is a step of its own: `Receive`, `Lookup`, `Admit`, `ReservePush`,
`Execute`/`Reject`, `ReleasePush`, `Answer` (`store_result`),
`Emit`/`EmitReturns`, `Finish`.

Abstractions: the business of a handler is that it took effect (`Execute`) or
did not (`Reject`), and at most one push to another client; admission limits and
the rate windows are a refusal that may come (`Refuse`, or no `Connect`); a
fingerprint is a value of `Contents`; time is `Tick`, and ages stop at `TTL`
since only "at least TTL" matters.  A request that was received before a
disconnect and looked up after it executes again (`ws.py:13171`);
`AnsweredOnce` speaks of requests within the life of their connection.

### Handoff

`context` and `handoff` are the rows `EmoPlaybackContext` and
`EmoPlaybackHandoff`; of a context the lifecycle, the authority, its epoch and
control version, and whether its queue is empty are kept.  A client stands for
the device and its device session; its connections are numbered in
`connection`.  `remembered` is the status in `state._handoffs`, `prepare` that
of the prepare in memory, `timer` the one background task of a handoff.

A handler holds the generation locks of source and target
(`_locked_handoff_lifecycle`), so it is one step, with two exceptions in which
others can move in between: `sending`, between storing the commit and putting it
on the target's socket, and `settling`, between the transaction of a
`playback.update` that ended a handoff and the update of the server's memory,
which the code makes after it has released the locks (`ws.py:11141`).

| action | code |
|---|---|
| `Start`, `StartAgain` | `_handle_handoff_start`, `createStrictPlaybackHandoff`; a start repeated after its deadline, `_expire_stale_handoff` |
| `Ready`, `ReadyTooLate`, `NotReady` | `_handle_playback_ready`, `_commit_prepare`, `commitStrictPlaybackHandoff` |
| `CommitSent`, `CommitNotSent` | `_send_strict_handoff_commit`, `markStrictPlaybackHandoffCommitEnqueued` |
| `Complete`, `CompleteLate` | `_handle_handoff_complete`, `_completeStrictPlaybackHandoffLocked` |
| `Cancel` | `_handle_handoff_cancel` |
| `PrepareTimer`, `CompleteTimer` | `_expire_prepare`, `_expire_handoff_complete` |
| `SourceUpdate`, `SettleInMemory` | the source's `playback.update` that differs from what was frozen |
| `Connect`, `Replace`, `Disconnect`, `Restart` | registration, `_settle_handoffs_for_generation`, `on_disconnect`, `failActivePlaybackHandoffsForRestart` |
| `EnsureNew`, `EnsureQueue`, `Control`, `CloseContext` | the mutations a handoff excludes |
| `StartBroadcast`, `StopBroadcast` | `createBroadcastState` and the end of a broadcast, as far as handoffs see it |

`Barred` is the refusal of `terminateStrictPlaybackHandoff` by its decorator: a
broadcast may start on the source of a handoff (`broadcast_store.py:935`), and a
deadline that passes during it is lost (`ws.py:3783`), so that the handoff stays
open until something else ends it.  Left out: the payloads (positions, rates and
track durations of the completion proof, `_validate_handoff_complete_proof`;
that they may decide against a commit is `ReadyTooLate`), the rebuilding of
records in memory after a restart (`_rebuild_handoff_prepare_if_missing`,
`_restore_ready_handoff_if_missing`), retention, event confirmations, and the
legacy handoffs (`savePlaybackHandoff`).

### Follow

`lease` is the row of `EmoFollowSafetyLease`, `relation` the relationship in
`ws_state.py`, `context` the contexts with the last report of their authority
(settled, pending, or too old).  A handler holds the generation locks of both
devices and the locks of both contexts, so each is one step, except that the
sweep (`ws.py:8213`) and the close of a context (`ws.py:10780`) drop the
relationship in memory after they have let everything go: `removals`.

`Start`, `Resume` (a start repeated while the lease is in its grace; it is
refused when what was followed has changed), `Stop`, `Register`, `Disconnect`,
`Update`, `Command`, `Ensure`, `Close`, `Handoff` (which redirects the
followers of what moved), `Sweep`, `RemoveRelation`, `GracePasses`,
`RecoveryPasses`, `Restart`.  After a restart the row does not know the
connection that led its source any more, so a source that went away with the
process is only missed when its follower comes back (`follow_store.py:1566`,
`:1731`).  Left out: the session form of `follow.start`, status queries, and
broadcasts of the same devices, which exclude following (`Broadcast` and
`Follow` are not composed; the checks of one for the other only refuse).

### Broadcast

`broadcast`, `participant`, `ledger`, `fence`, `sourceFence`, `recovery` and
`retired` are the rows of `broadcast_store.py`; `source`, `suspending`,
`online`, `registering` and `outbox` are what runs outside of its transactions:
the disconnect handler of the source suspends its broadcast later
(`ws.py:13120`), a registration reads what it is owed in one step and takes
effect in another (`BeginRegister`, `FinishRegister`), and a terminal event is
sent after the transaction that ended the broadcast (`Emit`, `ws.py:6434`): a
device that registers just then misses it, and is owed it until it registers
again.  Other deliveries may arrive or not; a device may answer any it was made,
a terminal one only after it was sent the event (`told`).

Repeated intents and `clientSeq`s replay a stored answer and are left out, as
are clients without the capability, status queries, and a registration on the
connection a device has already.  `confirmBroadcastRestore` is called by
nothing.  What the source must have reported, and that its records are equal and
fresh, is `source`.  A source that is pruned does not have its broadcast
suspended (`SourcePruned`, `ws_state.py:523`): it goes on until the source comes
back or is stopped, which is why `SourcelessEnds` speaks of sources that
disconnected.  Deadlines may pass at any time.  A sync status is `open` for
pending, failed or timed out.

### Generations

The connections of one user's devices (`session`, `named`, `route`: the
sessions, their clientIds, and `_client_to_sid`), the pending `controls` and
live `handoffs` between devices, and the locks (`holder`).  One handler runs in
each `thread`: it takes the locks of its devices one at a time, lowest first;
reads again what it is about and starts over when it needs more
(`_locked_handoff_lifecycle`, `_lock_strict_v2_current_generations`); acts; and
lets go.  `Tell` is `_broadcast_control_settled`, which takes locks of its own
while those of the handler may still be held.  Handlers: control and handoff
start (`Match`, `Dispatch`), the end of a handoff, the report that settles a
control, registration, replacement, disconnect, unregistration, pruning and
decommissioning.

A control stands for any message that is sent to the authority's connection
under its locks, such as a follow's.  Each connection is made once.  Pruning
handles the callbacks of its devices in one step and removes them in another.
`untied` (history) marks connections whose disconnect saw no device, as they
were being registered, and connections that were registered as a second device
(`ws.py:13057`, `ws_state.py:655`): for those nothing is promised.

### Contexts

`row` is `EmoPlaybackContext`, `copy` the copy in `ws_state.py`, `commands` the
epochs with a pending command, `prepares` and `timers` those of
`prepare.request`, `subscribed` the one controller's subscriptions.  A handler
changes the row in one step and carries what it saw (`image`) and its remaining
tasks (`todo`): write the copy, subscribe, clear subscriptions, settle prepares,
create one, emit it, answer it.  Other handlers run between the tasks.

Where handlers overlap, the code leaves things behind that these runs show and
the properties name with `overlapped` and `lost`: the copy may regress until
the next change (`ws_state.py:1309`); an answer is decided on the copy and
settled without looking again, so `ready` may be recorded while the context is
idle or closed; a subscription made while the context closes stays; a prepare
whose emit raises or whose process dies keeps its status for ever.

Left out: the authority's device row and the life of a command (`ControlLane`),
fences, more than one device or controller, retention (only called by tests).
A request begins on the connection the device has then.

### Rooms

The clients of the older protocol.  A prepare belongs to a timeline: of a
broadcast or of a session's player.  `RoomPrepares` has what happens to it
whatever it is for: created (ending the older one of its timeline), sent,
answered, expired, claimed for its command, superseded by a control that needs
none.  `RoomBroadcasts` adds the broadcasts, the map from a device to the one
it plays in, and their contexts in memory and as rows; `RoomSessions` the shared
queue, the session's context, the players and their rows.  `Rooms` composes them;
`kind` keeps a behaviour to one of the two, since they share only the list of
prepares and the lock.

A request is a handler that changes memory at once and carries the rest, as in
`Contexts`.  Histories: `crossed` and `mixed` mark what handlers that overlapped
changed last, `lost` the prepares whose emit raised, `outdated` those older than
a control that has finished, `applied` how often a command was carried out,
`ended` what was stopped.

What the runs show of the code, and the histories excuse: a pause that meets a
commit already claimed leaves the room playing; a control version of a session's
player may fall, and two handlers may take the same one; a single-phase start
takes a context another start is preparing, and two of them leave a broadcast no
context names; overlapping writes may persist the older broadcast, and even
revive a stopped one after a restart; a restored broadcast takes participants
from a newer one; a broadcast without participants can no longer be controlled;
a returning device's rows may overwrite a newer queue; a prepare of a start whose
emit raised blocks its context.

Left out: local queues, participant states, volumes and positions, epochs,
requests with an old base (they are refused), the v2 controls of non-strict
clients, the legacy follow relation.

### Watcher, Jukebox, Daemon

A file is its modification time.  The observer puts `notes` into the `queue`,
where events of one path are merged; the worker carries out an item (move, read,
store, remove) when it has been quiet; a scan walks the folder while it is not
watched, and watches it again.  An event may be taken at any time: the delay is
abstracted.  The jukebox is its list, its index, the loop of its thread
(`Top`, `Play`, `Ends`) and commands made of tasks, each under the lock or on one
event.  `Daemon` adds the thread that takes commands, the jobs of the scheduler,
and `terminate`, which stops and joins one after the other.  `part` keeps a
behaviour to the library or the jukebox, since they share no state.

`astray` excuses exactly the files the code is known to lose: changed while the
folder was not watched during a scan (until the next one); a file moved onto one
that was removed within the delay (the merged event is both, and removes it); a
move that a merge drops; a moved file whose source had no track or an older one;
a new file under a moved one's old name; events left when the queue is closed;
a scan that was stopped.  Whatever a thread dies of is modelled too: a scan that
meets a track of its path (`IntegrityError`) leaves the folder unwatched; a skip
beyond the list kills the listener, and `terminate` then has nobody to connect
to; a start while the jukebox's thread winds down is lost.

Left out: directories, covers, `album.nfo`, folder commands, albums, artists and
repairs; negative indices; the offset of a skip; two changes of a file within one
second, which the code's whole seconds do not tell apart.

## The runs

| run | instance | what it shows |
|---|---|---|
| `lane_safety` | versions to 5, one connection, track changes with an execution time, one intent, database failures | the rules of dependencies, every version accounted for once, the believed applied version covers the commits, what is written of the past stays; the lane implements `ControlOutcomes` |
| `lane_liveness` | versions to 3, two connections, two kinds of command, `FairSpec` | only the routed, registered connection commits; every accepted command gets an outcome: the lane implements the fair form of `ControlOutcomes` |
| `request` | one connection, two threads, two contents, TTL 2, one pending emit, `FairSpec` | counters and reservations are settled on every way out, nothing takes effect outside of the time of service, a repetition has no second effect and gets the first answer, reservations come to an end |
| `handoff_safety` | two devices, two contexts, two handoffs, one connection each, control version to 2, broadcasts | what a handoff froze holds until it ends, handoffs keep apart, each ends once and moves the authority only on its proof, memory follows the database |
| `handoff_liveness` | one handoff, two connections, no broadcasts, `FairSpec` | what the devices see is `ContextAuthority`, and every offer of it ends |
| `follow` | three devices, two contexts, three registrations, two leases, `FairSpec` | rows, relationships and connections agree; nobody follows in a circle; the frozen context stays; a lease ends with its follower there; what is left alone comes to demand cleanup |
| `broadcast` | one device and its source, two broadcasts, revisions to 4, two deliveries each, `FairSpec` | fences are exact, statuses true, a device is freed only after it was told; a broadcast does not stay on without its source |
| `generations` | two devices, two connections, two threads, one control and one handoff at a time, failures | registered is routed; handoffs end with their connections; what was matched is current; only nesting makes circles |
| `lock_circle` | the same without failures and second registrations | the finding below |
| `contexts` | two contexts, two sessions, an empty and a two-song queue, one intent, two handlers, three changes, crashes | rows consistent, prepares current and timed, copies right again, cursors name one content |
| `rooms` | two devices, one context, two broadcasts, three requests, two handlers, restarts | prepares in order, memory and rows agree, a context keeps its broadcast |
| `daemon` | two files, four changes, one scan; two songs, lists of two, five commands; one job | the library is the disk; the jukebox's index is its song |

Why the bounds are enough.  *Lane*: version 1 is the context's creation; five
versions are four more: the longest chain in which "direct" and "transitive"
dependents differ, and two reconciliations next to each other, where an
off-by-one in their ranges shows.  Two connections are what a late report of a
replaced connection needs.  *Request*: a hazard has two threads, the repetition
and the original; two contents make a conflict; TTL 2 gives an age that is
neither fresh nor expired; a limit of one is reached by either thread.
*Handoff*: two devices can hand a context over and back, and two contexts give
the target a standby; that handoffs keep apart among more devices is proved.
*Follow*: a circle needs two followers and two contexts, a handoff a third
device to receive what is followed; three registrations leave every device one,
or one device all.  *Broadcast*: devices of a broadcast meet only in the
record's revision, so one device shows what any does; the second broadcast is
what an old fence, delivery or confirmation could be mistaken for; only the
first of them changes (`Mirrored`).  The proofs cover every number of devices.
*Generations*: a circle of two needs two threads, two devices, two locks.
*Contexts*: three changes and two handlers are an overlap and a third that
repairs it, or a prepare, its answer and a new epoch.  *Rooms*: three requests
are a two-phase one, one that supersedes it and one in between.  *Daemon*: four
changes make, move and remove a file and put another in its place.
Deadlines pass whenever they like in every module, so time has no bound; every
other bound is a constant that says so where it is declared.

The lane does not deadlock, and its runs say so, as those of handoffs do.  The
other systems may stop for good: every connection gone, nobody with a request
left to make, the daemon ended, or the threads in a circle.

## Fairness

`ControlLane.FairSpec`: a handler that holds the lock goes on; time passes and
the sweep runs each second (`_control_watchdog_sweep_later`), strongly fair since
a restart can disable it again and again; a dropped socket is reported to
`on_disconnect`; a process that is restarted sooner or later finishes its
recovery.  Nothing is assumed of devices and controllers: they may be silent for
ever.  `lane_liveness` assumes no database failures, which it has to.

`RequestPath.FairSpec`: a thread inside `on_message` goes on.  Nobody has to
send anything, and neither time, disconnects nor the shutdown are assumed.
`InFlightSettles` speaks of a reservation with its content: threads slower than
TTL can reserve a key in turn for ever, each with a request of its own.

`Handoff.FairSpec`: a handler that sends a commit or settles the memory goes on;
time passes; a timer (a background task that sleeps) runs; every broadcast is
stopped some day.  `handoff_liveness` has no broadcasts: a deadline that passes
during one is lost, see above.

`Follow.FairSpec`: a grace deadline passes, and the sweep comes back to each
lease (`ws.py` runs it every second).  Followers may stay away for ever.

`Broadcast.FairSpec`: the disconnect handler finishes (`Suspend`), and the sweep
comes back after the deadline of a source that is waited for.  Devices may never
answer.

`Generations`, `Contexts`, `Rooms` and `Daemon` state no liveness: what they
could promise ends in the timers, threads and circles described above.

## Proofs

Assumptions are the named `ASSUME`s of the modules: bounds are natural numbers,
sets that are counted are finite, "no device" is not a device.  All theorems are
for every value of the constants.

*Control lane.*  `InvariantCorrect` proves `IInv`: `TypeOK`; `TableInv`, the
shape of the transaction table below the canonical version (dependencies point
down to a pending or committed track change, a lease exists exactly when the
dependency committed, nothing pending below a commit, failure has its cause,
every pending command above a pending track change depends on one);
`HandlerInv`, that a dispatching handler works on the newest, untouched command;
`StartupInv`, the table between recovery and the opening of the gate;
`AppliedInv`.  The properties alone are not inductive: that a commit leaves
nothing pending below needs that leases are only given in the order of the
dependencies.  `Cascade` is the least closed set, which makes "a failure reaches
all dependents" provable without recursion.  `VersionsAccountedCorrect` adds that
a version has one owner (a command, an intent or a reconciliation takes the next
canonical version, so a new one is above all) and that a reconciliation absorbs
what is above the stretches already absorbed.
`ImplementsOutcomesCorrect` maps acceptance to `Issue`, a device's report of
success to `Commit`, a local intent to `Supersede`, and every failure (report,
timer, lost connection, recovery) with its cascade to one `Fail`: under the
invariant what still needed a failed command has failed with it
(`FailureImplements`).  The rest, reconciliations included, stutters.

*Request path.*  `RequestInvariant` proves what a thread holds at each point of
`on_message` (`Discipline`), the two counters, the workers, and `Quiet` (requests
are active only behind an open gate, none after a successful drain).  `CountStep`
relates a cardinality before and after one element comes or goes; since a step
moves one thread, a counter is right after a step when it changes as that thread
does (`Local`), which each action's lemma shows.
`AnsweredOnceCorrect` needs that the ages agree (`RepeatInvariant`): until its
connection is closed, a worker younger than `TTL` finds its own entry, as old as
itself (`OwnsEntry`), is alone with it (`WorksAlone`) and comes before any effect
(`StartsFresh`), and an entry lasts as long as the memory of the effect
(`EntryRemembers`).  So `lookup_or_reserve` gives a key away only when nobody
young works on it and nothing is left to repeat (`ExpiredKey`); a thread that
outlived its reservation is the exception the property names.

*Handoff.*  That two handoffs share nothing is not inductive: a device that
starts to hand its context over is in no other handoff because all its contexts
would be frozen, and they are frozen because nothing is shared.
`HandoffInvariant` proves them together, with the shape of a live handoff and
`SendingIsCommitting`.  Steps are changes of a context that no handoff has
(`ContextKeepsFrozen`), handoffs that end or move on (`EndedKeepsFrozen`), a
start (`StartedKeepsFrozen`), and the source's update and the completion, which
change both and are proved directly.
`MemoryFollowsCorrect`: each step tells memory what it tells the row, or
forgets the handoff; the one that does neither (`SourceUpdate`) leaves it among
those still to settle, and settling reads the row.

`ImplementsAuthorityCorrect` is the safety half of `ImplementsFairAuthority`.
Start is `Offer`, completion `Move`, every other end `Withdraw` (of many at once
in a restart), creation and closing `Open` and `Close`.  That an offer is unique
is `NothingShared`; that closing a context withdraws nothing is `FrozenUntilEnd`.

*Contexts.*  `ContextsInvariant` is about the rows alone and gives
`StoreCorrect` and `CursorsCorrect`.  `HandlersInvariant` adds the handlers:
whatever the copy, the subscriptions, the prepares and the timers still lack is
on the list of tasks of some handler, which is why it is not lacking once no
handler is left.  Handlers are a sequence; `Removed` says where the others are
after one has left it, `Tails` what tasks one can be left with.

*Follow.*  `NoFollowCircle` and `FollowsAreReal` need `OwnFrozen` (what a lease
froze is active and its follower's own) and `ActiveIsLed` (an active context has
a device).  A circle cannot close because a new lease's source is frozen for
nobody, not for the new follower either: among followers with the new one it is
the one whose source is free, among others the one of before is.  Every other
step leaves source and frozen context of a lease as they are (`Carried`).
`StaysFrozen` is `FrozenUnchanged` and the guards that leave frozen contexts
alone, `EndedByFollower` that only `Stop` ends a lease.

*Broadcast.*  `BroadcastInvariant` proves fences and statuses together:
a fence is exact because a participant's row, its delivery and the compacted
recovery name the same broadcast, and a status is true because a revision gives
every member a new target in the same transaction.  `FreedByItsDeviceCorrect`
then needs that a device is asked to confirm a terminal delivery only if it was
told the end, or is retired.

*Generations.*  `GenerationInvariant`: a handler past its taking holds all its
locks (`LocksOK`) and takes them from the lowest (`TakenInOrder`); a handler
changes only what belongs to devices whose locks it holds (`Effect`), so what
another has matched stays (`MatchedIsCurrent`) and a handoff ends with its
connection.  In a circle without nesting each waits for a lock above all it
holds, so the locks waited for climb strictly round it, which a finite set does
not allow (`OnlyNestingMakesCircles`).

*Rooms*.  `RoomsInv` is about the prepares (`PInv`) and the memory of the
broadcasts (`MInv`).  "Somebody will end it" is not inductive, since a handler
of a prepare may have gone on to other tasks: `Decided` asks for one whose next
task it is.  A control that has no `supersede` left before it has outdated all
it found (`HandlerOK`), so none of those is open when it finishes.  That a
context keeps its broadcast needs that a row is only written while the copy
names the writer's broadcast, and that copy and row never name two.  Steps are
what they do to the list of handlers: one more (`TakesOn`), or a `Turn` of one.
`RoomsAgreeCorrect` needs, in a behaviour about broadcasts (`BInv`), that an index
was checked against the queue of the version it will be applied to (`SongsInv`),
that a broadcast still to be created is in no row and has one handler or one
prepare (`StartsInv`, so nobody makes it again after it ended: `EndedInv`), and
that a handler past its change carries what is in memory, or another crossed it
(`AgreesInv`).  In one about sessions (`SInv`) the queue, the context and each
player are one kind of thing, a slot: unless it is `mixed`, whoever is still to
save it carries what is in memory, and its row lags only while somebody does
(`SlotOK`).  A step leaves a slot as it is, changes it alone, saves it, or finds
it in its row (`SlotStep`); a device that restores what it has read finds it
unread and unchanged (`RestoreOK`).

*Daemon*.  `JukeboxCorrect` says that the song that plays is the one its index
names, unless the list was changed under it (`mixedUp`).  A skip looks at the
list before it sets the index; `JukeboxInv` holds that what it found is still so
when the index is set, since the listener carries out one command after the
other and only a command changes the list, and that while a program plays the
index is at most the length of the list, so that `NextIndex` is at most one more.
`LibraryCorrect` says that the tracks are the files when everything has come to
rest.  At rest nothing is left to argue from, so `LibraryInv` follows each file
that is not `astray` while something is under way (`Followed`): its last
change is told by the last of the `notes` that concerns it (`NotesTell`); once
there is none, by the event of its path in the queue (`QueueSettles`); then by
what the worker has still to do (`WorkerSettles`); and else its track is right.
While a scan reads the folder, which is not watched then, the file is one the
scan has still to look at or has seen to (`Scanned`).  `Deliver` is where it is
hard: merging two events keeps what the later one says of the path, because
`Merged` lets the later of "scan" and "remove" stand alone, and what it cannot
keep of a source is in `Mislaid`.  `RowsOK` is needed because a row is saved
whole long after it was read: ids are unique, and a row that the worker or the
scan has read stayed at its path or went with the file the worker moves, so
saving it puts no track back where another was.  Directly after `ScanFolder`
nothing is noted or queued, so the invariant starts again from the scan alone.
Assumed are only `WatcherAssumption` and `JukeboxAssumption`.

Every safety property of the passing runs is proved, for every value of the
constants.  Only model-checked: liveness and fairness, so the fair halves of the
refinements too, which need ENABLED.  Not proved of the models themselves: that
a bound in a guard loses nothing, and that the runs' symmetry is sound.

## Findings

* `lock_circle`: a disconnect settles the controls of its device inside the scope
  that holds the device's generation lock (`ws.py:13098`), and telling the
  requester takes the requester's lock (`ws.py:10195`): sorted among themselves,
  but inside a lock already held.  A disconnect of the higher device waits for
  the lower, whose control holds its lock and waits for the higher.  The r18 plan
  (line 205) asks for a fixed order without such reversal.
  `CircleNeedsNesting` is what does hold.

Behaviour that the models have and no property excludes is named with each
module above.  Of the hazards in `PROJECT.json` each has a property.  Hazards
known and left without one: the rate check of a request that was received before
its connection closed makes a bucket again, which only costs memory
(`strict_v2_safety.py:263`); such a request misses the cache (`ws.py:13150`); a
store error while the leases of a lost connection are marked leaves them active
until the next restart (`ws.py:13088`, store errors are not in `Follow`); a
mirrored change is committed and not projected when its emit fails
(`ws.py:7240`, one of the behaviours of `Broadcast`); a volume report in flight
outlives its connection (`ws.py:2969`, volumes are not modelled).

## Not modelled, and why

`PROJECT.json` lists every component.  Message validation
(`strict_v2_contract.py`) is stateless and its outcome is a guard or a refusal;
effective-at scheduling is arithmetic on one clock reading; readiness,
acceptance and conformance reports are evidence about releases; formatting,
metadata, status and list actions only read.  The one-time passwords of the
browser login and the transcoding cache keep state under one lock each, and stand
apart from everything else.  The HTTP API, the web frontend, recommendations,
playlists and external services are request-response code over a database or a
network.  Login and per-connection limits, volumes, positions and rates are
data that no modelled guard tells apart.  The fences of broadcast, handoff and
follow on each other are modelled where they refuse, not as one composed system:
a composition of the five detailed modules has too many states for a bounded run,
and each refusal is a guard that reads one row.
