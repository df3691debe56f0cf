------------------------------ MODULE Contexts ------------------------------
(***************************************************************************)
(* The playback contexts of one player device: their rows in the database  *)
(* (supysonic/emo/ws_store.py), the copies that ws_state.py keeps of the   *)
(* rows, the subscriptions to them, and the prepare transactions by which  *)
(* a controller asks an idle device to find itself a queue.                *)
(*                                                                         *)
(* A handler changes the row in one database transaction, under the lock   *)
(* of the context, and does the rest of its work without that lock, one    *)
(* task after the other: it writes the row it saw over the copy, settles   *)
(* prepares, subscribes or clears subscriptions.  Other handlers run       *)
(* between the tasks.                                                      *)
(*                                                                         *)
(* Broadcast, handoff and follow fences, which refuse some of these        *)
(* requests, are left to the modules Broadcast, Handoff and Follow, and    *)
(* the life of a control command to ControlLane: here a command is only    *)
(* pending or not.                                                         *)
(***************************************************************************)
EXTENDS Naturals, Sequences, FiniteSets, SequencesExt

CONSTANTS
    MaxContexts,     \* bound: contexts that are ever created
    Sessions,        \* deviceSessionIds the device registers with
    FirstSession,    \* and the one it begins with
    Queues,          \* the queues it may have, sequences of songs
    Intents,         \* intentIds of prepares
    MaxHandlers,     \* bound: requests that are handled at the same time
    MaxVersion,      \* bound: changes of one context
    MaxChanges,      \* bound: changes of all of them together
    MaxConnection,   \* bound: registrations of the device
    Faults           \* whether the process may be killed and an emit may raise

ASSUME ContextsAssumption ==
    /\ MaxContexts \in Nat \ {0}
    /\ MaxHandlers \in Nat \ {0}
    /\ MaxVersion \in Nat \ {0} /\ MaxChanges \in Nat
    /\ MaxConnection \in Nat \ {0}
    /\ 0 \notin Sessions /\ FirstSession \in Sessions
    /\ <<>> \in Queues /\ \A q \in Queues : DOMAIN q \subseteq Nat
    /\ Faults \in BOOLEAN

VARIABLES
    server,       \* whether the process runs
    connection,   \* the device's registration: its session and its nonce
    row,          \* EmoPlaybackContext
    copy,         \* _playback_contexts of ws_state.py
    commands,     \* the epochs that have a pending control transaction
    prepares,     \* EmoPlaybackPrepareTransaction
    timers,       \* _expire_context_prepare_later of each prepare
    subscribed,   \* the contexts the controller is subscribed to
    handlers,     \* the requests in progress
    overlapped,   \* history: the last change of a context did not run alone
    lost          \* history: prepares whose timer a crash or a failed emit took

vars == <<server, connection, row, copy, commands, prepares, timers,
          subscribed, handlers, overlapped, lost>>

-----------------------------------------------------------------------------
Ids == 1 .. MaxContexts
Cursors == 0 .. MaxVersion
Keys == Ids \X (1 .. MaxVersion) \X Intents

Row == [life : {"absent", "active", "closed"}, session : Sessions \cup {0},
        queue : Queues, index : Nat, epoch : Cursors, version : Cursors,
        queueRevision : Cursors, controlVersion : Cursors]

NoRow == [life |-> "absent", session |-> 0, queue |-> <<>>, index |-> 0,
          epoch |-> 0, version |-> 0, queueRevision |-> 0, controlVersion |-> 0]

NoPrepare == [status |-> "absent", nonce |-> 0]

Tasks == {"copy", "subscribe", "settleReady", "settleFailed", "clear",
          "create", "emit", "answerReady", "answerFailed"}

\* A request in progress: the context it is about, the row it saw, the
\* prepare and the connection it is about, and what it still has to do.
Handler == [id : Ids, image : Row, intent : Intents \cup {"none"},
            nonce : 0 .. MaxConnection, todo : Seq(Tasks)]

TypeOK ==
    /\ server \in {"up", "down"}
    /\ connection \in [session : Sessions \cup {0}, nonce : 0 .. MaxConnection]
    /\ row \in [Ids -> Row]
    /\ copy \in [Ids -> Row]
    /\ commands \in [Ids -> SUBSET (1 .. MaxVersion)]
    /\ prepares \in [Keys -> [status : {"absent", "preparing", "ready", "failed"},
                              nonce : 0 .. MaxConnection]]
    /\ timers \in [Keys -> {"none", "armed", "ready", "failed"}]
    /\ subscribed \subseteq Ids
    /\ handlers \in Seq(Handler) /\ Len(handlers) <= MaxHandlers
    /\ overlapped \in [Ids -> BOOLEAN]
    /\ lost \subseteq Keys

\* The process runs and the device has registered.
Init ==
    /\ server = "up"
    /\ connection = [session |-> FirstSession, nonce |-> 1]
    /\ row = [c \in Ids |-> NoRow]
    /\ copy = [c \in Ids |-> NoRow]
    /\ commands = [c \in Ids |-> {}]
    /\ prepares = [k \in Keys |-> NoPrepare]
    /\ timers = [k \in Keys |-> "none"]
    /\ subscribed = {}
    /\ handlers = <<>>
    /\ overlapped = [c \in Ids |-> FALSE]
    /\ lost = {}

-----------------------------------------------------------------------------
(***************************************************************************)
(* Connections, handlers and the in-memory copy.                           *)
(***************************************************************************)
Online == connection.session # 0

Register(s) ==
    /\ server = "up" /\ connection.nonce < MaxConnection
    /\ connection' = [session |-> s, nonce |-> connection.nonce + 1]
    /\ UNCHANGED <<server, row, copy, commands, prepares, timers, subscribed,
                   handlers, overlapped, lost>>

Disconnect ==
    /\ server = "up" /\ Online
    /\ connection' = [connection EXCEPT !.session = 0]
    /\ UNCHANGED <<server, row, copy, commands, prepares, timers, subscribed,
                   handlers, overlapped, lost>>

Running == DOMAIN handlers
BusyOn(c) == \E h \in Running : handlers[h].id = c

Starts == server = "up" /\ Len(handlers) < MaxHandlers

Begin(c, image, i, nonce, todo) ==
    handlers' = Append(handlers, [id |-> c, image |-> image, intent |-> i,
                                  nonce |-> nonce, todo |-> todo])

\* The rest of the handler that changed context c into new.
Commit(c, new, todo) ==
    /\ row' = [row EXCEPT ![c] = new]
    /\ Begin(c, new, "none", 0, todo)
    /\ overlapped' = [overlapped EXCEPT ![c] = BusyOn(c)]

\* A handler that has only read context c: what it keeps is the authority.
Remember(c, i, todo) ==
    /\ Begin(c, [NoRow EXCEPT !.session = copy'[c].session, !.epoch = copy'[c].epoch],
             i, connection.nonce, todo)
    /\ overlapped' = [overlapped EXCEPT ![c] = @ \/ BusyOn(c)]

\* _get_existing_playback_context: the copy, or the row when there is none.
Copied(c) == IF copy[c].life # "absent" THEN copy[c] ELSE row[c]
Look(c) == copy' = [copy EXCEPT ![c] = Copied(c)] /\ Copied(c).life = "active"

\* Every change of a context, its creation included, has a version of its own.
Bounded(c) ==
    /\ row[c].version < MaxVersion
    /\ FoldFunction(+, 0, [d \in Ids |-> row[d].version]) < MaxChanges

-----------------------------------------------------------------------------
(***************************************************************************)
(* playback.context.ensure                                                 *)
(***************************************************************************)
Active == {c \in Ids : row[c].life = "active"}

\* The contexts of this very session, or else those of the device.
Candidates ==
    LET exact == {c \in Active : row[c].session = connection.session}
    IN  IF exact # {} THEN exact ELSE Active

TrackOf(queue, index) == IF queue = <<>> THEN 0 ELSE queue[index]

EnsureNew(queue, index) ==
    /\ Starts /\ Online /\ Candidates = {}
    /\ \E c \in Ids :
        /\ row[c].life = "absent" /\ \A d \in 1 .. c - 1 : row[d].life # "absent"
        /\ Bounded(c)
        /\ Commit(c, [life |-> "active", session |-> connection.session,
                         queue |-> queue, index |-> index, epoch |-> 1,
                         version |-> 1, queueRevision |-> 1, controlVersion |-> 1],
                  <<"copy">>)
    /\ UNCHANGED <<server, connection, copy, commands, prepares, timers, subscribed, lost>>

EnsuredRow(r, queue, index, rebind, initialize) ==
    LET filled == IF initialize
                  THEN [r EXCEPT !.queue = queue, !.index = index,
                                 !.queueRevision = @ + 1]
                  ELSE r
    IN  IF ~rebind /\ ~initialize THEN r
        ELSE [filled EXCEPT !.session = connection.session,
                            !.epoch = IF rebind THEN @ + 1 ELSE @,
                            !.version = @ + 1, !.controlVersion = @ + 1]

\* The prepares of the old authority are settled when the context changed hands.
EnsureTodo_KeepsPrepares(rebind) == <<"copy">>

EnsureTodo(rebind) ==
    IF rebind THEN <<"copy", "settleFailed">> ELSE <<"copy">>

EnsureExisting(queue, index) ==
    /\ Starts /\ Online /\ Cardinality(Candidates) = 1
    /\ \E c \in Candidates :
        LET rebind == row[c].session # connection.session
            initialize == queue # <<>> /\ row[c].queue = <<>>
        IN  /\ rebind \/ initialize => Bounded(c)
            /\ Commit(c, EnsuredRow(row[c], queue, index, rebind, initialize),
                      EnsureTodo(rebind))
    /\ UNCHANGED <<server, connection, copy, commands, prepares, timers, subscribed, lost>>

-----------------------------------------------------------------------------
(***************************************************************************)
(* playback.context.close                                                  *)
(***************************************************************************)
CloseTodo == <<"copy", "settleFailed", "clear">>

\* A controller or the authority closes; its expectedEpoch and baseVersion
\* are those of the row, or the store refuses.
CloseAllowed(c) == row[c].life = "active" /\ commands[c] = {}

Close(c) ==
    /\ Starts /\ CloseAllowed(c) /\ Bounded(c)
    /\ Commit(c, [row[c] EXCEPT !.life = "closed", !.version = @ + 1], CloseTodo)
    /\ UNCHANGED <<server, connection, copy, commands, prepares, timers, subscribed, lost>>

\* The close is repeated and answered from the tombstone.
CloseAgain(c) ==
    /\ Starts /\ row[c].life = "closed"
    /\ Begin(c, row[c], "none", 0, <<"copy">>)
    /\ overlapped' = [overlapped EXCEPT ![c] = @ \/ BusyOn(c)]
    /\ UNCHANGED <<server, connection, row, copy, commands, prepares, timers,
                   subscribed, lost>>

-----------------------------------------------------------------------------
(***************************************************************************)
(* queue.context.sync by the device that is the authority.                 *)
(***************************************************************************)
\* The authority's request was let through by the copy, then by the row.
FromAuthority(c) ==
    /\ Online
    /\ Look(c) /\ Copied(c).session = connection.session
    /\ row[c].life = "active" /\ row[c].session = connection.session

ControlChanged(r, queue, index) ==
    \/ r.index # index
    \/ TrackOf(r.queue, r.index) # TrackOf(queue, index)
    \/ (r.queue = <<>>) # (queue = <<>>)

SyncAllowed_AnyTime(c, queue, index) == TRUE

\* The track may not change under a pending command.
SyncAllowed(c, queue, index) ==
    ControlChanged(row[c], queue, index) => row[c].epoch \notin commands[c]

SyncedRow(r, queue, index) ==
    [r EXCEPT !.queue = queue, !.index = index, !.version = @ + 1,
              !.queueRevision = @ + 1,
              !.controlVersion = IF ControlChanged(r, queue, index) THEN @ + 1 ELSE @]

\* A queue ends the preparation; the copy is written last.
SyncTodo(queue) == IF queue = <<>> THEN <<"copy">> ELSE <<"settleReady", "copy">>

QueueSync(c, queue, index) ==
    /\ Starts /\ FromAuthority(c) /\ Bounded(c)
    /\ SyncAllowed(c, queue, index)
    /\ Commit(c, SyncedRow(row[c], queue, index), SyncTodo(queue))
    /\ UNCHANGED <<server, connection, commands, prepares, timers, subscribed, lost>>

-----------------------------------------------------------------------------
(***************************************************************************)
(* Commands of controllers and reports of the authority, as far as they    *)
(* change the row.                                                         *)
(***************************************************************************)
ControlAllowed(c) == row[c].life = "active" /\ row[c].queue # <<>>

\* The device is asked to play the item at index, or to play or pause.
MovedRow(r, index) ==
    [r EXCEPT !.index = index, !.version = @ + 1, !.controlVersion = @ + 1,
              !.queueRevision = IF index = r.index THEN @ ELSE @ + 1]

Control(c, index) ==
    /\ Starts /\ Online
    /\ Look(c) /\ Copied(c).session = connection.session
    /\ row[c].session = connection.session
    /\ ControlAllowed(c) /\ Bounded(c)
    /\ index \in DOMAIN row[c].queue \cup {row[c].index}
    /\ Commit(c, MovedRow(row[c], index), <<"copy">>)
    /\ commands' = [commands EXCEPT ![c] = @ \cup {row[c].epoch}]
    /\ UNCHANGED <<server, connection, prepares, timers, subscribed, lost>>

\* The pending commands of an epoch are settled.
CommandsSettle(c, e) ==
    /\ server = "up" /\ e \in commands[c]
    /\ commands' = [commands EXCEPT ![c] = @ \ {e}]
    /\ UNCHANGED <<server, connection, row, copy, prepares, timers, subscribed,
                   handlers, overlapped, lost>>

\* A person moved the device to another item: pending commands are superseded.
LocalIntent(c, index) ==
    /\ Starts /\ Online
    /\ row[c].life = "active" /\ row[c].session = connection.session
    /\ index \in DOMAIN row[c].queue /\ Bounded(c)
    /\ Commit(c, MovedRow(row[c], index), <<"copy">>)
    /\ commands' = [commands EXCEPT ![c] = @ \ {row[c].epoch}]
    /\ UNCHANGED <<server, connection, copy, prepares, timers, subscribed, lost>>

\* A passive report changes the row only when the last song has ended.
PassiveReport(c, ended) ==
    /\ Starts /\ Online
    /\ row[c].life = "active" /\ row[c].session = connection.session
    /\ ended => /\ row[c].queue # <<>> /\ row[c].index = Len(row[c].queue)
                /\ row[c].epoch \notin commands[c] /\ Bounded(c)
    /\ Commit(c, IF ended THEN [row[c] EXCEPT !.version = @ + 1] ELSE row[c],
              <<"copy">>)
    /\ UNCHANGED <<server, connection, copy, commands, prepares, timers, subscribed, lost>>

-----------------------------------------------------------------------------
(***************************************************************************)
(* Prepare: the controller asks, the device answers, the timer decides     *)
(* when it does not.                                                       *)
(***************************************************************************)
Preparing == {k \in Keys : prepares[k].status = "preparing"}

KeyOf(h) == <<handlers[h].id, handlers[h].image.epoch, handlers[h].intent>>

PrepareRead(c, i) ==
    /\ Starts /\ Online
    /\ Look(c) /\ Copied(c).session = connection.session
    /\ Copied(c).epoch \in 1 .. MaxVersion
    /\ Remember(c, i, <<"create">>)
    /\ UNCHANGED <<server, connection, row, commands, prepares, timers, subscribed, lost>>

\* The device answers, and only the connection that was asked may.
AnswerRead(c, i, ready) ==
    /\ Starts /\ Online
    /\ Look(c) /\ Copied(c).session = connection.session
    /\ LET k == <<c, Copied(c).epoch, i>>
       IN  /\ k \in Preparing /\ prepares[k].nonce = connection.nonce
           /\ ready => Copied(c).queue # <<>>
    /\ Remember(c, i, IF ready THEN <<"answerReady">> ELSE <<"answerFailed">>)
    /\ UNCHANGED <<server, connection, row, commands, prepares, timers, subscribed, lost>>

\* The rest of the prepare request, after createPlaybackPrepareTransaction.
Creates(h) ==
    LET k == KeyOf(h)
        r == row[k[1]]
    IN  /\ prepares[k].status = "absent"
        /\ r.life = "active" /\ r.epoch = k[2] /\ r.session = handlers[h].image.session
        /\ \A j \in Intents : <<k[1], k[2], j>> \notin Preparing

CreatedPrepare(h) ==
    [status |-> IF row[handlers[h].id].queue = <<>> THEN "preparing" ELSE "ready",
     nonce |-> handlers[h].nonce]

-----------------------------------------------------------------------------
(***************************************************************************)
(* The tasks of a handler.                                                 *)
(***************************************************************************)
Todo(h, task) == server = "up" /\ h \in Running /\ Head(handlers[h].todo) = task

Finish(h) ==
    handlers' = IF Len(handlers[h].todo) = 1 THEN RemoveAt(handlers, h)
                ELSE [handlers EXCEPT ![h].todo = Tail(@)]

\* restore_playback_context: whatever the copy holds is overwritten.
WriteCopy_KeepsNewer(h) ==
    LET c == handlers[h].id
    IN  /\ Todo(h, "copy") /\ Finish(h)
        /\ copy' = IF copy[c].life = "absent" THEN [copy EXCEPT ![c] = handlers[h].image]
                   ELSE copy
        /\ UNCHANGED <<server, connection, row, commands, prepares, timers,
                       subscribed, overlapped, lost>>

WriteCopy(h) ==
    /\ Todo(h, "copy") /\ Finish(h)
    /\ copy' = [copy EXCEPT ![handlers[h].id] = handlers[h].image]
    /\ UNCHANGED <<server, connection, row, commands, prepares, timers,
                   subscribed, overlapped, lost>>

Subscribe(h) ==
    /\ Todo(h, "subscribe") /\ Finish(h)
    /\ subscribed' = subscribed \cup {handlers[h].id}
    /\ UNCHANGED <<server, connection, row, copy, commands, prepares, timers,
                   overlapped, lost>>

ClearSubscribers(h) ==
    /\ Todo(h, "clear") /\ Finish(h)
    /\ subscribed' = subscribed \ {handlers[h].id}
    /\ UNCHANGED <<server, connection, row, copy, commands, prepares, timers,
                   overlapped, lost>>

\* settlePlaybackPrepareTransaction: only what is still preparing is settled.
Settled_Again(keys, status) ==
    [k \in Keys |-> IF k \in keys /\ prepares[k].status # "absent"
                    THEN [prepares[k] EXCEPT !.status = status] ELSE prepares[k]]

Settled(keys, status) ==
    [k \in Keys |-> IF k \in keys \cap Preparing
                    THEN [prepares[k] EXCEPT !.status = status] ELSE prepares[k]]

\* The queue arrived: the prepares of this epoch are ready.
SettleReady(h) ==
    /\ Todo(h, "settleReady") /\ Finish(h)
    /\ LET e == handlers[h].image.epoch
       IN  prepares' = Settled({handlers[h].id} \X {e} \X Intents, "ready")
    /\ UNCHANGED <<server, connection, row, copy, commands, timers, subscribed, overlapped, lost>>

\* The authority changed or the context was closed: all of its prepares fail.
SettleFailed(h) ==
    /\ Todo(h, "settleFailed") /\ Finish(h)
    /\ prepares' = Settled({handlers[h].id} \X (1 .. MaxVersion) \X Intents, "failed")
    /\ UNCHANGED <<server, connection, row, copy, commands, timers, subscribed, overlapped, lost>>

Answer(h, task, status) ==
    /\ Todo(h, task) /\ Finish(h)
    /\ prepares' = Settled({KeyOf(h)}, status)
    /\ UNCHANGED <<server, connection, row, copy, commands, timers, subscribed, overlapped, lost>>

Create(h) ==
    /\ Todo(h, "create")
    /\ IF Creates(h)
       THEN /\ prepares' = [prepares EXCEPT ![KeyOf(h)] = CreatedPrepare(h)]
            /\ IF CreatedPrepare(h).status = "preparing"
               THEN handlers' = [handlers EXCEPT ![h].todo = <<"emit">>]
               ELSE Finish(h)
       ELSE Finish(h) /\ UNCHANGED prepares
    /\ UNCHANGED <<server, connection, row, copy, commands, timers, subscribed,
                   overlapped, lost>>

\* The device is asked and the timer started; the timer is not, when the
\* emit raises.
Emit(h) ==
    /\ Todo(h, "emit") /\ Finish(h)
    /\ \/ timers' = [timers EXCEPT ![KeyOf(h)] = "armed"] /\ UNCHANGED lost
       \/ Faults /\ lost' = lost \cup {KeyOf(h)} /\ UNCHANGED timers
    /\ UNCHANGED <<server, connection, row, copy, commands, prepares, subscribed, overlapped>>

-----------------------------------------------------------------------------
(***************************************************************************)
(* _expire_context_prepare_later reads the prepare and the row after ten   *)
(* seconds, and settles by what it read.                                   *)
(***************************************************************************)
Verdict(k) ==
    IF row[k[1]].life = "active" /\ row[k[1]].epoch = k[2] /\ row[k[1]].queue # <<>>
    THEN "ready" ELSE "failed"

Outcome_ReadyOnly(k) ==
    IF k \in Preparing /\ Verdict(k) = "ready" THEN "ready" ELSE "none"

Outcome(k) == IF k \in Preparing THEN Verdict(k) ELSE "none"

TimerReads(k) ==
    /\ server = "up" /\ timers[k] = "armed"
    /\ timers' = [timers EXCEPT ![k] = Outcome(k)]
    /\ UNCHANGED <<server, connection, row, copy, commands, prepares, subscribed,
                   handlers, overlapped, lost>>

TimerSettles(k) ==
    /\ server = "up" /\ timers[k] \in {"ready", "failed"}
    /\ prepares' = Settled({k}, timers[k])
    /\ timers' = [timers EXCEPT ![k] = "none"]
    /\ UNCHANGED <<server, connection, row, copy, commands, subscribed,
                   handlers, overlapped, lost>>

-----------------------------------------------------------------------------
(***************************************************************************)
(* playback.context.subscribe and unsubscribe of a controller; the process *)
(* is killed, and starts again with the rows.                              *)
(***************************************************************************)
SubscribeRead(c) ==
    /\ Starts /\ Look(c)
    /\ Remember(c, "none", <<"subscribe">>)
    /\ UNCHANGED <<server, connection, row, commands, prepares, timers, subscribed, lost>>

Unsubscribe(c) ==
    /\ server = "up" /\ Look(c)
    /\ subscribed' = subscribed \ {c}
    /\ UNCHANGED <<server, connection, row, commands, prepares, timers, handlers, overlapped, lost>>

Crash ==
    /\ Faults /\ server = "up"
    /\ server' = "down"
    /\ connection' = [connection EXCEPT !.session = 0]
    /\ copy' = [c \in Ids |-> NoRow]
    /\ timers' = [k \in Keys |-> "none"]
    /\ subscribed' = {}
    /\ handlers' = <<>>
    /\ overlapped' = [c \in Ids |-> FALSE]
    /\ lost' = lost \cup Preparing
    /\ UNCHANGED <<row, commands, prepares>>

\* init_socketio: pending commands are settled and every row is copied.
Start ==
    /\ server = "down" /\ server' = "up"
    /\ copy' = row
    /\ commands' = [c \in Ids |-> {}]
    /\ UNCHANGED <<connection, row, prepares, timers, subscribed, handlers,
                   overlapped, lost>>

-----------------------------------------------------------------------------
Places == {p \in Queues \X (0 .. MaxVersion) :
              IF p[1] = <<>> THEN p[2] = 0 ELSE p[2] \in DOMAIN p[1]}

Changes ==
    \/ \E p \in Places : EnsureNew(p[1], p[2]) \/ EnsureExisting(p[1], p[2])
    \/ \E c \in Ids :
        \/ Close(c) \/ CloseAgain(c)
        \/ \E p \in Places : QueueSync(c, p[1], p[2])
        \/ \E i \in 0 .. MaxVersion : Control(c, i) \/ LocalIntent(c, i)
        \/ \E ended \in BOOLEAN : PassiveReport(c, ended)

Reads ==
    \E c \in Ids :
        \/ SubscribeRead(c)
        \/ \E i \in Intents :
            PrepareRead(c, i) \/ \E ready \in BOOLEAN : AnswerRead(c, i, ready)

Continues(h) ==
    \/ WriteCopy(h) \/ Subscribe(h) \/ ClearSubscribers(h)
    \/ SettleReady(h) \/ SettleFailed(h) \/ Create(h) \/ Emit(h)
    \/ Answer(h, "answerReady", "ready") \/ Answer(h, "answerFailed", "failed")

Next ==
    \/ \E s \in Sessions : Register(s)
    \/ Disconnect
    \/ Changes \/ Reads
    \/ \E h \in 1 .. MaxHandlers : Continues(h)
    \/ \E k \in Keys : TimerReads(k) \/ TimerSettles(k)
    \/ \E c \in Ids, e \in 1 .. MaxVersion : CommandsSettle(c, e)
    \/ \E c \in Ids : Unsubscribe(c)
    \/ Crash \/ Start

Spec == Init /\ [][Next]_vars

-----------------------------------------------------------------------------
(***************************************************************************)
(* Properties                                                              *)
(***************************************************************************)
\* The device has one active context, however its sessions ensure at the
\* same time; a pending command belongs to an active context, and in the
\* current epoch to one that has a queue.
StoreConsistent ==
    /\ Cardinality(Active) <= 1
    /\ \A c \in Ids, e \in 1 .. MaxVersion :
        e \in commands[c] => /\ row[c].life = "active"
                             /\ e = row[c].epoch => row[c].queue # <<>>

\* A prepare is open only in the epoch of its active context, or a handler
\* that closed it or changed hands has yet to settle it, or it was lost.
PreparingIsCurrent ==
    \A k \in Preparing \ lost :
        \/ row[k[1]].life = "active" /\ row[k[1]].epoch = k[2]
        \/ \E h \in Running :
            /\ handlers[h].id = k[1]
            /\ \E n \in DOMAIN handlers[h].todo : handlers[h].todo[n] = "settleFailed"

\* Nothing waits for ever: an open prepare has a timer, or its handler is
\* about to start it, or it was lost.
PreparingIsTimed ==
    \A k \in Preparing \ lost :
        \/ timers[k] # "none"
        \/ \E h \in Running : KeyOf(h) = k /\ handlers[h].todo = <<"emit">>

\* When the last change of a context ran alone and all is done, the copy in
\* memory is the row and nobody is subscribed to a closed context: whatever
\* handlers that overlapped left behind is gone with the next that does not.
AloneAgrees ==
    server = "up" =>
    \A c \in Ids :
        ~overlapped[c] /\ ~BusyOn(c) =>
            /\ copy[c] = row[c]
            /\ row[c].life = "closed" => c \notin subscribed

\* What a cursor names never changes: the queue and the place in it under
\* one queueRevision, the track under one controlVersion, the authority under
\* one epoch.  No cursor falls, a closed row is final, and so is the result
\* of a prepare.
Named(r, s) ==
    /\ r.epoch <= s.epoch /\ r.queueRevision <= s.queueRevision
    /\ r.controlVersion <= s.controlVersion
    /\ r # s => r.version < s.version
    /\ r.queueRevision = s.queueRevision => r.queue = s.queue /\ r.index = s.index
    /\ r.controlVersion = s.controlVersion =>
            TrackOf(r.queue, r.index) = TrackOf(s.queue, s.index)
    /\ r.epoch = s.epoch => r.session = s.session
    /\ r.life = "closed" => r = s

CursorsNameContents ==
    [][/\ \A c \in Ids : row[c].life # "absent" => Named(row[c], row[c]')
       /\ \A k \in Keys : prepares[k].status \in {"ready", "failed"} =>
                prepares'[k] = prepares[k]]_<<row, prepares>>

=============================================================================
