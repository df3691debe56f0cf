----------------------------- MODULE RoomSessions -----------------------------
(***************************************************************************)
(* A legacy session: the queue that its devices share, the playback        *)
(* context of the same id, and what each of its players plays              *)
(* (supysonic/emo/ws_state.py, _queues, _playback_contexts,                *)
(* _playback_timelines and _playback_states).  A handler changes each of   *)
(* them under the lock, one after the other, and writes their rows later,  *)
(* from the copies that it got.                                            *)
(*                                                                         *)
(* A queue and the index in it are one value here, its content.            *)
(***************************************************************************)
EXTENDS RoomPrepares

CONSTANTS
    Contents,        \* queues with an index, the empty one left out
    Players,         \* bound: the devices that are controlled in the session
    MaxSeq           \* bound: clientSeq of the reports of a player

ASSUME SessionsAssumption ==
    /\ "empty" \notin Contents /\ MaxSeq \in Nat /\ Players \subseteq Devices
    /\ 0 \notin Devices /\ "queue" \notin Devices /\ "context" \notin Devices

VARIABLES
    queue,           \* _queues
    queueRow,        \* EmoSessionQueue
    context,         \* _playback_contexts
    contextRow,      \* EmoPlaybackContext
    timelines,       \* _playback_timelines
    playbacks,       \* _playback_states
    playbackRows,    \* EmoPlaybackState
    mixed            \* history: what was last changed by one handler of several

sessionVars == <<queue, queueRow, context, contextRow, timelines, playbacks,
                 playbackRows, mixed>>

-----------------------------------------------------------------------------
Items == Contents \cup {"empty"}

NoQueue == [owner |-> "none", content |-> "empty", revision |-> 0, controlVersion |-> 0]
NoContext == [authority |-> "none", content |-> "empty", revision |-> 0]
NoTimeline == [version |-> 0, controlVersion |-> 0, seq |-> 0]
NoPlayback == [version |-> 0, controlVersion |-> 0, seq |-> 0, state |-> "stopped",
               content |-> "empty"]

InitSessions ==
    /\ queue = NoQueue /\ queueRow = NoQueue
    /\ context = NoContext /\ contextRow = NoContext
    /\ timelines = [d \in Devices |-> NoTimeline]
    /\ playbacks = [d \in Devices |-> NoPlayback]
    /\ playbackRows = [d \in Devices |-> NoPlayback]
    /\ mixed = [x \in {"queue", "context"} \cup Devices |-> FALSE]

\* The timeline of the context; no player's prepare is on it.
SharedTimeline == 0

\* What a handler carries from one task to the next.
Carry == [device |-> "none", content |-> "empty", state |-> "stopped", controlVersion |-> 0,
          queue |-> NoQueue, context |-> NoContext, playback |-> NoPlayback,
          playbacks |-> <<>>]

Mixes(x, alone) == mixed' = [mixed EXCEPT ![x] = ~alone]

\* Nobody else is at work on the session.
First == handlers = <<>>
Alone(h) == Running = {h}

-----------------------------------------------------------------------------
(***************************************************************************)
(* queue.session.sync.  A client that names a context changes the context  *)
(* first, with a check of its base revision, and then the queue without    *)
(* one; another client does it the other way round.  A request with an old *)
(* base is refused and changes nothing.                                    *)
(***************************************************************************)
FoundContext == IF context.revision > 0 THEN context ELSE contextRow

\* update_playback_context_queue
SyncedContext(d, content) ==
    [authority |-> IF FoundContext.authority = "none" THEN d ELSE FoundContext.authority,
     content |-> content, revision |-> FoundContext.revision + 1]

\* update_queue: only another queue or index is another revision.
QueueRevision(content) ==
    IF queue.owner = "none" \/ queue.content # content THEN queue.revision + 1
    ELSE queue.revision

SyncedTimeline(d) ==
    [timelines[d] EXCEPT !.version = @ + 1, !.controlVersion = @ + 1]

SyncedQueue(d, content) ==
    [owner |-> d, content |-> content, revision |-> QueueRevision(content),
     controlVersion |-> timelines[d].controlVersion + 1]

SaveSync == <<"supersede", "saveContext", "saveQueue">>

SyncContextFirst(d, content) ==
    /\ Starts
    /\ FoundContext.authority \in {"none", d}
    /\ LET new == SyncedContext(d, content)
       IN  /\ context' = new
           /\ Begin(SharedTimeline, 0,
                    [Carry EXCEPT !.content = content, !.context = new, !.device = d],
                    <<"syncQueue">> \o SaveSync)
    /\ Mixes("context", First)
    /\ UNCHANGED <<queue, queueRow, contextRow, timelines, playbacks, playbackRows>>

SyncQueueFirst(d, content) ==
    /\ Starts
    /\ queue' = SyncedQueue(d, content)
    /\ timelines' = [timelines EXCEPT ![d] = SyncedTimeline(d)]
    /\ Begin(d, 0, [Carry EXCEPT !.content = content, !.queue = SyncedQueue(d, content),
                                 !.device = d],
             <<"syncContext">> \o SaveSync)
    /\ context' = FoundContext
    /\ Mixes("queue", First)
    /\ UNCHANGED <<queueRow, contextRow, playbacks, playbackRows>>

\* The second half; the device is kept in the handler.
SyncContext(h) ==
    /\ Todo(h, "syncContext")
    /\ LET new == SyncedContext(handlers[h].data.device, handlers[h].data.content)
       IN  context' = new /\ Proceeds(h, [handlers[h].data EXCEPT !.context = new])
    /\ Mixes("context", Alone(h))
    /\ UNCHANGED <<requests, prepareVars, outdated, queue, queueRow, contextRow,
                   timelines, playbacks, playbackRows>>

SyncQueue(h) ==
    /\ Todo(h, "syncQueue")
    /\ LET d == handlers[h].data.device
           new == SyncedQueue(d, handlers[h].data.content)
       IN  /\ queue' = new
           /\ timelines' = [timelines EXCEPT ![d] = SyncedTimeline(d)]
           /\ Proceeds(h, [handlers[h].data EXCEPT !.queue = new])
    /\ Mixes("queue", Alone(h))
    /\ UNCHANGED <<requests, prepareVars, outdated, queueRow, context, contextRow,
                   playbacks, playbackRows>>

SaveSessionContext(h) ==
    /\ Todo(h, "saveContext") /\ Continues(h)
    /\ contextRow' = handlers[h].data.context
    /\ UNCHANGED <<requests, prepareVars, outdated, queue, queueRow, context,
                   timelines, playbacks, playbackRows, mixed>>

\* saveQueueState counts its own revisions.
SaveQueue(h) ==
    /\ Todo(h, "saveQueue") /\ Continues(h) /\ Outdates(h)
    /\ queueRow' = [handlers[h].data.queue EXCEPT !.revision = queueRow.revision + 1,
                                                  !.controlVersion = queueRow.revision + 1]
    /\ UNCHANGED <<requests, prepareVars, queue, context, contextRow, timelines,
                   playbacks, playbackRows, mixed>>

-----------------------------------------------------------------------------
(***************************************************************************)
(* Controls of a player.                                                   *)
(***************************************************************************)
\* _current_source_control_version
SourceControlVersion(d) ==
    IF queue.controlVersion > playbacks[d].controlVersion THEN queue.controlVersion
    ELSE playbacks[d].controlVersion

\* What a player plays when the command does not say.
Playing(d) == IF queue.owner # "none" THEN queue.content ELSE playbacks[d].content

ControlTodo_NoSupersede == <<"control", "savePlayback">>

ControlTodo == <<"control", "supersede", "savePlayback">>

ControlData(d, state, content) ==
    [Carry EXCEPT !.content = content, !.state = state, !.device = d,
                  !.controlVersion = SourceControlVersion(d) + 1]

PauseSource(d) ==
    /\ Starts
    /\ Begin(d, 0, ControlData(d, "paused", "none"), ControlTodo)
    /\ UNCHANGED sessionVars

SeekSource(d) ==
    /\ Starts /\ playbacks[d].version > 0
    /\ Begin(d, 0, ControlData(d, playbacks[d].state, playbacks[d].content), ControlTodo)
    /\ UNCHANGED sessionVars

\* player.play, player.next, player.prev, queue.playItem, and a seek to another song.
PlaySource(d, content, twoPhase) ==
    /\ Starts
    /\ IF queue.owner = "none" THEN content = Playing(d) ELSE queue.content # "empty"
    /\ content # "empty"
    /\ Begin(d, 0, ControlData(d, "playing", content),
             IF twoPhase THEN <<"create", "send">> ELSE ControlTodo)
    /\ UNCHANGED sessionVars

\* update_playback_control: the version is the one that the request computed.
ControlPlayback(h) ==
    /\ Todo(h, "control")
    /\ LET data == handlers[h].data
           d == data.device
           line == [timelines[d] EXCEPT !.version = @ + 1,
                                        !.controlVersion = data.controlVersion]
           new == [playbacks[d] EXCEPT
                      !.version = line.version, !.controlVersion = line.controlVersion,
                      !.state = data.state,
                      !.content = IF data.content = "none" THEN Playing(d) ELSE data.content]
       IN  /\ timelines' = [timelines EXCEPT ![d] = line]
           /\ playbacks' = [playbacks EXCEPT ![d] = new]
           /\ Proceeds(h, [data EXCEPT !.playback = new])
           /\ Mixes(d, Alone(h))
    /\ UNCHANGED <<requests, prepareVars, outdated, queue, queueRow, context,
                   contextRow, playbackRows>>

SavePlayback(h) ==
    /\ Todo(h, "savePlayback") /\ Continues(h) /\ Outdates(h)
    /\ playbackRows' = [playbackRows EXCEPT ![handlers[h].data.device] =
                            handlers[h].data.playback]
    /\ UNCHANGED <<requests, prepareVars, queue, queueRow, context, contextRow,
                   timelines, playbacks, mixed>>

PrepareSource(h) ==
    /\ h \in Running /\ handlers[h].timeline \in Devices
    /\ \E followers \in SUBSET (Devices \ {handlers[h].timeline}) :
        LET d == handlers[h].timeline
        IN  CreatePrepare(h, d, "source", "none", {d} \cup followers, {d})
    /\ UNCHANGED sessionVars

CommitSource(h) ==
    /\ h \in Running /\ handlers[h].timeline \in Devices
    /\ ClaimPrepare(h, <<"control", "savePlayback">>)
    /\ UNCHANGED sessionVars

-----------------------------------------------------------------------------
(***************************************************************************)
(* playback.update of a player, and the return of a device.                *)
(***************************************************************************)
\* update_playback_state: a clientSeq that is not newer is refused.
Reported(d, seq) == [timelines[d] EXCEPT !.version = @ + 1, !.seq = seq]

\* The report of a player leaves its prepares alone.
Report(d, seq, content) ==
    /\ Starts /\ seq > timelines[d].seq
    /\ LET line == Reported(d, seq)
           new == [playbacks[d] EXCEPT
                      !.version = line.version, !.controlVersion = line.controlVersion,
                      !.seq = seq, !.state = "playing", !.content = content]
       IN  /\ timelines' = [timelines EXCEPT ![d] = line]
           /\ playbacks' = [playbacks EXCEPT ![d] = new]
           /\ Begin(SharedTimeline, 0, [Carry EXCEPT !.playback = new, !.device = d],
                    <<"reportContext", "saveContext", "savePlayback">>)
    /\ context' = FoundContext
    /\ Mixes(d, First)
    /\ UNCHANGED <<queue, queueRow, contextRow, playbackRows>>

\* apply_authority_playback_update: the first reporter becomes the authority; the
\* report of another device leaves the context alone.
ReportContext(h) ==
    /\ Todo(h, "reportContext")
    /\ LET d == handlers[h].data.device
           new == [context EXCEPT !.authority = d,
                       !.revision = IF context.revision = 0 THEN 1 ELSE @]
       IN  IF context.authority \in {"none", d}
           THEN /\ context' = new
                /\ Proceeds(h, [handlers[h].data EXCEPT !.context = new])
                /\ Mixes("context", Alone(h))
           ELSE /\ handlers' = [handlers EXCEPT ![h].todo = <<"savePlayback">>]
                /\ UNCHANGED <<context, mixed>>
    /\ UNCHANGED <<requests, prepareVars, outdated, queue, queueRow, contextRow,
                   timelines, playbacks, playbackRows>>

\* _restorePersistedState: what the memory lacks is read from the rows, and
\* restored without another look at the memory.
Return ==
    /\ Len(handlers) < MaxHandlers /\ UNCHANGED requests
    /\ queue.owner = "none" /\ queueRow.owner # "none"
    /\ Begin(SharedTimeline, 0, [Carry EXCEPT !.queue = queueRow],
             <<"restoreQueue", "readPlaybacks">>)
    /\ UNCHANGED sessionVars

RestoreQueue(h) ==
    /\ Todo(h, "restoreQueue") /\ Continues(h)
    /\ LET row == handlers[h].data.queue
       IN  /\ queue' = row
           /\ timelines' = [timelines EXCEPT
                  ![row.owner].version = row.revision,
                  ![row.owner].controlVersion = row.controlVersion]
    /\ Mixes("queue", Alone(h) /\ ~mixed["queue"])
    /\ UNCHANGED <<requests, prepareVars, outdated, queueRow, context, contextRow,
                   playbacks, playbackRows>>

ReadPlaybacks(h) ==
    /\ Todo(h, "readPlaybacks")
    /\ IF \A d \in Devices : playbacks[d].version = 0
       THEN handlers' = [handlers EXCEPT ![h].todo = <<"restorePlaybacks">>,
                                         ![h].data.playbacks = playbackRows]
       ELSE Ends(h)
    /\ UNCHANGED <<requests, prepareVars, outdated, sessionVars>>

RestorePlaybacks(h) ==
    /\ Todo(h, "restorePlaybacks") /\ Ends(h)
    /\ LET saved == handlers[h].data.playbacks
           known == {d \in Devices : saved[d].version > 0}
       IN  /\ playbacks' = [d \in Devices |-> IF d \in known THEN saved[d] ELSE playbacks[d]]
           /\ timelines' = [d \in Devices |-> IF d \notin known THEN timelines[d] ELSE
                  [version |-> saved[d].version, controlVersion |-> saved[d].controlVersion,
                   seq |-> saved[d].seq]]
           /\ mixed' = [x \in DOMAIN mixed |-> mixed[x] \/ (x \in known /\ ~Alone(h))]
    /\ UNCHANGED <<requests, prepareVars, outdated, queue, queueRow, context,
                   contextRow, playbackRows>>

ForgetSessions ==
    /\ queue' = NoQueue /\ context' = NoContext
    /\ timelines' = [d \in Devices |-> NoTimeline]
    /\ playbacks' = [d \in Devices |-> NoPlayback]
    /\ mixed' = [x \in DOMAIN mixed |-> FALSE]
    /\ UNCHANGED <<queueRow, contextRow, playbackRows>>

NextSessions ==
    \/ \E d \in Devices, content \in Items :
        /\ SyncContextFirst(d, content) \/ SyncQueueFirst(d, content)
        /\ UNCHANGED <<prepareVars, outdated>>
    \/ \E d \in Players :
        /\ \/ PauseSource(d)
           \/ SeekSource(d)
           \/ \E content \in Contents, twoPhase \in BOOLEAN : PlaySource(d, content, twoPhase)
           \/ \E content \in Contents, seq \in 1 .. MaxSeq : Report(d, seq, content)
        /\ UNCHANGED <<prepareVars, outdated>>
    \/ Return /\ UNCHANGED <<prepareVars, outdated>>
    \/ \E h \in Running :
        \/ SyncContext(h) \/ SyncQueue(h) \/ SaveSessionContext(h) \/ SaveQueue(h)
        \/ ControlPlayback(h) \/ SavePlayback(h)
        \/ ReportContext(h) \/ PrepareSource(h) \/ CommitSource(h)
        \/ RestoreQueue(h) \/ ReadPlaybacks(h) \/ RestorePlaybacks(h)

-----------------------------------------------------------------------------
\* Once nobody works on the session, what was last changed by a handler that
\* was alone is what its row says.
SessionAgrees ==
    handlers = <<>> =>
        /\ queue.owner # "none" /\ ~mixed["queue"] =>
               queueRow.owner = queue.owner /\ queueRow.content = queue.content
        /\ context.revision > 0 /\ ~mixed["context"] => contextRow = context
        /\ \A d \in Devices :
               playbacks[d].version > 0 /\ ~mixed[d] => playbackRows[d] = playbacks[d]
=============================================================================
