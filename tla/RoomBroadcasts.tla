---------------------------- MODULE RoomBroadcasts ----------------------------
(***************************************************************************)
(* Legacy broadcasts: they live in the memory of ws_state.py, each with    *)
(* its list of participants and a map from each device to the broadcast it *)
(* plays in.  A broadcast has a playback context, whose copy and row take  *)
(* over its state after each change, and from which it is restored when    *)
(* the process has been restarted.                                         *)
(***************************************************************************)
EXTENDS RoomPrepares

CONSTANTS
    Contexts,        \* playbackContextIds that starts name
    Groups,          \* bound: sets of participants, of those that could be named
    Owner,           \* bound: the device that starts them
    Syncs,           \* bound: the <<length, index>> of the queues that are synced
    MaxSongs         \* bound: the length of a queue

ASSUME BroadcastsAssumption ==
    /\ \A sync \in Syncs : sync[2] < sync[1] \/ sync = <<0, 0>>
    /\ MaxSongs \in Nat \ {0} /\ Owner \in Devices /\ Groups \subseteq (SUBSET Devices) \ {{}}

VARIABLES
    broadcasts,      \* _broadcasts and _broadcast_participants
    active,          \* _client_active_broadcast
    contexts,        \* _playback_contexts
    rows,            \* EmoPlaybackContext
    started,         \* how many broadcastIds have been made
    ended,           \* history: broadcasts that were stopped
    crossed          \* history: the last change of a broadcast did not run alone

broadcastVars == <<broadcasts, active, contexts, rows, started, ended, crossed>>

-----------------------------------------------------------------------------
NoRoom == [broadcast |-> 0, context |-> "none", participants |-> {}, owner |-> "none",
           queue |-> 0, index |-> 0, state |-> "stopped", controlVersion |-> 0]

InitBroadcasts ==
    /\ broadcasts = [b \in Broadcasts |-> NoRoom]
    /\ active = [d \in Devices |-> 0]
    /\ contexts = [c \in Contexts |-> NoRoom]
    /\ rows = [c \in Contexts |-> NoRoom]
    /\ started = 0
    /\ ended = {}
    /\ crossed = [b \in Broadcasts |-> FALSE]

\* What a handler carries: the broadcast as it is to be written to its context,
\* and the base version and the fields of the command.
Data(room, base, change) == [room |-> room, base |-> base, change |-> change]

IsActive(b) == \E d \in broadcasts[b].participants : active[d] = b

Joined(members, b) == [d \in Devices |-> IF d \in members THEN b ELSE active[d]]

\* _get_existing_playback_context: the copy, or else the row.
Found(c) == IF contexts[c].broadcast # 0 THEN contexts[c] ELSE rows[c]

\* _get_broadcast_from_payload: a broadcast that is not in memory is restored.
Known(b) ==
    IF broadcasts[b].broadcast # 0 THEN broadcasts[b]
    ELSE IF \E c \in Contexts : Found(c).broadcast = b
         THEN Found(CHOOSE c \in Contexts : Found(c).broadcast = b)
         ELSE NoRoom

GetBroadcast(b) ==
    /\ Known(b).broadcast = b
    /\ IF broadcasts[b].broadcast # 0 THEN UNCHANGED <<broadcasts, active, contexts>>
       ELSE /\ broadcasts' = [broadcasts EXCEPT ![b] = Known(b)]
            /\ contexts' = [contexts EXCEPT ![Known(b).context] = Known(b)]
            /\ active' = IF Known(b).state = "stopped" THEN active
                         ELSE Joined(Known(b).participants, b)

-----------------------------------------------------------------------------
(***************************************************************************)
(* The requests: what they read and check before they change anything.     *)
(***************************************************************************)
TwoPhase == <<"create", "send">>

StartRequest(c, members, owner, playing, queue, twoPhase) ==
    /\ Starts /\ started < MaxBroadcasts
    /\ Found(c).broadcast = 0
    /\ (twoPhase => playing) /\ (playing => queue > 0)
    /\ LET b == started + 1
           room == [broadcast |-> b, context |-> c, participants |-> members,
                    owner |-> owner, queue |-> queue, index |-> 0,
                    state |-> IF playing THEN "playing" ELSE "stopped",
                    controlVersion |-> 1]
       IN  /\ started' = b
           /\ Begin(b, 0, Data(room, 0, [kind |-> "start"]),
                    IF twoPhase THEN TwoPhase ELSE <<"createBroadcast", "upsert", "save">>)
    /\ UNCHANGED <<broadcasts, active, contexts, rows, ended, crossed>>

\* A request that is to change broadcast b; base 0 stands for none.  One with
\* an old base is refused whatever happens, and left out.
Control(b, base, change, todo) ==
    /\ Starts /\ GetBroadcast(b)
    /\ base \in {0, Known(b).controlVersion}
    /\ Begin(b, 0, Data(Known(b), base, change), todo)
    /\ UNCHANGED <<rows, started, ended, crossed>>

Single == <<"update", "supersede", "upsert", "save">>

QueueSyncRequest(b, queue, index) ==
    /\ Known(b).controlVersion > 0
    /\ Control(b, Known(b).controlVersion,
               [kind |-> "queueSync", queue |-> queue, index |-> index,
                state |-> IF queue = 0 THEN "stopped" ELSE Known(b).state], Single)

PlayItemRequest(b, index, twoPhase) ==
    /\ index < Known(b).queue
    /\ Control(b, Known(b).controlVersion,
               [kind |-> "playItem", index |-> index, state |-> "playing"],
               IF twoPhase THEN TwoPhase ELSE Single)

PlayRequest(b, base, twoPhase) ==
    /\ Known(b).queue > 0
    /\ Control(b, base, [kind |-> "play", state |-> "playing"],
               IF twoPhase THEN TwoPhase ELSE Single)

PauseRequest(b, base) == Control(b, base, [kind |-> "pause", state |-> "paused"], Single)

SeekRequest(b, base) == Control(b, base, [kind |-> "seek"], Single)

StopRequest(b, base) ==
    Control(b, base, [kind |-> "stop", state |-> "stopped"],
            <<"stop", "supersede", "upsert", "save">>)

-----------------------------------------------------------------------------
(***************************************************************************)
(* The tasks.                                                              *)
(***************************************************************************)
\* Another handler still has to write an older state to the context.
Crossing(h) ==
    \E g \in Running \ {h} : /\ handlers[g].timeline = handlers[h].timeline
                             /\ \E n \in DOMAIN handlers[g].todo :
                                    handlers[g].todo[n] \in {"upsert", "save"}

CreateBroadcast(h) ==
    /\ Todo(h, "createBroadcast") /\ Continues(h)
    /\ LET room == handlers[h].data.room
       IN  /\ broadcasts' = [broadcasts EXCEPT ![room.broadcast] = room]
           /\ active' = Joined(room.participants, room.broadcast)
           /\ crossed' = [crossed EXCEPT ![room.broadcast] = Crossing(h)]
    /\ UNCHANGED <<requests, prepareVars, outdated, contexts, rows, started, ended>>

BaseCurrent_Anyway(b, base) == TRUE

BaseCurrent(b, base) == base \in {0, broadcasts[b].controlVersion}

\* What a command makes of a broadcast.
Changed(room, change) ==
    [[f \in DOMAIN room |-> IF f \in DOMAIN change THEN change[f] ELSE room[f]]
        EXCEPT !.controlVersion = room.controlVersion + 1]

\* update_broadcast_state: refused when the broadcast is not active or has changed.
UpdateBroadcast(h) ==
    /\ Todo(h, "update")
    /\ LET b == handlers[h].timeline
           data == handlers[h].data
           new == Changed(broadcasts[b], data.change)
       IN  IF IsActive(b) /\ BaseCurrent(b, data.base)
           THEN /\ broadcasts' = [broadcasts EXCEPT ![b] = new]
                /\ crossed' = [crossed EXCEPT ![b] = Crossing(h)]
                /\ Proceeds(h, [data EXCEPT !.room = new])
           ELSE Ends(h) /\ UNCHANGED <<broadcasts, crossed>>
    /\ UNCHANGED <<requests, prepareVars, outdated, active, contexts, rows,
                   started, ended>>

\* stop_broadcast
StopBroadcast(h) ==
    /\ Todo(h, "stop")
    /\ LET b == handlers[h].timeline
           data == handlers[h].data
           new == Changed(broadcasts[b], data.change)
       IN  IF IsActive(b) /\ BaseCurrent(b, data.base)
           THEN /\ broadcasts' = [broadcasts EXCEPT ![b] = new]
                /\ active' = [d \in Devices |-> IF active[d] = b THEN 0 ELSE active[d]]
                /\ ended' = ended \cup {b}
                /\ crossed' = [crossed EXCEPT ![b] = Crossing(h)]
                /\ Proceeds(h, [data EXCEPT !.room = new])
           ELSE Ends(h) /\ UNCHANGED <<broadcasts, active, ended, crossed>>
    /\ UNCHANGED <<requests, prepareVars, outdated, contexts, rows, started>>

MayUse_Anyway(c, b) == TRUE

\* A context belongs to one broadcast.
MayUse(c, b) == Found(c).broadcast \in {0, b}

\* _sync_broadcast_playback_context: the copy of the context is overwritten.
UpsertContext(h) ==
    /\ Todo(h, "upsert")
    /\ LET room == handlers[h].data.room
       IN  IF MayUse(room.context, room.broadcast)
           THEN contexts' = [contexts EXCEPT ![room.context] = room] /\ Continues(h)
           ELSE Ends(h) /\ UNCHANGED contexts
    /\ UNCHANGED <<requests, prepareVars, outdated, broadcasts, active, rows,
                   started, ended, crossed>>

SaveContext(h) ==
    /\ Todo(h, "save") /\ Continues(h) /\ Outdates(h)
    /\ LET room == handlers[h].data.room
       IN  rows' = [rows EXCEPT ![room.context] = room]
    /\ UNCHANGED <<requests, prepareVars, broadcasts, active, contexts,
                   started, ended, crossed>>

-----------------------------------------------------------------------------
\* The prepare of a broadcast: the owner has to be ready when he takes part.
Required(room) ==
    IF room.owner \in room.participants THEN {room.owner} ELSE room.participants

PrepareBroadcast(h) ==
    /\ h \in Running /\ handlers[h].timeline \in Broadcasts
    /\ LET data == handlers[h].data
       IN  CreatePrepare(h, handlers[h].timeline, data.change.kind, data.room.context,
                         data.room.participants, Required(data.room))
    /\ UNCHANGED broadcastVars

\* What remains to be done for a command whose prepare has been claimed.
CommitBroadcast(h) ==
    /\ h \in Running /\ handlers[h].timeline \in Broadcasts
    /\ ClaimPrepare(h, <<IF handlers[h].data.change.kind = "start" THEN "createBroadcast"
                         ELSE "update", "upsert", "save">>)
    /\ UNCHANGED broadcastVars

\* The process dies: what the rows do not say is gone.
ForgetBroadcasts ==
    /\ broadcasts' = [b \in Broadcasts |-> NoRoom]
    /\ active' = [d \in Devices |-> 0]
    /\ contexts' = [c \in Contexts |-> NoRoom]
    /\ ended' = {b \in ended : \E c \in Contexts :
                     rows[c].broadcast = b /\ rows[c].state = "stopped"}
    /\ crossed' = [b \in Broadcasts |-> FALSE]
    /\ UNCHANGED <<rows, started>>

NextBroadcasts ==
    \/ \E c \in Contexts, members \in Groups,
          playing, twoPhase \in BOOLEAN :
           StartRequest(c, members, Owner, playing, MaxSongs, twoPhase)
           /\ UNCHANGED <<prepareVars, outdated>>
    \/ \E b \in Broadcasts :
        /\ \/ \E sync \in Syncs : QueueSyncRequest(b, sync[1], sync[2])
           \/ \E index \in 0 .. MaxSongs, twoPhase \in BOOLEAN :
                  PlayItemRequest(b, index, twoPhase)
           \/ \E twoPhase \in BOOLEAN : PlayRequest(b, 0, twoPhase)
           \/ \E base \in {0, Known(b).controlVersion} : PauseRequest(b, base)
           \/ SeekRequest(b, Known(b).controlVersion)
           \/ StopRequest(b, 0)
        /\ UNCHANGED <<prepareVars, outdated>>
    \/ \E h \in Running :
        \/ CreateBroadcast(h) \/ UpdateBroadcast(h) \/ StopBroadcast(h)
        \/ UpsertContext(h) \/ SaveContext(h)
        \/ PrepareBroadcast(h) \/ CommitBroadcast(h)

-----------------------------------------------------------------------------
\* A command that was checked against a version finds that version: the item
\* that plays is in the queue.
IndexInQueue ==
    \A b \in Broadcasts :
        broadcasts[b].index < broadcasts[b].queue \/ broadcasts[b].index = 0

\* A broadcast that was stopped stays so, after a restart too if its row says so.
EndedStaysEnded ==
    \A b \in ended :
        /\ broadcasts[b].broadcast = b => broadcasts[b].state = "stopped"
        /\ \A d \in Devices : active[d] # b

\* Once nobody works on a broadcast whose last change ran alone, its context,
\* the row of the context and the broadcast are the same.
BroadcastAgrees ==
    \A b \in Broadcasts :
        LET room == broadcasts[b]
        IN  /\ room.broadcast = b /\ ~crossed[b]
            /\ ~\E h \in Running : handlers[h].timeline = b
            /\ contexts[room.context].broadcast = b
            => contexts[room.context] = room /\ rows[room.context] = room

\* A context, once used, is that of one broadcast for ever.
ContextKeepsBroadcast ==
    \A c \in Contexts :
        /\ rows[c].broadcast # 0 => rows'[c].broadcast = rows[c].broadcast
        /\ contexts[c].broadcast # 0 =>
               contexts'[c].broadcast \in {contexts[c].broadcast, 0}
=============================================================================
