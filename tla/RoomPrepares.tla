----------------------------- MODULE RoomPrepares -----------------------------
(***************************************************************************)
(* The two-phase prepares of the legacy rooms: before a broadcast or a     *)
(* player begins to play, its devices are told to load the song, and the   *)
(* command is carried out when they are ready (supysonic/emo/ws_state.py,  *)
(* _pending_prepares, and the functions of ws.py around it).               *)
(*                                                                         *)
(* Each prepare belongs to a timeline, of a broadcast or of a player.  The *)
(* status of a prepare changes under the one lock of ws_state.py; what a   *)
(* handler does before and after is not under that lock.                   *)
(*                                                                         *)
(* The handlers of RoomBroadcasts and RoomSessions are records too: what   *)
(* they have read, and the tasks that they still have to do.               *)
(***************************************************************************)
EXTENDS Naturals, Sequences, FiniteSets, SequencesExt

CONSTANTS
    Devices,         \* players of the user
    MaxBroadcasts,   \* bound: broadcasts that are ever created
    MaxRequests,     \* bound: requests that change something, in all
    MaxHandlers,     \* bound: requests that are handled at the same time
    Faults           \* whether the process may be killed and an emit may raise

ASSUME RoomsAssumption ==
    /\ MaxBroadcasts \in Nat \ {0} /\ MaxRequests \in Nat
    /\ MaxHandlers \in Nat \ {0} /\ Faults \in BOOLEAN
    /\ "none" \notin Devices

VARIABLES
    requests,    \* how many requests have begun
    prepares,    \* _pending_prepares, in the order of their creation
    timers,      \* _expire_prepare_later of each prepare
    handlers,    \* the requests, and the timers that commit, in progress
    lost,        \* history: prepares whose timer a failed emit took
    outdated,    \* history: prepares older than a control that has finished
    applied      \* history: how often the command of each prepare was begun

prepareVars == <<prepares, timers, lost, applied>>

-----------------------------------------------------------------------------
Broadcasts == 1 .. MaxBroadcasts
Prepares == DOMAIN prepares

\* What a handler has read and was asked for, by the module that runs it.
NoData == [none |-> TRUE]

Running == DOMAIN handlers
Starts ==
    /\ Len(handlers) < MaxHandlers /\ requests < MaxRequests
    /\ requests' = requests + 1

\* A handler on a timeline with the prepares that are alive when it begins.
PreparingOn(t) ==
    {p \in Prepares : prepares[p].timeline = t /\ prepares[p].status = "preparing"}

Handler(t, p, data, todo) ==
    [timeline |-> t, prepare |-> p, data |-> data, todo |-> todo,
     older |-> PreparingOn(t)]

Begin(t, p, data, todo) == handlers' = Append(handlers, Handler(t, p, data, todo))

Todo(h, task) == h \in Running /\ Head(handlers[h].todo) = task

Ends(h) == handlers' = RemoveAt(handlers, h)

\* The task is done; what the handler knows from now on is data.
Proceeds(h, data) ==
    IF Len(handlers[h].todo) = 1 THEN Ends(h)
    ELSE handlers' = [handlers EXCEPT ![h].todo = Tail(@), ![h].data = data]

Continues(h) == Proceeds(h, handlers[h].data)

-----------------------------------------------------------------------------
(***************************************************************************)
(* Creation: the request stores the prepare, tells the devices and then    *)
(* starts the timer.                                                       *)
(***************************************************************************)
\* What else a prepare holds is not read any more when it is not preparing.
Over(q, s) ==
    [q EXCEPT !.status = s, !.ready = {}, !.failed = {}, !.expired = FALSE, !.data = NoData]

Superseded(keys) ==
    [p \in Prepares |-> IF p \in keys THEN Over(prepares[p], "superseded")
                        ELSE prepares[p]]

\* Two starts are not prepared for the same playback context.
StartInUse(kind, context) ==
    kind = "start" /\ \E p \in Prepares : /\ prepares[p].status = "preparing"
                                          /\ prepares[p].kind = "start"
                                          /\ prepares[p].context = context

\* The lock is held from the look at the other prepares to the insertion.
CreatePrepare(h, t, kind, context, targets, required) ==
    /\ Todo(h, "create")
    /\ IF StartInUse(kind, context)
       THEN Ends(h) /\ UNCHANGED prepareVars
       ELSE /\ prepares' = Append(Superseded(PreparingOn(t)),
                    [timeline |-> t, kind |-> kind, context |-> context,
                     targets |-> targets, required |-> required, ready |-> {},
                     failed |-> {}, expired |-> FALSE, status |-> "preparing",
                     data |-> handlers[h].data])
            /\ timers' = Append(timers, "none")
            /\ applied' = Append(applied, 0)
            /\ handlers' = [handlers EXCEPT ![h].todo = Tail(@),
                                            ![h].prepare = Len(prepares) + 1]
            /\ UNCHANGED lost
    /\ UNCHANGED <<requests, outdated>>

\* playback.prepare is sent, and the timer started.
SendPrepare(h) ==
    /\ Todo(h, "send")
    /\ \/ /\ timers' = [timers EXCEPT ![handlers[h].prepare] = "armed"]
          /\ Continues(h) /\ UNCHANGED lost
       \/ /\ Faults /\ Ends(h)
          /\ lost' = lost \cup {handlers[h].prepare}
          /\ UNCHANGED timers
    /\ UNCHANGED <<requests, prepares, applied, outdated>>

-----------------------------------------------------------------------------
(***************************************************************************)
(* Commands that come after: they outdate what is still being prepared.    *)
(***************************************************************************)
Supersede(h) ==
    /\ Todo(h, "supersede") /\ Continues(h)
    /\ prepares' = Superseded(PreparingOn(handlers[h].timeline))
    /\ UNCHANGED <<requests, timers, lost, applied, outdated>>

\* History: a control of a timeline has done all that it had to do.
Outdates(h) ==
    outdated' = IF Len(handlers[h].todo) = 1 /\ handlers[h].prepare = 0
                THEN outdated \cup handlers[h].older ELSE outdated

-----------------------------------------------------------------------------
(***************************************************************************)
(* playback.ready, and the timer.                                          *)
(***************************************************************************)
ReadyToCommit(q) ==
    /\ q.required \cap q.failed = {}
    /\ q.targets \subseteq q.ready \/ (q.required \subseteq q.ready /\ q.expired)

Answered(q, d, ready) ==
    IF ready THEN [q EXCEPT !.ready = @ \cup {d}, !.failed = @ \ {d}]
    ELSE [q EXCEPT !.failed = @ \cup {d}, !.ready = @ \ {d}]

\* What the handler of an answer goes on to do with the copy it got back.
ReadyTodo(q, d, ready) ==
    IF ~ready /\ d \in q.required THEN <<"abort">>
    ELSE IF ReadyToCommit(q) THEN <<"claim">> ELSE <<>>

PlaybackReady(p, d, ready) ==
    /\ Len(handlers) < MaxHandlers
    /\ p \in Prepares /\ prepares[p].status = "preparing" /\ d \in prepares[p].targets
    /\ LET q == Answered(prepares[p], d, ready)
           todo == ReadyTodo(q, d, ready)
       IN  /\ q # prepares[p] \/ todo # <<>>
           /\ prepares' = [prepares EXCEPT ![p] = q]
           /\ IF todo = <<>> THEN UNCHANGED handlers
              ELSE Begin(q.timeline, p, q.data, todo)
    /\ UNCHANGED <<requests, timers, lost, applied, outdated>>

\* The deadline passes.
Expires(p) ==
    /\ p \in Prepares /\ ~prepares[p].expired
    /\ prepares[p].status = "preparing" /\ timers[p] = "armed"
    /\ prepares' = [prepares EXCEPT ![p].expired = TRUE]
    /\ UNCHANGED <<requests, timers, handlers, lost, applied, outdated>>

\* The timer wakes up, reads the prepare and decides.
ExpirePrepare(p) ==
    /\ p \in Prepares /\ timers[p] = "armed" /\ Len(handlers) < MaxHandlers
    /\ prepares[p].expired \/ prepares[p].status # "preparing"
    /\ timers' = [timers EXCEPT ![p] = "none"]
    /\ IF prepares[p].status = "preparing"
       THEN Begin(prepares[p].timeline, p, prepares[p].data,
                  IF ReadyToCommit(prepares[p]) THEN <<"claim">> ELSE <<"timeOut">>)
       ELSE UNCHANGED handlers
    /\ UNCHANGED <<requests, prepares, lost, applied, outdated>>

\* finish_prepare_if_preparing, by one of the tasks.
FinishPrepare_Anyway(p, s) == prepares' = [prepares EXCEPT ![p] = Over(@, s)]

FinishPrepare(p, s) ==
    /\ prepares[p].status = "preparing"
    /\ prepares' = [prepares EXCEPT ![p] = Over(@, s)]

EndPrepare(h) ==
    /\ Todo(h, "abort") \/ Todo(h, "timeOut")
    /\ LET p == handlers[h].prepare
           s == IF Head(handlers[h].todo) = "abort" THEN "aborted" ELSE "timed_out"
       IN  \/ FinishPrepare(p, s)
           \/ prepares[p].status # "preparing" /\ UNCHANGED prepares
    /\ Ends(h)
    /\ UNCHANGED <<requests, timers, lost, applied, outdated>>

\* _commit_prepare: who changes the status carries out the command.
ClaimPrepare(h, todo) ==
    /\ Todo(h, "claim")
    /\ LET p == handlers[h].prepare
       IN  \/ /\ FinishPrepare(p, "committed")
              /\ applied' = [applied EXCEPT ![p] = @ + 1]
              /\ handlers' = [handlers EXCEPT ![h].todo = todo]
           \/ /\ prepares[p].status # "preparing" /\ Ends(h)
              /\ UNCHANGED <<prepares, applied>>
    /\ UNCHANGED <<requests, timers, lost, outdated>>

-----------------------------------------------------------------------------
\* What the process forgets when it dies.
ForgetPrepares ==
    /\ prepares' = <<>> /\ timers' = <<>> /\ applied' = <<>>
    /\ handlers' = <<>> /\ lost' = {} /\ outdated' = {}

\* Who will still decide about a prepare.
Watched(p) ==
    \/ timers[p] = "armed" \/ p \in lost
    \/ \E h \in Running : handlers[h].prepare = p

\* There is one prepare for a timeline, and one start for a context; somebody
\* will end it; a control that has finished left none of the older ones; and
\* no command is carried out twice.
PreparesInOrder ==
    /\ \A p, q \in Prepares :
        prepares[p].status = "preparing" /\ prepares[q].status = "preparing" /\ p # q =>
            /\ prepares[p].timeline # prepares[q].timeline
            /\ prepares[p].kind = "start" /\ prepares[q].kind = "start" =>
                   prepares[p].context # prepares[q].context
    /\ \A p \in Prepares : prepares[p].status = "preparing" => Watched(p)
    /\ \A p \in outdated : prepares[p].status # "preparing"
    /\ \A p \in Prepares : applied[p] <= 1
=============================================================================
