------------------------------- MODULE Rooms -------------------------------
(***************************************************************************)
(* The rooms of the legacy protocol: broadcasts and sessions over one list *)
(* of prepares.                                                            *)
(***************************************************************************)
EXTENDS RoomBroadcasts, RoomSessions

VARIABLE kind        \* bound: what the requests of a behaviour are about

vars == <<kind, requests, prepareVars, handlers, outdated, broadcastVars, sessionVars>>

Init ==
    /\ kind \in {"broadcasts", "sessions"}
    /\ requests = 0
    /\ prepares = <<>> /\ timers = <<>> /\ applied = <<>>
    /\ handlers = <<>> /\ lost = {} /\ outdated = {}
    /\ InitBroadcasts
    /\ InitSessions

\* What happens to a prepare whatever it is for.
NextPrepares ==
    \/ \E h \in Running : SendPrepare(h) \/ Supersede(h) \/ EndPrepare(h)
    \/ \E p \in Prepares :
        \/ \E d \in Devices, ready \in BOOLEAN : PlaybackReady(p, d, ready)
        \/ Expires(p)
        \/ ExpirePrepare(p)

\* The process is killed and started again: nothing is read from the rows
\* before somebody asks for it.
Restart ==
    /\ Faults /\ ForgetPrepares /\ ForgetBroadcasts /\ ForgetSessions
    /\ UNCHANGED requests

Next ==
    /\ UNCHANGED kind
    /\ \/ kind = "broadcasts" /\ NextBroadcasts /\ UNCHANGED sessionVars
       \/ kind = "sessions" /\ NextSessions /\ UNCHANGED broadcastVars
       \/ NextPrepares /\ UNCHANGED <<broadcastVars, sessionVars>>
       \/ Restart

Spec == Init /\ [][Next]_vars

-----------------------------------------------------------------------------
\* Broadcasts: a checked version is still there when the command is carried
\* out, what was stopped stays stopped, and the restart finds what the last
\* handler left; sessions: so it does there.
RoomsAgree == IndexInQueue /\ EndedStaysEnded /\ BroadcastAgrees /\ SessionAgrees

\* No start, command or restart gives the playback context of one broadcast to
\* another.
ContextsKeep == [][ContextKeepsBroadcast]_vars
=============================================================================
