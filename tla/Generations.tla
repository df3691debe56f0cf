---------------------------- MODULE Generations ----------------------------
(***************************************************************************)
(* Connections of devices, and the physical generation locks under which a *)
(* device is given a connection, loses it, and has commands sent to it     *)
(* (supysonic/emo/ws_state.py and the handlers of ws.py).  One handler     *)
(* runs in each thread; it takes the locks of its devices one at a time,   *)
(* lowest first, reads again what it is about under them, acts, and lets   *)
(* them all go.  Telling a requester that its control is settled takes     *)
(* locks of its own, while those of the handler may still be held.  The    *)
(* maps of connections have a lock of their own and change in one step.    *)
(* One user, and connections that are logged in.                           *)
(***************************************************************************)
EXTENDS Naturals, FiniteSets

CONSTANTS
    Devices,        \* the clientIds, in the order the locks are sorted in
    Sids,           \* connections; each is made once
    Threads,
    Fading,         \* bound: the devices that may fall silent or be decommissioned
    Renames,        \* whether a connection may register as a second device
    Dealings,       \* bound: which device deals with which other, as a pair
    MaxControls,    \* bound: controls that are pending at once
    MaxHandoffs,    \* bound: handoffs that are live at once
    Faults,         \* whether settling the controls may fail
    NoDevice, NoSid, NoThread

ASSUME GenerationAssumption ==
    /\ Devices \subseteq Nat
    /\ IsFiniteSet(Devices)
    /\ Fading \subseteq Devices
    /\ Renames \in BOOLEAN
    /\ Dealings \subseteq Devices \X Devices
    /\ MaxControls \in Nat
    /\ MaxHandoffs \in Nat
    /\ Faults \in BOOLEAN
    /\ NoDevice \notin Devices
    /\ NoSid \notin Sids
    /\ NoThread \notin Threads

VARIABLES
    session,    \* _sessions; closing: on_disconnect was called
    named,      \* the clientId of a session
    route,      \* _client_to_sid, with its entry of _clients
    silent,     \* devices whose lastSeenAt is too long ago
    controls,   \* pending controls
    handoffs,   \* handoffs that have not ended
    holder,     \* _physical_generation_lifecycle_locks
    thread,     \* the handler that runs in each thread
    untied      \* history: see HandoffsEndWithConnection

tables == <<session, named, route, silent>>
work == <<controls, handoffs>>
vars == <<tables, work, holder, thread, untied>>

-----------------------------------------------------------------------------
Alive == {s \in Sids : session[s] \in {"open", "closing"}}

\* The connection s is the current physical generation of the device d.
Current(d, s) == route[d] = s /\ s \in Alive /\ named[s] = d

\* A control from its requester to the authority, with the connection it was routed
\* to, and a handoff from its source to its target, with those of the two.
Control == [ from : Devices, to : Devices, fromSid : {NoSid}, toSid : Sids ]
Handoff == [ from : Devices, to : Devices, fromSid : Sids, toSid : Sids ]

Parties(deals) == UNION {{x.from, x.to} : x \in deals}

\* The pending controls that were routed to the device d by the connection s.
RoutedTo(d, s) == {c \in controls : c.to = d /\ c.toSid = s}

\* The live handoffs that the device d takes part in by the connection s.
HandedOver_SourceOnly(d, s) == {h \in handoffs : h.from = d /\ h.fromSid = s}

HandedOver(d, s) == {h \in handoffs : \/ h.from = d /\ h.fromSid = s
                                      \/ h.to = d /\ h.toSid = s}

\* What a handler is about; the connections are known once they were matched.
About == [ from : Devices \cup {NoDevice}, to : Devices \cup {NoDevice},
           fromSid : Sids \cup {NoSid}, toSid : Sids \cup {NoSid} ]

Between(d, e) == [from |-> d, to |-> e, fromSid |-> NoSid, toSid |-> NoSid]

Ops == {"control", "start", "finish", "register", "disconnect", "revoke", "prune", "settle"}

Phases == {"taking", "matched", "telling", "leaving"}

\* A handler: the connection of its request, the device it is for, the devices it
\* was going to lock before it looked for handoffs (base), those that it locks
\* (keys), those that a step inside locks besides (extra), and the requesters and
\* authorities it has still to tell of a settlement.
Handler == [ op     : Ops,
             sid    : Sids \cup {NoSid},
             device : Devices \cup {NoDevice},
             about  : About,
             base   : SUBSET Devices,
             keys   : SUBSET Devices,
             extra  : SUBSET Devices,
             phase  : Phases,
             todo   : SUBSET SUBSET Devices ]

Idle == [op |-> "none"]

Busy == {t \in Threads : thread[t] # Idle}

Held(t) == {d \in Devices : holder[d] = t}

\* What the thread has still to lock before its next step.
Wanted(t) ==
    IF t \notin Busy THEN {}
    ELSE (IF thread[t].phase = "taking" THEN thread[t].keys ELSE thread[t].extra) \ Held(t)

Lowest(ds) == CHOOSE d \in ds : \A e \in ds : d <= e

\* The thread is at the phase of the handler op, with the locks it needs.
At(t, op, phase) ==
    /\ t \in Busy
    /\ Wanted(t) = {}
    /\ thread[t].op = op
    /\ thread[t].phase = phase

\* The values of the variables, and the fields of the handlers that run.
TypeOK ==
    /\ session \in [Sids -> {"fresh", "open", "closing", "gone"}]
    /\ named \in [Sids -> Devices \cup {NoDevice}]
    /\ route \in [Devices -> Sids \cup {NoSid}]
    /\ silent \in SUBSET Devices
    /\ controls \in SUBSET Control
    /\ handoffs \in SUBSET Handoff
    /\ holder \in [Devices -> Threads \cup {NoThread}]
    /\ thread \in [Threads -> Handler \cup {Idle}]
    /\ untied \in SUBSET Sids

Init ==
    /\ session = [s \in Sids |-> "fresh"]
    /\ named = [s \in Sids |-> NoDevice]
    /\ route = [d \in Devices |-> NoSid]
    /\ silent = {}
    /\ controls = {}
    /\ handoffs = {}
    /\ holder = [d \in Devices |-> NoThread]
    /\ thread = [t \in Threads |-> Idle]
    /\ untied = {}

-----------------------------------------------------------------------------
Take_Unsorted(t) ==
    \E d \in Wanted(t) :
        /\ holder[d] = NoThread
        /\ holder' = [holder EXCEPT ![d] = t]
        /\ UNCHANGED <<tables, work, thread, untied>>

\* The locks are taken lowest first; a lock that the thread has is not taken again.
Take(t) ==
    /\ Wanted(t) # {}
    /\ holder[Lowest(Wanted(t))] = NoThread
    /\ holder' = [holder EXCEPT ![Lowest(Wanted(t))] = t]
    /\ UNCHANGED <<tables, work, thread, untied>>

LetGo(t, kept) == [d \in Devices |-> IF holder[d] = t /\ d \notin kept THEN NoThread ELSE holder[d]]

Return(t) ==
    /\ holder' = LetGo(t, {})
    /\ thread' = [thread EXCEPT ![t] = Idle]

Begin(t, op, s, d, about, base, peers) ==
    /\ thread[t] = Idle
    /\ thread' = [thread EXCEPT ![t] =
          [ op |-> op, sid |-> s, device |-> d, about |-> about, base |-> base,
            keys |-> base \cup peers, extra |-> {}, phase |-> "taking", todo |-> {} ]]

\* What the handler, of the device d and the connection s, finds for its scope.
Scope(op, s, d, about) ==
    CASE op = "start" -> Parties({h \in handoffs : h.from = about.from})
      [] op \in {"register", "revoke"} /\ Current(d, route[d]) ->
            Parties(HandedOver(d, route[d]))
      [] op = "disconnect" /\ d # NoDevice -> Parties(HandedOver(d, s))
      [] OTHER -> {}

ScopeOf(t) == Scope(thread[t].op, thread[t].sid, thread[t].device, thread[t].about)

\* The handler has the locks of all that its scope holds by now, or starts over.
Inside(t, op) == At(t, op, "taking") /\ ScopeOf(t) \subseteq thread[t].keys

StartOver(t) ==
    /\ \E op \in {"start", "register", "revoke", "disconnect"} : At(t, op, "taking")
    /\ ~ ScopeOf(t) \subseteq thread[t].keys
    /\ holder' = LetGo(t, {})
    /\ thread' = [thread EXCEPT ![t].base = @ \cup ScopeOf(t),
                                ![t].keys = thread[t].base \cup ScopeOf(t)]
    /\ UNCHANGED <<tables, work, untied>>

-----------------------------------------------------------------------------
Connect(s) ==
    /\ session[s] = "fresh"
    /\ session' = [session EXCEPT ![s] = "open"]
    /\ UNCHANGED <<named, route, silent, work, holder, thread, untied>>

\* A registered connection can send a request.
Asks(s) == session[s] = "open" /\ named[s] # NoDevice

Touch(s) ==
    /\ Asks(s)
    /\ route[named[s]] = s
    /\ silent' = silent \ {named[s]}
    /\ UNCHANGED <<session, named, route, work, holder, thread, untied>>

GrowSilent(d) ==
    /\ d \in Fading
    /\ route[d] # NoSid
    /\ silent' = silent \cup {d}
    /\ UNCHANGED <<session, named, route, work, holder, thread, untied>>

-----------------------------------------------------------------------------
\* A request that deals with a second device: both connections are read under the
\* locks, and used there.  A control, a follow, a mirrored change and the start
\* of a handoff all do this.
BeginControl(t, s, d) ==
    /\ Asks(s)
    /\ <<named[s], d>> \in Dealings
    /\ Begin(t, "control", s, named[s], Between(named[s], d), {}, {named[s], d})
    /\ UNCHANGED <<tables, work, holder, untied>>

BeginStart(t, s, d, e) ==
    /\ Asks(s)
    /\ <<d, e>> \in Dealings
    /\ d # e
    /\ Begin(t, "start", s, named[s], Between(d, e), {named[s], d, e},
             Scope("start", s, named[s], Between(d, e)))
    /\ UNCHANGED <<tables, work, holder, untied>>

Matches(t) ==
    LET h == thread[t] IN
    /\ named[h.sid] = h.device /\ h.sid \in Alive
    /\ \A d \in {h.about.from, h.about.to} : Current(d, route[d])
    /\ h.op = "control" => Current(h.device, h.sid)
    /\ h.op = "start" => \A x \in handoffs : x.from # h.about.from

\* A mutant: the locks are let go between the look at the connections and their use.
Match_LetsGo(t) ==
    /\ Inside(t, "control") \/ Inside(t, "start")
    /\ Matches(t)
    /\ thread' = [thread EXCEPT ![t].phase = "matched",
                                ![t].about.fromSid = route[thread[t].about.from],
                                ![t].about.toSid = route[thread[t].about.to]]
    /\ holder' = LetGo(t, {})
    /\ UNCHANGED <<tables, work, untied>>

Match(t) ==
    /\ Inside(t, "control") \/ Inside(t, "start")
    /\ \/ /\ Matches(t)
          /\ thread' = [thread EXCEPT ![t].phase = "matched",
                                      ![t].base = {},
                                      ![t].about.fromSid = route[thread[t].about.from],
                                      ![t].about.toSid = route[thread[t].about.to]]
          /\ UNCHANGED holder
       \/ /\ ~ Matches(t)
          /\ Return(t)
    /\ UNCHANGED <<tables, work, untied>>

\* The change is committed and sent, or conflicts with another.
Dispatch(t) ==
    /\ \/ /\ At(t, "control", "matched")
          /\ Cardinality(controls) < MaxControls
          /\ controls' = controls \cup {[thread[t].about EXCEPT !.fromSid = NoSid]}
          /\ UNCHANGED handoffs
       \/ /\ At(t, "start", "matched")
          /\ Cardinality(handoffs) < MaxHandoffs
          /\ handoffs' = handoffs \cup {thread[t].about}
          /\ UNCHANGED controls
       \/ /\ At(t, "control", "matched") \/ At(t, "start", "matched")
          /\ UNCHANGED work
    /\ Return(t)
    /\ UNCHANGED <<tables, untied>>

\* A handoff is completed, cancelled, or ended by an update.
BeginFinish(t, s, h) ==
    /\ Asks(s)
    /\ Begin(t, "finish", NoSid, NoDevice, h, {}, {named[s], h.from, h.to})
    /\ UNCHANGED <<tables, work, holder, untied>>

FinishHandoff(t) ==
    /\ Inside(t, "finish")
    /\ handoffs' \in {handoffs, handoffs \ {thread[t].about}}
    /\ Return(t)
    /\ UNCHANGED <<tables, controls, untied>>

-----------------------------------------------------------------------------
\* The control is overdue: a sweep settles it under its locks, and tells later.
BeginSettle(t, c) ==
    /\ Begin(t, "settle", NoSid, NoDevice, c, {}, {c.from, c.to})
    /\ UNCHANGED <<tables, work, holder, untied>>

SettleControl(t) ==
    /\ Inside(t, "settle")
    /\ LET c == thread[t].about IN
       \/ /\ c \notin controls
          /\ thread' = [thread EXCEPT ![t] = Idle]
          /\ UNCHANGED controls
       \/ /\ c \in controls
          /\ controls' = controls \ {c}
          /\ thread' = [thread EXCEPT ![t].phase = "telling",
                                      ![t].about = Between(NoDevice, NoDevice),
                                      ![t].keys = {},
                                      ![t].todo = {{c.from, c.to}}]
    /\ holder' = LetGo(t, {})
    /\ UNCHANGED <<tables, handoffs, untied>>

\* One settlement is sent under the locks of its requester and its authority, which
\* are taken while the handler still has its own.
Tell(t) ==
    /\ t \in Busy
    /\ thread[t].phase = "telling"
    /\ Wanted(t) = {}
    /\ LET h == thread[t] IN
       \/ /\ h.extra = {}
          /\ \E pair \in h.todo :
                thread' = [thread EXCEPT ![t].extra = pair, ![t].todo = @ \ {pair}]
          /\ UNCHANGED holder
       \/ /\ h.extra # {}
          /\ thread' = [thread EXCEPT ![t].extra = {}]
          /\ holder' = LetGo(t, h.keys)
    /\ UNCHANGED <<tables, work, untied>>

Told(t, op) == At(t, op, "telling") /\ thread[t].extra = {} /\ thread[t].todo = {}

ToldAll(t) ==
    /\ Told(t, "settle") \/ Told(t, "revoke")
    /\ Return(t)
    /\ UNCHANGED <<tables, work, untied>>

\* The connection s of the device d ends: its handoffs end, and its pending controls
\* are settled.  The settlements are told afterwards.
Ends(d, s) ==
    /\ handoffs' = handoffs \ HandedOver(d, s)
    /\ controls' = controls \ RoutedTo(d, s)

Telling(t, settled) ==
    thread' = [thread EXCEPT ![t].phase = "telling",
                            ![t].base = {},
                            ![t].todo = {{c.from, c.to} : c \in settled}]

-----------------------------------------------------------------------------
BeginDisconnect(t, s) ==
    LET d == named[s] IN
    /\ session[s] = "open"
    /\ session' = [session EXCEPT ![s] = "closing"]
    /\ Begin(t, "disconnect", s, d, Between(NoDevice, NoDevice), {d} \ {NoDevice},
             Scope("disconnect", s, d, Between(NoDevice, NoDevice)))
    /\ UNCHANGED <<named, route, silent, work, holder, untied>>

StillObserved(t) ==
    LET h == thread[t] IN h.device # NoDevice /\ h.sid \in Alive /\ named[h.sid] = h.device

\* Nothing is settled unless the connection is still what was read before the locks.
Disconnect(t) ==
    LET s == thread[t].sid
        d == thread[t].device IN
    /\ Inside(t, "disconnect")
    /\ \/ /\ StillObserved(t)
          /\ Ends(d, s)
          /\ Telling(t, RoutedTo(d, s))
          /\ UNCHANGED untied
       \/ /\ ~ StillObserved(t)
          /\ Telling(t, {})
          /\ untied' = untied \cup {s}
          /\ UNCHANGED work
    /\ UNCHANGED <<tables, holder>>

\* The database fails while the controls are settled: the session is never removed.
DisconnectFails(t) ==
    /\ Faults
    /\ Inside(t, "disconnect")
    /\ StillObserved(t)
    /\ handoffs' \in {handoffs, handoffs \ HandedOver(thread[t].device, thread[t].sid)}
    /\ Return(t)
    /\ UNCHANGED <<tables, controls, untied>>

\* The lock of the device that a session names, if it names one.
LockOf_Unnamed(s) == {named[s]}
LockOf(s) == {named[s]} \ {NoDevice}

\* unregister_session reads the device that it locks, and again what it removes.
BeginUnregister(t) ==
    /\ Told(t, "disconnect")
    /\ thread' = [thread EXCEPT ![t].phase = "leaving",
                                ![t].extra = LockOf(thread[t].sid)]
    /\ UNCHANGED <<tables, work, holder, untied>>

Removed(s) ==
    /\ session' = [session EXCEPT ![s] = "gone"]
    /\ named' = [named EXCEPT ![s] = NoDevice]
    /\ route' = [d \in Devices |-> IF d = named[s] /\ route[d] = s THEN NoSid ELSE route[d]]
    /\ silent' = {d \in silent : route'[d] # NoSid}

Unregister(t) ==
    /\ At(t, "disconnect", "leaving")
    /\ Removed(thread[t].sid)
    /\ Return(t)
    /\ UNCHANGED <<work, untied>>

-----------------------------------------------------------------------------
\* A message is handled to its end though its connection is closed meanwhile.
BeginRegister(t, s, d) ==
    /\ session[s] = "open"
    /\ Renames \/ /\ named[s] \in {d, NoDevice}
                  /\ \A u \in Busy : thread[u].op = "register" => thread[u].sid # s
    /\ Begin(t, "register", s, d, Between(NoDevice, NoDevice), {d},
             Scope("register", s, d, Between(NoDevice, NoDevice)))
    /\ UNCHANGED <<tables, work, holder, untied>>

\* The connection the device had before; its session says what device it was of.
Replace(t) ==
    LET d == thread[t].device
        p == route[d] IN
    /\ Inside(t, "register")
    /\ IF p \in Alive \ {thread[t].sid} /\ named[p] # NoDevice
       THEN Ends(named[p], p) /\ Telling(t, RoutedTo(named[p], p))
       ELSE Telling(t, {}) /\ UNCHANGED work
    /\ UNCHANGED <<tables, holder, untied>>

\* The names of the sessions once the device d has the connection s, and p no more.
NamesAfter_Kept(d, s, p) == [named EXCEPT ![s] = IF s \in Alive THEN d ELSE @]

NamesAfter(d, s, p) ==
    [x \in Sids |-> IF x \notin Alive THEN named[x]
                   ELSE IF x = s THEN d
                   ELSE IF x = p THEN NoDevice
                   ELSE named[x]]

\* A session that was removed meanwhile is not made again, but the route is.
RegisterClient(t) ==
    LET s == thread[t].sid
        d == thread[t].device IN
    /\ Told(t, "register")
    /\ named' = NamesAfter(d, s, route[d])
    /\ route' = [route EXCEPT ![d] = s]
    /\ silent' = silent \ {d}
    /\ untied' = IF named[s] \notin {d, NoDevice} THEN untied \cup {s} ELSE untied
    /\ Return(t)
    /\ UNCHANGED <<session, work>>

\* A device that was decommissioned: its connection is removed before it is settled.
BeginRevoke(t, d) ==
    /\ d \in Fading
    /\ Begin(t, "revoke", NoSid, d, Between(NoDevice, NoDevice), {d},
             Scope("revoke", NoSid, d, Between(NoDevice, NoDevice)))
    /\ UNCHANGED <<tables, work, holder, untied>>

Revoke(t) ==
    LET d == thread[t].device
        s == route[d] IN
    /\ Inside(t, "revoke")
    /\ \/ /\ ~ Current(d, s)
          /\ Return(t)
          /\ UNCHANGED <<tables, work>>
       \/ /\ Current(d, s)
          /\ Removed(s)
          /\ Ends(d, s)
          /\ Telling(t, RoutedTo(d, s))
          /\ UNCHANGED holder
    /\ UNCHANGED untied

-----------------------------------------------------------------------------
\* The devices that were not heard of for too long, at each request and by a sweep.
Observed == {d \in silent : route[d] # NoSid}

\* A route whose session is gone has no generation to look for.
Peers(ds) == UNION {Parties(HandedOver(d, route[d])) : d \in {e \in ds : route[e] \in Alive}}

BeginPrune(t) ==
    /\ Observed # {}
    /\ Begin(t, "prune", NoSid, NoDevice, Between(NoDevice, NoDevice), Observed, Peers(Observed))
    /\ UNCHANGED <<tables, work, holder, untied>>

StillSilent(t) == thread[t].base \cap Observed

PruneAgain(t) ==
    /\ At(t, "prune", "taking")
    /\ ~ Peers(StillSilent(t)) \subseteq thread[t].keys
    /\ holder' = LetGo(t, {})
    /\ thread' = [thread EXCEPT ![t].base = Observed,
                                ![t].keys = Observed \cup Peers(Observed)]
    /\ UNCHANGED <<tables, work, untied>>

\* Their handoffs end, then those that were not heard of meanwhile lose their routes.
Prune(t) ==
    /\ At(t, "prune", "taking")
    /\ Peers(StillSilent(t)) \subseteq thread[t].keys
    /\ handoffs' = handoffs \ UNION {HandedOver(d, route[d]) :
                        d \in {e \in StillSilent(t) : route[e] \in Alive}}
    /\ thread' = [thread EXCEPT ![t].base = StillSilent(t), ![t].phase = "leaving"]
    /\ UNCHANGED <<tables, controls, holder, untied>>

RemoveClients(t) ==
    LET gone == StillSilent(t) IN
    /\ At(t, "prune", "leaving")
    /\ named' = [s \in Sids |-> IF s \in Alive /\ named[s] \in gone /\ route[named[s]] = s
                                THEN NoDevice ELSE named[s]]
    /\ route' = [d \in Devices |-> IF d \in gone THEN NoSid ELSE route[d]]
    /\ silent' = silent \ gone
    /\ Return(t)
    /\ UNCHANGED <<session, work, untied>>

-----------------------------------------------------------------------------
Arrives(t) ==
    \/ \E s \in Sids : BeginDisconnect(t, s)
    \/ \E s \in Sids, d \in Devices : BeginControl(t, s, d) \/ BeginRegister(t, s, d)
    \/ \E s \in Sids, d, e \in Devices : BeginStart(t, s, d, e)
    \/ \E s \in Sids, h \in handoffs : BeginFinish(t, s, h)
    \/ \E c \in controls : BeginSettle(t, c)
    \/ \E d \in Devices : BeginRevoke(t, d)
    \/ BeginPrune(t)

Runs(t) ==
    \/ Take(t) \/ StartOver(t) \/ PruneAgain(t)
    \/ Match(t) \/ Dispatch(t) \/ FinishHandoff(t)
    \/ SettleControl(t) \/ Tell(t) \/ ToldAll(t)
    \/ Disconnect(t) \/ DisconnectFails(t) \/ BeginUnregister(t) \/ Unregister(t)
    \/ Replace(t) \/ RegisterClient(t) \/ Revoke(t)
    \/ Prune(t) \/ RemoveClients(t)

Next ==
    \/ \E s \in Sids : Connect(s) \/ Touch(s)
    \/ \E d \in Devices : GrowSilent(d)
    \/ \E t \in Threads : Arrives(t) \/ Runs(t)

Spec == Init /\ [][Next]_vars

-----------------------------------------------------------------------------
\* A session that says it is of a device is the one the device is reached by: two
\* connections never both pass for the same device, whatever replaced, pruned or
\* removed them (ws_state.py:334, :523 and :655).
SessionIsRouted == \A s \in Alive : named[s] # NoDevice => route[named[s]] = s

TiedTo(d, s) == Current(d, s) \/ s \in untied

\* No handoff is left behind by a connection that ended: its source and its target
\* still have the connections they had at its start.  Replacement, disconnection,
\* pruning and decommissioning all end it.  Left out are connections that are
\* untied: their disconnect saw no device on them, as they were being registered,
\* or they have registered as a second device (ws.py:13057, ws_state.py:655).
HandoffsEndWithConnection ==
    \A h \in handoffs : TiedTo(h.from, h.fromSid) /\ TiedTo(h.to, h.toSid)

\* What a handler has matched under its locks is still so when it sends: no device
\* it deals with has been given another connection, or lost its own, in between.
MatchedIsCurrent ==
    \A t \in Busy :
        thread[t].phase = "matched" =>
            /\ TiedTo(thread[t].about.from, thread[t].about.fromSid)
            /\ TiedTo(thread[t].about.to, thread[t].about.toSid)

WaitsFor(t, u) == Wanted(t) # {} /\ holder[Lowest(Wanted(t))] = u

Circle(S) == S # {} /\ \A t \in S : \E u \in S : WaitsFor(t, u)

\* A step of the handler takes locks while the handler has its own.
Nests(t) == t \in Busy /\ thread[t].phase # "taking" /\ thread[t].keys # {}

\* Handlers that take their locks once, sorted, and start over when they need more,
\* never wait for each other in a circle: in every circle there is one whose step
\* takes locks inside those of its handler (ws_state.py:69, ws.py:390).
CircleNeedsNesting == \A S \in SUBSET Threads : Circle(S) => \E t \in S : Nests(t)

\* No handlers wait for each other in a circle.
NoCircle == \A S \in SUBSET Threads : ~ Circle(S)
=============================================================================
