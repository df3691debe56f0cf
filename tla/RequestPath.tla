----------------------------- MODULE RequestPath -----------------------------
(***************************************************************************)
(* The way of a strict-v2 request through EmoNamespace.on_message: the     *)
(* request cache of strict_v2_runtime.py, the startup gate, the drain and  *)
(* the emit reservations of strict_v2_safety.py, for several connections   *)
(* whose messages are handled by concurrent threads.                       *)
(*                                                                         *)
(* A request is known by its connectionNonce and requestId; the content    *)
(* stands for the fingerprint of its action and payload.  What a business  *)
(* handler does is abstracted to "it took effect" and the kind of its      *)
(* answer.  Time is counted in ticks, and ages stop counting at TTL.       *)
(***************************************************************************)
EXTENDS Integers, FiniteSets

CONSTANTS
    Connections,        \* connection nonces
    RequestIds,         \* request ids clients use on them
    Contents,           \* fingerprints
    Handlers,           \* threads that run on_message
    TTL,                \* ticks a cache entry lives
    MaxPendingEmits,    \* emits that may be pending for one connection
    NoConnection        \* a value that is not a connection

ASSUME RequestConstants ==
    /\ TTL \in Nat \ {0}
    /\ MaxPendingEmits \in Nat \ {0}
    /\ NoConnection \notin Connections
    /\ IsFiniteSet(Handlers)

VARIABLES
    gate,               \* _startup_recovery_state
    shutdown,           \* how far begin_strict_v2_shutdown is
    active,             \* _active_requests
    session,            \* the life of each connection
    cache,              \* StrictRequestCache._entries
    emits,              \* _pending_emits, by connection
    handler,            \* what each thread is doing
    since,              \* history: ticks since the reservation of the last effect of a key
    late                \* history: keys answered by a thread that outlived its reservation

history == <<since, late>>
vars == <<gate, shutdown, active, session, cache, emits, handler, history>>

Keys == Connections \X RequestIds
NoKey == <<NoConnection, "none">>
Ages == 0..TTL
Answers == {"ok", "error", "conflict"}

NoEntry == [state |-> "free", content |-> "none", age |-> 0, answer |-> "none"]

Entry == [state : {"free", "in_flight", "cached"}, content : Contents \cup {"none"},
          age : Ages, answer : Answers \cup {"none"}]

(* pc follows on_message: the session is read (received), the request is   *)
(* reserved, admitted and running, its answer is known (answering), stored *)
(* and emitted, and finish_request is due (finishing).                     *)
Thread ==
    [pc : {"idle", "received", "reserved", "running", "answering", "stored",
           "emitting", "finishing"},
     key : Keys \cup {NoKey}, content : Contents \cup {"none"},
     admitted : BOOLEAN, age : Ages, answer : Answers \cup {"none"}, push : Connections \cup {NoConnection}]

Idle == [pc |-> "idle", key |-> NoKey, content |-> "none", admitted |-> FALSE,
         age |-> 0, answer |-> "none", push |-> NoConnection]

TypeOK ==
    /\ gate \in {"running", "ready", "failed"}
    /\ shutdown \in {"no", "draining", "drained", "expired",
                    "closed clean", "closed busy"}
    /\ active \in Nat
    /\ session \in [Connections -> {"new", "connecting", "open", "gone"}]
    /\ cache \in [Keys -> Entry]
    /\ emits \in [Connections -> 0..MaxPendingEmits]
    /\ handler \in [Handlers -> Thread]
    /\ since \in [Keys -> Ages] /\ late \subseteq Keys

(* init_socketio has configured the gate, cleared the cache and begun the  *)
(* recovery.                                                               *)
Init ==
    /\ gate = "running" /\ shutdown = "no" /\ active = 0
    /\ session = [c \in Connections |-> "new"]
    /\ cache = [k \in Keys |-> NoEntry]
    /\ emits = [c \in Connections |-> 0]
    /\ handler = [h \in Handlers |-> Idle]
    /\ since = [k \in Keys |-> TTL] /\ late = {}

-----------------------------------------------------------------------------
(***************************************************************************)
(* Startup, connections and shutdown.  As elsewhere, a definition whose    *)
(* name ends in _Something is a faulty variant that no action uses.        *)
(***************************************************************************)
AcceptsConnections == gate = "ready" /\ shutdown = "no"

OpenGate ==
    /\ gate = "running"
    /\ gate' \in {"ready", "failed"}
    /\ UNCHANGED <<shutdown, active, session, cache, emits, handler, history>>

(* on_connect looks at the gate before it registers the session.           *)
BeginConnect(c) ==
    /\ session[c] = "new" /\ AcceptsConnections
    /\ session' = [session EXCEPT ![c] = "connecting"]
    /\ UNCHANGED <<gate, shutdown, active, cache, emits, handler, history>>

Connect(c) ==
    /\ session[c] = "connecting"
    /\ session' = [session EXCEPT ![c] = "open"]
    /\ UNCHANGED <<gate, shutdown, active, cache, emits, handler, history>>

Forgotten(C) == [k \in Keys |-> IF k[1] \in C THEN NoEntry ELSE cache[k]]

Disconnect(c) ==
    /\ session[c] = "open"
    /\ session' = [session EXCEPT ![c] = "gone"]
    /\ cache' = Forgotten({c})
    /\ UNCHANGED <<gate, shutdown, active, emits, handler, history>>

BeginShutdown ==
    /\ shutdown = "no"
    /\ shutdown' = "draining"
    /\ UNCHANGED <<gate, active, session, cache, emits, handler, history>>

(* The wait for the active requests ends: they are done, or the grace      *)
(* period is over.                                                         *)
EndDrain ==
    /\ shutdown = "draining"
    /\ shutdown' = IF active = 0 THEN "drained" ELSE "expired"
    /\ UNCHANGED <<gate, active, session, cache, emits, handler, history>>

(* The pending controls are settled, then every session is disconnected.   *)
CloseSockets ==
    /\ shutdown \in {"drained", "expired"}
    /\ shutdown' = IF shutdown = "drained" THEN "closed clean" ELSE "closed busy"
    /\ LET open == {c \in Connections : session[c] = "open"}
       IN  /\ session' = [c \in Connections |-> IF c \in open THEN "gone" ELSE session[c]]
           /\ cache' = Forgotten(open)
    /\ UNCHANGED <<gate, active, emits, handler, history>>

Older(age) == IF age < TTL THEN age + 1 ELSE TTL

Tick ==
    /\ cache' = [k \in Keys |->
                    IF cache[k].state = "free" THEN cache[k]
                    ELSE [cache[k] EXCEPT !.age = Older(@)]]
    /\ handler' = [h \in Handlers |->
                    IF handler[h].pc \in {"idle", "received"} THEN handler[h]
                    ELSE [handler[h] EXCEPT !.age = Older(@)]]
    /\ since' = [k \in Keys |-> Older(since[k])]
    /\ UNCHANGED <<gate, shutdown, active, session, emits, late>>

-----------------------------------------------------------------------------
(***************************************************************************)
(* One request.                                                            *)
(***************************************************************************)
Goes(h, pc) ==
    handler' = [handler EXCEPT ![h] =
                    IF pc = "idle" THEN Idle ELSE [@ EXCEPT !.pc = pc]]

AnswersWith(h, answer) ==
    handler' = [handler EXCEPT ![h].pc = "answering", ![h].answer = answer]

(* finish_request is the last thing an admitted request does.              *)
AfterAnswer(h) == IF handler[h].admitted THEN "finishing" ELSE "idle"

Receive(h, k, content) ==
    /\ handler[h].pc = "idle" /\ session[k[1]] = "open"
    /\ handler' = [handler EXCEPT ![h] =
                    [Idle EXCEPT !.pc = "received", !.key = k, !.content = content]]
    /\ UNCHANGED <<gate, shutdown, active, session, cache, emits, history>>

Pruned_Early ==
    [k \in Keys |->
        IF cache[k].state # "free" /\ cache[k].age + 1 >= TTL THEN NoEntry ELSE cache[k]]

Pruned ==
    [k \in Keys |->
        IF cache[k].state # "free" /\ cache[k].age >= TTL THEN NoEntry ELSE cache[k]]

(* lookup_or_reserve.  A new request is reserved, a repeated one whose     *)
(* answer is known gets it again, a repeated one whose answer is not known *)
(* is dropped, and one with other content is refused.                      *)
Lookup_NoReservation(h) ==
    /\ handler[h].pc = "received"
    /\ LET k == handler[h].key
           entry == Pruned[k]
       IN  /\ \/ entry.state # "cached" /\ Goes(h, "reserved")
              \/ /\ entry.state = "cached"
                 /\ handler' = [handler EXCEPT ![h].pc = "stored", ![h].answer = entry.answer]
           /\ cache' = [Pruned EXCEPT ![k] =
                IF entry.state = "cached" THEN entry
                ELSE [state |-> "in_flight", content |-> handler[h].content,
                      age |-> 0, answer |-> "none"]]
    /\ UNCHANGED <<gate, shutdown, active, session, emits, history>>

Lookup(h) ==
    /\ handler[h].pc = "received"
    /\ LET k == handler[h].key
           entry == Pruned[k]
           same == entry.content = handler[h].content
       IN  \/ /\ entry.state = "free"
              /\ cache' = [Pruned EXCEPT ![k] =
                    [state |-> "in_flight", content |-> handler[h].content,
                     age |-> 0, answer |-> "none"]]
              /\ Goes(h, "reserved")
           \/ /\ entry.state # "free" /\ ~same
              /\ cache' = Pruned
              /\ handler' = [handler EXCEPT ![h].pc = "stored", ![h].answer = "conflict"]
           \/ /\ entry.state = "cached" /\ same
              /\ cache' = Pruned
              /\ handler' = [handler EXCEPT ![h].pc = "stored", ![h].answer = entry.answer]
           \/ /\ entry.state = "in_flight" /\ same
              /\ cache' = Pruned
              /\ Goes(h, "idle")
    /\ UNCHANGED <<gate, shutdown, active, session, emits, history>>

(* The rate limit is exceeded or the client is not registered.             *)
Refuse_Silent(h) ==
    /\ handler[h].pc = "reserved"
    /\ Goes(h, "idle")
    /\ UNCHANGED <<gate, shutdown, active, session, cache, emits, history>>

Refuse(h) ==
    /\ handler[h].pc = "reserved"
    /\ AnswersWith(h, "error")
    /\ UNCHANGED <<gate, shutdown, active, session, cache, emits, history>>

(* begin_request.                                                          *)
Admit_WhileDraining(h) ==
    /\ handler[h].pc = "reserved"
    /\ gate = "ready"
    /\ active' = active + 1
    /\ handler' = [handler EXCEPT ![h].pc = "running", ![h].admitted = TRUE]
    /\ UNCHANGED <<gate, shutdown, session, cache, emits, history>>

Admit(h) ==
    /\ handler[h].pc = "reserved"
    /\ IF gate = "ready" /\ shutdown = "no"
       THEN /\ active' = active + 1
            /\ handler' = [handler EXCEPT ![h].pc = "running", ![h].admitted = TRUE]
       ELSE /\ AnswersWith(h, "error")
            /\ UNCHANGED active
    /\ UNCHANGED <<gate, shutdown, session, cache, emits, history>>

(* The handler of a control or a volume command reserves room for what it  *)
(* will send to another client before it does anything.                    *)
ReservePush(h, c) ==
    /\ handler[h].pc = "running" /\ handler[h].push = NoConnection
    /\ emits[c] < MaxPendingEmits
    /\ emits' = [emits EXCEPT ![c] = @ + 1]
    /\ handler' = [handler EXCEPT ![h].push = c]
    /\ UNCHANGED <<gate, shutdown, active, session, cache, history>>

(* The business of the request takes effect; what follows it may still     *)
(* raise.                                                                  *)
Execute(h) ==
    /\ handler[h].pc = "running"
    /\ \E answer \in {"ok", "error"} : AnswersWith(h, answer)
    /\ since' = [since EXCEPT ![handler[h].key] = handler[h].age]
    /\ UNCHANGED <<gate, shutdown, active, session, cache, emits, late>>

(* It is refused or raises before it takes effect.                         *)
Reject(h) ==
    /\ handler[h].pc = "running"
    /\ AnswersWith(h, "error")
    /\ UNCHANGED <<gate, shutdown, active, session, cache, emits, history>>

ReleasePush_Lost(h) ==
    /\ handler[h].pc = "answering" /\ handler[h].push # NoConnection
    /\ handler' = [handler EXCEPT ![h].push = NoConnection]
    /\ UNCHANGED <<gate, shutdown, active, session, cache, emits, history>>

ReleasePush(h) ==
    /\ handler[h].pc = "answering" /\ handler[h].push # NoConnection
    /\ emits' = [emits EXCEPT ![handler[h].push] = @ - 1]
    /\ handler' = [handler EXCEPT ![h].push = NoConnection]
    /\ UNCHANGED <<gate, shutdown, active, session, cache, history>>

(* store_result raises when the reservation is gone or has other content,  *)
(* and raises again from the error that reports it: nothing is sent.       *)
Answer_SkipsFinish(h) ==
    /\ handler[h].pc = "answering" /\ handler[h].push = NoConnection
    /\ LET k == handler[h].key
           reserved == cache[k].state # "free" /\ cache[k].content = handler[h].content
       IN  IF reserved
           THEN /\ cache' = [cache EXCEPT ![k].state = "cached",
                                          ![k].answer = handler[h].answer]
                /\ Goes(h, "stored")
           ELSE /\ UNCHANGED cache
                /\ Goes(h, "idle")
    /\ UNCHANGED <<gate, shutdown, active, session, emits, history>>

Answer(h) ==
    /\ handler[h].pc = "answering" /\ handler[h].push = NoConnection
    /\ LET k == handler[h].key
           reserved == cache[k].state # "free" /\ cache[k].content = handler[h].content
       IN  IF reserved
           THEN /\ cache' = [cache EXCEPT ![k].state = "cached",
                                          ![k].answer = handler[h].answer]
                /\ Goes(h, "stored")
           ELSE /\ UNCHANGED cache
                /\ Goes(h, AfterAnswer(h))
    /\ late' = IF handler[h].age = TTL THEN late \cup {handler[h].key} ELSE late
    /\ UNCHANGED <<gate, shutdown, active, session, emits, since>>

(* Without room for it the answer is dropped; it stays in the cache.       *)
Emit_Unbounded(h) ==
    /\ handler[h].pc = "stored"
    /\ emits' = [emits EXCEPT ![handler[h].key[1]] = @ + 1]
    /\ Goes(h, "emitting")
    /\ UNCHANGED <<gate, shutdown, active, session, cache, history>>

Emit(h) ==
    /\ handler[h].pc = "stored"
    /\ LET c == handler[h].key[1]
       IN  IF emits[c] < MaxPendingEmits
           THEN /\ emits' = [emits EXCEPT ![c] = @ + 1]
                /\ Goes(h, "emitting")
           ELSE /\ UNCHANGED emits
                /\ Goes(h, AfterAnswer(h))
    /\ UNCHANGED <<gate, shutdown, active, session, cache, history>>

EmitReturns(h) ==
    /\ handler[h].pc = "emitting"
    /\ emits' = [emits EXCEPT ![handler[h].key[1]] = @ - 1]
    /\ Goes(h, AfterAnswer(h))
    /\ UNCHANGED <<gate, shutdown, active, session, cache, history>>

Finish(h) ==
    /\ handler[h].pc = "finishing"
    /\ active' = IF active > 0 THEN active - 1 ELSE 0
    /\ handler' = [handler EXCEPT ![h] = Idle]
    /\ UNCHANGED <<gate, shutdown, session, cache, emits, history>>

-----------------------------------------------------------------------------
ServerStep ==
    \/ OpenGate
    \/ \E c \in Connections : BeginConnect(c)
    \/ \E c \in Connections : Connect(c)
    \/ \E c \in Connections : Disconnect(c)
    \/ BeginShutdown
    \/ EndDrain
    \/ CloseSockets
    \/ Tick

RequestStep(h) ==
    \/ Lookup(h)
    \/ Refuse(h)
    \/ Admit(h)
    \/ \E c \in Connections : ReservePush(h, c)
    \/ Execute(h)
    \/ Reject(h)
    \/ ReleasePush(h)
    \/ Answer(h)
    \/ Emit(h)
    \/ EmitReturns(h)
    \/ Finish(h)

Next ==
    \/ ServerStep
    \/ \E h \in Handlers, k \in Keys, content \in Contents : Receive(h, k, content)
    \/ \E h \in Handlers : RequestStep(h)

Spec == Init /\ [][Next]_vars

(* A thread that runs goes on; nobody has to send anything.                *)
FairSpec == Spec /\ \A h \in Handlers : WF_vars(RequestStep(h))

-----------------------------------------------------------------------------
(***************************************************************************)
(* Properties.                                                             *)
(***************************************************************************)
Admitted == {h \in Handlers : handler[h].admitted}

(* What the drain waits for is exactly the requests that were admitted,    *)
(* on every way out of on_message.                                         *)
ActiveIsExact == active = Cardinality(Admitted)

(* Every reservation of an emit is given back: the count of a connection   *)
(* is the number of threads that hold one for it.                          *)
EmitsBalance ==
    \A c \in Connections :
        emits[c] = Cardinality({h \in Handlers : handler[h].pc = "emitting" /\ handler[h].key[1] = c})
                   + Cardinality({h \in Handlers : handler[h].push = c})

(* A retry is only dropped while some thread still works on the request:   *)
(* no in_flight entry is left behind by a thread that ended.               *)
Works(h, k) ==
    /\ handler[h].key = k
    /\ handler[h].pc \in {"reserved", "running", "answering"}

InFlightHasWorker ==
    \A k \in Keys : cache[k].state = "in_flight" =>
        \E h \in Handlers : Works(h, k) /\ handler[h].content = cache[k].content

(* Every way out of on_message, the failing ones included, settles what    *)
(* the thread took: its admission, its reservations of emits, its entry.   *)
CountersExact == ActiveIsExact /\ EmitsBalance /\ InFlightHasWorker

(* When the drain succeeded no request takes effect any more, nor does one *)
(* before the recovery has completed.                                      *)
QuietOutsideService ==
    [][\A h \in Handlers :
        Execute(h) => gate = "ready" /\ shutdown \notin {"drained", "closed clean"}]_vars

(* The effects of one request lie TTL apart: the thread that takes effect  *)
(* finds that the last reservation that did is that old, or has outlived   *)
(* its own.                                                                *)
FirstWithinTTL(h) == since[handler[h].key] = TTL \/ handler[h].age = TTL

(* While a connection lives, a request that is sent again does not take    *)
(* effect again.                                                           *)
ExecutedOnce ==
    [][\A h \in Handlers :
        Execute(h) /\ session[handler[h].key[1]] = "open" => FirstWithinTTL(h)]_vars

(* A stored answer is what every repetition gets, as long as the           *)
(* connection lives and no thread outlived its reservation.                *)
AnswerIsKept ==
    [][\A k \in Keys \ late' :
        /\ cache[k].state = "cached" /\ cache'[k].state = "cached"
        /\ session[k[1]] = "open"
        => cache'[k].answer = cache[k].answer /\ cache'[k].content = cache[k].content]_vars

(* A repetition has no second effect and gets the first answer, across     *)
(* threads, refusals, other contents and the expiry of the entries.        *)
AnsweredOnce == ExecutedOnce /\ AnswerIsKept

(* Every reservation is answered, forgotten, or gives way to one of        *)
(* another content.                                                        *)
Reserved(k, content) == cache[k].state = "in_flight" /\ cache[k].content = content

InFlightSettles ==
    \A k \in Keys, content \in Contents : Reserved(k, content) ~> ~Reserved(k, content)

=============================================================================
