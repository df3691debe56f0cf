------------------------- MODULE Generations_proofs -------------------------
(***************************************************************************)
(* Theorems about connections and the locks of their devices.              *)
(*                                                                         *)
(* A handler owns the devices it has locked: nobody else matches, replaces *)
(* or removes them.  The invariant says which devices those are at each    *)
(* phase, that the locks are really held, and what a handler that ended a  *)
(* connection can rely on until it has replaced or removed it.             *)
(***************************************************************************)
EXTENDS Generations, FiniteSetTheorems, WellFoundedInduction, TLAPS

-----------------------------------------------------------------------------
(* What the fields of a handler say of each other: it has locked, or is to *)
(* lock, the devices that it deals with.                                   *)
HandlerOK(h) ==
    /\ h.op \in {"control", "start"} =>
          /\ h.sid \in Sids
          /\ h.about.from \in Devices /\ h.about.to \in Devices
          /\ {h.about.from, h.about.to} \subseteq h.keys
          /\ h.phase \in {"taking", "matched"}
          /\ h.op = "start" /\ h.phase = "taking" => {h.about.from, h.about.to} \subseteq h.base
    /\ h.phase = "matched" =>
          /\ h.op \in {"control", "start"}
          /\ h.about.fromSid \in Sids /\ h.about.toSid \in Sids
    /\ h.op \in {"register", "revoke"} =>
          /\ h.device \in h.keys
          /\ h.phase \in {"taking", "telling"}
          /\ h.phase = "taking" => h.device \in h.base
    /\ h.op \in {"register", "disconnect"} => h.sid \in Sids
    /\ h.op = "disconnect" /\ h.device # NoDevice =>
          /\ h.device \in h.keys
          /\ h.phase = "taking" => h.device \in h.base
    /\ h.op = "prune" => h.base \subseteq h.keys /\ h.phase \in {"taking", "leaving"}
    /\ h.op = "finish" => h.phase = "taking"
    /\ h.op = "settle" => h.phase \in {"taking", "telling"}
    /\ h.op = "settle" /\ h.phase = "telling" => h.keys = {}
    /\ h.phase \in {"taking", "matched"} => h.extra = {}

HandlersOK == \A t \in Busy : HandlerOK(thread[t])

(* A lock is held by a handler that wants it, and a handler past the taking*)
(* has all of its own.                                                     *)
LocksOK ==
    /\ \A d \in Devices : holder[d] \in Threads =>
          /\ holder[d] \in Busy
          /\ d \in thread[holder[d]].keys \cup thread[holder[d]].extra
    /\ \A t \in Busy : thread[t].phase # "taking" => thread[t].keys \subseteq Held(t)

(* A handler that does not nest has its locks from the lowest on.          *)
TakenInOrder ==
    \A t \in Busy : ~ Nests(t) => \A d \in Held(t), e \in Wanted(t) : d < e

(* What was removed, or was never made, has no name; what is routed to, or *)
(* is to be registered, was made.                                          *)
SessionsOK ==
    /\ SessionIsRouted
    /\ \A s \in Sids \ Alive : named[s] = NoDevice
    /\ \A d \in Devices : route[d] \in Sids => session[route[d]] # "fresh"
    /\ \A t \in Busy : thread[t].sid \in Sids => session[thread[t].sid] # "fresh"

(* A route to a session of another name was left by a second registration. *)
GhostIsUntied ==
    \A d \in Devices : route[d] \in Alive /\ named[route[d]] # d => route[d] \in untied

(* The connection that the handler ended keeps its name, and no handoff,   *)
(* until the handler has replaced or removed it.                           *)
EndedStays(h) ==
    /\ h.op = "disconnect" /\ h.phase # "taking" =>
          \/ h.sid \in untied
          \/ h.sid \notin Alive
          \/ /\ h.device # NoDevice
             /\ named[h.sid] = h.device
             /\ HandedOver(h.device, h.sid) = {}
    /\ h.op = "register" /\ h.phase = "telling" =>
          \/ route[h.device] = h.sid
          \/ ~ Current(h.device, route[h.device])
          \/ HandedOver(h.device, route[h.device]) = {}
    /\ h.op = "prune" /\ h.phase = "leaving" =>
          \A d \in h.base : route[d] \in Alive => HandedOver(d, route[d]) = {}

EndsOK ==
    /\ HandoffsEndWithConnection
    /\ MatchedIsCurrent
    /\ \A t \in Busy : EndedStays(thread[t])

LockInv == TypeOK /\ HandlersOK /\ LocksOK /\ TakenInOrder

IInv == LockInv /\ SessionsOK /\ GhostIsUntied /\ EndsOK

-----------------------------------------------------------------------------
(* A handler is not idle.                                                  *)
LEMMA BusyIs ==
    ASSUME TypeOK
    PROVE  /\ Idle \notin Handler
           /\ \A t \in Threads : t \in Busy <=> thread[t] \in Handler
           /\ Busy \subseteq Threads
<1>1. Idle \notin Handler
  <2>1. Idle.op = "none"
    BY DEF Idle
  <2> QED BY <2>1 DEF Handler, Ops
<1> QED BY <1>1 DEF TypeOK, Busy

(* The lowest of some devices is one of them.                              *)
LEMMA LowestIs ==
    ASSUME NEW ds \in SUBSET Devices, ds # {}
    PROVE  /\ Lowest(ds) \in ds
           /\ \A e \in ds : Lowest(ds) <= e
<1>1. ds \subseteq Nat
  BY GenerationAssumption
<1>2. PICK d \in ds : \A e \in ds : ~ (<<e, d>> \in OpToRel(<, Nat))
  BY <1>1, NatLessThanWellFounded, WFMin
<1>3. \A e \in ds : d <= e
  <2> SUFFICES ASSUME NEW e \in ds PROVE d <= e
    OBVIOUS
  <2>1. ~ (e < d)
    BY <1>1, <1>2 DEF OpToRel
  <2> QED BY <2>1, <1>1
<1> QED BY <1>3 DEF Lowest

LEMMA WantedIs ==
    ASSUME TypeOK, NEW t \in Threads
    PROVE  Wanted(t) \subseteq Devices
<1>1. CASE t \in Busy
  <2>1. thread[t] \in Handler
    BY <1>1, BusyIs
  <2>2. thread[t].keys \subseteq Devices /\ thread[t].extra \subseteq Devices
    BY <2>1 DEF Handler
  <2> QED BY <2>2, <1>1 DEF Wanted
<1>2. CASE t \notin Busy
  BY <1>2 DEF Wanted
<1> QED BY <1>1, <1>2

(* The devices of handoffs are devices.                                    *)
LEMMA PartiesAre ==
    ASSUME TypeOK
    PROVE  /\ \A hs \in SUBSET handoffs : Parties(hs) \subseteq Devices
           /\ \A op, s, d, about : Scope(op, s, d, about) \subseteq Devices
           /\ \A ds : Peers(ds) \subseteq Devices
<1>1. \A h \in handoffs : h.from \in Devices /\ h.to \in Devices
  BY DEF TypeOK, Handoff
<1>2. \A hs \in SUBSET handoffs : Parties(hs) \subseteq Devices
  BY <1>1 DEF Parties
<1>3. \A d, s : HandedOver(d, s) \in SUBSET handoffs
  BY DEF HandedOver
<1>4. ASSUME NEW op, NEW s, NEW d, NEW about PROVE Scope(op, s, d, about) \subseteq Devices
  <2>1. {h \in handoffs : h.from = about.from} \in SUBSET handoffs
    OBVIOUS
  <2> QED BY <1>2, <1>3, <2>1 DEF Scope
<1>5. ASSUME NEW ds PROVE Peers(ds) \subseteq Devices
  BY <1>2, <1>3 DEF Peers
<1> QED BY <1>2, <1>4, <1>5

-----------------------------------------------------------------------------
(* A handler at a phase, with the locks of its keys.                       *)
LEMMA AtHas ==
    ASSUME LockInv, NEW t \in Threads, NEW op, NEW phase, At(t, op, phase)
    PROVE  /\ t \in Busy /\ thread[t] \in Handler /\ HandlerOK(thread[t])
           /\ thread[t].op = op /\ thread[t].phase = phase
           /\ thread[t].keys \subseteq Held(t)
           /\ thread[t].extra \subseteq Held(t)
<1>1. t \in Busy /\ thread[t] \in Handler /\ HandlerOK(thread[t])
  BY BusyIs DEF At, LockInv, HandlersOK
<1>2. thread[t].keys \subseteq Devices
  BY <1>1 DEF Handler
<1>3. CASE phase = "taking"
  BY <1>1, <1>3 DEF At, Wanted, HandlerOK
<1>4. CASE phase # "taking"
  BY <1>1, <1>4 DEF At, Wanted, LockInv, LocksOK
<1> QED BY <1>1, <1>3, <1>4 DEF At

-----------------------------------------------------------------------------
ThreadsOK == thread \in [Threads -> Handler \cup {Idle}] /\ HandlersOK

LEMMA SetHandler ==
    ASSUME TypeOK, HandlersOK, NEW t \in Threads, NEW h \in Handler, HandlerOK(h),
           thread' = [thread EXCEPT ![t] = h]
    PROVE  ThreadsOK'
<1>1. thread' \in [Threads -> Handler \cup {Idle}]
  BY DEF TypeOK
<1>2. ASSUME NEW u \in Busy' PROVE HandlerOK(thread'[u])
  <2>1. u \in Threads /\ thread'[u] # Idle
    BY DEF Busy
  <2>2. CASE u = t
    BY <2>2 DEF TypeOK
  <2>3. CASE u # t
    <3>1. thread'[u] = thread[u]
      BY <2>3, <2>1 DEF TypeOK
    <3>2. u \in Busy
      BY <2>1, <3>1 DEF Busy
    <3> QED BY <3>1, <3>2 DEF HandlersOK
  <2> QED BY <2>2, <2>3
<1> QED BY <1>1, <1>2 DEF ThreadsOK, HandlersOK

LEMMA SetIdle ==
    ASSUME TypeOK, HandlersOK, NEW t \in Threads, thread' = [thread EXCEPT ![t] = Idle]
    PROVE  ThreadsOK'
<1>1. thread' \in [Threads -> Handler \cup {Idle}]
  BY DEF TypeOK
<1>2. ASSUME NEW u \in Busy' PROVE HandlerOK(thread'[u])
  <2>1. u \in Threads /\ thread'[u] # Idle
    BY DEF Busy
  <2>2. u # t
    BY <2>1 DEF TypeOK
  <2>3. thread'[u] = thread[u]
    BY <2>2, <2>1 DEF TypeOK
  <2>4. u \in Busy
    BY <2>1, <2>3 DEF Busy
  <2> QED BY <2>3, <2>4 DEF HandlersOK
<1> QED BY <1>1, <1>2 DEF ThreadsOK, HandlersOK

LEMMA KeepThreads ==
    ASSUME TypeOK, HandlersOK, UNCHANGED thread
    PROVE  ThreadsOK'
<1>1. Busy' = Busy
  BY DEF Busy
<1> QED BY <1>1 DEF ThreadsOK, HandlersOK, TypeOK

LEMMA BeginsOK ==
    ASSUME LockInv, NEW t \in Threads,
           NEW op \in Ops, NEW s \in Sids \cup {NoSid}, NEW d \in Devices \cup {NoDevice},
           NEW about \in About, NEW base \in SUBSET Devices, NEW peers \in SUBSET Devices,
           Begin(t, op, s, d, about, base, peers),
           op \in {"control", "start"} => /\ s \in Sids
                                        /\ about.from \in Devices /\ about.to \in Devices
                                        /\ {about.from, about.to} \subseteq base \cup peers
                                        /\ (op = "start" => {about.from, about.to} \subseteq base),
           op \in {"register", "revoke"} => d \in base,
           op \in {"register", "disconnect"} => s \in Sids,
           op = "disconnect" /\ d # NoDevice => d \in base
    PROVE  ThreadsOK'
<1> DEFINE h == [ op |-> op, sid |-> s, device |-> d, about |-> about, base |-> base,
                  keys |-> base \cup peers, extra |-> {}, phase |-> "taking", todo |-> {} ]
<1>1. h \in Handler
  BY DEF Handler, Phases
<1>2. HandlerOK(h)
  <2>1. /\ h.op = op /\ h.sid = s /\ h.device = d /\ h.about = about /\ h.base = base
        /\ h.keys = base \cup peers /\ h.extra = {} /\ h.phase = "taking"
    OBVIOUS
  <2> HIDE DEF h
  <2> QED BY <2>1 DEF HandlerOK, Ops
<1>3. thread' = [thread EXCEPT ![t] = h]
  BY DEF Begin
<1> HIDE DEF h
<1> QED BY <1>1, <1>2, <1>3, SetHandler DEF LockInv

LEMMA AboutNothing == Between(NoDevice, NoDevice) \in About
BY DEF Between, About

LEMMA ArrivesThreads ==
    ASSUME LockInv, NEW t \in Threads, Arrives(t)
    PROVE  ThreadsOK'
<1> USE DEF Ops
<1>1. ASSUME NEW s \in Sids, BeginDisconnect(t, s) PROVE ThreadsOK'
  <2>1. named[s] \in Devices \cup {NoDevice} /\ {named[s]} \ {NoDevice} \in SUBSET Devices
    BY DEF LockInv, TypeOK
  <2>2. Scope("disconnect", s, named[s], Between(NoDevice, NoDevice)) \in SUBSET Devices
    BY PartiesAre DEF LockInv
  <2>3. Begin(t, "disconnect", s, named[s], Between(NoDevice, NoDevice), {named[s]} \ {NoDevice},
              Scope("disconnect", s, named[s], Between(NoDevice, NoDevice)))
    BY <1>1 DEF BeginDisconnect
  <2> QED BY <2>1, <2>2, <2>3, AboutNothing, BeginsOK
<1>2. ASSUME NEW s \in Sids, NEW d \in Devices, BeginControl(t, s, d) PROVE ThreadsOK'
  <2>1. named[s] \in Devices
    BY <1>2 DEF BeginControl, Asks, LockInv, TypeOK
  <2>2. Begin(t, "control", s, named[s], Between(named[s], d), {}, {named[s], d})
    BY <1>2 DEF BeginControl
  <2>3. Between(named[s], d) \in About
    BY <2>1 DEF Between, About
  <2>4. Between(named[s], d).from = named[s] /\ Between(named[s], d).to = d
    BY DEF Between
  <2>5. {named[s], d} \in SUBSET Devices /\ {} \in SUBSET Devices /\ {} \cup {named[s], d} = {named[s], d}
    BY <2>1
  <2>6. {named[s], d} \subseteq {} \cup {named[s], d}
    OBVIOUS
  <2> QED BY <2>1, <2>2, <2>3, <2>4, <2>5, <2>6, BeginsOK
<1>3. ASSUME NEW s \in Sids, NEW d \in Devices, BeginRegister(t, s, d) PROVE ThreadsOK'
  <2>1. Begin(t, "register", s, d, Between(NoDevice, NoDevice), {d},
              Scope("register", s, d, Between(NoDevice, NoDevice)))
    BY <1>3 DEF BeginRegister
  <2>2. Scope("register", s, d, Between(NoDevice, NoDevice)) \in SUBSET Devices
    BY PartiesAre DEF LockInv
  <2> QED BY <2>1, <2>2, AboutNothing, BeginsOK
<1>4. ASSUME NEW s \in Sids, NEW d \in Devices, NEW e \in Devices, BeginStart(t, s, d, e)
      PROVE  ThreadsOK'
  <2>1. named[s] \in Devices
    BY <1>4 DEF BeginStart, Asks, LockInv, TypeOK
  <2>2. Begin(t, "start", s, named[s], Between(d, e), {named[s], d, e},
              Scope("start", s, named[s], Between(d, e)))
    BY <1>4 DEF BeginStart
  <2>3. Between(d, e) \in About /\ Between(d, e).from = d /\ Between(d, e).to = e
    BY DEF Between, About
  <2>4. Scope("start", s, named[s], Between(d, e)) \in SUBSET Devices
    BY PartiesAre DEF LockInv
  <2> QED BY <2>1, <2>2, <2>3, <2>4, BeginsOK
<1>5. ASSUME NEW s \in Sids, NEW h \in handoffs, BeginFinish(t, s, h) PROVE ThreadsOK'
  <2>1. named[s] \in Devices
    BY <1>5 DEF BeginFinish, Asks, LockInv, TypeOK
  <2>2. h \in Handoff
    BY DEF LockInv, TypeOK
  <2>3. h \in About /\ h.from \in Devices /\ h.to \in Devices
    BY <2>2 DEF Handoff, About
  <2>4. Begin(t, "finish", NoSid, NoDevice, h, {}, {named[s], h.from, h.to})
    BY <1>5 DEF BeginFinish
  <2>5. {named[s], h.from, h.to} \in SUBSET Devices /\ {} \in SUBSET Devices
    BY <2>1, <2>3
  <2> QED BY <2>3, <2>4, <2>5, BeginsOK
<1>6. ASSUME NEW c \in controls, BeginSettle(t, c) PROVE ThreadsOK'
  <2>1. c \in Control
    BY DEF LockInv, TypeOK
  <2>2. c \in About /\ c.from \in Devices /\ c.to \in Devices
    BY <2>1 DEF Control, About
  <2>3. Begin(t, "settle", NoSid, NoDevice, c, {}, {c.from, c.to})
    BY <1>6 DEF BeginSettle
  <2>4. {c.from, c.to} \in SUBSET Devices /\ {} \in SUBSET Devices
    BY <2>2
  <2> QED BY <2>2, <2>3, <2>4, BeginsOK
<1>7. ASSUME NEW d \in Devices, BeginRevoke(t, d) PROVE ThreadsOK'
  <2>1. Begin(t, "revoke", NoSid, d, Between(NoDevice, NoDevice), {d},
              Scope("revoke", NoSid, d, Between(NoDevice, NoDevice)))
    BY <1>7 DEF BeginRevoke
  <2>2. Scope("revoke", NoSid, d, Between(NoDevice, NoDevice)) \in SUBSET Devices
    BY PartiesAre DEF LockInv
  <2> QED BY <2>1, <2>2, AboutNothing, BeginsOK
<1>8. CASE BeginPrune(t)
  <2>1. Begin(t, "prune", NoSid, NoDevice, Between(NoDevice, NoDevice), Observed, Peers(Observed))
    BY <1>8 DEF BeginPrune
  <2>2. Observed \in SUBSET Devices /\ Peers(Observed) \in SUBSET Devices
    BY PartiesAre DEF Observed, LockInv, TypeOK
  <2> QED BY <2>1, <2>2, AboutNothing, BeginsOK
<1> QED BY <1>1, <1>2, <1>3, <1>4, <1>5, <1>6, <1>7, <1>8 DEF Arrives

(* A handler is done with telling, or with removing.                       *)
LEMMA TellingOK ==
    ASSUME LockInv, NEW t \in Threads, NEW op \in {"disconnect", "register", "revoke"},
           At(t, op, "taking"), NEW settled \in SUBSET controls, Telling(t, settled)
    PROVE  /\ ThreadsOK'
           /\ thread' = [thread EXCEPT ![t] = thread'[t]]
           /\ thread'[t] \in Handler /\ thread'[t].op = op /\ thread'[t].phase = "telling"
           /\ thread'[t].keys = thread[t].keys /\ thread'[t].extra = {}
           /\ thread'[t].sid = thread[t].sid /\ thread'[t].device = thread[t].device
<1> DEFINE todo == {{c.from, c.to} : c \in settled}
           h == [thread[t] EXCEPT !.phase = "telling", !.base = {}, !.todo = todo]
<1>1. /\ t \in Busy /\ thread[t] \in Handler /\ HandlerOK(thread[t])
      /\ thread[t].op = op /\ thread[t].phase = "taking"
  BY AtHas
<1>2. todo \in SUBSET SUBSET Devices
  BY DEF LockInv, TypeOK, Control
<1>3. thread' = [thread EXCEPT ![t] = h]
  BY <1>1 DEF Telling, LockInv, TypeOK
<1> HIDE DEF todo
<1>4. /\ h.op = op /\ h.phase = "telling" /\ h.base = {} /\ h.keys = thread[t].keys
      /\ h.extra = thread[t].extra /\ h.sid = thread[t].sid /\ h.device = thread[t].device
      /\ h.about = thread[t].about
  BY <1>1 DEF Handler
<1>5. h \in Handler
  BY <1>1, <1>2 DEF Handler, Phases
<1> HIDE DEF h
<1>6. HandlerOK(h)
  BY <1>1, <1>4 DEF HandlerOK
<1>7. thread'[t] = h
  BY <1>3 DEF LockInv, TypeOK
<1>8. thread[t].extra = {}
  BY <1>1 DEF HandlerOK
<1> QED BY <1>1, <1>3, <1>4, <1>5, <1>6, <1>7, <1>8, SetHandler DEF LockInv

LEMMA RunsThreads ==
    ASSUME LockInv, NEW t \in Threads, Runs(t)
    PROVE  ThreadsOK'
<1>1. CASE Take(t)
  BY <1>1, KeepThreads DEF Take, LockInv
<1>2. ASSUME Return(t) PROVE ThreadsOK'
  BY <1>2, SetIdle DEF Return, LockInv
<1>3. CASE StartOver(t)
  <2> DEFINE h == [thread[t] EXCEPT !.base = @ \cup ScopeOf(t),
                                    !.keys = thread[t].base \cup ScopeOf(t)]
  <2>1. PICK op \in {"start", "register", "revoke", "disconnect"} : At(t, op, "taking")
    BY <1>3 DEF StartOver
  <2>2. thread[t] \in Handler /\ HandlerOK(thread[t])
        /\ thread[t].op = op /\ thread[t].phase = "taking"
    BY <2>1, AtHas
  <2>3. thread' = [thread EXCEPT ![t] = h]
    BY <1>3, <2>2 DEF StartOver, LockInv, TypeOK
  <2>4. ScopeOf(t) \in SUBSET Devices
    BY PartiesAre DEF ScopeOf, LockInv
  <2>5. /\ h.op = op /\ h.phase = "taking" /\ h.base = thread[t].base \cup ScopeOf(t)
        /\ h.keys = thread[t].base \cup ScopeOf(t)
        /\ h.extra = thread[t].extra /\ h.sid = thread[t].sid /\ h.device = thread[t].device
        /\ h.about = thread[t].about
    BY <2>2 DEF Handler
  <2>6. h \in Handler
    BY <2>2, <2>4 DEF Handler
  <2> HIDE DEF h
  <2>7. HandlerOK(h)
    BY <2>2, <2>5 DEF HandlerOK
  <2> QED BY <2>3, <2>6, <2>7, SetHandler DEF LockInv
<1>4. CASE PruneAgain(t)
  <2> DEFINE h == [thread[t] EXCEPT !.base = Observed, !.keys = Observed \cup Peers(Observed)]
  <2>2. thread[t] \in Handler /\ HandlerOK(thread[t])
        /\ thread[t].op = "prune" /\ thread[t].phase = "taking"
    BY <1>4, AtHas DEF PruneAgain
  <2>3. thread' = [thread EXCEPT ![t] = h]
    BY <1>4, <2>2 DEF PruneAgain, LockInv, TypeOK
  <2>4. Peers(Observed) \in SUBSET Devices /\ Observed \in SUBSET Devices
    BY PartiesAre DEF Observed, LockInv, TypeOK
  <2>5. /\ h.op = "prune" /\ h.phase = "taking" /\ h.base = Observed
        /\ h.keys = Observed \cup Peers(Observed)
        /\ h.extra = thread[t].extra
    BY <2>2 DEF Handler
  <2>6. h \in Handler
    BY <2>2, <2>4 DEF Handler
  <2> HIDE DEF h
  <2>7. HandlerOK(h)
    BY <2>2, <2>5 DEF HandlerOK
  <2> QED BY <2>3, <2>6, <2>7, SetHandler DEF LockInv
<1>5. CASE Match(t)
  <2>1. PICK op \in {"control", "start"} : At(t, op, "taking")
    BY <1>5 DEF Match, Inside
  <2>2. thread[t] \in Handler /\ HandlerOK(thread[t])
        /\ thread[t].op = op /\ thread[t].phase = "taking"
    BY <2>1, AtHas
  <2>3. CASE Matches(t) /\ ~ Return(t)
    <3> DEFINE a == [thread[t].about EXCEPT !.fromSid = route[thread[t].about.from],
                                            !.toSid = route[thread[t].about.to]]
               h == [thread[t] EXCEPT !.phase = "matched", !.base = {}, !.about = a]
    <3>1. thread' = [thread EXCEPT ![t] = h]
      <4>1. thread' = [thread EXCEPT ![t].phase = "matched",
                                     ![t].base = {},
                                     ![t].about.fromSid = route[thread[t].about.from],
                                     ![t].about.toSid = route[thread[t].about.to]]
        BY <1>5, <2>3 DEF Match
      <4>2. thread \in [Threads -> Handler \cup {Idle}] /\ thread[t] \in Handler
        BY <2>2 DEF LockInv, TypeOK
      <4> QED BY <4>1, <4>2 DEF Handler
    <3>2. /\ thread[t].about.from \in Devices /\ thread[t].about.to \in Devices
          /\ thread[t].about \in About
      BY <2>2 DEF HandlerOK, Handler
    <3>3. route[thread[t].about.from] \in Sids /\ route[thread[t].about.to] \in Sids
      BY <2>3 DEF Matches, Current, Alive
    <3>4. /\ a \in About /\ a.from = thread[t].about.from /\ a.to = thread[t].about.to
          /\ a.fromSid \in Sids /\ a.toSid \in Sids
      BY <3>2, <3>3 DEF About
    <3> HIDE DEF a
    <3>5. /\ h.op = op /\ h.phase = "matched" /\ h.base = {} /\ h.keys = thread[t].keys
          /\ h.extra = thread[t].extra /\ h.sid = thread[t].sid /\ h.about = a
      BY <2>2 DEF Handler
    <3>6. h \in Handler
      BY <2>2, <3>4 DEF Handler, Phases
    <3> HIDE DEF h
    <3>7. HandlerOK(h)
      BY <2>2, <3>4, <3>5 DEF HandlerOK
    <3> QED BY <3>1, <3>6, <3>7, SetHandler DEF LockInv
  <2> QED BY <1>2, <1>5, <2>3 DEF Match
<1>6. CASE SettleControl(t)
  <2>1. thread[t] \in Handler /\ HandlerOK(thread[t])
        /\ thread[t].op = "settle" /\ thread[t].phase = "taking"
    BY <1>6, AtHas DEF SettleControl, Inside
  <2>2. CASE thread' = [thread EXCEPT ![t] = Idle]
    BY <2>2, SetIdle DEF LockInv
  <2>3. CASE thread' # [thread EXCEPT ![t] = Idle]
    <3> DEFINE c == thread[t].about
               pair == {c.from, c.to}
               h == [thread[t] EXCEPT !.phase = "telling", !.about = Between(NoDevice, NoDevice),
                                      !.keys = {}, !.todo = {pair}]
    <3>1. thread' = [thread EXCEPT ![t] = h] /\ c \in controls
      BY <1>6, <2>1, <2>3 DEF SettleControl, LockInv, TypeOK
    <3>2. pair \in SUBSET Devices
      BY <3>1 DEF LockInv, TypeOK, Control
    <3> HIDE DEF pair, c
    <3>3. /\ h.op = "settle" /\ h.phase = "telling" /\ h.base = thread[t].base /\ h.keys = {}
          /\ h.extra = thread[t].extra
      BY <2>1 DEF Handler
    <3>4. h \in Handler
      <4>1. {pair} \in SUBSET SUBSET Devices
        BY <3>2
      <4> QED BY <2>1, <4>1, AboutNothing DEF Handler, Phases
    <3> HIDE DEF h
    <3>5. HandlerOK(h)
      BY <2>1, <3>3 DEF HandlerOK
    <3> QED BY <3>1, <3>4, <3>5, SetHandler DEF LockInv
  <2> QED BY <2>2, <2>3
<1>7. CASE Tell(t)
  <2>1. thread[t] \in Handler /\ HandlerOK(thread[t]) /\ thread[t].phase = "telling"
    BY <1>7, BusyIs DEF Tell, LockInv, HandlersOK
  <2>2. ASSUME NEW pair \in thread[t].todo,
               thread' = [thread EXCEPT ![t].extra = pair, ![t].todo = @ \ {pair}]
        PROVE  ThreadsOK'
    <3> DEFINE h == [thread[t] EXCEPT !.extra = pair, !.todo = @ \ {pair}]
    <3>1. thread' = [thread EXCEPT ![t] = h]
      BY <2>1, <2>2 DEF LockInv, TypeOK
    <3>2. /\ h.op = thread[t].op /\ h.phase = "telling" /\ h.base = thread[t].base
          /\ h.keys = thread[t].keys /\ h.sid = thread[t].sid /\ h.device = thread[t].device
          /\ h.about = thread[t].about
      BY <2>1 DEF Handler
    <3>3. h \in Handler
      BY <2>1 DEF Handler
    <3> HIDE DEF h
    <3>4. HandlerOK(h)
      BY <2>1, <3>2 DEF HandlerOK
    <3> QED BY <3>1, <3>3, <3>4, SetHandler DEF LockInv
  <2>3. ASSUME thread' = [thread EXCEPT ![t].extra = {}] PROVE ThreadsOK'
    <3> DEFINE h == [thread[t] EXCEPT !.extra = {}]
    <3>1. thread' = [thread EXCEPT ![t] = h]
      BY <2>1, <2>3 DEF LockInv, TypeOK
    <3>2. /\ h.op = thread[t].op /\ h.phase = "telling" /\ h.base = thread[t].base
          /\ h.keys = thread[t].keys /\ h.sid = thread[t].sid /\ h.device = thread[t].device
          /\ h.about = thread[t].about
      BY <2>1 DEF Handler
    <3>3. h \in Handler
      BY <2>1 DEF Handler
    <3> HIDE DEF h
    <3>4. HandlerOK(h)
      BY <2>1, <3>2 DEF HandlerOK
    <3> QED BY <3>1, <3>3, <3>4, SetHandler DEF LockInv
  <2> QED BY <1>7, <2>2, <2>3 DEF Tell
<1>8. CASE BeginUnregister(t)
  <2> DEFINE h == [thread[t] EXCEPT !.phase = "leaving", !.extra = LockOf(thread[t].sid)]
  <2>1. thread[t] \in Handler /\ HandlerOK(thread[t])
        /\ thread[t].op = "disconnect" /\ thread[t].phase = "telling"
    BY <1>8, AtHas DEF BeginUnregister, Told
  <2>2. LockOf(thread[t].sid) \in SUBSET Devices
    BY <2>1 DEF LockOf, HandlerOK, LockInv, TypeOK
  <2>3. thread' = [thread EXCEPT ![t] = h]
    BY <1>8, <2>1 DEF BeginUnregister, LockInv, TypeOK
  <2>4. /\ h.op = "disconnect" /\ h.phase = "leaving" /\ h.base = thread[t].base
        /\ h.keys = thread[t].keys /\ h.sid = thread[t].sid /\ h.device = thread[t].device
    BY <2>1 DEF Handler
  <2>5. h \in Handler
    BY <2>1, <2>2 DEF Handler, Phases
  <2> HIDE DEF h
  <2>6. HandlerOK(h)
    BY <2>1, <2>4 DEF HandlerOK
  <2> QED BY <2>3, <2>5, <2>6, SetHandler DEF LockInv
<1>9. CASE Prune(t)
  <2> DEFINE h == [thread[t] EXCEPT !.base = StillSilent(t), !.phase = "leaving"]
  <2>1. thread[t] \in Handler /\ HandlerOK(thread[t])
        /\ thread[t].op = "prune" /\ thread[t].phase = "taking"
    BY <1>9, AtHas DEF Prune
  <2>2. StillSilent(t) \in SUBSET Devices /\ StillSilent(t) \subseteq thread[t].base
    BY DEF StillSilent, Observed, LockInv, TypeOK
  <2>3. thread' = [thread EXCEPT ![t] = h]
    BY <1>9, <2>1 DEF Prune, LockInv, TypeOK
  <2>4. /\ h.op = "prune" /\ h.phase = "leaving" /\ h.base = StillSilent(t)
        /\ h.keys = thread[t].keys
    BY <2>1 DEF Handler
  <2>5. h \in Handler
    BY <2>1, <2>2 DEF Handler, Phases
  <2> HIDE DEF h
  <2>6. HandlerOK(h)
    BY <2>1, <2>2, <2>4 DEF HandlerOK
  <2> QED BY <2>3, <2>5, <2>6, SetHandler DEF LockInv
<1>10. ASSUME NEW d, NEW s PROVE RoutedTo(d, s) \in SUBSET controls /\ {} \in SUBSET controls
  BY DEF RoutedTo
<1>11. CASE Disconnect(t)
  BY <1>10, <1>11, TellingOK DEF Disconnect, Inside
<1>12. CASE Replace(t)
  BY <1>10, <1>12, TellingOK DEF Replace, Inside
<1>13. CASE Revoke(t)
  BY <1>2, <1>10, <1>13, TellingOK DEF Revoke, Inside
<1>14. CASE Dispatch(t) \/ FinishHandoff(t) \/ ToldAll(t) \/ DisconnectFails(t) \/ Unregister(t)
            \/ RegisterClient(t) \/ RemoveClients(t)
  BY <1>2, <1>14 DEF Dispatch, FinishHandoff, ToldAll, DisconnectFails, Unregister, RegisterClient,
                    RemoveClients
<1> QED BY <1>1, <1>3, <1>4, <1>5, <1>6, <1>7, <1>8, <1>9, <1>11, <1>12, <1>13, <1>14 DEF Runs

-----------------------------------------------------------------------------
(* A step of one thread leaves the locks of the others alone.              *)
Mine(t) ==
    /\ thread' = [thread EXCEPT ![t] = thread'[t]]
    /\ holder' \in [Devices -> Threads \cup {NoThread}]
    /\ \A d \in Devices : \/ holder'[d] = holder[d]
                          \/ holder[d] = t /\ holder'[d] = NoThread
                          \/ holder[d] = NoThread /\ holder'[d] = t

LEMMA LockStep ==
    ASSUME LockInv, NEW t \in Threads, Mine(t),
           Held(t)' # {} => t \in Busy',
           t \in Busy' => /\ Held(t)' \subseteq thread'[t].keys \cup thread'[t].extra
                          /\ thread'[t].phase # "taking" => thread'[t].keys \subseteq Held(t)'
                          /\ ~ Nests(t)' => \A d \in Held(t)', e \in Wanted(t)' : d < e
    PROVE  LocksOK' /\ TakenInOrder'
<1>1. ASSUME NEW u \in Threads, u # t
      PROVE  /\ thread'[u] = thread[u] /\ (u \in Busy <=> u \in Busy') /\ Held(u)' = Held(u)
             /\ Wanted(u)' = Wanted(u) /\ Nests(u)' = Nests(u)
  <2>1. thread'[u] = thread[u]
    BY <1>1 DEF Mine, LockInv, TypeOK
  <2>2. u \in Busy <=> u \in Busy'
    BY <2>1 DEF Busy
  <2>3. \A d \in Devices : holder'[d] = u <=> holder[d] = u
    BY <1>1, GenerationAssumption DEF Mine
  <2>4. Held(u)' = Held(u)
    BY <2>3 DEF Held
  <2>5. Wanted(u)' = Wanted(u)
    BY <2>1, <2>2, <2>4 DEF Wanted
  <2>6. Nests(u)' = Nests(u)
    BY <2>1, <2>2 DEF Nests
  <2> QED BY <2>1, <2>2, <2>4, <2>5, <2>6
<1>2. ASSUME NEW d \in Devices, holder'[d] \in Threads
      PROVE  holder'[d] \in Busy' /\ d \in thread'[holder'[d]].keys \cup thread'[holder'[d]].extra
  <2>1. CASE holder'[d] = t
    <3>1. d \in Held(t)'
      BY <2>1 DEF Held
    <3> QED BY <2>1, <3>1
  <2>2. CASE holder'[d] # t
    <3>1. holder'[d] = holder[d]
      BY <1>2, <2>2, GenerationAssumption DEF Mine
    <3>2. holder[d] \in Busy /\ d \in thread[holder[d]].keys \cup thread[holder[d]].extra
      BY <1>2, <3>1 DEF LockInv, LocksOK
    <3> QED BY <1>1, <1>2, <2>2, <3>1, <3>2
  <2> QED BY <2>1, <2>2
<1>3. ASSUME NEW u \in Busy', thread'[u].phase # "taking" PROVE thread'[u].keys \subseteq Held(u)'
  <2>1. CASE u = t
    BY <1>3, <2>1
  <2>2. CASE u # t
    <3>1. u \in Threads
      BY DEF Busy
    <3> QED BY <1>1, <1>3, <2>2, <3>1 DEF LockInv, LocksOK
  <2> QED BY <2>1, <2>2
<1>4. ASSUME NEW u \in Busy', ~ Nests(u)'
      PROVE  \A d \in Held(u)', e \in Wanted(u)' : d < e
  <2>1. CASE u = t
    BY <1>4, <2>1
  <2>2. CASE u # t
    <3>1. u \in Threads
      BY DEF Busy
    <3>2. u \in Busy /\ ~ Nests(u) /\ Held(u)' = Held(u) /\ Wanted(u)' = Wanted(u)
      BY <1>1, <1>4, <2>2, <3>1
    <3> QED BY <3>2 DEF LockInv, TakenInOrder
  <2> QED BY <2>1, <2>2
<1>5. LocksOK'
  BY <1>2, <1>3 DEF LocksOK
<1>6. TakenInOrder'
  BY <1>4 DEF TakenInOrder
<1> QED BY <1>5, <1>6

(* Nothing is held by an idle thread.                                      *)
LEMMA IdleHoldsNothing ==
    ASSUME LockInv, NEW t \in Threads, t \notin Busy
    PROVE  Held(t) = {}
BY DEF Held, LockInv, LocksOK

LEMMA HolderKept ==
    ASSUME LockInv, NEW t, UNCHANGED holder
    PROVE  Held(t)' = Held(t)
BY DEF Held

LEMMA HolderLetGo ==
    ASSUME LockInv, NEW t \in Threads, NEW kept, holder' = LetGo(t, kept)
    PROVE  /\ Held(t)' = Held(t) \cap kept
           /\ thread' = [thread EXCEPT ![t] = thread'[t]] => Mine(t)
<1>1. \A d \in Devices : holder'[d] = IF holder[d] = t /\ d \notin kept THEN NoThread ELSE holder[d]
  BY DEF LetGo
<1>2. Held(t)' = Held(t) \cap kept
  BY <1>1, GenerationAssumption DEF Held
<1>3. holder' \in [Devices -> Threads \cup {NoThread}]
  BY DEF LetGo, LockInv, TypeOK
<1> QED BY <1>1, <1>2, <1>3 DEF Mine

LEMMA HolderSame ==
    ASSUME LockInv, NEW t, UNCHANGED holder, thread' = [thread EXCEPT ![t] = thread'[t]]
    PROVE  Mine(t)
BY DEF Mine, LockInv, TypeOK

(* A handler begins without locks.                                         *)
LEMMA BeginLocks ==
    ASSUME LockInv, NEW t \in Threads, thread[t] = Idle, UNCHANGED holder,
           thread' = [thread EXCEPT ![t] = thread'[t]], thread'[t].phase = "taking"
    PROVE  LocksOK' /\ TakenInOrder' /\ holder' \in [Devices -> Threads \cup {NoThread}]
<1>1. t \notin Busy
  BY DEF Busy
<1>2. Held(t)' = {}
  BY <1>1, IdleHoldsNothing, HolderKept
<1>3. Mine(t)
  BY HolderSame
<1> QED BY <1>2, <1>3, LockStep DEF Mine

LEMMA ArrivesLocks ==
    ASSUME LockInv, NEW t \in Threads, Arrives(t)
    PROVE  LocksOK' /\ TakenInOrder' /\ holder' \in [Devices -> Threads \cup {NoThread}]
<1>1. ASSUME NEW op, NEW s, NEW d, NEW about, NEW base, NEW peers, UNCHANGED holder,
             Begin(t, op, s, d, about, base, peers)
      PROVE  LocksOK' /\ TakenInOrder' /\ holder' \in [Devices -> Threads \cup {NoThread}]
  <2> DEFINE h == [ op |-> op, sid |-> s, device |-> d, about |-> about, base |-> base,
                    keys |-> base \cup peers, extra |-> {}, phase |-> "taking", todo |-> {} ]
  <2>1. thread' = [thread EXCEPT ![t] = h] /\ thread[t] = Idle
    BY <1>1 DEF Begin
  <2>2. h.phase = "taking"
    OBVIOUS
  <2> HIDE DEF h
  <2>3. thread'[t] = h
    BY <2>1 DEF LockInv, TypeOK
  <2> QED BY <1>1, <2>1, <2>2, <2>3, BeginLocks
<1> QED BY <1>1 DEF Arrives, BeginDisconnect, BeginControl, BeginRegister, BeginStart, BeginFinish,
                   BeginSettle, BeginRevoke, BeginPrune

(* A handler that ends, or begins again, holds nothing any more.           *)
LEMMA FreeLocks ==
    ASSUME LockInv, NEW t \in Threads, holder' = LetGo(t, {}),
           thread' = [thread EXCEPT ![t] = thread'[t]],
           t \in Busy' => thread'[t].phase = "taking" \/ thread'[t].keys = {}
    PROVE  LocksOK' /\ TakenInOrder' /\ holder' \in [Devices -> Threads \cup {NoThread}]
<1>1. Held(t)' = {} /\ Mine(t)
  BY HolderLetGo
<1> QED BY <1>1, LockStep DEF Mine

(* A handler that goes on keeps the locks of its devices.                  *)
LEMMA GoOnLocks ==
    ASSUME LockInv, NEW t \in Threads, t \in Busy, UNCHANGED holder,
           thread' = [thread EXCEPT ![t] = thread'[t]], thread'[t] # Idle,
           thread[t].extra = {}, thread'[t].keys = thread[t].keys,
           thread'[t].phase # "taking", thread[t].keys \subseteq Held(t)
    PROVE  LocksOK' /\ TakenInOrder' /\ holder' \in [Devices -> Threads \cup {NoThread}]
<1>1. Held(t)' = Held(t) /\ Mine(t)
  BY HolderKept, HolderSame
<1>2. Held(t) \subseteq thread[t].keys
  BY DEF Held, LockInv, LocksOK
<1>3. t \in Busy'
  BY DEF Busy
<1>4. ~ Nests(t)' => thread'[t].keys = {}
  BY <1>3 DEF Nests
<1>5. ~ Nests(t)' => Held(t)' = {}
  BY <1>1, <1>2, <1>4
<1>6. Held(t)' \subseteq thread'[t].keys \cup thread'[t].extra /\ thread'[t].keys \subseteq Held(t)'
  BY <1>1, <1>2
<1> QED BY <1>1, <1>3, <1>5, <1>6, LockStep DEF Mine

LEMMA TakeLocks ==
    ASSUME LockInv, NEW t \in Threads, Take(t)
    PROVE  LocksOK' /\ TakenInOrder' /\ holder' \in [Devices -> Threads \cup {NoThread}]
<1> DEFINE d == Lowest(Wanted(t))
<1>1. Wanted(t) \in SUBSET Devices
  BY WantedIs DEF LockInv
<1>2. d \in Wanted(t) /\ \A e \in Wanted(t) : d <= e
  BY <1>1, LowestIs DEF Take
<1>3. UNCHANGED thread /\ holder' = [holder EXCEPT ![d] = t] /\ holder[d] = NoThread
  BY DEF Take
<1> HIDE DEF d
<1>4. d \in Devices
  BY <1>1, <1>2
<1>5. Mine(t)
  BY <1>3, <1>4 DEF Mine, LockInv, TypeOK
<1>6. t \in Busy /\ t \in Busy'
  BY <1>2, <1>3 DEF Wanted, Busy
<1>7. Held(t)' = Held(t) \cup {d}
  BY <1>3, <1>4 DEF Held, LockInv, TypeOK
<1>8. Wanted(t)' = Wanted(t) \ {d}
  BY <1>3, <1>6, <1>7 DEF Wanted
<1>9. d \in thread[t].keys \cup thread[t].extra
  BY <1>2, <1>6 DEF Wanted
<1>10. Held(t)' \subseteq thread'[t].keys \cup thread'[t].extra
  BY <1>3, <1>7, <1>9 DEF Held, LockInv, LocksOK
<1>11. thread'[t].phase # "taking" => thread'[t].keys \subseteq Held(t)'
  BY <1>3, <1>6, <1>7 DEF LockInv, LocksOK
<1>12. ASSUME ~ Nests(t)', NEW x \in Held(t)', NEW e \in Wanted(t)' PROVE x < e
  <2>1. ~ Nests(t)
    BY <1>3, <1>6, <1>12 DEF Nests
  <2>2. e \in Wanted(t) /\ e # d /\ e \in Nat /\ d \in Nat
    BY <1>1, <1>2, <1>8, GenerationAssumption
  <2>3. CASE x = d
    BY <1>2, <2>2, <2>3
  <2>4. CASE x \in Held(t)
    BY <1>6, <2>1, <2>2, <2>4 DEF LockInv, TakenInOrder
  <2> QED BY <1>7, <2>3, <2>4
<1> QED BY <1>5, <1>6, <1>10, <1>11, <1>12, LockStep DEF Mine

LEMMA RunsLocks ==
    ASSUME LockInv, NEW t \in Threads, Runs(t)
    PROVE  LocksOK' /\ TakenInOrder' /\ holder' \in [Devices -> Threads \cup {NoThread}]
<1> DEFINE Goal == LocksOK' /\ TakenInOrder' /\ holder' \in [Devices -> Threads \cup {NoThread}]
<1>0. thread \in [Threads -> Handler \cup {Idle}] /\ (t \in Busy => thread[t] \in Handler)
  BY BusyIs DEF LockInv, TypeOK
<1>1. CASE Take(t)
  BY <1>1, TakeLocks
<1>2. ASSUME Return(t) PROVE Goal
  <2>1. thread'[t] = Idle /\ t \notin Busy'
    BY <1>0, <1>2 DEF Return, Busy
  <2> QED BY <1>2, <2>1, FreeLocks DEF Return
<1>3. CASE StartOver(t)
  <2>1. t \in Busy /\ thread[t].phase = "taking"
    BY <1>3 DEF StartOver, At
  <2>2. thread'[t].phase = "taking" /\ thread' = [thread EXCEPT ![t] = thread'[t]]
    BY <1>0, <1>3, <2>1 DEF StartOver, Handler
  <2> QED BY <1>3, <2>2, FreeLocks DEF StartOver
<1>4. CASE PruneAgain(t)
  <2>1. t \in Busy /\ thread[t].phase = "taking"
    BY <1>4 DEF PruneAgain, At
  <2>2. thread'[t].phase = "taking" /\ thread' = [thread EXCEPT ![t] = thread'[t]]
    BY <1>0, <1>4, <2>1 DEF PruneAgain, Handler
  <2> QED BY <1>4, <2>2, FreeLocks DEF PruneAgain
<1>5. CASE Match(t)
  <2>1. PICK op \in {"control", "start"} : At(t, op, "taking")
    BY <1>5 DEF Match, Inside
  <2>2. /\ t \in Busy /\ thread[t].extra = {} /\ thread[t].keys \subseteq Held(t)
    BY <2>1, AtHas DEF HandlerOK
  <2>3. ASSUME ~ Return(t)
        PROVE  /\ UNCHANGED holder /\ thread' = [thread EXCEPT ![t] = thread'[t]]
               /\ thread'[t].phase = "matched" /\ thread'[t].keys = thread[t].keys
               /\ thread'[t] # Idle
    <3>0. UNCHANGED holder
      BY <1>5, <2>3 DEF Match
    <3>1. thread' = [thread EXCEPT ![t].phase = "matched",
                                   ![t].base = {},
                                   ![t].about.fromSid = route[thread[t].about.from],
                                   ![t].about.toSid = route[thread[t].about.to]]
      BY <1>5, <2>3 DEF Match
    <3>2. thread'[t].phase = "matched" /\ thread'[t].keys = thread[t].keys
          /\ thread'[t].op = thread[t].op /\ thread' = [thread EXCEPT ![t] = thread'[t]]
      BY <1>0, <2>2, <3>1 DEF Handler
    <3>3. thread[t].op \in Ops /\ Idle.op \notin Ops
      BY <1>0, <2>2 DEF Handler, Idle, Ops
    <3>4. thread'[t] # Idle
      BY <3>2, <3>3
    <3> QED BY <3>0, <3>2, <3>4
  <2> QED BY <1>2, <2>2, <2>3, GoOnLocks
<1>6. CASE SettleControl(t)
  <2>1. t \in Busy
    BY <1>6 DEF SettleControl, Inside, At
  <2>2. /\ thread' = [thread EXCEPT ![t] = thread'[t]]
        /\ thread'[t] = Idle \/ thread'[t].keys = {}
    BY <1>0, <1>6, <2>1 DEF SettleControl, Handler
  <2>3. t \in Busy' => thread'[t].keys = {}
    BY <2>2 DEF Busy
  <2> QED BY <1>6, <2>2, <2>3, FreeLocks DEF SettleControl
<1>7. CASE Tell(t)
  <2>1. /\ t \in Busy /\ thread[t] \in Handler /\ thread[t].phase = "telling"
        /\ thread[t].keys \subseteq Held(t)
    BY <1>0, <1>7 DEF Tell, LockInv, LocksOK
  <2>2. Idle.op \notin Ops /\ thread[t].op \in Ops
    BY <2>1 DEF Handler, Idle, Ops
  <2>3. CASE thread[t].extra = {}
    <3>1. UNCHANGED holder /\ thread' = [thread EXCEPT ![t] = thread'[t]]
          /\ thread'[t].keys = thread[t].keys /\ thread'[t].phase = "telling"
          /\ thread'[t].op = thread[t].op
      <4>1. UNCHANGED holder
            /\ \E pair \in thread[t].todo :
                  thread' = [thread EXCEPT ![t].extra = pair, ![t].todo = @ \ {pair}]
        BY <1>7, <2>3 DEF Tell
      <4> QED BY <1>0, <2>1, <4>1 DEF Handler
    <3>2. thread'[t] # Idle
      BY <2>2, <3>1
    <3> QED BY <2>1, <2>3, <3>1, <3>2, GoOnLocks
  <2>4. CASE thread[t].extra # {}
    <3>1. /\ thread' = [thread EXCEPT ![t] = thread'[t]]
          /\ thread'[t].keys = thread[t].keys /\ thread'[t].phase = "telling"
          /\ thread'[t].op = thread[t].op /\ thread'[t].extra = {}
          /\ holder' = LetGo(t, thread[t].keys)
      BY <1>0, <1>7, <2>1, <2>4 DEF Tell, Handler
    <3>2. Held(t)' = Held(t) \cap thread[t].keys /\ Mine(t)
      BY <3>1, HolderLetGo
    <3>3. t \in Busy'
      BY <2>2, <3>1 DEF Busy
    <3>4. ~ Nests(t)' => thread'[t].keys = {}
      BY <3>1, <3>3 DEF Nests
    <3>5. ~ Nests(t)' => Held(t)' = {}
      BY <3>1, <3>2, <3>4
    <3>6. Held(t)' \subseteq thread'[t].keys /\ thread'[t].keys \subseteq Held(t)'
      BY <2>1, <3>1, <3>2
    <3> QED BY <3>2, <3>3, <3>5, <3>6, LockStep DEF Mine
  <2> QED BY <2>3, <2>4
<1>8. CASE BeginUnregister(t)
  <2>1. t \in Busy /\ thread[t].extra = {} /\ thread[t].keys \subseteq Held(t)
        /\ thread[t].op = "disconnect" /\ thread[t] \in Handler
    BY <1>8, AtHas DEF BeginUnregister, Told
  <2>2. UNCHANGED holder /\ thread' = [thread EXCEPT ![t] = thread'[t]]
        /\ thread'[t].keys = thread[t].keys /\ thread'[t].phase = "leaving"
        /\ thread'[t].op = "disconnect"
    BY <1>0, <1>8, <2>1 DEF BeginUnregister, Handler
  <2>3. thread'[t] # Idle
    BY <2>2 DEF Idle
  <2> QED BY <2>1, <2>2, <2>3, GoOnLocks
<1>9. CASE Prune(t)
  <2>1. t \in Busy /\ thread[t].extra = {} /\ thread[t].keys \subseteq Held(t)
        /\ thread[t].op = "prune" /\ thread[t] \in Handler
    BY <1>9, AtHas DEF Prune, HandlerOK
  <2>2. UNCHANGED holder /\ thread' = [thread EXCEPT ![t] = thread'[t]]
        /\ thread'[t].keys = thread[t].keys /\ thread'[t].phase = "leaving"
        /\ thread'[t].op = "prune"
    BY <1>0, <1>9, <2>1 DEF Prune, Handler
  <2>3. thread'[t] # Idle
    BY <2>2 DEF Idle
  <2> QED BY <2>1, <2>2, <2>3, GoOnLocks
<1>10. ASSUME NEW op \in {"disconnect", "register", "revoke"}, At(t, op, "taking"),
              NEW settled \in SUBSET controls, Telling(t, settled), UNCHANGED holder
       PROVE  Goal
  <2>1. t \in Busy /\ thread[t].extra = {} /\ thread[t].keys \subseteq Held(t)
    BY <1>10, AtHas DEF HandlerOK
  <2>2. /\ thread' = [thread EXCEPT ![t] = thread'[t]] /\ thread'[t] \in Handler
        /\ thread'[t].phase = "telling" /\ thread'[t].keys = thread[t].keys
    BY <1>10, TellingOK
  <2>3. thread'[t] # Idle
    BY <2>2, BusyIs DEF LockInv
  <2> QED BY <1>10, <2>1, <2>2, <2>3, GoOnLocks
<1>11. ASSUME NEW d, NEW s PROVE RoutedTo(d, s) \in SUBSET controls /\ {} \in SUBSET controls
  BY DEF RoutedTo
<1>12. CASE Disconnect(t)
  BY <1>10, <1>11, <1>12 DEF Disconnect, Inside
<1>13. CASE Replace(t)
  BY <1>10, <1>11, <1>13 DEF Replace, Inside
<1>14. CASE Revoke(t)
  BY <1>2, <1>10, <1>11, <1>14 DEF Revoke, Inside
<1>15. CASE Dispatch(t) \/ FinishHandoff(t) \/ ToldAll(t) \/ DisconnectFails(t) \/ Unregister(t)
            \/ RegisterClient(t) \/ RemoveClients(t)
  BY <1>2, <1>15 DEF Dispatch, FinishHandoff, ToldAll, DisconnectFails, Unregister, RegisterClient,
                    RemoveClients
<1> QED BY <1>1, <1>3, <1>4, <1>5, <1>6, <1>7, <1>8, <1>9, <1>12, <1>13, <1>14, <1>15 DEF Runs

-----------------------------------------------------------------------------
(* The devices above a device; above a higher one there are fewer.         *)
Above(d) == {e \in Devices : d < e}

LEMMA FewerAbove ==
    ASSUME NEW d \in Devices, NEW e \in Devices, d < e
    PROVE  /\ Cardinality(Above(d)) \in Nat
           /\ Cardinality(Above(e)) < Cardinality(Above(d))
<1>1. Devices \subseteq Nat /\ IsFiniteSet(Devices)
  BY GenerationAssumption
<1>2. Above(e) \subseteq Above(d)
  <2>1. ASSUME NEW x \in Devices, e < x PROVE d < x
    <3>1. d \in Nat /\ e \in Nat /\ x \in Nat
      BY <1>1
    <3> QED BY <2>1, <3>1
  <2> QED BY <2>1 DEF Above
<1>3. e \in Above(d) /\ e \notin Above(e)
  BY <1>1 DEF Above
<1>4. Above(d) \in SUBSET Devices /\ Above(e) \in SUBSET Above(d)
  BY <1>2 DEF Above
<1>5. IsFiniteSet(Above(d))
  BY <1>1, <1>4, FS_Subset
<1>6. IsFiniteSet(Above(e)) /\ Cardinality(Above(e)) <= Cardinality(Above(d))
      /\ Cardinality(Above(e)) # Cardinality(Above(d))
  BY <1>3, <1>4, <1>5, FS_Subset
<1>7. Cardinality(Above(e)) \in Nat /\ Cardinality(Above(d)) \in Nat
  BY <1>5, <1>6, FS_CardinalityType
<1> QED BY <1>6, <1>7

(* Handlers that wait in a circle and do not nest: each waits for a device *)
(* lower than the one that the next waits for.                             *)
LEMMA CircleClimbs ==
    ASSUME LockInv, NEW S \in SUBSET Threads, Circle(S), \A t \in S : ~ Nests(t)
    PROVE  FALSE
<1> DEFINE k(t) == Lowest(Wanted(t))
           N == {Cardinality(Above(k(t))) : t \in S}
<1>1. ASSUME NEW t \in S PROVE k(t) \in Devices /\ k(t) \in Wanted(t) /\ t \in Busy
  <2>1. Wanted(t) \in SUBSET Devices /\ Wanted(t) # {}
    BY WantedIs DEF LockInv, Circle, WaitsFor
  <2>2. t \in Busy
    BY <2>1 DEF Wanted
  <2> QED BY <2>1, <2>2, LowestIs
<1>2. ASSUME NEW t \in S PROVE \E u \in S : k(t) < k(u)
  <2>1. PICK u \in S : WaitsFor(t, u)
    BY DEF Circle
  <2>2. k(t) \in Held(u)
    BY <1>1, <2>1 DEF WaitsFor, Held
  <2> QED BY <1>1, <2>2 DEF LockInv, TakenInOrder
<1>3. ASSUME NEW t \in S
      PROVE  /\ Cardinality(Above(k(t))) \in Nat
             /\ \E u \in S : Cardinality(Above(k(u))) < Cardinality(Above(k(t)))
  <2>1. PICK u \in S : k(t) < k(u)
    BY <1>2
  <2> QED BY <1>1, <2>1, FewerAbove DEF Above
<1>4. N \subseteq Nat /\ N # {}
  BY <1>3 DEF Circle
<1>5. PICK n \in N : \A m \in N : ~ (<<m, n>> \in OpToRel(<, Nat))
  BY <1>4, NatLessThanWellFounded, WFMin
<1>6. \A m \in N : ~ (m < n)
  BY <1>4, <1>5 DEF OpToRel
<1> QED BY <1>3, <1>6

LEMMA NoCircleWithoutNesting ==
    ASSUME LockInv
    PROVE  CircleNeedsNesting
BY CircleClimbs DEF CircleNeedsNesting

-----------------------------------------------------------------------------
(* The values of the variables that are not of handlers and locks.         *)
TablesOK ==
    /\ session \in [Sids -> {"fresh", "open", "closing", "gone"}]
    /\ named \in [Sids -> Devices \cup {NoDevice}]
    /\ route \in [Devices -> Sids \cup {NoSid}]
    /\ silent \in SUBSET Devices
    /\ controls \in SUBSET Control
    /\ handoffs \in SUBSET Handoff
    /\ untied \in SUBSET Sids

LEMMA KeepTables ==
    ASSUME TypeOK, UNCHANGED tables, handoffs' \subseteq handoffs, controls' \subseteq controls,
           untied' \subseteq Sids
    PROVE  TablesOK'
BY DEF TypeOK, TablesOK, tables

LEMMA RemovedTables ==
    ASSUME TypeOK, NEW s \in Sids, Removed(s), handoffs' \subseteq handoffs,
           controls' \subseteq controls, UNCHANGED untied
    PROVE  TablesOK'
BY DEF TypeOK, TablesOK, Removed

LEMMA ArrivesTables ==
    ASSUME LockInv, NEW t \in Threads, Arrives(t)
    PROVE  TablesOK' /\ UNCHANGED <<named, route, silent, work, untied>>
<1>1. ASSUME NEW s \in Sids, BeginDisconnect(t, s)
      PROVE  TablesOK' /\ UNCHANGED <<named, route, silent, work, untied>>
  BY <1>1 DEF BeginDisconnect, LockInv, TypeOK, TablesOK, work
<1>2. ASSUME UNCHANGED <<tables, work, untied>>
      PROVE  TablesOK' /\ UNCHANGED <<named, route, silent, work, untied>>
  BY <1>2 DEF LockInv, TypeOK, TablesOK, work, tables
<1> QED BY <1>1, <1>2 DEF Arrives, BeginControl, BeginRegister, BeginStart, BeginFinish,
                   BeginSettle, BeginRevoke, BeginPrune

LEMMA DispatchTables ==
    ASSUME LockInv, NEW t \in Threads, Dispatch(t)
    PROVE  TablesOK'
<1>1. CASE At(t, "control", "matched") /\ UNCHANGED handoffs
            /\ controls' = controls \cup {[thread[t].about EXCEPT !.fromSid = NoSid]}
  <2> DEFINE a == thread[t].about
             c == [a EXCEPT !.fromSid = NoSid]
  <2>1. a \in About /\ a.from \in Devices /\ a.to \in Devices /\ a.toSid \in Sids
    BY <1>1, AtHas DEF HandlerOK, Handler
  <2>2. c \in Control
    BY <2>1 DEF About, Control
  <2>3. controls' = controls \cup {c}
    BY <1>1
  <2> HIDE DEF c
  <2> QED BY <1>1, <2>2, <2>3 DEF Dispatch, LockInv, TypeOK, TablesOK, tables
<1>2. CASE At(t, "start", "matched") /\ UNCHANGED controls
            /\ handoffs' = handoffs \cup {thread[t].about}
  <2> DEFINE a == thread[t].about
  <2>1. a \in About /\ a.from \in Devices /\ a.to \in Devices /\ a.fromSid \in Sids
        /\ a.toSid \in Sids
    BY <1>2, AtHas DEF HandlerOK, Handler
  <2>2. a \in Handoff
    BY <2>1 DEF About, Handoff
  <2> HIDE DEF a
  <2> QED BY <1>2, <2>2 DEF Dispatch, LockInv, TypeOK, TablesOK, tables, a
<1>3. CASE UNCHANGED work
  BY <1>3, KeepTables DEF Dispatch, LockInv, TypeOK, work
<1> QED BY <1>1, <1>2, <1>3 DEF Dispatch

LEMMA RunsTables ==
    ASSUME LockInv, NEW t \in Threads, Runs(t)
    PROVE  TablesOK'
<1>1. ASSUME UNCHANGED <<tables, work, untied>> PROVE TablesOK'
  BY <1>1, KeepTables DEF LockInv, TypeOK, work
<1>2. CASE Take(t) \/ StartOver(t) \/ PruneAgain(t) \/ Match(t) \/ Tell(t) \/ ToldAll(t)
           \/ BeginUnregister(t)
  BY <1>1, <1>2 DEF Take, StartOver, PruneAgain, Match, Tell, ToldAll, BeginUnregister
<1>3. CASE FinishHandoff(t)
  BY <1>3, KeepTables DEF FinishHandoff, LockInv, TypeOK
<1>4. CASE SettleControl(t)
  BY <1>4, KeepTables DEF SettleControl, LockInv, TypeOK
<1>5. CASE Disconnect(t)
  <2>1. thread[t].sid \in Sids
    BY <1>5, AtHas DEF Disconnect, Inside, HandlerOK
  <2> QED BY <1>5, <2>1, KeepTables DEF Disconnect, Ends, LockInv, TypeOK, work
<1>6. CASE DisconnectFails(t)
  BY <1>6, KeepTables DEF DisconnectFails, LockInv, TypeOK
<1>7. CASE Unregister(t)
  <2>1. thread[t].sid \in Sids
    BY <1>7, AtHas DEF Unregister, HandlerOK
  <2> QED BY <1>7, <2>1, RemovedTables DEF Unregister, LockInv, work
<1>8. CASE Replace(t)
  BY <1>8, KeepTables DEF Replace, Ends, LockInv, TypeOK, work
<1>9. CASE RegisterClient(t)
  <2>1. thread[t].sid \in Sids /\ thread[t].device \in Devices
    BY <1>9, AtHas DEF RegisterClient, Told, HandlerOK, Handler
  <2>2. NamesAfter(thread[t].device, thread[t].sid, route[thread[t].device])
          \in [Sids -> Devices \cup {NoDevice}]
    BY <2>1 DEF NamesAfter, LockInv, TypeOK
  <2> QED BY <1>9, <2>1, <2>2 DEF RegisterClient, LockInv, TypeOK, TablesOK, work
<1>10. CASE Revoke(t)
  <2>1. CASE Current(thread[t].device, route[thread[t].device])
    <3>1. route[thread[t].device] \in Sids
      BY <2>1 DEF Current, Alive
    <3> QED BY <1>10, <2>1, <3>1, RemovedTables DEF Revoke, Ends, LockInv
  <2> QED BY <1>1, <1>10, <2>1 DEF Revoke
<1>11. CASE Prune(t)
  BY <1>11, KeepTables DEF Prune, LockInv, TypeOK
<1>12. CASE RemoveClients(t)
  <2>1. named' \in [Sids -> Devices \cup {NoDevice}]
    BY <1>12 DEF RemoveClients, LockInv, TypeOK
  <2>2. route' \in [Devices -> Sids \cup {NoSid}]
    BY <1>12 DEF RemoveClients, LockInv, TypeOK
  <2> QED BY <1>12, <2>1, <2>2 DEF RemoveClients, LockInv, TypeOK, TablesOK, work
<1>13. CASE Dispatch(t)
  BY <1>13, DispatchTables
<1> QED BY <1>2, <1>3, <1>4, <1>5, <1>6, <1>7, <1>8, <1>9, <1>10, <1>11, <1>12, <1>13 DEF Runs

LEMMA LockInvStep ==
    ASSUME LockInv, [Next]_vars
    PROVE  LockInv'
<1>1. ASSUME NEW t \in Threads, Arrives(t) \/ Runs(t) PROVE LockInv'
  <2>1. ThreadsOK' /\ TablesOK' /\ LocksOK' /\ TakenInOrder'
        /\ holder' \in [Devices -> Threads \cup {NoThread}]
    BY <1>1, ArrivesThreads, ArrivesTables, ArrivesLocks, RunsThreads, RunsTables, RunsLocks
  <2> QED BY <2>1 DEF LockInv, ThreadsOK, TablesOK, TypeOK
<1>2. ASSUME UNCHANGED <<thread, holder>>, TablesOK' PROVE LockInv'
  <2>1. /\ Busy' = Busy
        /\ \A t : Held(t)' = Held(t) /\ Wanted(t)' = Wanted(t) /\ Nests(t)' = Nests(t)
    BY <1>2 DEF Busy, Held, Wanted, Nests
  <2>2. TypeOK'
    BY <1>2 DEF LockInv, TypeOK, TablesOK
  <2>3. HandlersOK'
    BY <1>2, <2>1 DEF LockInv, HandlersOK
  <2>4. LocksOK' /\ TakenInOrder'
    BY <1>2, <2>1 DEF LockInv, LocksOK, TakenInOrder
  <2> QED BY <2>2, <2>3, <2>4 DEF LockInv
<1>3. ASSUME NEW s \in Sids, Connect(s) \/ Touch(s) PROVE LockInv'
  <2>1. TablesOK'
    BY <1>3 DEF Connect, Touch, LockInv, TypeOK, TablesOK, work
  <2> QED BY <1>2, <1>3, <2>1 DEF Connect, Touch
<1>4. ASSUME NEW d \in Devices, GrowSilent(d) PROVE LockInv'
  <2>1. TablesOK'
    BY <1>4 DEF GrowSilent, LockInv, TypeOK, TablesOK, work
  <2> QED BY <1>2, <1>4, <2>1 DEF GrowSilent
<1>5. CASE UNCHANGED vars
  <2>1. TablesOK'
    BY <1>5 DEF vars, tables, work, LockInv, TypeOK, TablesOK
  <2> QED BY <1>2, <1>5, <2>1 DEF vars
<1> QED BY <1>1, <1>3, <1>4, <1>5 DEF Next

-----------------------------------------------------------------------------
(* The steps that change what connections there are, and what they name.   *)
RoutesOK == SessionIsRouted /\ (\A s \in Sids \ Alive : named[s] = NoDevice)
            /\ (\A d \in Devices : route[d] \in Sids => session[route[d]] # "fresh")

RequestsMade == \A t \in Busy : thread[t].sid \in Sids => session[thread[t].sid] # "fresh"

LEMMA SessionsAre == SessionsOK <=> RoutesOK /\ RequestsMade
BY DEF SessionsOK, RoutesOK, RequestsMade

LEMMA RemovedRoutes ==
    ASSUME TypeOK, RoutesOK, GhostIsUntied, NEW s \in Sids, Removed(s), untied \subseteq untied'
    PROVE  RoutesOK' /\ GhostIsUntied'
<1>1. /\ Alive' = Alive \ {s}
      /\ \A x \in Sids : named'[x] = IF x = s THEN NoDevice ELSE named[x]
      /\ \A d \in Devices : route'[d] = IF d = named[s] /\ route[d] = s THEN NoSid ELSE route[d]
      /\ \A x \in Sids : session'[x] = "fresh" => session[x] = "fresh"
  BY DEF Removed, TypeOK, Alive
<1>2. SessionIsRouted'
  BY <1>1 DEF RoutesOK, SessionIsRouted, TypeOK, Alive
<1>3. \A x \in Sids \ Alive' : named'[x] = NoDevice
  BY <1>1 DEF RoutesOK
<1>4. \A d \in Devices : route'[d] \in Sids => session'[route'[d]] # "fresh"
  BY <1>1, GenerationAssumption DEF RoutesOK
<1>5. GhostIsUntied'
  BY <1>1, GenerationAssumption DEF GhostIsUntied, Alive
<1> QED BY <1>2, <1>3, <1>4, <1>5 DEF RoutesOK

LEMMA RegisteredRoutes ==
    ASSUME TypeOK, RoutesOK, GhostIsUntied, NEW s \in Sids, NEW d \in Devices,
           session[s] # "fresh", UNCHANGED session,
           named' = NamesAfter(d, s, route[d]), route' = [route EXCEPT ![d] = s],
           untied' = IF named[s] \notin {d, NoDevice} THEN untied \cup {s} ELSE untied
    PROVE  RoutesOK' /\ GhostIsUntied'
<1>1. /\ Alive' = Alive
      /\ \A x \in Sids \ Alive : named'[x] = named[x]
      /\ s \in Alive => named'[s] = d
      /\ \A x \in Alive \ {s} : named'[x] = IF x = route[d] THEN NoDevice ELSE named[x]
      /\ \A e \in Devices : route'[e] = IF e = d THEN s ELSE route[e]
  BY DEF NamesAfter, TypeOK, Alive
<1>2. SessionIsRouted'
  <2> SUFFICES ASSUME NEW x \in Alive', named'[x] # NoDevice PROVE route'[named'[x]] = x
    BY DEF SessionIsRouted
  <2>1. CASE x = s
    BY <1>1, <2>1
  <2>2. CASE x # s
    <3>1. x # route[d] /\ named'[x] = named[x] /\ named[x] \in Devices /\ x \in Alive
      BY <1>1, <2>2 DEF TypeOK, Alive
    <3>2. route[named[x]] = x /\ named[x] # d
      BY <3>1, GenerationAssumption DEF RoutesOK, SessionIsRouted
    <3> QED BY <1>1, <3>1, <3>2
  <2> QED BY <2>1, <2>2
<1>3. \A x \in Sids \ Alive' : named'[x] = NoDevice
  BY <1>1 DEF RoutesOK
<1>4. \A e \in Devices : route'[e] \in Sids => session'[route'[e]] # "fresh"
  BY <1>1 DEF RoutesOK
<1>5. GhostIsUntied'
  <2> SUFFICES ASSUME NEW e \in Devices, route'[e] \in Alive', named'[route'[e]] # e
               PROVE  route'[e] \in untied'
    BY DEF GhostIsUntied
  <2>1. e # d /\ route'[e] = route[e] /\ route[e] \in Alive
    BY <1>1
  <2>2. CASE named[route[e]] # e
    BY <2>1, <2>2 DEF GhostIsUntied
  <2>3. CASE named[route[e]] = e /\ route[e] = s
    BY <2>1, <2>3, GenerationAssumption
  <2>4. CASE named[route[e]] = e /\ route[e] # s
    <3>1. route[e] = route[d]
      BY <1>1, <2>1, <2>4
    <3> QED BY <2>1, <2>4, <3>1 DEF GhostIsUntied
  <2> QED BY <2>2, <2>3, <2>4
<1> QED BY <1>2, <1>3, <1>4, <1>5 DEF RoutesOK

LEMMA PrunedRoutes ==
    ASSUME TypeOK, RoutesOK, GhostIsUntied, NEW t \in Threads, RemoveClients(t)
    PROVE  RoutesOK' /\ GhostIsUntied'
<1> DEFINE gone == StillSilent(t)
<1>1. /\ Alive' = Alive /\ UNCHANGED <<session, untied>>
      /\ \A s \in Sids : named'[s] = IF s \in Alive /\ named[s] \in gone /\ route[named[s]] = s
                                     THEN NoDevice ELSE named[s]
      /\ \A d \in Devices : route'[d] = IF d \in gone THEN NoSid ELSE route[d]
  BY DEF RemoveClients, Alive
<1> HIDE DEF gone
<1>2. SessionIsRouted'
  BY <1>1 DEF RoutesOK, SessionIsRouted, TypeOK, Alive
<1>3. \A x \in Sids \ Alive' : named'[x] = NoDevice
  BY <1>1 DEF RoutesOK
<1>4. \A d \in Devices : route'[d] \in Sids => session'[route'[d]] # "fresh"
  BY <1>1, GenerationAssumption DEF RoutesOK
<1>5. GhostIsUntied'
  BY <1>1, GenerationAssumption DEF GhostIsUntied, Alive
<1> QED BY <1>2, <1>3, <1>4, <1>5 DEF RoutesOK

LEMMA SameRoutes ==
    ASSUME TypeOK, RoutesOK, GhostIsUntied, UNCHANGED <<named, route>>, untied \subseteq untied',
           Alive' = Alive, \A s \in Sids : session'[s] = "fresh" => session[s] = "fresh"
    PROVE  RoutesOK' /\ GhostIsUntied'
BY DEF RoutesOK, GhostIsUntied, SessionIsRouted

LEMMA ConnectRoutes ==
    ASSUME TypeOK, RoutesOK, GhostIsUntied, NEW s \in Sids, Connect(s)
    PROVE  RoutesOK' /\ GhostIsUntied'
<1>1. Alive' = Alive \cup {s} /\ s \notin Alive /\ UNCHANGED <<named, route, untied>>
      /\ session[s] = "fresh" /\ \A x \in Sids : session'[x] = "fresh" => session[x] = "fresh"
  BY DEF Connect, Alive, TypeOK
<1>2. named[s] = NoDevice
  BY <1>1 DEF RoutesOK
<1>3. \A d \in Devices : route[d] # s
  BY <1>1 DEF RoutesOK
<1>4. SessionIsRouted'
  BY <1>1, <1>2 DEF RoutesOK, SessionIsRouted
<1>5. GhostIsUntied'
  BY <1>1, <1>3 DEF GhostIsUntied
<1> QED BY <1>1, <1>4, <1>5 DEF RoutesOK

LEMMA RunsRoutes ==
    ASSUME LockInv, SessionsOK, GhostIsUntied, NEW t \in Threads, Runs(t)
    PROVE  /\ RoutesOK' /\ GhostIsUntied'
           /\ \A s \in Sids : session'[s] = "fresh" => session[s] = "fresh"
<1> DEFINE Goal == /\ RoutesOK' /\ GhostIsUntied'
                   /\ \A s \in Sids : session'[s] = "fresh" => session[s] = "fresh"
<1>0. TypeOK /\ RoutesOK
  BY SessionsAre DEF LockInv
<1>1. ASSUME UNCHANGED <<session, named, route>>, untied \subseteq untied' PROVE Goal
  BY <1>0, <1>1, SameRoutes DEF Alive
<1>2. CASE Take(t) \/ StartOver(t) \/ PruneAgain(t) \/ Match(t) \/ Tell(t) \/ ToldAll(t)
           \/ BeginUnregister(t) \/ FinishHandoff(t) \/ SettleControl(t) \/ Disconnect(t)
           \/ DisconnectFails(t) \/ Replace(t) \/ Prune(t) \/ Dispatch(t)
  BY <1>1, <1>2 DEF Take, StartOver, PruneAgain, Match, Tell, ToldAll, BeginUnregister, FinishHandoff,
                    SettleControl, Disconnect, DisconnectFails, Replace, Prune, Dispatch, tables
<1>3. ASSUME NEW s \in Sids, Removed(s), untied' = untied PROVE Goal
  <2>1. \A x \in Sids : session'[x] = "fresh" => session[x] = "fresh"
    BY <1>0, <1>3 DEF Removed, TypeOK
  <2> QED BY <1>0, <1>3, <2>1, RemovedRoutes
<1>4. CASE Unregister(t)
  <2>1. thread[t].sid \in Sids
    BY <1>4, AtHas DEF Unregister, HandlerOK
  <2> QED BY <1>3, <1>4, <2>1 DEF Unregister
<1>5. CASE RegisterClient(t)
  <2>1. thread[t].sid \in Sids /\ thread[t].device \in Devices /\ t \in Busy
    BY <1>5, AtHas DEF RegisterClient, Told, HandlerOK, Handler
  <2>2. session[thread[t].sid] # "fresh"
    BY <2>1 DEF SessionsOK
  <2>3. /\ UNCHANGED session
        /\ named' = NamesAfter(thread[t].device, thread[t].sid, route[thread[t].device])
        /\ route' = [route EXCEPT ![thread[t].device] = thread[t].sid]
        /\ untied' = IF named[thread[t].sid] \notin {thread[t].device, NoDevice}
                     THEN untied \cup {thread[t].sid} ELSE untied
    BY <1>5 DEF RegisterClient
  <2> QED BY <1>0, <2>1, <2>2, <2>3, RegisteredRoutes
<1>6. CASE Revoke(t)
  <2>1. CASE Current(thread[t].device, route[thread[t].device])
    <3>1. route[thread[t].device] \in Sids
      BY <2>1 DEF Current, Alive
    <3> QED BY <1>3, <1>6, <2>1, <3>1 DEF Revoke
  <2> QED BY <1>1, <1>6, <2>1 DEF Revoke, tables
<1>7. CASE RemoveClients(t)
  BY <1>0, <1>7, PrunedRoutes DEF RemoveClients
<1> QED BY <1>2, <1>4, <1>5, <1>6, <1>7 DEF Runs

(* A handler stays that of its request and its device.                     *)
LEMMA RunsSame ==
    ASSUME LockInv, NEW t \in Threads, Runs(t)
    PROVE  /\ thread' = [thread EXCEPT ![t] = thread'[t]]
           /\ t \in Busy' => /\ t \in Busy /\ thread'[t].sid = thread[t].sid
                             /\ thread'[t].device = thread[t].device
                             /\ thread'[t].op = thread[t].op
<1>0. thread \in [Threads -> Handler \cup {Idle}] /\ (t \in Busy => thread[t] \in Handler)
  BY BusyIs DEF LockInv, TypeOK
<1> DEFINE Goal == /\ thread' = [thread EXCEPT ![t] = thread'[t]]
                   /\ t \in Busy' => /\ t \in Busy /\ thread'[t].sid = thread[t].sid
                                     /\ thread'[t].device = thread[t].device
                                     /\ thread'[t].op = thread[t].op
<1>1. ASSUME Return(t) PROVE Goal
  BY <1>0, <1>1 DEF Return, Busy
<1>2. CASE Take(t)
  BY <1>0, <1>2 DEF Take, Busy
<1>3. CASE StartOver(t)
  BY <1>0, <1>3 DEF StartOver, Handler, At
<1>4. CASE PruneAgain(t)
  BY <1>0, <1>4 DEF PruneAgain, Handler, At
<1>5. CASE Match(t)
  <2>1. t \in Busy
    BY <1>5 DEF Match, Inside, At
  <2> QED BY <1>0, <1>1, <1>5, <2>1 DEF Match, Handler
<1>6. CASE SettleControl(t)
  <2>1. t \in Busy
    BY <1>6 DEF SettleControl, Inside, At
  <2>2. CASE thread' = [thread EXCEPT ![t] = Idle]
    BY <1>0, <2>2 DEF Busy
  <2>3. CASE thread' # [thread EXCEPT ![t] = Idle]
    <3> DEFINE c == thread[t].about
    <3>1. thread' = [thread EXCEPT ![t].phase = "telling",
                                   ![t].about = Between(NoDevice, NoDevice),
                                   ![t].keys = {},
                                   ![t].todo = {{c.from, c.to}}]
      BY <1>6, <2>3 DEF SettleControl
    <3> HIDE DEF c
    <3> QED BY <1>0, <2>1, <3>1 DEF Handler
  <2> QED BY <2>2, <2>3
<1>7. CASE Tell(t)
  <2>1. t \in Busy
    BY <1>7 DEF Tell
  <2>2. ASSUME NEW pair, thread' = [thread EXCEPT ![t].extra = pair, ![t].todo = @ \ {pair}]
        PROVE  Goal
    BY <1>0, <2>1, <2>2 DEF Handler
  <2>3. ASSUME thread' = [thread EXCEPT ![t].extra = {}] PROVE Goal
    BY <1>0, <2>1, <2>3 DEF Handler
  <2> QED BY <1>7, <2>2, <2>3 DEF Tell
<1>8. CASE BeginUnregister(t)
  BY <1>0, <1>8 DEF BeginUnregister, Handler, At, Told
<1>9. CASE Prune(t)
  BY <1>0, <1>9 DEF Prune, Handler, At
<1>10. ASSUME NEW op, At(t, op, "taking"), NEW settled, Telling(t, settled) PROVE Goal
  BY <1>0, <1>10 DEF Telling, Handler, At
<1>11. CASE Disconnect(t)
  BY <1>10, <1>11 DEF Disconnect, Inside
<1>12. CASE Replace(t)
  BY <1>10, <1>12 DEF Replace, Inside
<1>13. CASE Revoke(t)
  BY <1>1, <1>10, <1>13 DEF Revoke, Inside
<1>14. CASE Dispatch(t) \/ FinishHandoff(t) \/ ToldAll(t) \/ DisconnectFails(t) \/ Unregister(t)
            \/ RegisterClient(t) \/ RemoveClients(t)
  BY <1>1, <1>14 DEF Dispatch, FinishHandoff, ToldAll, DisconnectFails, Unregister, RegisterClient,
                    RemoveClients
<1> QED BY <1>2, <1>3, <1>4, <1>5, <1>6, <1>7, <1>8, <1>9, <1>11, <1>12, <1>13, <1>14 DEF Runs

(* A handler begins with a connection that was made, and takes its locks.  *)
LEMMA ArrivesSame ==
    ASSUME LockInv, SessionsOK, NEW t \in Threads, Arrives(t)
    PROVE  /\ thread' = [thread EXCEPT ![t] = thread'[t]]
           /\ thread'[t].phase = "taking"
           /\ thread'[t].sid \in Sids => session[thread'[t].sid] # "fresh"
           /\ Alive' = Alive
           /\ \A s \in Sids : session'[s] = "fresh" => session[s] = "fresh"
<1>0. thread \in [Threads -> Handler \cup {Idle}] /\ NoSid \notin Sids
  BY GenerationAssumption DEF LockInv, TypeOK
<1>1. ASSUME NEW op, NEW s, NEW d, NEW about, NEW base, NEW peers,
             Begin(t, op, s, d, about, base, peers)
      PROVE  /\ thread' = [thread EXCEPT ![t] = thread'[t]]
             /\ thread'[t].phase = "taking" /\ thread'[t].sid = s
  <2> DEFINE h == [ op |-> op, sid |-> s, device |-> d, about |-> about, base |-> base,
                    keys |-> base \cup peers, extra |-> {}, phase |-> "taking", todo |-> {} ]
  <2>1. thread' = [thread EXCEPT ![t] = h]
    BY <1>1 DEF Begin
  <2>2. h.phase = "taking" /\ h.sid = s
    OBVIOUS
  <2> HIDE DEF h
  <2> QED BY <1>0, <2>1, <2>2
<1>2. UNCHANGED tables \/ \E s \in Sids : BeginDisconnect(t, s)
  BY DEF Arrives, BeginControl, BeginRegister, BeginStart, BeginFinish, BeginSettle, BeginRevoke,
         BeginPrune
<1>3. Alive' = Alive /\ \A s \in Sids : session'[s] = "fresh" => session[s] = "fresh"
  <2>1. CASE UNCHANGED tables
    BY <2>1 DEF tables, Alive
  <2>2. ASSUME NEW s \in Sids, BeginDisconnect(t, s)
        PROVE  Alive' = Alive /\ \A x \in Sids : session'[x] = "fresh" => session[x] = "fresh"
    BY <2>2 DEF BeginDisconnect, Alive, LockInv, TypeOK
  <2> QED BY <1>2, <2>1, <2>2
<1>4. ASSUME NEW s \in Sids, session[s] = "open",
             NEW op, NEW d, NEW about, NEW base, NEW peers, Begin(t, op, s, d, about, base, peers)
      PROVE  /\ thread' = [thread EXCEPT ![t] = thread'[t]]
             /\ thread'[t].phase = "taking"
             /\ thread'[t].sid \in Sids => session[thread'[t].sid] # "fresh"
  BY <1>1, <1>4
<1>5. ASSUME NEW op, NEW d, NEW about, NEW base, NEW peers, Begin(t, op, NoSid, d, about, base, peers)
      PROVE  /\ thread' = [thread EXCEPT ![t] = thread'[t]]
             /\ thread'[t].phase = "taking"
             /\ thread'[t].sid \in Sids => session[thread'[t].sid] # "fresh"
  BY <1>0, <1>1, <1>5
<1>6. CASE \E s \in Sids : BeginDisconnect(t, s)
  BY <1>3, <1>4, <1>6 DEF BeginDisconnect
<1>7. CASE \E s \in Sids, d \in Devices : BeginControl(t, s, d) \/ BeginRegister(t, s, d)
  BY <1>3, <1>4, <1>7 DEF BeginControl, BeginRegister, Asks
<1>8. CASE \E s \in Sids, d, e \in Devices : BeginStart(t, s, d, e)
  BY <1>3, <1>4, <1>8 DEF BeginStart, Asks
<1>9. CASE \E s \in Sids, h \in handoffs : BeginFinish(t, s, h)
  BY <1>3, <1>5, <1>9 DEF BeginFinish
<1>10. CASE (\E c \in controls : BeginSettle(t, c)) \/ (\E d \in Devices : BeginRevoke(t, d))
            \/ BeginPrune(t)
  BY <1>3, <1>5, <1>10 DEF BeginSettle, BeginRevoke, BeginPrune
<1> QED BY <1>6, <1>7, <1>8, <1>9, <1>10 DEF Arrives

LEMMA RequestsStep ==
    ASSUME LockInv, RequestsMade, NEW t \in Threads, thread' = [thread EXCEPT ![t] = thread'[t]],
           \A s \in Sids : session'[s] = "fresh" => session[s] = "fresh",
           t \in Busy' /\ thread'[t].sid \in Sids => session[thread'[t].sid] # "fresh"
    PROVE  RequestsMade'
<1> SUFFICES ASSUME NEW u \in Busy', thread'[u].sid \in Sids
             PROVE  session'[thread'[u].sid] # "fresh"
  BY DEF RequestsMade
<1>1. CASE u = t
  BY <1>1
<1>2. CASE u # t
  <2>1. thread'[u] = thread[u]
    BY <1>2 DEF LockInv, TypeOK, Busy
  <2>2. u \in Busy
    BY <2>1 DEF Busy
  <2> QED BY <2>1, <2>2 DEF RequestsMade
<1> QED BY <1>1, <1>2

LEMMA SessionsStep ==
    ASSUME LockInv, SessionsOK, GhostIsUntied, [Next]_vars
    PROVE  SessionsOK' /\ GhostIsUntied'
<1>0. TypeOK /\ RoutesOK /\ RequestsMade
  BY SessionsAre DEF LockInv
<1>a. SessionsOK' <=> RoutesOK' /\ RequestsMade'
  BY DEF SessionsOK, RoutesOK, RequestsMade
<1>1. ASSUME NEW t \in Threads, Arrives(t) PROVE SessionsOK' /\ GhostIsUntied'
  <2>1. RequestsMade'
    BY <1>0, <1>1, ArrivesSame, RequestsStep
  <2>2. UNCHANGED <<named, route>> /\ untied \subseteq untied'
    BY <1>1, ArrivesTables
  <2> QED BY <1>0, <1>1, <1>a, <2>1, <2>2, ArrivesSame, SameRoutes
<1>2. ASSUME NEW t \in Threads, Runs(t) PROVE SessionsOK' /\ GhostIsUntied'
  <2>1. RoutesOK' /\ GhostIsUntied' /\ \A s \in Sids : session'[s] = "fresh" => session[s] = "fresh"
    BY <1>2, RunsRoutes
  <2>2. t \in Busy' /\ thread'[t].sid \in Sids => session[thread'[t].sid] # "fresh"
    BY <1>0, <1>2, RunsSame DEF RequestsMade
  <2>3. RequestsMade'
    BY <1>0, <1>2, <2>1, <2>2, RunsSame, RequestsStep
  <2> QED BY <1>a, <2>1, <2>3
<1>3. ASSUME UNCHANGED thread, \A s \in Sids : session'[s] = "fresh" => session[s] = "fresh"
      PROVE  RequestsMade'
  BY <1>0, <1>3 DEF RequestsMade, Busy
<1>4. ASSUME NEW s \in Sids, Connect(s) PROVE SessionsOK' /\ GhostIsUntied'
  <2>1. \A x \in Sids : session'[x] = "fresh" => session[x] = "fresh"
    BY <1>0, <1>4 DEF Connect, TypeOK
  <2> QED BY <1>0, <1>3, <1>4, <1>a, <2>1, ConnectRoutes DEF Connect
<1>5. ASSUME UNCHANGED <<session, named, route, thread, untied>> PROVE SessionsOK' /\ GhostIsUntied'
  BY <1>0, <1>3, <1>5, <1>a, SameRoutes DEF Alive
<1>6. ASSUME NEW s \in Sids, Touch(s) PROVE SessionsOK' /\ GhostIsUntied'
  BY <1>5, <1>6 DEF Touch
<1>7. ASSUME NEW d \in Devices, GrowSilent(d) PROVE SessionsOK' /\ GhostIsUntied'
  BY <1>5, <1>7 DEF GrowSilent
<1>8. CASE UNCHANGED vars
  BY <1>5, <1>8 DEF vars, tables
<1> QED BY <1>1, <1>2, <1>4, <1>6, <1>7, <1>8 DEF Next

-----------------------------------------------------------------------------
(* What a step by one who has locked the devices ds does at most: others   *)
(* keep their routes or lose them, keep their names or come untied, and    *)
(* whoever is tied remains so, unless it is in ds and has no handoff left. *)
Effect(ds) ==
    /\ untied \subseteq untied'
    /\ \A d \in Devices \ ds : route'[d] \in {route[d], NoSid}
    /\ \A s \in Sids \ Alive : session[s] # "fresh" => s \notin Alive'
    /\ \A s \in Sids : named[s] \in Devices \ ds =>
          named'[s] = named[s] \/ s \in untied' \/ s \notin Alive'
    /\ \A s \in Sids : named'[s] \in Devices \ ds => named'[s] = named[s]
    /\ \A h \in handoffs' \ handoffs :
          /\ {h.from, h.to} \subseteq ds
          /\ TiedTo(h.from, h.fromSid)' /\ TiedTo(h.to, h.toSid)'
    /\ \A d \in Devices, s \in Sids :
          TiedTo(d, s) => TiedTo(d, s)' \/ (d \in ds /\ HandedOver(d, s)' = {})

LEMMA HandoffsStay ==
    ASSUME TypeOK, HandoffsEndWithConnection, NEW ds, Effect(ds)
    PROVE  HandoffsEndWithConnection'
<1> SUFFICES ASSUME NEW h \in handoffs'
             PROVE  TiedTo(h.from, h.fromSid)' /\ TiedTo(h.to, h.toSid)'
  BY DEF HandoffsEndWithConnection
<1>1. CASE h \in handoffs
  <2>1. h.from \in Devices /\ h.to \in Devices /\ h.fromSid \in Sids /\ h.toSid \in Sids
    BY <1>1 DEF TypeOK, Handoff
  <2>2. TiedTo(h.from, h.fromSid) /\ TiedTo(h.to, h.toSid)
    BY <1>1 DEF HandoffsEndWithConnection
  <2>3. h \in HandedOver(h.from, h.fromSid)' /\ h \in HandedOver(h.to, h.toSid)'
    BY DEF HandedOver
  <2> QED BY <2>1, <2>2, <2>3 DEF Effect
<1>2. CASE h \notin handoffs
  BY <1>2 DEF Effect
<1> QED BY <1>1, <1>2

(* What a handler of devices other than ds has found stays so.             *)
LEMMA OthersStay ==
    ASSUME TypeOK, SessionsOK, NEW ds, Effect(ds), NEW h \in Handler, HandlerOK(h),
           h.phase # "taking", h.keys \cap ds = {},
           h.sid \in Sids => session[h.sid] # "fresh"
    PROVE  /\ EndedStays(h) => EndedStays(h)'
           /\ h.phase = "matched" /\ TiedTo(h.about.from, h.about.fromSid)
                                  /\ TiedTo(h.about.to, h.about.toSid)
                 => TiedTo(h.about.from, h.about.fromSid)' /\ TiedTo(h.about.to, h.about.toSid)'
<1>1. ASSUME h.phase = "matched", TiedTo(h.about.from, h.about.fromSid),
             TiedTo(h.about.to, h.about.toSid)
      PROVE  TiedTo(h.about.from, h.about.fromSid)' /\ TiedTo(h.about.to, h.about.toSid)'
  <2>1. /\ h.about.from \in Devices \ ds /\ h.about.to \in Devices \ ds
        /\ h.about.fromSid \in Sids /\ h.about.toSid \in Sids
    BY <1>1 DEF HandlerOK
  <2> QED BY <1>1, <2>1 DEF Effect
<1>2. ASSUME NEW d \in Devices \ ds, NEW s, HandedOver(d, s) = {}
      PROVE  HandedOver(d, s)' = {}
  BY <1>2 DEF HandedOver, Effect
<1>3. ASSUME h.op = "disconnect", EndedStays(h)
      PROVE  \/ h.sid \in untied'
             \/ h.sid \notin Alive'
             \/ /\ h.device # NoDevice
                /\ named'[h.sid] = h.device
                /\ HandedOver(h.device, h.sid)' = {}
  <2>1. h.sid \in Sids /\ session[h.sid] # "fresh"
    BY <1>3 DEF HandlerOK
  <2>2. CASE h.sid \in untied
    BY <2>2 DEF Effect
  <2>3. CASE h.sid \notin Alive
    BY <2>1, <2>3 DEF Effect
  <2>4. CASE h.device # NoDevice /\ named[h.sid] = h.device /\ HandedOver(h.device, h.sid) = {}
    <3>1. h.device \in Devices \ ds
      BY <1>3, <2>4 DEF HandlerOK, Handler
    <3> QED BY <1>2, <2>1, <2>4, <3>1 DEF Effect
  <2> QED BY <1>3, <2>2, <2>3, <2>4 DEF EndedStays
<1>4. ASSUME NEW d \in Devices \ ds
      PROVE  /\ route'[d] \in {route[d], NoSid}
             /\ route'[d] \in Alive' => route'[d] = route[d] /\ route[d] \in Alive
  <2>1. route'[d] \in {route[d], NoSid}
    BY DEF Effect
  <2>2. ASSUME route'[d] \in Alive' PROVE route'[d] = route[d] /\ route[d] \in Alive
    <3>1. route'[d] \in Sids /\ route'[d] = route[d]
      BY <2>1, <2>2, GenerationAssumption DEF Alive
    <3>2. session[route[d]] # "fresh"
      BY <3>1 DEF SessionsOK
    <3> QED BY <2>2, <3>1, <3>2 DEF Effect
  <2> QED BY <2>1, <2>2
<1>5. ASSUME h.op = "register", h.phase = "telling", EndedStays(h)
      PROVE  \/ route'[h.device] = h.sid
             \/ ~ Current(h.device, route[h.device])'
             \/ HandedOver(h.device, route[h.device])' = {}
  <2> DEFINE d == h.device
  <2>1. d \in Devices \ ds
    BY <1>5 DEF HandlerOK, Handler
  <2>2. SUFFICES ASSUME Current(d, route[d])' PROVE route'[d] = h.sid \/ HandedOver(d, route[d])' = {}
    OBVIOUS
  <2>3. route'[d] = route[d] /\ route[d] \in Alive /\ route[d] \in Sids
    BY <1>4, <2>1, <2>2 DEF Current, Alive
  <2>4. named'[route[d]] = d
    BY <2>2, <2>3 DEF Current
  <2>5. named[route[d]] = d
    BY <2>1, <2>3, <2>4 DEF Effect
  <2>6. Current(d, route[d])
    BY <2>3, <2>5 DEF Current
  <2>7. route[d] = h.sid \/ HandedOver(d, route[d]) = {}
    BY <1>5, <2>6 DEF EndedStays
  <2>8. HandedOver(d, route[d]) = {} => HandedOver(d, route[d])' = {}
    BY <1>2, <2>1, <2>3 DEF HandedOver
  <2> QED BY <2>3, <2>7, <2>8
<1>6. ASSUME h.op = "prune", h.phase = "leaving", EndedStays(h), NEW d \in h.base,
             route'[d] \in Alive'
      PROVE  HandedOver(d, route[d])' = {}
  <2>1. d \in Devices \ ds
    BY <1>6 DEF HandlerOK, Handler
  <2>2. route'[d] = route[d] /\ route[d] \in Alive
    BY <1>4, <1>6, <2>1
  <2>3. HandedOver(d, route[d]) = {}
    BY <1>6, <2>2 DEF EndedStays
  <2> QED BY <1>2, <2>1, <2>2, <2>3
<1> QED BY <1>1, <1>3, <1>5, <1>6 DEF EndedStays

(* A step of the thread t, which acts on devices that it has locked.       *)
LEMMA EndsFromEffect ==
    ASSUME LockInv, SessionsOK, EndsOK, NEW t \in Threads, Effect(Held(t)),
           thread' = [thread EXCEPT ![t] = thread'[t]],
           t \in Busy' => EndedStays(thread[t])',
           t \in Busy' /\ thread'[t].phase = "matched" =>
              /\ TiedTo(thread[t].about.from, thread[t].about.fromSid)'
              /\ TiedTo(thread[t].about.to, thread[t].about.toSid)'
    PROVE  EndsOK'
<1>1. HandoffsEndWithConnection'
  BY HandoffsStay DEF LockInv, EndsOK
<1>2. ASSUME NEW u \in Busy'
      PROVE  /\ EndedStays(thread[u])'
             /\ thread'[u].phase = "matched" =>
                   /\ TiedTo(thread[u].about.from, thread[u].about.fromSid)'
                   /\ TiedTo(thread[u].about.to, thread[u].about.toSid)'
  <2>1. CASE u = t
    BY <2>1
  <2>2. CASE u # t
    <3>1. thread'[u] = thread[u]
      BY <2>2 DEF LockInv, TypeOK, Busy
    <3>2. u \in Busy /\ u \in Threads
      BY <3>1 DEF Busy
    <3>3. PICK h \in Handler : h = thread[u]
      BY <3>2, BusyIs DEF LockInv
    <3>4. HandlerOK(h) /\ EndedStays(h)
      BY <3>2, <3>3 DEF LockInv, HandlersOK, EndsOK
    <3>5. h.phase = "matched" => TiedTo(h.about.from, h.about.fromSid)
                                 /\ TiedTo(h.about.to, h.about.toSid)
      BY <3>2, <3>3 DEF EndsOK, MatchedIsCurrent
    <3>6. h.sid \in Sids => session[h.sid] # "fresh"
      BY <3>2, <3>3 DEF SessionsOK
    <3>7. CASE h.phase = "taking"
      BY <3>1, <3>3, <3>7 DEF EndedStays
    <3>8. CASE h.phase # "taking"
      <4>1. h.keys \cap Held(t) = {}
        BY <2>2, <3>2, <3>3, <3>8 DEF LockInv, LocksOK, Held
      <4>2. /\ EndedStays(h)'
            /\ h.phase = "matched" => TiedTo(h.about.from, h.about.fromSid)'
                                      /\ TiedTo(h.about.to, h.about.toSid)'
        BY <3>4, <3>5, <3>6, <3>8, <4>1, OthersStay DEF LockInv
      <4> QED BY <3>1, <3>3, <4>2 DEF EndedStays, TiedTo, Current
    <3> QED BY <3>7, <3>8
  <2> QED BY <2>1, <2>2
<1> QED BY <1>1, <1>2 DEF EndsOK, MatchedIsCurrent

(* A step that changes nothing but handlers and locks, or ends handoffs.   *)
LEMMA NoEffect ==
    ASSUME LockInv, SessionsOK, NEW ds, UNCHANGED <<named, route>>, Alive \subseteq Alive',
           \A s \in Alive' \ Alive : session[s] = "fresh",
           handoffs' \subseteq handoffs, untied \subseteq untied'
    PROVE  Effect(ds)
<1>1. \A d, s : TiedTo(d, s) => TiedTo(d, s)'
  BY DEF TiedTo, Current
<1> QED BY <1>1 DEF Effect

LEMMA NothingRemoved ==
    ASSUME LockInv, SessionsOK, NEW ds, UNCHANGED <<session, named, route>>,
           handoffs' \subseteq handoffs, untied \subseteq untied'
    PROVE  Effect(ds)
<1>1. Alive' = Alive
  BY DEF Alive
<1> QED BY <1>1, NoEffect

(* The connection s is removed; the device that it was of has no handoff.  *)
LEMMA RemovedEffect ==
    ASSUME LockInv, SessionsOK, NEW s \in Sids, Removed(s), NEW ds, NEW d, d = named[s],
           handoffs' \subseteq handoffs, untied' = untied,
           \/ s \in untied
           \/ s \notin Alive
           \/ d \in ds /\ HandedOver(d, s)' = {}
    PROVE  Effect(ds)
<1>1. /\ Alive' = Alive \ {s}
      /\ \A x \in Sids : named'[x] = IF x = s THEN NoDevice ELSE named[x]
      /\ \A e \in Devices : route'[e] = IF e = d /\ route[e] = s THEN NoSid ELSE route[e]
  BY DEF Removed, LockInv, TypeOK, Alive
<1>2. ASSUME NEW e \in Devices, NEW x \in Sids, TiedTo(e, x)
      PROVE  TiedTo(e, x)' \/ (e \in ds /\ HandedOver(e, x)' = {})
  <2>1. CASE x \in untied
    BY <2>1 DEF TiedTo
  <2>2. CASE x \notin untied
    <3>1. route[e] = x /\ x \in Alive /\ named[x] = e
      BY <1>2, <2>2 DEF TiedTo, Current
    <3>2. CASE x = s
      BY <2>2, <3>1, <3>2
    <3>3. CASE x # s
      BY <1>1, <3>1, <3>3 DEF TiedTo, Current
    <3> QED BY <3>2, <3>3
  <2> QED BY <2>1, <2>2
<1>3. \A e \in Devices : route'[e] \in {route[e], NoSid}
  BY <1>1
<1>4. \A x \in Sids : /\ named'[x] = named[x] \/ x \notin Alive'
                      /\ named'[x] \in Devices => named'[x] = named[x]
  BY <1>1, GenerationAssumption
<1> QED BY <1>1, <1>2, <1>3, <1>4 DEF Effect

(* The device d is given the connection s; the one it had has no handoff.  *)
LEMMA RegisteredEffect ==
    ASSUME LockInv, SessionsOK, GhostIsUntied, NEW s \in Sids, NEW d \in Devices, NEW p, p = route[d],
           UNCHANGED <<session, handoffs>>,
           named' = NamesAfter(d, s, p), route' = [route EXCEPT ![d] = s],
           untied' = IF named[s] \notin {d, NoDevice} THEN untied \cup {s} ELSE untied,
           NEW ds, d \in ds,
           p = s \/ ~ Current(d, p) \/ HandedOver(d, p) = {}
    PROVE  Effect(ds)
<1>1. /\ Alive' = Alive
      /\ \A x \in Sids \ Alive : named'[x] = named[x]
      /\ s \in Alive => named'[s] = d
      /\ \A x \in Alive \ {s} : named'[x] = IF x = p THEN NoDevice ELSE named[x]
      /\ \A e \in Devices : route'[e] = IF e = d THEN s ELSE route[e]
  BY DEF NamesAfter, LockInv, TypeOK, Alive
<1>2. untied \subseteq untied'
  OBVIOUS
<1>3. p \in Alive /\ named[p] # d => p \in untied
  BY DEF GhostIsUntied
<1>4. ASSUME NEW e \in Devices, NEW x \in Sids, TiedTo(e, x)
      PROVE  TiedTo(e, x)' \/ (e \in ds /\ HandedOver(e, x)' = {})
  <2>1. CASE x \in untied
    BY <1>2, <2>1 DEF TiedTo
  <2>2. CASE x \notin untied
    <3>1. route[e] = x /\ x \in Alive /\ named[x] = e
      BY <1>4, <2>2 DEF TiedTo, Current
    <3>2. CASE e = d /\ x = s
      BY <1>1, <3>1, <3>2 DEF TiedTo, Current
    <3>3. CASE e = d /\ x # s
      <4>1. x = p /\ HandedOver(d, p) = {}
        BY <3>1, <3>3 DEF Current
      <4> QED BY <3>3, <4>1 DEF HandedOver
    <3>4. CASE e # d /\ x = s
      <4>1. named[s] = e /\ e # NoDevice
        BY <3>1, <3>4, GenerationAssumption
      <4>2. s \in untied'
        BY <3>4, <4>1
      <4> QED BY <3>4, <4>2 DEF TiedTo
    <3>5. CASE e # d /\ x # s
      <4>1. x # p
        BY <1>3, <2>2, <3>1, <3>5
      <4> QED BY <1>1, <3>1, <3>5, <4>1 DEF TiedTo, Current
    <3> QED BY <3>2, <3>3, <3>4, <3>5
  <2> QED BY <2>1, <2>2
<1>5. \A e \in Devices \ ds : route'[e] \in {route[e], NoSid}
  BY <1>1
<1>6. ASSUME NEW x \in Sids, named[x] \in Devices \ ds
      PROVE  named'[x] = named[x] \/ x \in untied' \/ x \notin Alive'
  <2>1. named[x] # d /\ named[x] # NoDevice
    BY <1>6, GenerationAssumption
  <2>2. CASE x = s
    BY <2>1, <2>2
  <2>3. CASE x # s /\ x = p /\ x \in Alive
    BY <1>2, <1>3, <2>1, <2>3
  <2>4. CASE x # s /\ ~ (x = p /\ x \in Alive)
    BY <1>1, <2>4
  <2> QED BY <2>2, <2>3, <2>4
<1>7. ASSUME NEW x \in Sids, named'[x] \in Devices \ ds PROVE named'[x] = named[x]
  BY <1>1, <1>7, GenerationAssumption
<1> QED BY <1>1, <1>2, <1>4, <1>5, <1>6, <1>7 DEF Effect

(* The devices of gone, which have no handoffs, lose their connections.    *)
LEMMA PrunedEffect ==
    ASSUME LockInv, SessionsOK, GhostIsUntied, NEW t \in Threads, RemoveClients(t),
           NEW ds, StillSilent(t) \subseteq ds,
           \A d \in StillSilent(t) : route[d] \in Alive => HandedOver(d, route[d]) = {}
    PROVE  Effect(ds)
<1>1. PICK gone : gone = StillSilent(t)
  OBVIOUS
<1>2. /\ Alive' = Alive /\ UNCHANGED <<session, untied, handoffs>>
      /\ \A s \in Sids : named'[s] = IF s \in Alive /\ named[s] \in gone /\ route[named[s]] = s
                                     THEN NoDevice ELSE named[s]
      /\ \A d \in Devices : route'[d] = IF d \in gone THEN NoSid ELSE route[d]
  BY <1>1 DEF RemoveClients, Alive, work
<1>3. ASSUME NEW d \in Devices, NEW s \in Sids, TiedTo(d, s)
      PROVE  TiedTo(d, s)' \/ (d \in ds /\ HandedOver(d, s)' = {})
  <2>1. CASE s \in untied
    BY <1>2, <2>1 DEF TiedTo
  <2>2. CASE s \notin untied
    <3>1. route[d] = s /\ s \in Alive /\ named[s] = d
      BY <1>3, <2>2 DEF TiedTo, Current
    <3>2. CASE d \in gone
      <4>1. HandedOver(d, s) = {}
        BY <1>1, <3>1, <3>2
      <4> QED BY <1>1, <1>2, <3>2, <4>1 DEF HandedOver
    <3>3. CASE d \notin gone
      BY <1>2, <3>1, <3>3 DEF TiedTo, Current
    <3> QED BY <3>2, <3>3
  <2> QED BY <2>1, <2>2
<1>4. \A s \in Sids : /\ named[s] \in Devices \ ds => named'[s] = named[s]
                      /\ named'[s] \in Devices => named'[s] = named[s]
  BY <1>1, <1>2, GenerationAssumption
<1> QED BY <1>2, <1>3, <1>4 DEF Effect

-----------------------------------------------------------------------------
(* The handler of t, which is not one that has ended a connection.         *)
LEMMA NoConnectionEnded ==
    ASSUME NEW t \in Threads,
           \/ t \notin Busy'
           \/ thread'[t].phase = "taking"
           \/ thread'[t].op \in {"control", "start", "settle", "revoke", "finish"}
    PROVE  t \in Busy' => EndedStays(thread[t])'
BY DEF EndedStays

LEMMA ReturnEnds ==
    ASSUME LockInv, SessionsOK, EndsOK, NEW t \in Threads, Effect(Held(t)), Return(t)
    PROVE  EndsOK'
<1>1. thread'[t] = Idle /\ t \notin Busy' /\ thread' = [thread EXCEPT ![t] = thread'[t]]
  BY DEF Return, Busy, LockInv, TypeOK
<1> QED BY <1>1, EndsFromEffect

(* The handler of t goes on, and nothing but its locks and its own changes.*)
LEMMA GoOnEnds ==
    ASSUME LockInv, SessionsOK, EndsOK, NEW t \in Threads, t \in Busy,
           UNCHANGED <<tables, work, untied>>, thread' = [thread EXCEPT ![t] = thread'[t]],
           thread'[t].op = thread[t].op, thread'[t].sid = thread[t].sid,
           thread'[t].device = thread[t].device, thread'[t].base = thread[t].base,
           thread'[t].about = thread[t].about,
           \/ thread'[t].phase = thread[t].phase
           \/ thread[t].op = "disconnect" /\ thread[t].phase # "taking"
              /\ thread'[t].phase # "matched"
    PROVE  EndsOK'
<1>1. Effect(Held(t))
  BY NothingRemoved DEF tables, work
<1>2. Alive' = Alive
  BY DEF Alive, tables
<1>3. EndedStays(thread[t])'
  <2>1. EndedStays(thread[t])
    BY DEF EndsOK
  <2>2. UNCHANGED <<named, route, handoffs, untied>>
    BY DEF tables, work
  <2> QED BY <1>2, <2>1, <2>2 DEF EndedStays, HandedOver, Current
<1>4. thread'[t].phase = "matched" =>
          /\ TiedTo(thread[t].about.from, thread[t].about.fromSid)'
          /\ TiedTo(thread[t].about.to, thread[t].about.toSid)'
  <2>1. UNCHANGED <<named, route, untied>>
    BY DEF tables
  <2> QED BY <1>2, <2>1 DEF EndsOK, MatchedIsCurrent, TiedTo, Current
<1> QED BY <1>1, <1>3, <1>4, EndsFromEffect

LEMMA TakeEnds ==
    ASSUME LockInv, SessionsOK, EndsOK, NEW t \in Threads,
           Take(t) \/ Tell(t) \/ BeginUnregister(t)
    PROVE  EndsOK'
<1>0. thread \in [Threads -> Handler \cup {Idle}] /\ (t \in Busy => thread[t] \in Handler)
  BY BusyIs DEF LockInv, TypeOK
<1>1. CASE Take(t)
  <2>1. t \in Busy
    BY <1>1 DEF Take, Wanted
  <2>2. UNCHANGED thread /\ thread' = [thread EXCEPT ![t] = thread'[t]]
    BY <1>0, <1>1 DEF Take
  <2> QED BY <1>1, <2>1, <2>2, GoOnEnds DEF Take
<1>2. CASE Tell(t)
  <2>1. t \in Busy
    BY <1>2 DEF Tell
  <2>2. ASSUME NEW pair, thread' = [thread EXCEPT ![t].extra = pair, ![t].todo = @ \ {pair}]
        PROVE  EndsOK'
    <3>1. /\ thread' = [thread EXCEPT ![t] = thread'[t]]
          /\ thread'[t].op = thread[t].op /\ thread'[t].sid = thread[t].sid
          /\ thread'[t].device = thread[t].device /\ thread'[t].base = thread[t].base
          /\ thread'[t].about = thread[t].about /\ thread'[t].phase = thread[t].phase
      BY <1>0, <2>1, <2>2 DEF Handler
    <3> QED BY <1>2, <2>1, <3>1, GoOnEnds DEF Tell
  <2>3. ASSUME thread' = [thread EXCEPT ![t].extra = {}] PROVE EndsOK'
    <3>1. /\ thread' = [thread EXCEPT ![t] = thread'[t]]
          /\ thread'[t].op = thread[t].op /\ thread'[t].sid = thread[t].sid
          /\ thread'[t].device = thread[t].device /\ thread'[t].base = thread[t].base
          /\ thread'[t].about = thread[t].about /\ thread'[t].phase = thread[t].phase
      BY <1>0, <2>1, <2>3 DEF Handler
    <3> QED BY <1>2, <2>1, <3>1, GoOnEnds DEF Tell
  <2> QED BY <1>2, <2>2, <2>3 DEF Tell
<1>3. CASE BeginUnregister(t)
  <2>1. t \in Busy /\ thread[t].op = "disconnect" /\ thread[t].phase = "telling"
    BY <1>3 DEF BeginUnregister, Told, At
  <2>2. /\ thread' = [thread EXCEPT ![t] = thread'[t]]
        /\ thread'[t].op = thread[t].op /\ thread'[t].sid = thread[t].sid
        /\ thread'[t].device = thread[t].device /\ thread'[t].base = thread[t].base
        /\ thread'[t].about = thread[t].about /\ thread'[t].phase = "leaving"
    BY <1>0, <1>3, <2>1 DEF BeginUnregister, Handler
  <2> QED BY <1>3, <2>1, <2>2, GoOnEnds DEF BeginUnregister
<1> QED BY <1>1, <1>2, <1>3

LEMMA MatchEnds ==
    ASSUME LockInv, SessionsOK, EndsOK, NEW t \in Threads, Match(t)
    PROVE  EndsOK'
<1>1. UNCHANGED <<tables, work, untied>> /\ Effect(Held(t))
  BY NothingRemoved DEF Match, tables, work
<1>2. CASE Return(t)
  BY <1>1, <1>2, ReturnEnds
<1>3. CASE Matches(t) /\ ~ Return(t)
  <2> DEFINE h == thread[t]
  <2>1. PICK op \in {"control", "start"} : At(t, op, "taking")
    BY DEF Match, Inside
  <2>2. t \in Busy /\ h \in Handler /\ h.about \in About
        /\ h.op = op /\ h.phase = "taking" /\ thread \in [Threads -> Handler \cup {Idle}]
    BY <2>1, AtHas DEF Handler, LockInv, TypeOK
  <2>3. thread' = [thread EXCEPT ![t].phase = "matched", ![t].base = {},
                                 ![t].about.fromSid = route[thread[t].about.from],
                                 ![t].about.toSid = route[thread[t].about.to]]
    BY <1>3 DEF Match
  <2>4. /\ thread' = [thread EXCEPT ![t] = thread'[t]] /\ thread'[t].op = op
        /\ thread'[t].about.from = h.about.from /\ thread'[t].about.to = h.about.to
        /\ thread'[t].about.fromSid = route[h.about.from]
        /\ thread'[t].about.toSid = route[h.about.to]
    BY <2>2, <2>3 DEF Handler, About
  <2>5. Current(h.about.from, route[h.about.from]) /\ Current(h.about.to, route[h.about.to])
    BY <1>3 DEF Matches
  <2>6. /\ TiedTo(thread[t].about.from, thread[t].about.fromSid)'
        /\ TiedTo(thread[t].about.to, thread[t].about.toSid)'
    BY <1>1, <2>4, <2>5 DEF TiedTo, Current, Alive, tables
  <2> QED BY <1>1, <2>4, <2>6, NoConnectionEnded, EndsFromEffect
<1> QED BY <1>2, <1>3 DEF Match

(* The steps that end the handoffs of a connection.                        *)
LEMMA EndingEnds ==
    ASSUME LockInv, SessionsOK, EndsOK, NEW t \in Threads, Disconnect(t) \/ Replace(t) \/ Prune(t)
    PROVE  EndsOK'
<1>0. thread \in [Threads -> Handler \cup {Idle}] /\ (t \in Busy => thread[t] \in Handler)
  BY BusyIs DEF LockInv, TypeOK
<1>1. ASSUME NEW op \in {"disconnect", "register", "revoke"}, At(t, op, "taking"),
             NEW settled \in SUBSET controls, Telling(t, settled)
      PROVE  /\ thread' = [thread EXCEPT ![t] = thread'[t]]
             /\ thread'[t].op = op /\ thread'[t].phase = "telling"
             /\ thread'[t].sid = thread[t].sid /\ thread'[t].device = thread[t].device
             /\ t \in Busy /\ HandlerOK(thread[t])
  BY <1>1, TellingOK, AtHas
<1>2. ASSUME NEW d, NEW s PROVE RoutedTo(d, s) \in SUBSET controls /\ {} \in SUBSET controls
  BY DEF RoutedTo
<1>3. CASE Disconnect(t)
  <2>1. PICK s, d : s = thread[t].sid /\ d = thread[t].device
    OBVIOUS
  <2>2. /\ thread' = [thread EXCEPT ![t] = thread'[t]]
        /\ thread'[t].op = "disconnect" /\ thread'[t].phase = "telling"
        /\ thread'[t].sid = s /\ thread'[t].device = d
    BY <1>1, <1>2, <1>3, <2>1 DEF Disconnect, Inside
  <2>3. Effect(Held(t)) /\ Alive' = Alive /\ UNCHANGED <<named, route>>
    <3>1. UNCHANGED <<session, named, route>>
      BY <1>3 DEF Disconnect, Ends, tables, work
    <3>2. handoffs' \subseteq handoffs /\ untied \subseteq untied'
      BY <1>3 DEF Disconnect, Ends, tables, work
    <3>3. Effect(Held(t))
      BY <3>1, <3>2, NothingRemoved
    <3> QED BY <3>1, <3>3 DEF Alive
  <2>4. CASE s \in untied'
    <3>1. EndedStays(thread[t])'
      BY <2>2, <2>4 DEF EndedStays
    <3> QED BY <2>2, <2>3, <3>1, EndsFromEffect
  <2>5. CASE StillObserved(t) /\ Ends(d, s)
    <3>1. named'[s] = d /\ d # NoDevice
      BY <2>1, <2>3, <2>5 DEF StillObserved
    <3>2. HandedOver(d, s)' = {}
      BY <2>5 DEF Ends, HandedOver
    <3>3. EndedStays(thread[t])'
      BY <2>2, <3>1, <3>2 DEF EndedStays, HandedOver
    <3> QED BY <2>2, <2>3, <3>3, EndsFromEffect
  <2> QED BY <1>3, <2>1, <2>4, <2>5 DEF Disconnect
<1>4. CASE Replace(t)
  <2>1. PICK s, d, p : s = thread[t].sid /\ d = thread[t].device /\ p = route[d]
    OBVIOUS
  <2>2. /\ thread' = [thread EXCEPT ![t] = thread'[t]]
        /\ thread'[t].op = "register" /\ thread'[t].phase = "telling"
        /\ thread'[t].sid = s /\ thread'[t].device = d
        /\ t \in Busy /\ HandlerOK(thread[t]) /\ thread[t].op = "register"
    BY <1>1, <1>2, <1>4, <2>1 DEF Replace, Inside, At
  <2>3. Effect(Held(t)) /\ Alive' = Alive /\ UNCHANGED <<named, route>>
    <3>1. UNCHANGED <<session, named, route>>
      BY <1>4 DEF Replace, Ends, tables, work
    <3>2. handoffs' \subseteq handoffs /\ untied \subseteq untied'
      BY <1>4 DEF Replace, Ends, tables, work
    <3>3. Effect(Held(t))
      BY <3>1, <3>2, NothingRemoved
    <3> QED BY <3>1, <3>3 DEF Alive
  <2>4. d \in Devices /\ p = route'[d]
    <3>1. thread[t].device \in thread[t].keys /\ thread[t].keys \subseteq Devices
      BY <1>0, <2>2 DEF HandlerOK, Handler
    <3> QED BY <2>1, <2>3, <3>1
  <2>5. \/ p = s
        \/ ~ (p \in Alive /\ named[p] = d)
        \/ Ends(d, p)
    <3>1. NoDevice # d
      BY <2>4, GenerationAssumption
    <3> QED BY <1>4, <2>1, <3>1 DEF Replace
  <2>6. Ends(d, p) => HandedOver(d, p)' = {}
    BY DEF Ends, HandedOver
  <2>7. EndedStays(thread[t])'
    BY <2>2, <2>3, <2>4, <2>5, <2>6 DEF EndedStays, HandedOver, Current
  <2> QED BY <2>2, <2>3, <2>7, EndsFromEffect
<1>5. CASE Prune(t)
  <2>1. t \in Busy /\ thread[t].op = "prune"
    BY <1>5 DEF Prune, At
  <2>2. /\ thread' = [thread EXCEPT ![t] = thread'[t]]
        /\ thread'[t].op = "prune" /\ thread'[t].phase = "leaving"
        /\ thread'[t].base = StillSilent(t)
    BY <1>0, <1>5, <2>1 DEF Prune, Handler
  <2>3. Effect(Held(t)) /\ Alive' = Alive /\ UNCHANGED <<named, route>>
    <3>1. UNCHANGED <<session, named, route>>
      BY <1>5 DEF Prune, tables
    <3>2. handoffs' \subseteq handoffs /\ untied \subseteq untied'
      BY <1>5 DEF Prune, tables
    <3>3. Effect(Held(t))
      BY <3>1, <3>2, NothingRemoved
    <3> QED BY <3>1, <3>3 DEF Alive
  <2>4. ASSUME NEW d \in StillSilent(t), route[d] \in Alive
        PROVE  HandedOver(d, route[d])' = {}
    <3>1. handoffs' \cap HandedOver(d, route[d]) = {} /\ handoffs' \subseteq handoffs
      BY <1>5, <2>4 DEF Prune
    <3> QED BY <2>3, <3>1 DEF HandedOver
  <2>5. EndedStays(thread[t])'
    BY <2>2, <2>3, <2>4 DEF EndedStays
  <2> QED BY <2>2, <2>3, <2>5, EndsFromEffect
<1> QED BY <1>3, <1>4, <1>5

(* The steps that remove a connection, or give a device another.           *)
LEMMA RemovingEnds ==
    ASSUME LockInv, SessionsOK, GhostIsUntied, EndsOK, NEW t \in Threads,
           Unregister(t) \/ RegisterClient(t) \/ RemoveClients(t) \/ Revoke(t)
    PROVE  EndsOK'
<1>1. CASE Unregister(t)
  <2>1. PICK s, d : s = thread[t].sid /\ d = named[s]
    OBVIOUS
  <2>2. /\ t \in Busy /\ thread[t] \in Handler /\ HandlerOK(thread[t])
        /\ thread[t].op = "disconnect" /\ thread[t].phase = "leaving"
        /\ thread[t].keys \subseteq Held(t)
    BY <1>1, AtHas DEF Unregister
  <2>3. EndedStays(thread[t]) /\ s \in Sids
    BY <2>1, <2>2 DEF EndsOK, HandlerOK
  <2>4. Removed(s) /\ handoffs' = handoffs /\ untied' = untied /\ Return(t)
    BY <1>1, <2>1 DEF Unregister, work
  <2>5. \/ s \in untied
        \/ s \notin Alive
        \/ d \in Held(t) /\ HandedOver(d, s)' = {}
    <3>1. CASE /\ thread[t].device # NoDevice
               /\ named[thread[t].sid] = thread[t].device
               /\ HandedOver(thread[t].device, thread[t].sid) = {}
      <4>1. d \in thread[t].keys
        BY <2>1, <2>2, <3>1 DEF HandlerOK
      <4>2. HandedOver(d, s) = {}
        BY <2>1, <3>1
      <4> QED BY <2>2, <2>4, <4>1, <4>2 DEF HandedOver
    <3> QED BY <2>1, <2>2, <2>3, <3>1 DEF EndedStays
  <2>6. Effect(Held(t))
    BY <2>1, <2>3, <2>4, <2>5, RemovedEffect
  <2> QED BY <2>4, <2>6, ReturnEnds
<1>2. CASE RegisterClient(t)
  <2>1. PICK s, d, p : s = thread[t].sid /\ d = thread[t].device /\ p = route[d]
    OBVIOUS
  <2>2. /\ t \in Busy /\ thread[t] \in Handler /\ HandlerOK(thread[t])
        /\ thread[t].op = "register" /\ thread[t].phase = "telling"
        /\ thread[t].keys \subseteq Held(t)
    BY <1>2, AtHas DEF RegisterClient, Told
  <2>3. s \in Sids /\ d \in Devices /\ d \in Held(t)
    BY <2>1, <2>2 DEF HandlerOK, Handler
  <2>4. p = s \/ ~ Current(d, p) \/ HandedOver(d, p) = {}
    BY <2>1, <2>2 DEF EndsOK, EndedStays
  <2>5. /\ UNCHANGED <<session, handoffs>> /\ Return(t)
        /\ named' = NamesAfter(d, s, p) /\ route' = [route EXCEPT ![d] = s]
        /\ untied' = IF named[s] \notin {d, NoDevice} THEN untied \cup {s} ELSE untied
    BY <1>2, <2>1 DEF RegisterClient, work
  <2>6. Effect(Held(t))
    BY <2>1, <2>3, <2>4, <2>5, RegisteredEffect
  <2> QED BY <2>5, <2>6, ReturnEnds
<1>3. CASE RemoveClients(t)
  <2>1. /\ t \in Busy /\ HandlerOK(thread[t])
        /\ thread[t].op = "prune" /\ thread[t].phase = "leaving"
        /\ thread[t].keys \subseteq Held(t)
    BY <1>3, AtHas DEF RemoveClients
  <2>2. StillSilent(t) \subseteq thread[t].base
    BY DEF StillSilent
  <2>3. StillSilent(t) \subseteq Held(t)
    BY <2>1, <2>2 DEF HandlerOK
  <2>4. \A d \in StillSilent(t) : route[d] \in Alive => HandedOver(d, route[d]) = {}
    BY <2>1, <2>2 DEF EndsOK, EndedStays
  <2>5. Effect(Held(t))
    BY <1>3, <2>3, <2>4, PrunedEffect
  <2> QED BY <1>3, <2>5, ReturnEnds DEF RemoveClients
<1>4. CASE Revoke(t)
  <2>1. PICK s, d : d = thread[t].device /\ s = route[d]
    OBVIOUS
  <2>2. /\ t \in Busy /\ HandlerOK(thread[t]) /\ thread[t].op = "revoke"
        /\ thread[t].keys \subseteq Held(t) /\ At(t, "revoke", "taking")
    BY <1>4, AtHas DEF Revoke, Inside
  <2>3. CASE ~ Current(d, s)
    <3>1. Return(t) /\ UNCHANGED <<tables, work, untied>>
      BY <1>4, <2>1, <2>3 DEF Revoke
    <3>2. Effect(Held(t))
      BY <3>1, NothingRemoved DEF tables, work
    <3> QED BY <3>1, <3>2, ReturnEnds
  <2>4. CASE Current(d, s)
    <3>1. Removed(s) /\ Ends(d, s) /\ untied' = untied /\ Telling(t, RoutedTo(d, s))
      BY <1>4, <2>1, <2>4 DEF Revoke
    <3>2. s \in Sids /\ named[s] = d /\ d \in Held(t)
      BY <2>1, <2>2, <2>4 DEF Current, Alive, HandlerOK
    <3>3. HandedOver(d, s)' = {} /\ handoffs' \subseteq handoffs
      BY <3>1 DEF Ends, HandedOver
    <3>4. Effect(Held(t))
      BY <3>1, <3>2, <3>3, RemovedEffect
    <3>5. RoutedTo(d, s) \in SUBSET controls
      BY DEF RoutedTo
    <3>6. thread' = [thread EXCEPT ![t] = thread'[t]] /\ thread'[t].op = "revoke"
          /\ thread'[t].phase = "telling"
      BY <2>2, <3>1, <3>5, TellingOK
    <3> QED BY <3>4, <3>6, NoConnectionEnded, EndsFromEffect
  <2> QED BY <2>3, <2>4
<1> QED BY <1>1, <1>2, <1>3, <1>4

LEMMA RunsEnds ==
    ASSUME LockInv, SessionsOK, GhostIsUntied, EndsOK, NEW t \in Threads, Runs(t)
    PROVE  EndsOK'
<1>0. thread \in [Threads -> Handler \cup {Idle}] /\ (t \in Busy => thread[t] \in Handler)
  BY BusyIs DEF LockInv, TypeOK
<1>1. ASSUME UNCHANGED tables, handoffs' \subseteq handoffs, untied' = untied
      PROVE  Effect(Held(t))
  BY <1>1, NothingRemoved DEF tables
<1>2. CASE Take(t) \/ Tell(t) \/ BeginUnregister(t)
  BY <1>2, TakeEnds
<1>3. CASE StartOver(t) \/ PruneAgain(t)
  <2>1. t \in Busy /\ thread[t].phase = "taking"
    BY <1>3 DEF StartOver, PruneAgain, At
  <2>2. thread'[t].phase = "taking" /\ thread' = [thread EXCEPT ![t] = thread'[t]]
    BY <1>0, <1>3, <2>1 DEF StartOver, PruneAgain, Handler
  <2>3. Effect(Held(t))
    BY <1>1, <1>3 DEF StartOver, PruneAgain, work
  <2> QED BY <2>2, <2>3, NoConnectionEnded, EndsFromEffect
<1>4. CASE Match(t)
  BY <1>4, MatchEnds
<1>5. CASE FinishHandoff(t) \/ ToldAll(t) \/ DisconnectFails(t)
  BY <1>1, <1>5, ReturnEnds DEF FinishHandoff, ToldAll, DisconnectFails, work
<1>6. CASE SettleControl(t)
  <2>1. t \in Busy /\ thread[t].op = "settle"
    BY <1>6 DEF SettleControl, Inside, At
  <2>2. Effect(Held(t))
    BY <1>1, <1>6 DEF SettleControl
  <2>3. CASE thread' = [thread EXCEPT ![t] = Idle]
    BY <1>6, <2>2, <2>3, ReturnEnds DEF SettleControl, Return
  <2>4. CASE thread' # [thread EXCEPT ![t] = Idle]
    <3> DEFINE c == thread[t].about
    <3>1. thread' = [thread EXCEPT ![t].phase = "telling",
                                   ![t].about = Between(NoDevice, NoDevice),
                                   ![t].keys = {},
                                   ![t].todo = {{c.from, c.to}}]
      BY <1>6, <2>4 DEF SettleControl
    <3> HIDE DEF c
    <3>2. thread' = [thread EXCEPT ![t] = thread'[t]] /\ thread'[t].op = "settle"
          /\ thread'[t].phase = "telling"
      BY <1>0, <2>1, <3>1 DEF Handler
    <3> QED BY <2>2, <3>2, NoConnectionEnded, EndsFromEffect
  <2> QED BY <2>3, <2>4
<1>7. CASE Disconnect(t) \/ Replace(t) \/ Prune(t)
  BY <1>7, EndingEnds
<1>8. CASE Unregister(t) \/ RegisterClient(t) \/ RemoveClients(t) \/ Revoke(t)
  BY <1>8, RemovingEnds
<1>9. CASE Dispatch(t)
  <2>1. UNCHANGED <<tables, untied>> /\ Return(t) /\ Alive' = Alive
    BY <1>9 DEF Dispatch, tables, Alive
  <2>2. CASE handoffs' \subseteq handoffs
    BY <1>1, <2>1, <2>2, ReturnEnds
  <2>3. CASE At(t, "start", "matched") /\ handoffs' = handoffs \cup {thread[t].about}
    <3>1. PICK a : a = thread[t].about
      OBVIOUS
    <3>2. /\ t \in Busy /\ HandlerOK(thread[t]) /\ thread[t].op = "start"
          /\ thread[t].phase = "matched" /\ thread[t].keys \subseteq Held(t)
      BY <2>3, AtHas
    <3>3. {a.from, a.to} \subseteq Held(t)
      BY <3>1, <3>2 DEF HandlerOK
    <3>4. TiedTo(a.from, a.fromSid) /\ TiedTo(a.to, a.toSid)
      BY <3>1, <3>2 DEF EndsOK, MatchedIsCurrent
    <3>5. \A d, s : TiedTo(d, s) => TiedTo(d, s)'
      BY <2>1 DEF TiedTo, Current, tables
    <3>6. \A h \in handoffs' \ handoffs :
            /\ {h.from, h.to} \subseteq Held(t)
            /\ TiedTo(h.from, h.fromSid)' /\ TiedTo(h.to, h.toSid)'
      BY <2>3, <3>1, <3>3, <3>4, <3>5
    <3>7. Effect(Held(t))
      BY <2>1, <3>5, <3>6 DEF Effect, tables
    <3> QED BY <2>1, <3>7, ReturnEnds
  <2> QED BY <1>9, <2>2, <2>3 DEF Dispatch, work
<1> QED BY <1>2, <1>3, <1>4, <1>5, <1>6, <1>7, <1>8, <1>9 DEF Runs

LEMMA EndsStep ==
    ASSUME LockInv, SessionsOK, GhostIsUntied, EndsOK, [Next]_vars
    PROVE  EndsOK'
<1>1. ASSUME NEW t \in Threads, Arrives(t) PROVE EndsOK'
  <2>1. UNCHANGED <<named, route, handoffs, untied>>
    BY <1>1, ArrivesTables DEF work
  <2>2. Alive' = Alive
    BY <1>1, ArrivesSame
  <2>3. Effect(Held(t))
    BY <2>1, <2>2, NoEffect
  <2>4. thread' = [thread EXCEPT ![t] = thread'[t]] /\ thread'[t].phase = "taking"
    BY <1>1, ArrivesSame
  <2> QED BY <2>3, <2>4, NoConnectionEnded, EndsFromEffect
<1>2. ASSUME NEW t \in Threads, Runs(t) PROVE EndsOK'
  BY <1>2, RunsEnds
<1>3. ASSUME UNCHANGED <<named, route, handoffs, untied, thread>>, Alive \subseteq Alive',
             \A s \in Alive' \ Alive : session[s] = "fresh"
      PROVE  EndsOK'
  <2>1. Effect({})
    BY <1>3, NoEffect
  <2>2. HandoffsEndWithConnection'
    BY <2>1, HandoffsStay DEF LockInv, EndsOK
  <2>3. ASSUME NEW u \in Busy'
        PROVE  /\ EndedStays(thread[u])'
               /\ thread'[u].phase = "matched" =>
                     /\ TiedTo(thread[u].about.from, thread[u].about.fromSid)'
                     /\ TiedTo(thread[u].about.to, thread[u].about.toSid)'
    <3>1. u \in Busy /\ thread'[u] = thread[u] /\ u \in Threads
      BY <1>3 DEF Busy
    <3>2. PICK h \in Handler : h = thread[u]
      BY <3>1, BusyIs DEF LockInv
    <3>3. HandlerOK(h) /\ EndedStays(h) /\ (h.sid \in Sids => session[h.sid] # "fresh")
      BY <3>1, <3>2 DEF LockInv, HandlersOK, EndsOK, SessionsOK
    <3>4. h.phase = "matched" => TiedTo(h.about.from, h.about.fromSid)
                                 /\ TiedTo(h.about.to, h.about.toSid)
      BY <3>1, <3>2 DEF EndsOK, MatchedIsCurrent
    <3>5. CASE h.phase = "taking"
      BY <3>1, <3>2, <3>5 DEF EndedStays
    <3>6. CASE h.phase # "taking"
      <4>1. /\ EndedStays(h)'
            /\ h.phase = "matched" => TiedTo(h.about.from, h.about.fromSid)'
                                      /\ TiedTo(h.about.to, h.about.toSid)'
        BY <2>1, <3>3, <3>4, <3>6, OthersStay DEF LockInv
      <4> QED BY <3>1, <3>2, <4>1 DEF EndedStays, TiedTo, Current
    <3> QED BY <3>5, <3>6
  <2> QED BY <2>2, <2>3 DEF EndsOK, MatchedIsCurrent
<1>4. ASSUME NEW s \in Sids, Connect(s) PROVE EndsOK'
  <2>1. Alive' = Alive \cup {s} /\ session[s] = "fresh"
    BY <1>4 DEF Connect, Alive, LockInv, TypeOK
  <2> QED BY <1>3, <1>4, <2>1 DEF Connect, work
<1>5. ASSUME UNCHANGED <<session, named, route, handoffs, untied, thread>> PROVE EndsOK'
  BY <1>3, <1>5 DEF Alive
<1>6. ASSUME NEW s \in Sids, Touch(s) PROVE EndsOK'
  BY <1>5, <1>6 DEF Touch, work
<1>7. ASSUME NEW d \in Devices, GrowSilent(d) PROVE EndsOK'
  BY <1>5, <1>7 DEF GrowSilent, work
<1>8. CASE UNCHANGED vars
  BY <1>5, <1>8 DEF vars, tables, work
<1> QED BY <1>1, <1>2, <1>4, <1>6, <1>7, <1>8 DEF Next

-----------------------------------------------------------------------------
LEMMA InitIInv == Init => IInv
<1> SUFFICES ASSUME Init PROVE IInv
  OBVIOUS
<1>1. Busy = {} /\ Alive = {} /\ \A t : Held(t) \in SUBSET Devices
  BY DEF Init, Busy, Alive, Held
<1>2. TypeOK
  BY DEF Init, TypeOK
<1>3. HandlersOK /\ TakenInOrder
  BY <1>1 DEF HandlersOK, TakenInOrder
<1>4. LocksOK
  BY <1>1, GenerationAssumption DEF Init, LocksOK
<1>5. SessionsOK /\ GhostIsUntied
  BY <1>1, GenerationAssumption DEF Init, SessionsOK, SessionIsRouted, GhostIsUntied
<1>6. EndsOK
  BY <1>1 DEF Init, EndsOK, HandoffsEndWithConnection, MatchedIsCurrent
<1> QED BY <1>2, <1>3, <1>4, <1>5, <1>6 DEF IInv, LockInv

(* The inductive invariant: the devices that a handler has locked are its  *)
(* own, and what it has found about them, or done to them, stays so.       *)
THEOREM GenerationInvariant == Spec => []IInv
<1>1. IInv /\ [Next]_vars => IInv'
  BY LockInvStep, SessionsStep, EndsStep DEF IInv
<1> QED BY <1>1, InitIInv, PTL DEF Spec

(* The values of the variables, for any devices, connections and threads.  *)
THEOREM GenerationsTypeCorrect == Spec => []TypeOK
<1>1. IInv => TypeOK
  BY DEF IInv, LockInv
<1> QED BY <1>1, GenerationInvariant, PTL

(* Two connections never both pass for the same device.                    *)
THEOREM SessionsAreRouted == Spec => []SessionIsRouted
<1>1. IInv => SessionIsRouted
  BY DEF IInv, SessionsOK
<1> QED BY <1>1, GenerationInvariant, PTL

(* No handoff is left behind by a connection that ended.                   *)
THEOREM HandoffsEndWithTheirConnections == Spec => []HandoffsEndWithConnection
<1>1. IInv => HandoffsEndWithConnection
  BY DEF IInv, EndsOK
<1> QED BY <1>1, GenerationInvariant, PTL

(* What was matched under the locks of its devices is so when it is used.  *)
THEOREM MatchedStaysCurrent == Spec => []MatchedIsCurrent
<1>1. IInv => MatchedIsCurrent
  BY DEF IInv, EndsOK
<1> QED BY <1>1, GenerationInvariant, PTL

(* Handlers whose steps take no locks of their own are never in a circle.  *)
THEOREM OnlyNestingMakesCircles == Spec => []CircleNeedsNesting
<1>1. IInv => CircleNeedsNesting
  BY NoCircleWithoutNesting DEF IInv
<1> QED BY <1>1, GenerationInvariant, PTL

=============================================================================
