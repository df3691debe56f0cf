---------------------------- MODULE Handoff_proofs ----------------------------
(***************************************************************************)
(* Theorems about handoffs.                                                *)
(*                                                                         *)
(* That two handoffs share nothing is not inductive by itself: a device    *)
(* that starts to hand its context over cannot be part of another handoff  *)
(* because all its contexts would be frozen, and they are frozen because   *)
(* nothing is shared.  So the properties are proved together.              *)
(***************************************************************************)
EXTENDS HandoffAuthority, TLAPS

(* Who and what takes part in a live handoff.                              *)
LiveShape ==
    \A h \in Handoffs : IsLive(h) =>
        /\ handoff[h].source \in Clients /\ handoff[h].target \in Clients
        /\ handoff[h].source # handoff[h].target
        /\ handoff[h].context \in Contexts /\ handoff[h].standby # handoff[h].context
        /\ handoff[h].base < MaxControlVersion

Frozen == LiveShape /\ OneContextPerClient /\ NothingShared /\ FrozenUntilEnd

(* A handoff whose commit is being sent is locked, so nobody ends it.      *)
SendingIsCommitting == \A h \in sending : handoff[h].status = "committing"

IInv == TypeOK /\ Frozen /\ SendingIsCommitting

-----------------------------------------------------------------------------
(* A live handoff freezes an active context of its source.                 *)
LEMMA LiveFacts ==
    ASSUME TypeOK, Frozen, NEW h \in Handoffs, IsLive(h)
    PROVE  /\ handoff[h].context \in Contexts
           /\ context[handoff[h].context].lifecycle = "active"
           /\ context[handoff[h].context].authority = handoff[h].source
           /\ context[handoff[h].context].control = handoff[h].base
           /\ ActiveContexts(handoff[h].source) = {handoff[h].context}
           /\ ActiveContexts(handoff[h].target) = {handoff[h].standby} \ {NoContext}
<1>1. handoff[h].context \in Contexts
  BY DEF Frozen, LiveShape
<1>2. SourceAsFrozen(h) /\ ActiveContexts(handoff[h].target) = {handoff[h].standby} \ {NoContext}
  BY DEF Frozen, FrozenUntilEnd
<1>3. ActiveContexts(handoff[h].source) = {handoff[h].context}
  BY <1>1, <1>2 DEF Frozen, OneContextPerClient, ActiveContexts, SourceAsFrozen
<1> QED BY <1>1, <1>2, <1>3 DEF SourceAsFrozen

(* A device whose context is in no handoff is the source of none, and its  *)
(* context is no standby.                                                  *)
LEMMA AvailableSource ==
    ASSUME TypeOK, Frozen, NEW p \in Contexts, context[p].lifecycle = "active", ContextAvailable(p)
    PROVE  ClientAvailable(context[p].authority)
<1> SUFFICES ASSUME NEW h \in Handoffs, IsLive(h),
                    context[p].authority \in {handoff[h].source, handoff[h].target}
             PROVE  FALSE
  BY DEF ClientAvailable, OccupiesClient
<1>1. p \in ActiveContexts(context[p].authority)
  BY DEF ActiveContexts
<1>2. p \in {handoff[h].context, handoff[h].standby}
  BY <1>1, LiveFacts
<1> QED BY <1>2 DEF ContextAvailable, OccupiesContext

(* Ending handoffs, or moving a live one on, keeps what is frozen.         *)
LEMMA EndedKeepsFrozen ==
    ASSUME TypeOK, Frozen, NEW H, NEW s \in Statuses,
           s \in Live => \A h \in H : h \in Handoffs /\ IsLive(h),
           handoff' = Ended(s, H), UNCHANGED context
    PROVE  handoff' \in [Handoffs -> Record] /\ Frozen'
<1>1. \A h \in Handoffs : handoff[h] \in Record
  BY DEF TypeOK
<1>2. \A h \in Handoffs :
        /\ handoff'[h] \in Record
        /\ handoff'[h].context = handoff[h].context /\ handoff'[h].standby = handoff[h].standby
        /\ handoff'[h].source = handoff[h].source /\ handoff'[h].target = handoff[h].target
        /\ handoff'[h].base = handoff[h].base /\ handoff'[h].epoch = handoff[h].epoch
        /\ handoff'[h].status = IF h \in H THEN s ELSE handoff[h].status
  BY <1>1 DEF Ended, Record
<1>3. handoff' \in [Handoffs -> Record]
  BY <1>2 DEF Ended
<1>4. \A h \in Handoffs : IsLive(h)' => IsLive(h)
  BY <1>2 DEF IsLive
<1>5. LiveShape'
  BY <1>2, <1>4 DEF Frozen, LiveShape
<1>6. OneContextPerClient'
  BY DEF Frozen, OneContextPerClient
<1>7. NothingShared'
  BY <1>2, <1>4 DEF Frozen, NothingShared
<1>8. FrozenUntilEnd'
  BY <1>2, <1>4 DEF Frozen, FrozenUntilEnd, SourceAsFrozen, ActiveContexts
<1> QED BY <1>3, <1>5, <1>6, <1>7, <1>8 DEF Frozen

(* A change of a context that no handoff has, that leaves each client's    *)
(* active contexts alone unless no handoff has the client.                 *)
LEMMA ContextKeepsFrozen ==
    ASSUME TypeOK, Frozen, NEW p \in Contexts, ContextAvailable(p),
           NEW x, context' = [context EXCEPT ![p] = x], UNCHANGED handoff,
           x.lifecycle = "active" => ClientAvailable(x.authority),
           context[p].lifecycle = "active" => ClientAvailable(context[p].authority),
           x.lifecycle = "active" => ActiveContexts(x.authority) \subseteq {p}
    PROVE  Frozen'
<1>1. \A q \in Contexts : context'[q] = IF q = p THEN x ELSE context[q]
  BY DEF TypeOK
<1>2. LiveShape' /\ NothingShared'
  BY DEF Frozen, LiveShape, NothingShared, IsLive
<1>3. OneContextPerClient'
  BY <1>1 DEF Frozen, OneContextPerClient, ActiveContexts
<1>4. FrozenUntilEnd'
  <2> SUFFICES ASSUME NEW h \in Handoffs, IsLive(h)
               PROVE  /\ SourceAsFrozen(h)'
                      /\ ActiveContexts(handoff[h].target)' = ActiveContexts(handoff[h].target)
                      /\ handoff[h].standby # NoContext => context'[handoff[h].standby].idle
    BY DEF Frozen, FrozenUntilEnd, IsLive
  <2>1. p # handoff[h].context /\ p # handoff[h].standby
    BY DEF ContextAvailable, OccupiesContext
  <2>2. SourceAsFrozen(h)'
    BY <1>1, <2>1, LiveFacts DEF Frozen, FrozenUntilEnd, SourceAsFrozen
  <2>3. ~(x.lifecycle = "active" /\ x.authority = handoff[h].target)
    BY DEF ClientAvailable, OccupiesClient
  <2>4. ~(context[p].lifecycle = "active" /\ context[p].authority = handoff[h].target)
    BY DEF ClientAvailable, OccupiesClient
  <2>5. ActiveContexts(handoff[h].target)' = ActiveContexts(handoff[h].target)
    BY <1>1, <2>3, <2>4 DEF ActiveContexts
  <2>6. handoff[h].standby # NoContext => context'[handoff[h].standby].idle
    <3> SUFFICES ASSUME handoff[h].standby # NoContext
                 PROVE  context'[handoff[h].standby].idle
      OBVIOUS
    <3>1. handoff[h].standby \in Contexts
      BY LiveFacts DEF ActiveContexts
    <3> QED BY <1>1, <2>1, <3>1 DEF Frozen, FrozenUntilEnd
  <2> QED BY <2>2, <2>5, <2>6
<1> QED BY <1>2, <1>3, <1>4 DEF Frozen

-----------------------------------------------------------------------------
(***************************************************************************)
(* The steps.                                                              *)
(***************************************************************************)
LEMMA InitCorrect == Init => IInv
<1> SUFFICES ASSUME Init PROVE IInv
  OBVIOUS
<1>1. \A h \in Handoffs : ~IsLive(h)
  BY DEF Init, NoRecord, IsLive, Live
<1>2. NoRecord \in Record /\ Absent \in Context
  BY HandoffConstants DEF NoRecord, Record, Statuses, Absent, Context
<1>3. TypeOK
  BY <1>2, HandoffConstants DEF Init, TypeOK, Statuses, Live, Terminal
<1>4. Frozen
  BY <1>1 DEF Init, Frozen, LiveShape, OneContextPerClient, NothingShared, FrozenUntilEnd, Absent
<1> QED BY <1>3, <1>4 DEF IInv, SendingIsCommitting, Init

LEMMA EnsureNewKeeps ==
    ASSUME IInv, NEW p \in Contexts, NEW c \in Clients, NEW idle \in BOOLEAN, EnsureNew(p, c, idle)
    PROVE  IInv'
<1> DEFINE x == [lifecycle |-> "active", authority |-> c, epoch |-> 1, control |-> 1, idle |-> idle]
<1>1. ContextAvailable(p)
  <2>1. \A h \in Handoffs : IsLive(h) =>
            (p \in {handoff[h].context, handoff[h].standby} => context[p].lifecycle = "active")
    BY LiveFacts, HandoffConstants DEF IInv, ActiveContexts
  <2> QED BY <2>1 DEF EnsureNew, ContextAvailable, OccupiesContext
<1>2. Frozen'
  BY <1>1, ContextKeepsFrozen DEF IInv, EnsureNew
<1>3. x \in Context
  BY HandoffConstants DEF EnsureNew, Context
<1>4. TypeOK'
  BY <1>3 DEF IInv, TypeOK, EnsureNew, memory
<1> QED BY <1>2, <1>4 DEF IInv, SendingIsCommitting, EnsureNew, memory

LEMMA EnsureQueueKeeps == ASSUME IInv, NEW p \in Contexts, EnsureQueue(p) PROVE IInv'
<1> DEFINE x == [context[p] EXCEPT !.idle = FALSE, !.control = context[p].control + 1]
<1>0. context[p] \in Context
  BY DEF IInv, TypeOK
<1>a. context[p].lifecycle = "active" /\ context[p].control + 1 \in 0..MaxControlVersion
  BY <1>0, HandoffConstants DEF EnsureQueue, Context
<1>1. x \in Context /\ x.lifecycle = "active" /\ x.authority = context[p].authority
  BY <1>0, <1>a DEF Context
<1>2. context' = [context EXCEPT ![p] = x]
  BY DEF EnsureQueue
<1>3. ActiveContexts(x.authority) \subseteq {p}
  BY <1>1 DEF IInv, Frozen, OneContextPerClient, ActiveContexts, EnsureQueue
<1> HIDE DEF x
<1>4. Frozen'
  BY <1>1, <1>2, <1>3, ContextKeepsFrozen DEF IInv, EnsureQueue
<1>5. TypeOK'
  BY <1>1, <1>2 DEF IInv, TypeOK, EnsureQueue, memory
<1> QED BY <1>4, <1>5 DEF IInv, SendingIsCommitting, EnsureQueue, memory

LEMMA ControlKeeps == ASSUME IInv, NEW p \in Contexts, Control(p) PROVE IInv'
<1> DEFINE x == [context[p] EXCEPT !.control = @ + 1]
<1>0. context[p] \in Context
  BY DEF IInv, TypeOK
<1>1. x \in Context /\ x.lifecycle = "active" /\ x.authority = context[p].authority
  BY <1>0, HandoffConstants DEF Control, Context
<1>2. context' = [context EXCEPT ![p] = x]
  BY DEF Control
<1>3. ActiveContexts(x.authority) \subseteq {p}
  BY <1>1 DEF IInv, Frozen, OneContextPerClient, ActiveContexts, Control
<1>4. ClientAvailable(context[p].authority)
  BY AvailableSource DEF IInv, Control
<1> HIDE DEF x
<1>5. Frozen'
  BY <1>1, <1>2, <1>3, <1>4, ContextKeepsFrozen DEF IInv, Control
<1>6. TypeOK'
  BY <1>1, <1>2 DEF IInv, TypeOK, Control, memory
<1> QED BY <1>5, <1>6 DEF IInv, SendingIsCommitting, Control, memory

LEMMA CloseKeeps == ASSUME IInv, NEW p \in Contexts, CloseContext(p) PROVE IInv'
<1> DEFINE x == [context[p] EXCEPT !.lifecycle = "closed"]
<1>0. context[p] \in Context
  BY DEF IInv, TypeOK
<1>1. x \in Context /\ x.lifecycle = "closed"
  BY <1>0 DEF Context
<1>2. context' = [context EXCEPT ![p] = x]
  BY DEF CloseContext
<1>3. ClientAvailable(context[p].authority)
  BY AvailableSource DEF IInv, CloseContext
<1> HIDE DEF x
<1>4. Frozen'
  BY <1>1, <1>2, <1>3, ContextKeepsFrozen DEF IInv, CloseContext
<1>5. TypeOK'
  BY <1>1, <1>2 DEF IInv, TypeOK, CloseContext, memory
<1> QED BY <1>4, <1>5 DEF IInv, SendingIsCommitting, CloseContext, memory

(* Steps that end handoffs, or move one on, and change no context.         *)
LEMMA SettledTyped ==
    ASSUME TypeOK, NEW s \in Statuses, NEW H
    PROVE  /\ Forgets(s, H) \in [Handoffs -> Statuses]
           /\ Finishes(H) \in [Handoffs -> {"none", "preparing", "finished"}]
BY DEF TypeOK, Forgets, Finishes

LEMMA TerminateKeeps ==
    ASSUME TypeOK, Frozen, NEW H, NEW s \in Terminal, Terminate(H, s), UNCHANGED context
    PROVE  /\ handoff' \in [Handoffs -> Record] /\ remembered' \in [Handoffs -> Statuses]
           /\ prepare' \in [Handoffs -> {"none", "preparing", "finished"}]
           /\ Frozen'
           /\ \A h \in Handoffs : h \notin H => handoff'[h] = handoff[h]
<1>1. s \in Statuses /\ s \notin Live
  BY DEF Terminal, Live, Statuses
<1>2. handoff' \in [Handoffs -> Record] /\ Frozen'
  BY <1>1, EndedKeepsFrozen DEF Terminate
<1> QED BY <1>1, <1>2, SettledTyped DEF Terminate, Ended

LEMMA UnchangedKeepsFrozen == ASSUME Frozen, UNCHANGED <<context, handoff>> PROVE Frozen'
BY DEF Frozen, LiveShape, OneContextPerClient, NothingShared, FrozenUntilEnd, IsLive, SourceAsFrozen,
       ActiveContexts

LEMMA NotSending ==
    ASSUME NEW h \in Handoffs, UnlockedHandoff(h)
    PROVE  h \notin sending
BY DEF UnlockedHandoff, Unlocked

LEMMA SourceUpdateKeeps == ASSUME IInv, NEW h \in Handoffs, SourceUpdate(h) PROVE IInv'
<1> DEFINE p == handoff[h].context
<1>1. IsLive(h) /\ p \in Contexts /\ context[p] \in Context
  BY LiveFacts DEF IInv, TypeOK, SourceUpdate
<1>2. PICK control \in {context[p].control, context[p].control + 1} :
            control <= MaxControlVersion /\ context' = [context EXCEPT ![p].control = control]
  BY DEF SourceUpdate
<1>3. control \in 0..MaxControlVersion
  BY <1>1, <1>2, HandoffConstants DEF Context
<1>4. context' \in [Contexts -> Context]
  BY <1>1, <1>2, <1>3 DEF IInv, TypeOK, Context
<1>5. \A q \in Contexts :
        /\ q # p => context'[q] = context[q]
        /\ context'[q].lifecycle = context[q].lifecycle /\ context'[q].idle = context[q].idle
        /\ context'[q].authority = context[q].authority
  BY <1>1, <1>2 DEF IInv, TypeOK, Context
<1>6. /\ \A k \in Handoffs : k # h => handoff'[k] = handoff[k]
      /\ handoff'[h].status = "failed" /\ handoff' \in [Handoffs -> Record]
  <2>1. handoff' = [k \in Handoffs |-> IF k = h THEN [handoff[k] EXCEPT !.status = "failed"] ELSE handoff[k]]
    BY DEF SourceUpdate, Ended
  <2>2. \A k \in Handoffs : handoff[k] \in Record
    BY DEF IInv, TypeOK
  <2> QED BY <2>1, <2>2 DEF Record, Statuses, Terminal
<1>7. \A k \in Handoffs : IsLive(k)' => IsLive(k) /\ k # h /\ handoff'[k] = handoff[k]
  BY <1>6 DEF IsLive, Live
<1>8. LiveShape' /\ NothingShared'
  BY <1>7 DEF IInv, Frozen, LiveShape, NothingShared
<1>9. OneContextPerClient'
  BY <1>5 DEF IInv, Frozen, OneContextPerClient
<1>10. FrozenUntilEnd'
  <2> SUFFICES ASSUME NEW k \in Handoffs, IsLive(k)'
               PROVE  /\ SourceAsFrozen(k)'
                      /\ ActiveContexts(handoff[k].target)' = {handoff'[k].standby} \ {NoContext}
                      /\ handoff'[k].standby # NoContext => context'[handoff'[k].standby].idle
    BY DEF FrozenUntilEnd
  <2>1. IsLive(k) /\ k # h /\ handoff'[k] = handoff[k]
    BY <1>7
  <2>2. p # handoff[k].context /\ p # handoff[k].standby
    BY <1>1, <2>1, HandoffConstants DEF IInv, Frozen, NothingShared
  <2>3. SourceAsFrozen(k)'
    BY <1>5, <2>1, <2>2, LiveFacts DEF IInv, Frozen, FrozenUntilEnd, SourceAsFrozen
  <2>4. ActiveContexts(handoff[k].target)' = {handoff'[k].standby} \ {NoContext}
    BY <1>5, <2>1 DEF IInv, Frozen, FrozenUntilEnd, ActiveContexts
  <2>5. handoff[k].standby # NoContext => handoff[k].standby \in Contexts
    BY <2>1, LiveFacts DEF IInv, ActiveContexts
  <2>6. handoff'[k].standby # NoContext => context'[handoff'[k].standby].idle
    BY <1>5, <2>1, <2>2, <2>5 DEF IInv, Frozen, FrozenUntilEnd
  <2> QED BY <2>3, <2>4, <2>6
<1>11. h \notin sending
  BY NotSending, HandoffConstants DEF SourceUpdate
<1>12. TypeOK'
  BY <1>4, <1>6 DEF IInv, TypeOK, SourceUpdate
<1>13. SendingIsCommitting'
  BY <1>6, <1>11 DEF IInv, TypeOK, SendingIsCommitting, SourceUpdate
<1> QED BY <1>8, <1>9, <1>10, <1>12, <1>13 DEF IInv, Frozen

(* Steps that change neither a context nor a handoff.                      *)
LEMMA BroadcastKeeps == ASSUME IInv, NEW p \in Contexts, StartBroadcast(p) \/ StopBroadcast(p) PROVE IInv'
<1>1. UNCHANGED <<context, handoff, sending>>
  BY DEF StartBroadcast, StopBroadcast, memory
<1> QED BY <1>1, UnchangedKeepsFrozen
        DEF IInv, TypeOK, SendingIsCommitting, StartBroadcast, StopBroadcast, memory

LEMMA ConnectKeeps == ASSUME IInv, NEW c \in Clients, Connect(c) PROVE IInv'
<1>1. UNCHANGED <<context, handoff, sending>>
  BY DEF Connect
<1>2. connection' \in [Clients -> 0..MaxConnection]
  BY HandoffConstants DEF IInv, TypeOK, Connect
<1> QED BY <1>1, <1>2, UnchangedKeepsFrozen DEF IInv, TypeOK, SendingIsCommitting, Connect

LEMMA SettleInMemoryKeeps == ASSUME IInv, NEW h \in Handoffs, SettleInMemory(h) PROVE IInv'
<1>1. UNCHANGED <<context, handoff, sending>> /\ "failed" \in Statuses
  BY DEF SettleInMemory, Statuses, Terminal
<1>2. remembered' \in [Handoffs -> Statuses]
  BY <1>1, SettledTyped DEF IInv, SettleInMemory
<1> QED BY <1>1, <1>2, UnchangedKeepsFrozen DEF IInv, TypeOK, SendingIsCommitting, SettleInMemory

LEMMA DeadlinePassesKeeps == ASSUME IInv, NEW h \in Handoffs, DeadlinePasses(h) PROVE IInv'
<1>1. UNCHANGED <<context, handoff, sending>>
  BY DEF DeadlinePasses, memory
<1> QED BY <1>1, UnchangedKeepsFrozen DEF IInv, TypeOK, SendingIsCommitting, DeadlinePasses, memory

LEMMA DropKeeps == ASSUME IInv, NEW c \in Clients, Replace(c) \/ Disconnect(c) PROVE IInv'
<1>1. sending \cap Involving(c) = {}
  BY HandoffConstants DEF Replace, Disconnect, Unlocked, Involving, AsSource, AsTarget
<1>2. (IF AsTarget(c) = {} THEN "cancelled" ELSE "failed") \in Terminal
  BY DEF Terminal
<1>3. /\ handoff' \in [Handoffs -> Record] /\ remembered' \in [Handoffs -> Statuses]
      /\ prepare' \in [Handoffs -> {"none", "preparing", "finished"}]
      /\ Frozen' /\ \A h \in Handoffs : h \notin Involving(c) => handoff'[h] = handoff[h]
  <2>1. UNCHANGED context
    BY DEF Replace, Disconnect
  <2>2. CASE TerminateInvolving(c)
    BY <1>2, <2>1, <2>2, TerminateKeeps DEF IInv, TerminateInvolving
  <2>3. CASE UNCHANGED <<handoff, remembered, prepare>>
    BY <2>1, <2>3, UnchangedKeepsFrozen DEF IInv, TypeOK
  <2> QED BY <2>2, <2>3 DEF Replace, Disconnect
<1>4. connection' \in [Clients -> 0..MaxConnection] /\ online' \subseteq Clients
  BY HandoffConstants DEF IInv, TypeOK, Replace, Disconnect
<1>5. UNCHANGED <<context, broadcast, timer, sending, settling, due, sent>>
  BY DEF Replace, Disconnect
<1>6. TypeOK'
  BY <1>3, <1>4, <1>5 DEF IInv, TypeOK
<1>7. SendingIsCommitting'
  BY <1>1, <1>3, <1>5 DEF IInv, TypeOK, SendingIsCommitting
<1> QED BY <1>3, <1>6, <1>7 DEF IInv

LEMMA RestartKeeps == ASSUME IInv, Restart PROVE IInv'
<1>1. "failed" \in Statuses /\ "failed" \notin Live
  BY DEF Statuses, Terminal, Live
<1>2. handoff' \in [Handoffs -> Record] /\ Frozen'
  BY <1>1, EndedKeepsFrozen DEF IInv, Restart
<1>3. TypeOK'
  BY <1>2 DEF IInv, TypeOK, Restart, Statuses
<1> QED BY <1>2, <1>3 DEF IInv, SendingIsCommitting, Restart

(* The new handoff shares nothing with a live one: its source because its  *)
(* context is available, the rest because the start looks.                 *)
LEMMA StartedKeepsFrozen ==
    ASSUME TypeOK, Frozen, NEW h \in Handoffs, NEW p \in Contexts, NEW t \in Clients, NEW o \in Origins,
           handoff[h].status = "none", Startable(p, t, o), ContextAvailable(p), ClientAvailable(t),
           NEW standby \in StandbyOf(t), UsableStandby(standby),
           NEW status \in {"preparing", "failed"},
           handoff' = Started(h, p, t, o, standby, status), UNCHANGED context
    PROVE  handoff' \in [Handoffs -> Record] /\ Frozen'
<1> DEFINE s == context[p].authority
<1>1. /\ s \in Clients /\ s # t /\ context[p].lifecycle = "active" /\ context[p].control < MaxControlVersion
      /\ connection[s] \in 0..MaxConnection /\ connection[t] \in 0..MaxConnection
      /\ context[p].control \in 0..MaxControlVersion /\ context[p].epoch \in Nat
  BY DEF Startable, TypeOK, Context
<1>2. ClientAvailable(s)
  BY <1>1, AvailableSource
<1>3. standby = NoContext \/ standby \in ActiveContexts(t)
  BY DEF StandbyOf
<1>4. ActiveContexts(t) = {standby} \ {NoContext}
  <2>1. CASE ActiveContexts(t) = {}
    BY <2>1 DEF StandbyOf
  <2>2. CASE ActiveContexts(t) # {}
    <3>1. standby \in ActiveContexts(t)
      BY <2>2 DEF StandbyOf
    <3>2. \A q \in ActiveContexts(t) : q = standby
      BY <3>1 DEF Frozen, OneContextPerClient, ActiveContexts
    <3>3. standby # NoContext
      BY <3>1, HandoffConstants DEF ActiveContexts
    <3> QED BY <3>1, <3>2, <3>3
  <2> QED BY <2>1, <2>2
<1>5. standby # p /\ (standby # NoContext => standby \in Contexts /\ ContextAvailable(standby) /\ context[standby].idle)
  BY <1>1, <1>3, HandoffConstants DEF ActiveContexts, UsableStandby
<1>6. /\ handoff'[h].status = status /\ handoff'[h].context = p /\ handoff'[h].source = s
      /\ handoff'[h].target = t /\ handoff'[h].base = context[p].control
      /\ handoff'[h].epoch = context[p].epoch /\ handoff'[h].standby = standby
      /\ \A k \in Handoffs : k # h => handoff'[k] = handoff[k]
  BY DEF TypeOK, Started
<1>7. handoff' \in [Handoffs -> Record]
  <2> DEFINE r == [status |-> status, context |-> p, source |-> s, sourceConnection |-> connection[s],
                   target |-> t, targetConnection |-> connection[t], origin |-> o,
                   base |-> context[p].control, epoch |-> context[p].epoch, standby |-> standby]
  <2>1. standby \in Contexts \cup {NoContext} /\ status \in Statuses
    BY <1>5 DEF Statuses, Live, Terminal
  <2>2. r \in Record
    BY <1>1, <2>1 DEF Record
  <2>3. handoff' = [handoff EXCEPT ![h] = r]
    BY DEF Started
  <2> QED BY <2>2, <2>3 DEF TypeOK
<1>8. \A k \in Handoffs : k # h => (IsLive(k)' <=> IsLive(k))
  BY <1>6 DEF IsLive
<1>9. LiveShape'
  BY <1>1, <1>5, <1>6, <1>8 DEF Frozen, LiveShape
<1>10. \A k \in Handoffs \ {h} : IsLive(k) =>
          /\ {s, t} \cap {handoff[k].source, handoff[k].target} = {}
          /\ {p, standby} \cap {handoff[k].context, handoff[k].standby} \subseteq {NoContext}
  BY <1>2, <1>5 DEF ClientAvailable, OccupiesClient, ContextAvailable, OccupiesContext
<1>11. NothingShared'
  <2> SUFFICES ASSUME NEW k \in Handoffs, NEW l \in Handoffs, k # l, IsLive(k)', IsLive(l)'
               PROVE  /\ {handoff'[k].source, handoff'[k].target} \cap {handoff'[l].source, handoff'[l].target} = {}
                      /\ ({handoff'[k].context, handoff'[k].standby} \cap {handoff'[l].context, handoff'[l].standby})
                         \subseteq {NoContext}
    BY DEF NothingShared
  <2>1. CASE k = h
    BY <1>6, <1>8, <1>10, <2>1
  <2>2. CASE l = h
    BY <1>6, <1>8, <1>10, <2>2
  <2>3. CASE k # h /\ l # h
    BY <1>6, <1>8, <2>3 DEF Frozen, NothingShared
  <2> QED BY <2>1, <2>2, <2>3
<1>12. FrozenUntilEnd'
  <2> SUFFICES ASSUME NEW k \in Handoffs, IsLive(k)'
               PROVE  /\ SourceAsFrozen(k)'
                      /\ ActiveContexts(handoff'[k].target) = {handoff'[k].standby} \ {NoContext}
                      /\ handoff'[k].standby # NoContext => context[handoff'[k].standby].idle
    BY DEF FrozenUntilEnd, ActiveContexts
  <2>1. CASE k = h
    BY <1>1, <1>4, <1>5, <1>6, <2>1 DEF SourceAsFrozen
  <2>2. CASE k # h
    BY <1>6, <1>8, <2>2 DEF Frozen, FrozenUntilEnd, SourceAsFrozen
  <2> QED BY <2>1, <2>2
<1>13. OneContextPerClient'
  BY DEF Frozen, OneContextPerClient
<1> QED BY <1>7, <1>9, <1>11, <1>12, <1>13 DEF Frozen

LEMMA StartKeeps ==
    ASSUME IInv, NEW h \in Handoffs, NEW p \in Contexts, NEW t \in Clients, NEW o \in Origins,
           Start(h, p, t, o)
    PROVE  IInv'
<1>1. PICK standby \in StandbyOf(t), status \in {"preparing", "failed"} :
            UsableStandby(standby) /\ handoff' = Started(h, p, t, o, standby, status)
  BY DEF Start
<1>2. handoff' \in [Handoffs -> Record] /\ Frozen'
  BY <1>1, StartedKeepsFrozen DEF IInv, Start, BothAvailable
<1>3. /\ remembered' \in [Handoffs -> Statuses] /\ timer' \in [Handoffs -> {"none", "prepare", "complete"}]
      /\ prepare' \in [Handoffs -> {"none", "preparing", "finished"}]
  BY DEF IInv, TypeOK, Start, Statuses, Live, Terminal
<1>4. h \notin sending
  BY HandoffConstants DEF IInv, SendingIsCommitting, Start
<1>5. SendingIsCommitting'
  BY <1>1, <1>4 DEF IInv, TypeOK, SendingIsCommitting, Start, Started
<1>6. TypeOK'
  BY <1>2, <1>3 DEF IInv, TypeOK, Start
<1> QED BY <1>2, <1>5, <1>6 DEF IInv

(* The steps that end one handoff: by an answer, a proof that came late, a *)
(* cancel, a timer, or a commit that could not be sent.                    *)
LEMMA EndKeeps ==
    ASSUME IInv, NEW H, NEW s \in Terminal, handoff' = Ended(s, H),
           remembered' \in [Handoffs -> Statuses], prepare' \in [Handoffs -> {"none", "preparing", "finished"}],
           timer' \in [Handoffs -> {"none", "prepare", "complete"}],
           sending' \subseteq sending /\ sending' \cap H = {},
           UNCHANGED <<context, broadcast, connection, online, settling, due, sent>>
    PROVE  IInv'
<1>1. s \in Statuses /\ s \notin Live
  BY DEF Statuses, Terminal, Live
<1>2. handoff' \in [Handoffs -> Record] /\ Frozen'
  BY <1>1, EndedKeepsFrozen DEF IInv
<1>3. TypeOK'
  BY <1>2 DEF IInv, TypeOK
<1>4. SendingIsCommitting'
  BY DEF IInv, TypeOK, SendingIsCommitting, Ended
<1> QED BY <1>2, <1>3, <1>4 DEF IInv

(* What the steps below have in common.                                    *)
LEMMA OneEndKeeps ==
    ASSUME IInv, NEW h \in Handoffs, NEW s \in Terminal, Terminate({h}, s),
           timer' \in [Handoffs -> {"none", "prepare", "complete"}],
           sending' \subseteq sending /\ h \notin sending',
           UNCHANGED <<context, broadcast, connection, online, settling, due, sent>>
    PROVE  IInv'
<1>1. s \in Statuses
  BY DEF Statuses
<1>2. /\ remembered' \in [Handoffs -> Statuses]
      /\ prepare' \in [Handoffs -> {"none", "preparing", "finished"}]
  BY <1>1, SettledTyped DEF IInv, Terminate
<1>3. handoff' = Ended(s, {h})
  BY DEF Terminate
<1> QED BY <1>2, <1>3, EndKeeps

LEMMA AnswerKeeps ==
    ASSUME IInv, NEW h \in Handoffs, StartAgain(h) \/ NotReady(h)
    PROVE  IInv'
<1> DEFINE H == {h} \cap {k \in Handoffs : IsLive(k)}
<1>1. PICK s \in {"timed_out", "failed"} :
        handoff' = Ended(s, H) /\ remembered' = Forgets(s, {h}) /\ prepare' = Finishes({h})
  BY DEF StartAgain, Overdue, NotReady
<1>2. s \in Terminal /\ s \in Statuses
  BY DEF Terminal, Statuses
<1>3. sending \cap H = {}
  BY NotSending, HandoffConstants DEF StartAgain, Overdue, NotReady, TargetAnswers
<1>4. /\ remembered' \in [Handoffs -> Statuses]
      /\ prepare' \in [Handoffs -> {"none", "preparing", "finished"}]
  BY <1>1, <1>2, SettledTyped DEF IInv
<1>5. /\ UNCHANGED <<context, broadcast, connection, online, settling, due, sent, timer, sending>>
      /\ timer' \in [Handoffs -> {"none", "prepare", "complete"}]
  BY DEF StartAgain, Overdue, NotReady, IInv, TypeOK
<1> HIDE DEF H
<1> QED BY <1>1, <1>2, <1>3, <1>4, <1>5, EndKeeps

LEMMA TerminationKeeps ==
    ASSUME IInv, NEW h \in Handoffs,
           \/ ReadyTooLate(h) \/ CompleteLate(h) \/ CommitNotSent(h)
           \/ \E c \in Clients : Cancel(h, c)
    PROVE  IInv'
<1>1. \E s \in Terminal : Terminate({h}, s)
  BY DEF ReadyTooLate, CompleteLate, Cancel, CommitNotSent, Terminal
<1>2. sending' \subseteq sending /\ h \notin sending'
  BY NotSending, HandoffConstants
  DEF ReadyTooLate, TargetAnswers, CompleteLate, Completable, Cancel, CommitNotSent
<1>3. /\ UNCHANGED <<context, broadcast, connection, online, settling, due, sent>>
      /\ timer' \in [Handoffs -> {"none", "prepare", "complete"}]
  BY DEF ReadyTooLate, CompleteLate, Cancel, CommitNotSent, IInv, TypeOK
<1> QED BY <1>1, <1>2, <1>3, OneEndKeeps

LEMMA TimersKeep == ASSUME IInv, NEW h \in Handoffs, Timers(h) PROVE IInv'
<1>1. /\ UNCHANGED <<context, broadcast, connection, online, sending, settling, due, sent>>
      /\ timer' \in [Handoffs -> {"none", "prepare", "complete"}] /\ h \notin sending
  BY NotSending, HandoffConstants DEF Timers, PrepareTimer, CompleteTimer, IInv, TypeOK
<1>2. \/ Terminate({h}, "timed_out")
      \/ /\ UNCHANGED <<handoff, prepare>>
         /\ remembered' \in {remembered, Forgets(handoff[h].status, {h})}
  BY DEF Timers, PrepareTimer, CompleteTimer
<1>3. CASE Terminate({h}, "timed_out")
  BY <1>1, <1>3, OneEndKeeps DEF Terminal
<1>4. CASE /\ UNCHANGED <<handoff, prepare>>
           /\ remembered' \in {remembered, Forgets(handoff[h].status, {h})}
  <2>1. handoff[h].status \in Statuses
    BY DEF IInv, TypeOK, Record
  <2>2. remembered' \in [Handoffs -> Statuses]
    BY <1>4, <2>1, SettledTyped DEF IInv, TypeOK
  <2>3. Frozen'
    BY <1>1, <1>4, UnchangedKeepsFrozen DEF IInv
  <2> QED BY <1>1, <1>4, <2>2, <2>3 DEF IInv, TypeOK, SendingIsCommitting
<1> QED BY <1>2, <1>3, <1>4

LEMMA CommitKeeps == ASSUME IInv, NEW h \in Handoffs, Ready(h) \/ CommitSent(h) PROVE IInv'
<1>1. IsLive(h)
  BY HandoffConstants DEF Ready, CommitSent, IsLive, Live, IInv, SendingIsCommitting
<1>2. PICK s \in {"committing", "committed"} :
        /\ handoff' = Ended(s, {h}) /\ remembered' = Forgets(s, {h})
        /\ sending' = sending \ {h} \/ (sending' = sending \cup {h} /\ s = "committing")
  BY DEF Ready, CommitSent
<1>3. s \in Statuses
  BY DEF Statuses, Live
<1>4. handoff' \in [Handoffs -> Record] /\ Frozen'
  BY <1>1, <1>2, <1>3, EndedKeepsFrozen DEF IInv, Ready, CommitSent
<1>5. /\ remembered' \in [Handoffs -> Statuses]
      /\ prepare' \in [Handoffs -> {"none", "preparing", "finished"}]
  BY <1>2, <1>3, SettledTyped DEF IInv, TypeOK, Ready, CommitSent
<1>6. /\ timer' \in [Handoffs -> {"none", "prepare", "complete"}] /\ due' \subseteq Handoffs
      /\ sent' \in [Handoffs -> Nat] /\ UNCHANGED <<context, broadcast, connection, online, settling>>
      /\ sending' \subseteq Handoffs
  BY DEF IInv, TypeOK, Ready, CommitSent
<1>7. TypeOK'
  BY <1>4, <1>5, <1>6 DEF IInv, TypeOK
<1>8. SendingIsCommitting'
  BY <1>2 DEF IInv, TypeOK, SendingIsCommitting, Ended
<1> QED BY <1>4, <1>7, <1>8 DEF IInv

LEMMA ClosedTyped ==
    ASSUME NEW x \in Context
    PROVE  /\ [x EXCEPT !.lifecycle = "closed"] \in Context
           /\ [x EXCEPT !.lifecycle = "closed"].lifecycle = "closed"
BY DEF Context

(* The context goes to the target and the standby is retired; neither is   *)
(* in another handoff, nor are the two devices.                            *)
LEMMA CompleteKeeps == ASSUME IInv, NEW h \in Handoffs, Complete(h) PROVE IInv'
<1> DEFINE p == handoff[h].context
           q == handoff[h].standby
           t == handoff[h].target
<1>1. IsLive(h)
  BY DEF Complete, Completable, IsLive, Live
<1>2. /\ p \in Contexts /\ t \in Clients /\ handoff[h].source # t /\ p # q
      /\ context[p].lifecycle = "active" /\ context[p].authority = handoff[h].source
      /\ handoff[h].base < MaxControlVersion /\ handoff[h].base \in 0..MaxControlVersion
      /\ ActiveContexts(t) = {q} \ {NoContext} /\ context[p] \in Context
  BY <1>1, LiveFacts DEF IInv, Frozen, LiveShape, TypeOK, Record
<1>3. /\ context'[p].lifecycle = "active" /\ context'[p].authority = t
      /\ context'[p] \in Context
  <2>1. context'[p] = [context[p] EXCEPT !.authority = t, !.epoch = context[p].epoch + 1,
                                         !.control = handoff[h].base + 1]
    BY <1>2 DEF Complete, Moved
  <2>2. handoff[h].base + 1 \in 0..MaxControlVersion
    BY <1>2, HandoffConstants
  <2>3. context'[p].lifecycle = "active" /\ context'[p].authority = t
    BY <1>2, <2>1 DEF Context
  <2>4. context'[p] \in Context
    <3>1. context[p].epoch + 1 \in Nat
      BY <1>2 DEF Context
    <3>2. context[p] \in Context /\ t \in Clients
      BY <1>2
    <3>3. [context[p] EXCEPT !.authority = t, !.epoch = context[p].epoch + 1, !.control = handoff[h].base + 1]
          \in Context
      BY ONLY <2>2, <3>1, <3>2 DEF Context
    <3> QED BY <2>1, <3>3
  <2> QED BY <2>3, <2>4
<1>4. \A x \in Contexts : x = q => context'[x] \in Context /\ context'[x].lifecycle = "closed"
  <2>1. \A x \in Contexts : x = q => context'[x] = [context[x] EXCEPT !.lifecycle = "closed"]
    BY <1>2 DEF Complete, Moved
  <2>2. \A x \in Contexts : context[x] \in Context
    BY DEF IInv, TypeOK
  <2> QED BY <2>1, <2>2, ClosedTyped
<1>5. \A x \in Contexts : x # p /\ x # q => context'[x] = context[x]
  BY DEF Complete, Moved
<1>6. context' \in [Contexts -> Context]
  <2>1. context' = [x \in Contexts |-> context'[x]]
    BY DEF Complete, Moved
  <2>2. \A x \in Contexts : context'[x] \in Context
    BY <1>3, <1>4, <1>5 DEF IInv, TypeOK
  <2> QED BY <2>1, <2>2
<1>7. handoff' \in [Handoffs -> Record] /\ handoff'[h].status = "completed"
      /\ \A k \in Handoffs : k # h => handoff'[k] = handoff[k]
  <2>1. handoff' = [k \in Handoffs |-> IF k = h THEN [handoff[k] EXCEPT !.status = "completed"] ELSE handoff[k]]
    BY DEF Complete, Ended
  <2>2. \A k \in Handoffs : handoff[k] \in Record
    BY DEF IInv, TypeOK
  <2> QED BY <2>1, <2>2 DEF Record, Statuses, Terminal
<1>8. \A k \in Handoffs : IsLive(k)' => IsLive(k) /\ k # h /\ handoff'[k] = handoff[k]
  BY <1>7 DEF IsLive, Live
<1>9. LiveShape' /\ NothingShared'
  BY <1>8 DEF IInv, Frozen, LiveShape, NothingShared
<1>10. \A x \in Contexts : context'[x].lifecycle = "active" =>
          \/ x = p
          \/ x # p /\ x # q /\ context[x].lifecycle = "active" /\ context[x].authority # t
  BY <1>2, <1>4, <1>5 DEF ActiveContexts
<1>11. OneContextPerClient'
  BY <1>3, <1>5, <1>10 DEF IInv, Frozen, OneContextPerClient
<1>12. FrozenUntilEnd'
  <2> SUFFICES ASSUME NEW k \in Handoffs, IsLive(k)'
               PROVE  /\ SourceAsFrozen(k)'
                      /\ ActiveContexts(handoff[k].target)' = {handoff'[k].standby} \ {NoContext}
                      /\ handoff'[k].standby # NoContext => context'[handoff'[k].standby].idle
    BY <1>8 DEF FrozenUntilEnd
  <2>1. IsLive(k) /\ k # h /\ handoff'[k] = handoff[k]
    BY <1>8
  <2>2. /\ handoff[k].context \notin {p, q} /\ handoff[k].context \in Contexts
        /\ handoff[k].standby # NoContext => handoff[k].standby \notin {p, q}
        /\ handoff[k].target # t /\ handoff[k].target # handoff[h].source
    <3>1. /\ {handoff[h].source, t} \cap {handoff[k].source, handoff[k].target} = {}
          /\ {p, q} \cap {handoff[k].context, handoff[k].standby} \subseteq {NoContext}
      BY <1>1, <2>1 DEF IInv, Frozen, NothingShared
    <3>2. handoff[k].context \in Contexts /\ handoff[k].context # NoContext
      BY <2>1, LiveFacts, HandoffConstants DEF IInv
    <3> QED BY <3>1, <3>2
  <2>3. SourceAsFrozen(k)'
    BY <1>5, <2>1, <2>2 DEF IInv, Frozen, FrozenUntilEnd, SourceAsFrozen
  <2>4. \A x \in {p, q} \cap Contexts :
            x \notin ActiveContexts(handoff[k].target) /\ x \notin ActiveContexts(handoff[k].target)'
    <3>1. p \notin ActiveContexts(handoff[k].target) /\ p \notin ActiveContexts(handoff[k].target)'
      BY <1>2, <1>3, <2>1, <2>2 DEF ActiveContexts
    <3>2. q \in Contexts => q \in ActiveContexts(t)
      BY <1>2, HandoffConstants
    <3>3. q \in Contexts => q \notin ActiveContexts(handoff[k].target)
                            /\ q \notin ActiveContexts(handoff[k].target)'
      BY <1>4, <2>2, <3>2 DEF ActiveContexts
    <3> QED BY <3>1, <3>3
  <2>5. ActiveContexts(handoff[k].target)' = ActiveContexts(handoff[k].target)
    BY <1>5, <2>1, <2>4 DEF ActiveContexts
  <2>6. handoff[k].standby # NoContext => handoff[k].standby \in Contexts
    BY <2>1, LiveFacts DEF IInv, ActiveContexts
  <2>7. handoff'[k].standby # NoContext => context'[handoff'[k].standby].idle
    BY <1>5, <2>1, <2>2, <2>6 DEF IInv, Frozen, FrozenUntilEnd
  <2> QED BY <2>1, <2>3, <2>5, <2>7 DEF IInv, Frozen, FrozenUntilEnd
<1>13. remembered' \in [Handoffs -> Statuses]
  BY SettledTyped DEF IInv, Complete, Statuses, Terminal
<1>14. h \notin sending
  BY NotSending, HandoffConstants DEF Complete, Completable
<1>15. TypeOK'
  BY <1>6, <1>7, <1>13 DEF IInv, TypeOK, Complete
<1>16. SendingIsCommitting'
  BY <1>7, <1>14 DEF IInv, TypeOK, SendingIsCommitting, Complete
<1> QED BY <1>9, <1>11, <1>12, <1>15, <1>16 DEF IInv, Frozen

-----------------------------------------------------------------------------
(***************************************************************************)
(* The theorems.                                                           *)
(***************************************************************************)
LEMMA NextKeeps == ASSUME IInv, [Next]_vars PROVE IInv'
<1>1. CASE UNCHANGED vars
  BY <1>1, UnchangedKeepsFrozen DEF vars, memory, IInv, TypeOK, SendingIsCommitting
<1>2. CASE ContextStep
  <2>1. ASSUME NEW p \in Contexts, NEW c \in Clients, NEW idle \in BOOLEAN, EnsureNew(p, c, idle) PROVE IInv'
    BY <2>1, EnsureNewKeeps
  <2>2. ASSUME NEW p \in Contexts, EnsureQueue(p) PROVE IInv'
    BY <2>2, EnsureQueueKeeps
  <2>3. ASSUME NEW p \in Contexts, Control(p) PROVE IInv'
    BY <2>3, ControlKeeps
  <2>4. ASSUME NEW p \in Contexts, CloseContext(p) PROVE IInv'
    BY <2>4, CloseKeeps
  <2>5. ASSUME NEW p \in Contexts, StartBroadcast(p) \/ StopBroadcast(p) PROVE IInv'
    BY <2>5, BroadcastKeeps
  <2> QED BY <1>2, <2>1, <2>2, <2>3, <2>4, <2>5 DEF ContextStep
<1>3. CASE ConnectionStep
  <2>1. ASSUME NEW c \in Clients, Connect(c) PROVE IInv'
    BY <2>1, ConnectKeeps
  <2>2. ASSUME NEW c \in Clients, Replace(c) \/ Disconnect(c) PROVE IInv'
    BY <2>2, DropKeeps
  <2> QED BY <1>3, <2>1, <2>2, RestartKeeps DEF ConnectionStep
<1>4. ASSUME NEW h \in Handoffs, DeviceStep(h) PROVE IInv'
  <2>1. ASSUME NEW p \in Contexts, NEW t \in Clients, NEW o \in Origins, Start(h, p, t, o) PROVE IInv'
    BY <2>1, StartKeeps
  <2>2. CASE StartAgain(h) \/ NotReady(h)
    BY <2>2, AnswerKeeps
  <2>3. CASE Ready(h)
    BY <2>3, CommitKeeps
  <2>4. CASE ReadyTooLate(h) \/ CompleteLate(h) \/ \E c \in Clients : Cancel(h, c)
    BY <2>4, TerminationKeeps
  <2> QED BY <1>4, <2>1, <2>2, <2>3, <2>4, CompleteKeeps, SourceUpdateKeeps DEF DeviceStep
<1>5. ASSUME NEW h \in Handoffs, ServerStep(h) PROVE IInv'
  <2>1. CASE CommitSent(h)
    BY <2>1, CommitKeeps
  <2>2. CASE CommitNotSent(h)
    BY <2>2, TerminationKeeps
  <2> QED BY <1>5, <2>1, <2>2, SettleInMemoryKeeps, DeadlinePassesKeeps, TimersKeep DEF ServerStep, Sends
<1> QED BY <1>1, <1>2, <1>3, <1>4, <1>5 DEF Next

THEOREM HandoffInvariant == Spec => []IInv
<1>1. IInv /\ [Next]_vars => IInv'
  BY NextKeeps
<1> QED BY <1>1, InitCorrect, PTL DEF Spec

(* Every variable keeps its type for any number of devices, contexts and   *)
(* handoffs; the versions a handoff moves with stay within their bounds.   *)
THEOREM HandoffTypeCorrect == Spec => []TypeOK
<1>1. IInv => TypeOK
  BY DEF IInv
<1> QED BY <1>1, HandoffInvariant, PTL

(* A device is the authority of at most one active context, although a     *)
(* completion gives it another one: its standby is retired with it.        *)
THEOREM OneContextCorrect == Spec => []OneContextPerClient
<1>1. IInv => OneContextPerClient
  BY DEF IInv, Frozen
<1> QED BY <1>1, HandoffInvariant, PTL

(* Two handoffs under way share no device and no context.                  *)
THEOREM NothingSharedCorrect == Spec => []NothingShared
<1>1. IInv => NothingShared
  BY DEF IInv, Frozen
<1> QED BY <1>1, HandoffInvariant, PTL

(* What a handoff froze holds until it ends.                               *)
THEOREM FrozenCorrect == Spec => []FrozenUntilEnd
<1>1. IInv => FrozenUntilEnd
  BY DEF IInv, Frozen
<1> QED BY <1>1, HandoffInvariant, PTL

-----------------------------------------------------------------------------
(* Only a live handoff is ended or moved on.                               *)
LEMMA StepsOfHandoffs ==
    ASSUME IInv, [Next]_vars
    PROVE  \/ UNCHANGED handoff
           \/ \E H \in SUBSET Handoffs, s \in Statuses :
                handoff' = Ended(s, H) /\ \A h \in H : IsLive(h)
           \/ \E h \in Handoffs, p \in Contexts, t \in Clients, o \in Origins : Start(h, p, t, o)
<1> DEFINE E == \E H \in SUBSET Handoffs, s \in Statuses :
                    handoff' = Ended(s, H) /\ \A h \in H : IsLive(h)
<1>0. ASSUME NEW h \in Handoffs, NEW s \in Statuses, handoff' = Ended(s, {h}), IsLive(h) PROVE E
  BY <1>0
<1>a. {"failed", "cancelled", "timed_out", "completed", "committing", "committed"} \subseteq Statuses
  BY DEF Statuses, Live, Terminal
<1>1. CASE UNCHANGED vars \/ ContextStep
  BY <1>1 DEF vars, ContextStep, EnsureNew, EnsureQueue, Control, CloseContext, StartBroadcast, StopBroadcast
<1>2. CASE ConnectionStep
  <2>1. ASSUME NEW c \in Clients, TerminateInvolving(c) PROVE E
    <3>1. Involving(c) \in SUBSET Handoffs /\ \A h \in Involving(c) : IsLive(h)
      BY DEF Involving, AsSource, AsTarget
    <3> QED BY <1>a, <2>1, <3>1 DEF TerminateInvolving, Terminate
  <2>2. CASE Restart
    <3>1. handoff' = Ended("failed", {h \in Handoffs : IsLive(h)})
      BY <2>2 DEF Restart
    <3> QED BY <1>a, <3>1
  <2> QED BY <1>2, <2>1, <2>2 DEF ConnectionStep, Connect, Replace, Disconnect
<1>3. ASSUME NEW h \in Handoffs, DeviceStep(h)
      PROVE  E \/ \E p \in Contexts, t \in Clients, o \in Origins : Start(h, p, t, o)
  <2>1. CASE StartAgain(h) \/ NotReady(h)
    <3>1. {h} \cap {k \in Handoffs : IsLive(k)} \in SUBSET Handoffs
      OBVIOUS
    <3> QED BY <1>a, <2>1, <3>1 DEF StartAgain, Overdue, NotReady
  <2>2. CASE Ready(h) \/ ReadyTooLate(h) \/ Complete(h) \/ CompleteLate(h)
             \/ SourceUpdate(h) \/ \E c \in Clients : Cancel(h, c)
    <3>1. IsLive(h)
      BY <2>2 DEF Ready, ReadyTooLate, Complete, CompleteLate, Completable, SourceUpdate, Cancel, IsLive, Live
    <3>2. \E s \in Statuses : handoff' = Ended(s, {h})
      BY <1>a, <2>2 DEF Ready, ReadyTooLate, Complete, CompleteLate, SourceUpdate, Cancel, Terminate
    <3> QED BY <1>0, <3>1, <3>2
  <2> QED BY <1>3, <2>1, <2>2 DEF DeviceStep
<1>4. ASSUME NEW h \in Handoffs, ServerStep(h)
      PROVE  UNCHANGED handoff \/ E
  <2>1. CASE Sends(h)
    <3>1. IsLive(h)
      BY <2>1, HandoffConstants
      DEF Sends, CommitSent, CommitNotSent, IInv, SendingIsCommitting, IsLive, Live
    <3>2. \E s \in Statuses : handoff' = Ended(s, {h})
      BY <1>a, <2>1 DEF Sends, CommitSent, CommitNotSent, Terminate
    <3> QED BY <1>0, <3>1, <3>2
  <2>2. CASE Timers(h)
    <3>1. UNCHANGED handoff \/ (IsLive(h) /\ handoff' = Ended("timed_out", {h}))
      BY <2>2 DEF Timers, PrepareTimer, CompleteTimer, Terminate
    <3> QED BY <1>0, <1>a, <3>1
  <2> QED BY <1>4, <2>1, <2>2 DEF ServerStep, SettleInMemory, DeadlinePasses
<1> QED BY <1>1, <1>2, <1>3, <1>4 DEF Next

(* A handoff ends once, whoever else tries to end it.                      *)
THEOREM EndsOnceCorrect == Spec => EndsOnce
<1>1. IInv /\ [Next]_vars => [\A h \in Handoffs : handoff[h].status \in Terminal => handoff'[h] = handoff[h]]_vars
  <2> SUFFICES ASSUME IInv, [Next]_vars, NEW h \in Handoffs, handoff[h].status \in Terminal
               PROVE  handoff'[h] = handoff[h]
    OBVIOUS
  <2>1. ~IsLive(h) /\ handoff[h].status # "none"
    BY DEF IsLive, Live, Terminal
  <2> QED BY <2>1, StepsOfHandoffs DEF Start, Started, Ended, IInv, TypeOK
<1> QED BY <1>1, HandoffInvariant, PTL DEF Spec, EndsOnce

-----------------------------------------------------------------------------
(* One commit is sent to the target of a handoff, before it counts as      *)
(* committed.                                                              *)
CommitIsSent ==
    \A h \in Handoffs :
        /\ handoff[h].status \in {"none", "preparing", "committing"} => sent[h] = 0
        /\ handoff[h].status = "committed" => sent[h] = 1
        /\ handoff[h].status = "committing" => h \in sending

LEMMA CommitIsSentStep == ASSUME IInv, CommitIsSent, [Next]_vars PROVE CommitIsSent'
<1>1. CASE UNCHANGED <<handoff, sent, sending>>
  BY <1>1 DEF CommitIsSent
<1>2. ASSUME NEW H \in SUBSET Handoffs, NEW s \in Terminal, handoff' = Ended(s, H), UNCHANGED sent,
             \A h \in sending : h \in sending' \/ h \in H \/ handoff'[h].status # "committing"
      PROVE  CommitIsSent'
  <2>1. \A h \in Handoffs : handoff'[h].status = IF h \in H THEN s ELSE handoff[h].status
    BY <1>2 DEF IInv, TypeOK, Record, Ended
  <2> QED BY <1>2, <2>1 DEF CommitIsSent, Terminal
<1>a. {"failed", "cancelled", "timed_out", "completed"} \subseteq Terminal
  BY DEF Terminal
<1>3. CASE ContextStep
  BY <1>1, <1>3 DEF ContextStep, EnsureNew, EnsureQueue, Control, CloseContext, StartBroadcast,
                    StopBroadcast, memory
<1>4. CASE ConnectionStep
  <2>1. ASSUME NEW c \in Clients, TerminateInvolving(c), UNCHANGED <<sent, sending>> PROVE CommitIsSent'
    <3>1. (IF AsTarget(c) = {} THEN "cancelled" ELSE "failed") \in Terminal
      BY <1>a
    <3>2. Involving(c) \in SUBSET Handoffs
      BY DEF Involving, AsSource, AsTarget
    <3> QED BY <1>2, <2>1, <3>1, <3>2 DEF TerminateInvolving, Terminate
  <2>2. CASE Restart
    <3>1. /\ handoff' = Ended("failed", {h \in Handoffs : IsLive(h)}) /\ UNCHANGED sent
          /\ \A h \in sending : h \in Handoffs /\ IsLive(h)
      BY <2>2 DEF Restart, IInv, TypeOK, SendingIsCommitting, IsLive, Live
    <3>2. {h \in Handoffs : IsLive(h)} \in SUBSET Handoffs
      OBVIOUS
    <3> QED BY <1>2, <1>a, <3>1, <3>2
  <2> QED BY <1>1, <1>4, <2>1, <2>2 DEF ConnectionStep, Connect, Replace, Disconnect
<1>5. ASSUME NEW h \in Handoffs, DeviceStep(h) PROVE CommitIsSent'
  <2>1. CASE \E p \in Contexts, t \in Clients, o \in Origins : Start(h, p, t, o)
    <3>1. /\ handoff[h].status = "none" /\ handoff'[h].status \in {"preparing", "failed"}
          /\ \A k \in Handoffs : k # h => handoff'[k] = handoff[k]
          /\ UNCHANGED <<sent, sending>>
      BY <2>1 DEF Start, Started, IInv, TypeOK
    <3> QED BY <3>1 DEF CommitIsSent
  <2>2. CASE StartAgain(h) \/ NotReady(h)
    <3>1. {h} \cap {k \in Handoffs : IsLive(k)} \in SUBSET Handoffs
      OBVIOUS
    <3> QED BY <1>2, <1>a, <2>2, <3>1 DEF StartAgain, Overdue, NotReady
  <2>3. CASE Ready(h)
    <3>1. /\ handoff[h].status = "preparing" /\ handoff'[h].status = "committing"
          /\ \A k \in Handoffs : k # h => handoff'[k] = handoff[k]
          /\ UNCHANGED sent /\ sending' = sending \cup {h}
      BY <2>3 DEF Ready, Ended, IInv, TypeOK, Record
    <3> QED BY <3>1 DEF CommitIsSent
  <2>4. CASE ReadyTooLate(h) \/ Complete(h) \/ CompleteLate(h) \/ SourceUpdate(h)
             \/ \E c \in Clients : Cancel(h, c)
    <3>1. /\ \E s \in Terminal : handoff' = Ended(s, {h})
          /\ UNCHANGED <<sent, sending>>
      BY <1>a, <2>4 DEF ReadyTooLate, Complete, CompleteLate, SourceUpdate, Cancel, Terminate
    <3> QED BY <1>2, <3>1
  <2> QED BY <1>5, <2>1, <2>2, <2>3, <2>4 DEF DeviceStep
<1>6. ASSUME NEW h \in Handoffs, ServerStep(h) PROVE CommitIsSent'
  <2>1. CASE CommitSent(h)
    <3>1. /\ handoff[h].status = "committing" /\ handoff'[h].status = "committed"
          /\ \A k \in Handoffs : k # h => handoff'[k] = handoff[k]
          /\ sent' = [sent EXCEPT ![h] = @ + 1] /\ sending' = sending \ {h}
      BY <2>1 DEF CommitSent, Ended, IInv, TypeOK, Record, SendingIsCommitting
    <3> QED BY <3>1 DEF CommitIsSent, IInv, TypeOK
  <2>2. CASE CommitNotSent(h)
    <3>1. handoff' = Ended("failed", {h}) /\ UNCHANGED sent /\ sending' = sending \ {h}
      BY <2>2 DEF CommitNotSent, Terminate
    <3> QED BY <1>2, <1>a, <3>1
  <2>3. CASE Timers(h)
    <3>1. (UNCHANGED handoff \/ handoff' = Ended("timed_out", {h})) /\ UNCHANGED <<sent, sending>>
      BY <2>3 DEF Timers, PrepareTimer, CompleteTimer, Terminate
    <3> QED BY <1>1, <1>2, <1>a, <3>1
  <2> QED BY <1>1, <1>6, <2>1, <2>2, <2>3 DEF ServerStep, Sends, SettleInMemory, DeadlinePasses, memory
<1> QED BY <1>1, <1>3, <1>4, <1>5, <1>6 DEF Next, vars, memory

(* Contexts are opened, closed and handed over; everything else leaves     *)
(* what is active and whose it is.                                         *)
SameOwners ==
    \A p \in Contexts :
        context'[p].lifecycle = context[p].lifecycle /\ context'[p].authority = context[p].authority

LEMMA StepsOfContexts ==
    ASSUME IInv, [Next]_vars
    PROVE  \/ SameOwners
           \/ \E p \in Contexts, c \in Clients, idle \in BOOLEAN : EnsureNew(p, c, idle)
           \/ \E p \in Contexts : CloseContext(p)
           \/ \E h \in Handoffs : Complete(h)
<1>0. \A p \in Contexts : context[p] \in Context
  BY DEF IInv, TypeOK
<1>1. UNCHANGED context => SameOwners
  BY DEF SameOwners
<1>2. ASSUME NEW p \in Contexts, EnsureQueue(p) PROVE SameOwners
  <2>1. /\ \A q \in Contexts : q # p => context'[q] = context[q]
        /\ context'[p] = [context[p] EXCEPT !.idle = FALSE, !.control = context[p].control + 1]
    BY <1>2 DEF EnsureQueue, IInv, TypeOK
  <2>2. context'[p].lifecycle = context[p].lifecycle /\ context'[p].authority = context[p].authority
    BY <1>0, <2>1 DEF Context
  <2> QED BY <2>1, <2>2 DEF SameOwners
<1>3. ASSUME NEW p \in Contexts, Control(p) PROVE SameOwners
  BY <1>0, <1>3 DEF Control, SameOwners, Context, IInv, TypeOK
<1>4. ASSUME NEW h \in Handoffs, SourceUpdate(h) PROVE SameOwners
  BY <1>0, <1>4 DEF SourceUpdate, SameOwners, Context, IInv, TypeOK
<1>5. CASE ContextStep
  BY <1>1, <1>2, <1>3, <1>5 DEF ContextStep, StartBroadcast, StopBroadcast
<1>6. ConnectionStep => UNCHANGED context
  BY DEF ConnectionStep, Connect, Replace, Disconnect, Restart
<1>7. ASSUME NEW h \in Handoffs, DeviceStep(h) PROVE UNCHANGED context \/ SourceUpdate(h) \/ Complete(h)
  BY <1>7 DEF DeviceStep, Start, StartAgain, Overdue, NotReady, Ready, ReadyTooLate, CompleteLate, Cancel
<1>8. ASSUME NEW h \in Handoffs, ServerStep(h) PROVE UNCHANGED context
  BY <1>8 DEF ServerStep, Sends, CommitSent, CommitNotSent, SettleInMemory, DeadlinePasses, Timers,
              PrepareTimer, CompleteTimer
<1>9. UNCHANGED vars => UNCHANGED context
  BY DEF vars
<1> QED BY <1>1, <1>4, <1>5, <1>6, <1>7, <1>8, <1>9 DEF Next

(* The authority of a context moves only by the completion of its handoff. *)
LEMMA OnlyCompletionMoves ==
    ASSUME IInv, [Next]_vars, NEW p \in Contexts, context[p].lifecycle = "active",
           context'[p].authority # context[p].authority
    PROVE  \E h \in Handoffs : handoff[h].context = p /\ Complete(h)
<1>1. ASSUME NEW q \in Contexts, NEW c \in Clients, NEW idle \in BOOLEAN, EnsureNew(q, c, idle) PROVE FALSE
  BY <1>1 DEF EnsureNew, IInv, TypeOK
<1>2. ASSUME NEW q \in Contexts, CloseContext(q) PROVE FALSE
  BY <1>2 DEF CloseContext, IInv, TypeOK, Context
<1>3. ASSUME NEW h \in Handoffs, Complete(h) PROVE handoff[h].context = p
  BY <1>3 DEF Complete, Moved, IInv, TypeOK, Context
<1> QED BY <1>1, <1>2, <1>3, StepsOfContexts DEF SameOwners

(* The authority moves on the proof of the connection that was sent the    *)
(* one commit, before the deadline, with the next epoch and version.       *)
THEOREM MovesOnProofCorrect == Spec => MovesOnProof
<1>1. Init => CommitIsSent
  BY DEF Init, CommitIsSent, NoRecord
<1>2. IInv /\ CommitIsSent /\ [Next]_vars => CommitIsSent'
  BY CommitIsSentStep
<1>3. IInv /\ CommitIsSent /\ [Next]_vars =>
        [\A p \in Contexts :
            context[p].lifecycle = "active" /\ context'[p].authority # context[p].authority =>
                \E h \in Handoffs :
                    /\ handoff[h].context = p /\ IsLive(h) /\ handoff'[h].status = "completed"
                    /\ sent[h] = 1 /\ h \notin due
                    /\ handoff[h].target \in online
                    /\ connection[handoff[h].target] = handoff[h].targetConnection
                    /\ context'[p].authority = handoff[h].target
                    /\ context'[p].epoch = context[p].epoch + 1
                    /\ context'[p].control = context[p].control + 1]_vars
  <2> SUFFICES ASSUME IInv, CommitIsSent, [Next]_vars, NEW p \in Contexts,
                      context[p].lifecycle = "active", context'[p].authority # context[p].authority,
                      NEW h \in Handoffs, handoff[h].context = p, Complete(h)
               PROVE  /\ IsLive(h) /\ handoff'[h].status = "completed"
                      /\ sent[h] = 1 /\ h \notin due
                      /\ handoff[h].target \in online
                      /\ connection[handoff[h].target] = handoff[h].targetConnection
                      /\ context'[p].authority = handoff[h].target
                      /\ context'[p].epoch = context[p].epoch + 1
                      /\ context'[p].control = context[p].control + 1
    BY OnlyCompletionMoves
  <2>1. handoff[h].status \in {"committing", "committed"} /\ UnlockedHandoff(h) /\ CurrentTarget(h)
        /\ SourceAsFrozen(h) /\ h \notin due /\ IsLive(h)
    BY DEF Complete, Completable, IsLive, Live
  <2>2. sent[h] = 1
    BY <2>1, NotSending DEF CommitIsSent
  <2>3. context'[p] = [context[p] EXCEPT !.authority = handoff[h].target, !.epoch = @ + 1,
                                         !.control = handoff[h].base + 1]
    BY DEF Complete, Moved
  <2>4. /\ context'[p].authority = handoff[h].target /\ context'[p].epoch = context[p].epoch + 1
        /\ context'[p].control = handoff[h].base + 1
    BY <2>3 DEF IInv, TypeOK, Context
  <2>5. handoff'[h].status = "completed"
    BY DEF Complete, Ended, IInv, TypeOK, Record
  <2> QED BY <2>1, <2>2, <2>4, <2>5 DEF CurrentTarget, SourceAsFrozen
<1> QED BY <1>1, <1>2, <1>3, HandoffInvariant, PTL DEF Spec, MovesOnProof

-----------------------------------------------------------------------------
(* Memory and the database in a step: a handoff that keeps its status in   *)
(* both, that memory forgets or that it takes from the database is right,  *)
(* and one a playback.update has still to settle may be wrong.             *)
LEMMA Followed ==
    ASSUME MemoryFollows,
           \A h \in Handoffs :
                \/ /\ remembered'[h] = remembered[h] /\ handoff'[h].status = handoff[h].status
                   /\ h \in settling => h \in settling'
                \/ remembered'[h] \notin Live \/ remembered'[h] = handoff'[h].status
                \/ h \in settling'
    PROVE  MemoryFollows'
BY DEF MemoryFollows

(* An end that both learn of, and one that only memory had not heard of.   *)
LEMMA BothLearn ==
    ASSUME TypeOK, MemoryFollows, NEW H, NEW G \in SUBSET H, NEW s, s \notin Live \/ G = H,
           handoff' = Ended(s, G), remembered' = Forgets(s, H), UNCHANGED settling
    PROVE  MemoryFollows'
<1>1. \A h \in Handoffs : handoff'[h].status = IF h \in G THEN s ELSE handoff[h].status
  BY DEF TypeOK, Record, Ended
<1>2. \A h \in Handoffs : remembered'[h] = IF h \in H THEN s ELSE remembered[h]
  BY DEF Forgets
<1> QED BY <1>1, <1>2, Followed

LEMMA MemoryStep == ASSUME IInv, MemoryFollows, [Next]_vars PROVE MemoryFollows'
<1>0. TypeOK
  BY DEF IInv
<1>a. {"failed", "cancelled", "timed_out", "completed", "none"} \cap Live = {}
  BY DEF Live
<1>1. CASE UNCHANGED <<handoff, remembered, settling>>
  BY <1>1 DEF MemoryFollows
<1>2. ASSUME NEW H, NEW s, s \notin Live, Terminate(H, s), UNCHANGED settling PROVE MemoryFollows'
  BY <1>0, <1>2, BothLearn DEF Terminate
<1>3. CASE ContextStep
  BY <1>1, <1>3 DEF ContextStep, EnsureNew, EnsureQueue, Control, CloseContext, StartBroadcast,
                    StopBroadcast, memory
<1>4. CASE ConnectionStep
  <2>1. ASSUME NEW c \in Clients, TerminateInvolving(c), UNCHANGED settling PROVE MemoryFollows'
    <3>1. (IF AsTarget(c) = {} THEN "cancelled" ELSE "failed") \notin Live
      BY <1>a
    <3> QED BY <1>2, <2>1, <3>1 DEF TerminateInvolving
  <2>2. CASE Restart
    BY <1>a, <2>2 DEF Restart, MemoryFollows
  <2> QED BY <1>1, <1>4, <2>1, <2>2 DEF ConnectionStep, Connect, Replace, Disconnect
<1>5. ASSUME NEW h \in Handoffs, DeviceStep(h) PROVE MemoryFollows'
  <2>1. CASE \E p \in Contexts, t \in Clients, o \in Origins : Start(h, p, t, o)
    <3>1. /\ \A k \in Handoffs : k # h => handoff'[k] = handoff[k] /\ remembered'[k] = remembered[k]
          /\ remembered'[h] = handoff'[h].status /\ UNCHANGED settling
      BY <1>0, <2>1 DEF Start, Started, TypeOK
    <3> QED BY <3>1, Followed
  <2>2. CASE StartAgain(h) \/ NotReady(h)
    <3>1. {h} \cap {k \in Handoffs : IsLive(k)} \in SUBSET {h}
      OBVIOUS
    <3> QED BY <1>0, <1>a, <2>2, <3>1, BothLearn DEF StartAgain, Overdue, NotReady
  <2>3. CASE Ready(h) \/ Complete(h)
    <3>1. /\ \E s : handoff' = Ended(s, {h}) /\ remembered' = Forgets(s, {h})
          /\ UNCHANGED settling
      BY <2>3 DEF Ready, Complete
    <3> QED BY <1>0, <3>1, BothLearn
  <2>4. CASE ReadyTooLate(h) \/ CompleteLate(h) \/ \E c \in Clients : Cancel(h, c)
    BY <1>2, <1>a, <2>4 DEF ReadyTooLate, CompleteLate, Cancel
  <2>5. CASE SourceUpdate(h)
    <3>1. /\ \A k \in Handoffs : k # h => handoff'[k] = handoff[k]
          /\ UNCHANGED remembered /\ settling' = settling \cup {h}
      BY <1>0, <2>5 DEF SourceUpdate, Ended, TypeOK
    <3> QED BY <3>1, Followed
  <2> QED BY <1>5, <2>1, <2>2, <2>3, <2>4, <2>5 DEF DeviceStep
<1>6. ASSUME NEW h \in Handoffs, ServerStep(h) PROVE MemoryFollows'
  <2>1. CASE CommitSent(h)
    BY <1>0, <2>1, BothLearn DEF CommitSent
  <2>2. CASE CommitNotSent(h)
    BY <1>2, <1>a, <2>2 DEF CommitNotSent
  <2>3. CASE SettleInMemory(h)
    <3>1. /\ UNCHANGED handoff /\ settling' = settling \ {h}
          /\ \A k \in Handoffs : remembered'[k] = IF k = h THEN "failed" ELSE remembered[k]
      BY <2>3 DEF SettleInMemory, Forgets
    <3> QED BY <1>a, <3>1, Followed
  <2>4. CASE Timers(h)
    <3>1. \/ UNCHANGED <<handoff, remembered, settling>>
          \/ Terminate({h}, "timed_out") /\ UNCHANGED settling
          \/ remembered' = Forgets(handoff[h].status, {h}) /\ UNCHANGED <<handoff, settling>>
      BY <2>4 DEF Timers, PrepareTimer, CompleteTimer
    <3>2. ASSUME remembered' = Forgets(handoff[h].status, {h}), UNCHANGED <<handoff, settling>>
          PROVE  MemoryFollows'
      BY <3>2, Followed DEF Forgets
    <3> QED BY <1>1, <1>2, <1>a, <3>1, <3>2
  <2> QED BY <1>1, <1>6, <2>1, <2>2, <2>3, <2>4 DEF ServerStep, Sends, DeadlinePasses, memory
<1> QED BY <1>1, <1>3, <1>4, <1>5, <1>6 DEF Next, vars, memory

(* Memory holds no handoff for live that has ended, except while the       *)
(* update of the source that ended it is on its way there.                 *)
THEOREM MemoryFollowsCorrect == Spec => []MemoryFollows
<1>1. Init => MemoryFollows
  BY DEF Init, MemoryFollows, Live
<1>2. IInv /\ MemoryFollows /\ [Next]_vars => MemoryFollows'
  BY MemoryStep
<1> QED BY <1>1, <1>2, HandoffInvariant, PTL DEF Spec

(* Neither a device nor a context is promised twice.                       *)
THEOREM HandoffsApartCorrect == Spec => []HandoffsApart
<1>1. IInv => HandoffsApart
  BY DEF IInv, Frozen, HandoffsApart
<1> QED
  BY <1>1, HandoffInvariant, PTL

(* A handoff ends once, and an authority moves only on its proof.          *)
THEOREM HandoffHistoryCorrect == Spec => HandoffHistory
<1> QED
  BY EndsOnceCorrect, MovesOnProofCorrect DEF HandoffHistory

-----------------------------------------------------------------------------
(***************************************************************************)
(* Handoffs implement ContextAuthority.  What is offered, by the context:  *)
(* a live handoff is the only one of its context.                          *)
(***************************************************************************)
HandsOver(h, p) == IsLive(h) /\ handoff[h].context = p

OffersRight ==
    \A p \in Contexts :
        /\ \A h \in Handoffs : HandsOver(h, p) => OfferTo(p) = handoff[h].target
        /\ \A h \in Handoffs : HandsOver(h, p) => OfferTo(p) # NoClient
        /\ OfferTo(p) # NoClient => \E h \in Handoffs : HandsOver(h, p)

LEMMA OneHandsOver ==
    ASSUME IInv, NEW p \in Contexts, NEW h \in Handoffs, NEW k \in Handoffs, HandsOver(h, p), HandsOver(k, p)
    PROVE  k = h
<1> SUFFICES ASSUME k # h PROVE FALSE
  OBVIOUS
<1>1. NothingShared /\ p # NoContext
  BY HandoffConstants DEF IInv, Frozen
<1>2. p \in {handoff[h].context, handoff[h].standby} \cap {handoff[k].context, handoff[k].standby}
  BY DEF HandsOver
<1> QED BY <1>1, <1>2 DEF HandsOver, NothingShared

LEMMA OffersAreRight == IInv => OffersRight
<1> SUFFICES ASSUME IInv, NEW p \in Contexts
             PROVE  /\ \A h \in Handoffs : HandsOver(h, p) => OfferTo(p) = handoff[h].target
                    /\ \A h \in Handoffs : HandsOver(h, p) => OfferTo(p) # NoClient
                    /\ OfferTo(p) # NoClient => \E h \in Handoffs : HandsOver(h, p)
  BY DEF OffersRight
<1>1. ASSUME NEW h \in Handoffs, HandsOver(h, p)
      PROVE  OfferTo(p) = handoff[h].target /\ OfferTo(p) # NoClient
  <2>1. \A k \in Handoffs : HandsOver(k, p) => k = h
    BY <1>1, OneHandsOver
  <2>2. OfferOf(p) = {handoff[h].target}
    BY <1>1, <2>1 DEF OfferOf, HandsOver
  <2>3. handoff[h].target # NoClient
    BY <1>1, HandoffConstants DEF HandsOver, IInv, Frozen, LiveShape
  <2>4. OfferTo(p) = handoff[h].target
    BY <2>2 DEF OfferTo
  <2> QED BY <2>3, <2>4
<1>2. ASSUME OfferTo(p) # NoClient PROVE \E h \in Handoffs : HandsOver(h, p)
  BY <1>2 DEF OfferTo, OfferOf, HandsOver
<1> QED BY <1>1, <1>2

(* A context whose handoff stays what it was keeps its offer.              *)
LEMMA SameOffer ==
    ASSUME OffersRight, OffersRight', NEW p \in Contexts,
           \A h \in Handoffs : HandsOver(h, p)' <=> HandsOver(h, p),
           \A h \in Handoffs : HandsOver(h, p) => handoff'[h].target = handoff[h].target
    PROVE  OfferTo(p)' = OfferTo(p)
<1>1. CASE \E h \in Handoffs : HandsOver(h, p)
  BY <1>1 DEF OffersRight
<1>2. CASE \A h \in Handoffs : ~HandsOver(h, p)
  <2>1. OfferTo(p) = NoClient
    BY <1>2 DEF OffersRight
  <2>2. \A h \in Handoffs : ~HandsOver(h, p)'
    BY <1>2
  <2>3. OfferTo(p)' = NoClient
    BY <2>2 DEF OffersRight
  <2> QED BY <2>1, <2>3
<1> QED BY <1>1, <1>2

LEMMA UnchangedOffers == ASSUME UNCHANGED handoff, NEW p \in Contexts PROVE OfferTo(p)' = OfferTo(p)
BY DEF OfferTo, OfferOf, IsLive

LEMMA UnchangedOwners == ASSUME SameOwners, NEW p \in Contexts PROVE Owner(p)' = Owner(p)
BY DEF SameOwners, Owner

(* What a client owns and is offered.                                      *)
LEMMA OwnedIsActive ==
    ASSUME NEW c \in Clients
    PROVE  Authority!Owned(c) = ActiveContexts(c)
BY HandoffConstants DEF Authority!Owned, ActiveContexts, Owner

LEMMA AvailableIsUninvolved ==
    ASSUME IInv, OffersRight, NEW c \in Clients, ClientAvailable(c)
    PROVE  ~Authority!Involved(c)
<1>1. ~Authority!Offered(c)
  <2> SUFFICES ASSUME NEW p \in Contexts, OfferTo(p) = c PROVE FALSE
    BY DEF Authority!Offered
  <2>1. PICK h \in Handoffs : HandsOver(h, p)
    BY HandoffConstants DEF OffersRight
  <2>2. handoff[h].target = c
    BY <2>1 DEF OffersRight
  <2> QED BY <2>1, <2>2 DEF HandsOver, ClientAvailable, OccupiesClient
<1>2. ASSUME NEW p \in ActiveContexts(c), OfferTo(p) # NoClient PROVE FALSE
  <2>0. p \in Contexts
    BY DEF ActiveContexts
  <2>1. PICK h \in Handoffs : HandsOver(h, p)
    BY <1>2, <2>0 DEF OffersRight
  <2>2. handoff[h].source = c
    BY <2>1, LiveFacts DEF HandsOver, IInv, ActiveContexts
  <2> QED BY <2>1, <2>2 DEF HandsOver, ClientAvailable, OccupiesClient
<1>3. \A p \in ActiveContexts(c) : p \in Contexts
  BY DEF ActiveContexts
<1> QED BY <1>1, <1>2, <1>3, OwnedIsActive DEF Authority!Involved

(* Only a client is ever the authority of an active context.               *)
OwnersAreClients == \A p \in Contexts : context[p].lifecycle = "active" => context[p].authority \in Clients

LEMMA MovedContext ==
    ASSUME TypeOK, NEW h \in Handoffs, context' = Moved(h)
    PROVE  \A p \in Contexts :
              /\ p = handoff[h].context =>
                    context'[p].lifecycle = context[p].lifecycle /\ context'[p].authority = handoff[h].target
              /\ p # handoff[h].context /\ p = handoff[h].standby => context'[p].lifecycle = "closed"
              /\ p # handoff[h].context /\ p # handoff[h].standby => context'[p] = context[p]
<1> SUFFICES ASSUME NEW p \in Contexts
             PROVE  /\ p = handoff[h].context =>
                          /\ context'[p].lifecycle = context[p].lifecycle
                          /\ context'[p].authority = handoff[h].target
                    /\ p # handoff[h].context /\ p = handoff[h].standby => context'[p].lifecycle = "closed"
                    /\ p # handoff[h].context /\ p # handoff[h].standby => context'[p] = context[p]
  OBVIOUS
<1>0. context[p] \in Context
  BY DEF TypeOK
<1>1. p = handoff[h].context =>
        context'[p] = [context[p] EXCEPT !.authority = handoff[h].target, !.epoch = context[p].epoch + 1,
                                         !.control = handoff[h].base + 1]
  BY DEF Moved
<1>2. p # handoff[h].context /\ p = handoff[h].standby =>
        context'[p] = [context[p] EXCEPT !.lifecycle = "closed"]
  BY DEF Moved
<1>3. p # handoff[h].context /\ p # handoff[h].standby => context'[p] = context[p]
  BY DEF Moved
<1> QED BY <1>0, <1>1, <1>2, <1>3 DEF Context

LEMMA OwnersStep == ASSUME IInv, OwnersAreClients, [Next]_vars PROVE OwnersAreClients'
<1>0. TypeOK /\ LiveShape
  BY DEF IInv, Frozen
<1>1. CASE SameOwners
  BY <1>1 DEF SameOwners, OwnersAreClients
<1>2. ASSUME NEW p \in Contexts, NEW c \in Clients, NEW idle \in BOOLEAN, EnsureNew(p, c, idle)
      PROVE  OwnersAreClients'
  BY <1>0, <1>2 DEF EnsureNew, TypeOK, OwnersAreClients
<1>3. ASSUME NEW p \in Contexts, CloseContext(p) PROVE OwnersAreClients'
  BY <1>0, <1>3 DEF CloseContext, TypeOK, Context, OwnersAreClients
<1>4. ASSUME NEW h \in Handoffs, Complete(h) PROVE OwnersAreClients'
  <2>1. handoff[h].target \in Clients
    BY <1>0, <1>4 DEF LiveShape, Complete, Completable, IsLive, Live
  <2> QED BY <1>0, <1>4, <2>1, MovedContext DEF Complete, OwnersAreClients
<1> QED BY <1>1, <1>2, <1>3, <1>4, StepsOfContexts


-----------------------------------------------------------------------------
LEMMA OpenImplements ==
    ASSUME IInv, OffersRight,
           NEW p \in Contexts, NEW c \in Clients, NEW idle \in BOOLEAN, EnsureNew(p, c, idle)
    PROVE  Authority!Next
<1>1. ~Authority!Offered(c) /\ Authority!Owned(c) = {}
  BY AvailableIsUninvolved, OwnedIsActive DEF EnsureNew, Authority!Involved
<1>2. Owner(p) = NoClient /\ Owner(p)' = c
  BY DEF EnsureNew, Owner, IInv, TypeOK
<1>3. \A q \in Contexts : q # p => Owner(q)' = Owner(q)
  BY DEF EnsureNew, Owner, IInv, TypeOK
<1>4. \A q \in Contexts : OfferTo(q)' = OfferTo(q)
  BY UnchangedOffers DEF EnsureNew
<1>5. [q \in Contexts |-> Owner(q)'] = [[q \in Contexts |-> Owner(q)] EXCEPT ![p] = c]
  BY <1>2, <1>3
<1>6. Authority!Open(p, c)
  BY <1>1, <1>2, <1>4, <1>5 DEF Authority!Open
<1> QED BY <1>6 DEF Authority!Next

LEMMA CloseImplements ==
    ASSUME IInv, OffersRight, OwnersAreClients, NEW p \in Contexts, CloseContext(p)
    PROVE  Authority!Next
<1> DEFINE a == context[p].authority
<1>1. a \in Clients /\ Owner(p) = a /\ a # NoClient
  BY HandoffConstants DEF CloseContext, OwnersAreClients, Owner
<1>2. ~Authority!Involved(a)
  BY <1>1, AvailableSource, AvailableIsUninvolved DEF CloseContext, IInv
<1>3. Owner(p)' = NoClient
  BY DEF CloseContext, Owner, IInv, TypeOK, Context
<1>4. \A q \in Contexts : q # p => Owner(q)' = Owner(q)
  BY DEF CloseContext, Owner, IInv, TypeOK
<1>5. \A q \in Contexts : OfferTo(q)' = OfferTo(q)
  BY UnchangedOffers DEF CloseContext
<1>6. [q \in Contexts |-> Owner(q)'] = [[q \in Contexts |-> Owner(q)] EXCEPT ![p] = NoClient]
  BY <1>3, <1>4
<1> HIDE DEF a
<1>7. Authority!Close(p)
  BY <1>1, <1>2, <1>5, <1>6 DEF Authority!Close
<1> QED BY <1>7 DEF Authority!Next

(* The source is in no handoff because its context is in none.             *)
LEMMA OfferImplements ==
    ASSUME IInv, OffersRight, OffersRight', OwnersAreClients,
           NEW h \in Handoffs, NEW p \in Contexts, NEW t \in Clients, NEW o \in Origins, Start(h, p, t, o)
    PROVE  [Authority!Next]_(Authority!vars)
<1> DEFINE a == context[p].authority
<1>1. /\ context[p].lifecycle = "active" /\ a # t /\ a \in Clients /\ a # NoClient
      /\ ContextAvailable(p) /\ ClientAvailable(t) /\ ~IsLive(h)
  BY HandoffConstants DEF Start, Startable, BothAvailable, OwnersAreClients, IsLive, Live
<1>2. ~Authority!Involved(a) /\ ~Authority!Involved(t)
  BY <1>1, AvailableSource, AvailableIsUninvolved DEF IInv
<1>3. Owner(p) = a /\ \A q \in Contexts : Owner(q)' = Owner(q)
  BY <1>1, UnchangedOwners DEF Owner, Start, SameOwners
<1>4. /\ \A k \in Handoffs : k # h => handoff'[k] = handoff[k]
      /\ handoff'[h].context = p /\ handoff'[h].target = t
      /\ handoff'[h].status \in {"preparing", "failed"}
  BY DEF Start, Started, IInv, TypeOK
<1>5. \A k \in Handoffs : k # h => /\ handoff'[k].target = handoff[k].target
                                   /\ \A q : HandsOver(k, q)' <=> HandsOver(k, q)
  BY <1>4 DEF HandsOver, IsLive
<1>6. \A q : ~HandsOver(h, q)
  BY <1>1 DEF HandsOver
<1>7. CASE handoff'[h].status = "failed"
  <2>1. \A q : ~HandsOver(h, q)'
    BY <1>7 DEF HandsOver, IsLive, Live
  <2>2. \A q \in Contexts : OfferTo(q)' = OfferTo(q)
    BY <1>5, <1>6, <2>1, SameOffer
  <2> QED BY <1>3, <2>2 DEF Authority!vars
<1>8. CASE handoff'[h].status = "preparing"
  <2>1. HandsOver(h, p)' /\ \A q : q # p => ~HandsOver(h, q)'
    BY <1>4, <1>8 DEF HandsOver, IsLive, Live
  <2>2. \A q \in Contexts : q # p => OfferTo(q)' = OfferTo(q)
    BY <1>5, <1>6, <2>1, SameOffer
  <2>3. OfferTo(p)' = t
    BY <1>4, <2>1 DEF OffersRight
  <2>4. [q \in Contexts |-> OfferTo(q)'] = [[q \in Contexts |-> OfferTo(q)] EXCEPT ![p] = t]
    BY <2>2, <2>3
  <2> HIDE DEF a
  <2>5. Authority!Offer(p, t)
    BY <1>1, <1>2, <1>3, <2>4 DEF Authority!Offer
  <2> QED BY <2>5 DEF Authority!Next
<1> QED BY <1>4, <1>7, <1>8

(* What an end withdraws is what nobody else offers.                       *)
LEMMA EndImplements ==
    ASSUME IInv, OffersRight, OffersRight', SameOwners,
           NEW H \in SUBSET Handoffs, NEW s \in Statuses,
           handoff' = Ended(s, H), \A h \in H : IsLive(h)
    PROVE  [Authority!Next]_(Authority!vars)
<1>1. \A h \in Handoffs :
        /\ handoff'[h].context = handoff[h].context /\ handoff'[h].target = handoff[h].target
        /\ handoff'[h].status = IF h \in H THEN s ELSE handoff[h].status
  BY DEF IInv, TypeOK, Record, Ended
<1>2. \A p \in Contexts : Owner(p)' = Owner(p)
  BY UnchangedOwners
<1>3. CASE s \in Live
  <2>1. \A h \in Handoffs : \A p : HandsOver(h, p)' <=> HandsOver(h, p)
    BY <1>1, <1>3 DEF HandsOver, IsLive
  <2>2. \A p \in Contexts : OfferTo(p)' = OfferTo(p)
    BY <1>1, <2>1, SameOffer
  <2> QED BY <1>2, <2>2 DEF Authority!vars
<1>4. CASE s \notin Live
  <2>1. \A h \in Handoffs : \A p : HandsOver(h, p)' <=> HandsOver(h, p) /\ h \notin H
    BY <1>1, <1>4 DEF HandsOver, IsLive
  <2>2. PICK P \in SUBSET Contexts : P = {p \in Contexts : \E h \in H : HandsOver(h, p)}
    OBVIOUS
  <2>3. ASSUME NEW p \in Contexts, p \in P PROVE OfferTo(p) # NoClient /\ OfferTo(p)' = NoClient
    <3>1. PICK h \in H : HandsOver(h, p)
      BY <2>2, <2>3
    <3>2. OfferTo(p) # NoClient
      BY <3>1 DEF OffersRight
    <3>3. \A k \in Handoffs : HandsOver(k, p) => k = h
      BY <3>1, OneHandsOver
    <3>4. \A k \in Handoffs : ~HandsOver(k, p)'
      BY <2>1, <3>1, <3>3
    <3>5. OfferTo(p)' = NoClient
      BY <3>4 DEF OffersRight
    <3> QED BY <3>2, <3>5
  <2>4. ASSUME NEW p \in Contexts, p \notin P PROVE OfferTo(p)' = OfferTo(p)
    <3>1. \A h \in Handoffs : HandsOver(h, p)' <=> HandsOver(h, p)
      BY <2>1, <2>2, <2>4
    <3> QED BY <1>1, <3>1, SameOffer
  <2>5. CASE P = {}
    BY <1>2, <2>4, <2>5 DEF Authority!vars
  <2>6. CASE P # {}
    <3>1. [p \in Contexts |-> OfferTo(p)'] = [p \in Contexts |-> IF p \in P THEN NoClient ELSE OfferTo(p)]
      BY <2>3, <2>4
    <3>2. \A p \in P : OfferTo(p) # NoClient /\ p \in Contexts
      BY <2>3
    <3>3. Authority!Withdraw(P)
      BY <1>2, <2>6, <3>1, <3>2 DEF Authority!Withdraw
    <3> QED BY <3>3 DEF Authority!Next
  <2> QED BY <2>5, <2>6
<1> QED BY <1>3, <1>4

(* The target's standby is all it owned.                                   *)
LEMMA MoveImplements ==
    ASSUME IInv, OffersRight, OffersRight', NEW h \in Handoffs, Complete(h)
    PROVE  Authority!Next
<1>1. IsLive(h)
  BY DEF Complete, Completable, IsLive, Live
<1>a. PICK p \in Contexts : p = handoff[h].context
  BY <1>1, LiveFacts DEF IInv
<1>b. PICK t \in Clients : t = handoff[h].target
  BY <1>1 DEF IInv, Frozen, LiveShape
<1>2. /\ HandsOver(h, p) /\ t # NoClient
      /\ context[p].lifecycle = "active" /\ context[p].authority # t
      /\ handoff[h].standby # p
  BY <1>1, <1>a, <1>b, LiveFacts, HandoffConstants DEF HandsOver, IInv, Frozen, LiveShape
<1>3. OfferTo(p) = t
  BY <1>2, <1>b DEF OffersRight
<1>4. \A q \in Contexts : (q = handoff[h].standby <=> q \in ActiveContexts(t))
  BY <1>b, HandoffConstants DEF Complete
<1>5. \A q \in Contexts : Owner(q)' = IF q = p THEN t ELSE IF Owner(q) = t THEN NoClient ELSE Owner(q)
  <2> SUFFICES ASSUME NEW q \in Contexts
               PROVE  Owner(q)' = IF q = p THEN t ELSE IF Owner(q) = t THEN NoClient ELSE Owner(q)
    OBVIOUS
  <2>0. TypeOK /\ context' = Moved(h)
    BY DEF IInv, Complete
  <2>1. q = p => Owner(q)' = t
    BY <1>2, <1>a, <1>b, <2>0, MovedContext DEF Owner
  <2>2. q # p /\ q = handoff[h].standby => Owner(q)' = NoClient /\ Owner(q) = t
    BY <1>4, <1>a, <1>b, <2>0, MovedContext DEF Owner, ActiveContexts
  <2>3. q # p /\ q # handoff[h].standby => Owner(q)' = Owner(q) /\ Owner(q) # t
    BY <1>2, <1>4, <1>a, <1>b, <2>0, MovedContext DEF Owner, ActiveContexts
  <2> QED BY <2>1, <2>2, <2>3
<1>6. \A k \in Handoffs :
        /\ handoff'[k].context = handoff[k].context /\ handoff'[k].target = handoff[k].target
        /\ handoff'[k].status = IF k = h THEN "completed" ELSE handoff[k].status
  BY DEF Complete, IInv, TypeOK, Record, Ended
<1>7. \A k \in Handoffs : \A q : HandsOver(k, q)' <=> HandsOver(k, q) /\ k # h
  BY <1>6 DEF HandsOver, IsLive, Live
<1>8. OfferTo(p)' = NoClient
  <2>1. \A k \in Handoffs : ~HandsOver(k, p)'
    BY <1>2, <1>7, OneHandsOver
  <2> QED BY <1>2, <2>1 DEF OffersRight
<1>9. ASSUME NEW q \in Contexts, q # p PROVE OfferTo(q)' = OfferTo(q)
  <2>0. ~HandsOver(h, q)
    BY <1>9, <1>a DEF HandsOver
  <2>1. \A k \in Handoffs : HandsOver(k, q)' <=> HandsOver(k, q)
    BY <1>7, <2>0
  <2> QED BY <1>6, <2>1, SameOffer
<1>10. [q \in Contexts |-> OfferTo(q)'] = [[q \in Contexts |-> OfferTo(q)] EXCEPT ![p] = NoClient]
  BY <1>8, <1>9
<1>11. [q \in Contexts |-> Owner(q)'] =
        [q \in Contexts |-> IF q = p THEN OfferTo(p) ELSE IF Owner(q) = OfferTo(p) THEN NoClient ELSE Owner(q)]
  BY <1>3, <1>5
<1>12. OfferTo(p) # NoClient
  BY <1>2, <1>3
<1>13. Authority!Move(p)
  BY <1>10, <1>11, <1>12 DEF Authority!Move
<1> QED BY <1>13 DEF Authority!Next

-----------------------------------------------------------------------------
LEMMA AuthorityInit == Init => Authority!Init /\ OwnersAreClients
<1> SUFFICES ASSUME Init PROVE Authority!Init /\ OwnersAreClients
  OBVIOUS
<1>1. \A h \in Handoffs : ~IsLive(h)
  BY DEF Init, NoRecord, IsLive, Live
<1>2. \A p \in Contexts : context[p].lifecycle = "absent"
  BY DEF Init, Absent
<1>3. \A p \in Contexts : OfferTo(p) = NoClient
  BY <1>1 DEF OfferTo, OfferOf
<1>4. \A p \in Contexts : Owner(p) = NoClient
  BY <1>2 DEF Owner
<1> QED BY <1>2, <1>3, <1>4 DEF Authority!Init, OwnersAreClients

LEMMA AuthorityStep ==
    ASSUME IInv, OwnersAreClients, OffersRight, OffersRight', [Next]_vars
    PROVE  [Authority!Next]_(Authority!vars)
<1>1. CASE \E p \in Contexts, c \in Clients, idle \in BOOLEAN : EnsureNew(p, c, idle)
  BY <1>1, OpenImplements
<1>2. CASE \E p \in Contexts : CloseContext(p)
  BY <1>2, CloseImplements
<1>3. CASE \E h \in Handoffs : Complete(h)
  BY <1>3, MoveImplements
<1>4. CASE SameOwners
  <2>1. CASE UNCHANGED handoff
    BY <1>4, <2>1, UnchangedOwners, UnchangedOffers DEF Authority!vars
  <2>2. CASE \E H \in SUBSET Handoffs, s \in Statuses : handoff' = Ended(s, H) /\ \A h \in H : IsLive(h)
    BY <1>4, <2>2, EndImplements
  <2>3. CASE \E h \in Handoffs, p \in Contexts, t \in Clients, o \in Origins : Start(h, p, t, o)
    BY <2>3, OfferImplements
  <2> QED BY <2>1, <2>2, <2>3, StepsOfHandoffs
<1> QED BY <1>1, <1>2, <1>3, <1>4, StepsOfContexts

(* Seen by its contexts, the handoff is what ContextAuthority promises the *)
(* devices, for any number of them and of handoffs: one authority that     *)
(* only the acceptance of the one offer moves.                             *)
THEOREM ImplementsAuthorityCorrect == Spec => ImplementsAuthority
<1>1. IInv /\ OwnersAreClients /\ [Next]_vars => OwnersAreClients'
  BY OwnersStep
<1>2. IInv /\ IInv' => OffersRight /\ OffersRight'
  BY OffersAreRight, PTL
<1>3. IInv /\ IInv' /\ OwnersAreClients /\ [Next]_vars => [Authority!Next]_(Authority!vars)
  BY <1>2, AuthorityStep
<1> QED
  BY <1>1, <1>3, AuthorityInit, HandoffInvariant, PTL DEF Spec, ImplementsAuthority, Authority!Spec

=============================================================================
