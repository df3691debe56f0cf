---------------------------- MODULE Follow_proofs ----------------------------
(***************************************************************************)
(* Theorems about devices that follow each other.                          *)
(*                                                                         *)
(* That nobody touches a frozen context is not inductive by itself: it     *)
(* needs that the context is active and its follower's own, so that no     *)
(* other device is its authority or retires it.  No circle closes since    *)
(* the source of a new lease is not frozen, not even by the new lease.     *)
(***************************************************************************)
EXTENDS Follow, TLAPS

(* A frozen context is active, and the follower is its authority.          *)
OwnFrozen ==
    \A f \in Leased :
        /\ context[lease[f].suspended].lifecycle = "active"
        /\ context[lease[f].suspended].authority = f

(* An active context has a device for its authority.                       *)
ActiveIsLed == \A p \in Contexts : Active(p) => context[p].authority \in Clients

IInv == TypeOK /\ OwnFrozen /\ ActiveIsLed /\ FollowsAreReal /\ NoFollowCircle

(* What a step makes of one lease that it does not begin.                  *)
Carried(f) ==
    lease'[f] # NoLease =>
        /\ f \in Leased
        /\ lease'[f].source = lease[f].source
        /\ lease'[f].suspended = lease[f].suspended
        /\ lease[f].phase = "cleanupRequired" => lease'[f].phase = "cleanupRequired"

(* The new row of a lease: on the same contexts, active only if it was, on *)
(* the same connection, and never out of cleanup.                          *)
Follows(m, l) ==
    /\ m \in Lease
    /\ m.source = l.source /\ m.suspended = l.suspended /\ m.connection = l.connection
    /\ m.phase = "active" => l.phase = "active"
    /\ l.phase = "cleanupRequired" => m.phase = "cleanupRequired"

-----------------------------------------------------------------------------
(* A device either follows under a whole row or not at all.                *)
LEMMA LeaseRow ==
    ASSUME TypeOK, NEW f \in Clients
    PROVE  f \in Leased <=> lease[f] \in Lease
<1>1. \A l \in Lease : l.phase # "none"
  BY DEF Lease, Phases
<1>2. NoLease.phase = "none"
  BY DEF NoLease
<1> QED BY <1>1, <1>2 DEF TypeOK, Leased

(* The same of a new state.                                                *)
LEMMA NewLeaseRow == \A l \in Lease : l # NoLease
<1>1. \A l \in Lease : l.phase # "none"
  BY DEF Lease, Phases
<1>2. NoLease.phase = "none"
  BY DEF NoLease
<1> QED BY <1>1, <1>2

LEMMA CleanupFollows ==
    ASSUME NEW l \in Lease
    PROVE  Follows(Cleanup(l), l) /\ Cleanup(l).phase = "cleanupRequired"
BY DEF Follows, Cleanup, Lease, Phases, Deadline

LEMMA SweptFollows ==
    ASSUME NEW l \in Lease
    PROVE  /\ Follows(Swept(l), l)
           /\ Swept(l).phase # "cleanupRequired" => Swept(l).phase = l.phase
<1>1. Follows(l, l)
  BY DEF Follows
<1>2. /\ Follows([l EXCEPT !.recovery = "running"], l)
      /\ [l EXCEPT !.recovery = "running"].phase = l.phase
  BY DEF Follows, Lease, Deadline
<1> QED BY <1>1, <1>2, CleanupFollows DEF Swept

LEMMA RecoveredFollows ==
    ASSUME NEW l \in Lease
    PROVE  Follows(Recovered(l), l) /\ Recovered(l).phase # "active"
<1>1. CASE l.phase = "active" /\ l.recovery = "passed"
  BY <1>1, CleanupFollows DEF Recovered, GraceExpired
<1>2. CASE l.phase = "active" /\ l.recovery # "passed"
  BY <1>2 DEF Recovered, Follows, Lease, Phases, Deadline
<1>3. CASE l.phase # "active" /\ GraceExpired(l)
  BY <1>3 DEF Recovered, Follows, Lease, Phases, Deadline
<1>4. CASE l.phase # "active" /\ ~GraceExpired(l)
  BY <1>4 DEF Recovered, Follows, Lease, Phases, Deadline
<1>5. l.phase = "active" \/ l.phase # "active"
  OBVIOUS
<1> QED BY <1>1, <1>2, <1>3, <1>4, <1>5, Zenon

LEMMA UnavailableFollows ==
    ASSUME NEW f \in Clients, NEW c \in Clients, NEW n \in Connections, lease[f] \in Lease
    PROVE  /\ Follows(Unavailable(f, c, n), lease[f])
           /\ f = c /\ lease[f].connection = n => Unavailable(f, c, n).phase # "active"
           /\ f # c \/ lease[f].connection # n => Unavailable(f, c, n).phase = lease[f].phase
BY DEF Unavailable, Follows, Lease, Phases, Deadline

LEMMA RefreshedFollows ==
    ASSUME TypeOK, NEW f \in Clients, NEW c \in Clients, NEW p, lease[f] \in Lease
    PROVE  Follows(Refreshed(f, c, p), lease[f]) /\ Refreshed(f, c, p).phase = lease[f].phase
<1>1. connection[c] \in Connections
  BY DEF TypeOK
<1> QED BY <1>1 DEF Refreshed, Follows, Lease, Deadline

LEMMA TransferredFollows ==
    ASSUME TypeOK, NEW f \in Clients, NEW p, NEW n, NEW target \in Clients, lease[f] \in Lease
    PROVE  /\ Follows(Transferred(f, p, n, target), lease[f])
           /\ Transferred(f, p, n, target).phase = lease[f].phase
<1>1. connection[target] \in Connections
  BY DEF TypeOK
<1> QED BY <1>1 DEF Transferred, Follows, Lease, Deadline

(* A resumed lease is on the device's present connection if it is active.  *)
LEMMA ResumedKeeps ==
    ASSUME TypeOK, NEW f \in Clients, lease[f] \in Lease, ~ResumeRefused(f)
    PROVE  /\ Resumed(f) \in Lease
           /\ Resumed(f).source = lease[f].source /\ Resumed(f).suspended = lease[f].suspended
           /\ Resumed(f).phase = "active" => Resumed(f).connection = connection[f]
           /\ lease[f].phase = "active" => Resumed(f).phase = "active"
           /\ lease[f].phase # "cleanupRequired"
<1>1. connection[f] \in Connections
  BY DEF TypeOK
<1> QED BY <1>1 DEF Resumed, ResumeRefused, Cleanup, Lease, Phases, Deadline

-----------------------------------------------------------------------------
(* No circle closes and a frozen context stays its follower's own, in a    *)
(* step that begins no lease and touches no frozen context.                *)
LEMMA CarriedKeeps ==
    ASSUME TypeOK, OwnFrozen, NoFollowCircle,
           \A f \in Clients : Carried(f),
           \A f \in Leased : lease'[f] # NoLease => Frozen(lease[f].suspended)
    PROVE  OwnFrozen' /\ NoFollowCircle'
<1>1. \A f \in Leased' : /\ f \in Leased /\ lease'[f].source = lease[f].source
                         /\ lease'[f].suspended = lease[f].suspended
                         /\ Frozen(lease[f].suspended)
  BY DEF Leased, Carried
<1>2. OwnFrozen'
  BY <1>1 DEF OwnFrozen, Frozen
<1>3. \A f, g \in Leased' : lease'[f].suspended = lease'[g].suspended => f = g
  BY <1>1 DEF NoFollowCircle
<1>4. ASSUME NEW S \in (SUBSET Leased') \ {{}}
      PROVE  \E f \in S : \A g \in S : lease'[f].source # lease'[g].suspended
  <2>1. S \in (SUBSET Leased) \ {{}}
    BY <1>1, <1>4
  <2>2. PICK f \in S : \A g \in S : lease[f].source # lease[g].suspended
    BY <2>1 DEF NoFollowCircle
  <2> QED BY <1>1, <1>4, <2>2
<1> QED BY <1>2, <1>3, <1>4 DEF NoFollowCircle

-----------------------------------------------------------------------------
(* Start.                                                                  *)
LEMMA StartKeeps ==
    ASSUME IInv, NEW c \in Clients, NEW source \in Contexts, Start(c, source)
    PROVE  IInv' /\ (\A f \in Clients : Carried(f) \/ lease[f] = NoLease)
                 /\ UNCHANGED context
<1> DEFINE l(own) == NewLease(c, source, own)
<1>1. PICK own \in Contexts :
        /\ Paired(c, source, own) /\ Startable(c, source, own) /\ Leasable(c, source, own)
        /\ lease' = [lease EXCEPT ![c] = l(own)]
        /\ relation' = [relation EXCEPT ![c] = Following(l(own))]
  BY DEF Start
<1>2. UNCHANGED <<connection, lastConnection, context, removals>> /\ connection[c] # 0
  BY DEF Start
<1>3. /\ context[source].authority \in Clients /\ context[source].authority # c
      /\ Active(own) /\ context[own].authority = c /\ own # source
      /\ ~Suspended(source) /\ ~Suspended(own) /\ c \notin Leased
  <2>1. own \in Bindings(c)
    BY <1>1 DEF Paired
  <2>2. context[source].authority \in Clients
    BY <1>1 DEF IInv, ActiveIsLed, Paired
  <2> QED BY <1>1, <2>1, <2>2 DEF Bindings, Startable, Leasable, ResourcesAvailable, Leased
<1>4. l(own) \in Lease
  BY <1>3 DEF NewLease, Lease, Phases, Deadline, IInv, TypeOK
<1>5. /\ l(own).phase = "active" /\ l(own).connection = connection[c]
      /\ l(own).source = source /\ l(own).suspended = own
  BY DEF NewLease
<1>6. TypeOK'
  BY <1>1, <1>2, <1>4 DEF IInv, TypeOK, Following, Relation, NewLease, Lease
<1> HIDE DEF l
<1>7. /\ Leased' = Leased \cup {c} /\ lease'[c] = l(own)
      /\ \A f \in Leased : lease'[f] = lease[f] /\ f # c
      /\ \A f \in Clients \ {c} : lease'[f] = lease[f] /\ relation'[f] = relation[f]
  BY <1>1, <1>3, <1>4, NewLeaseRow DEF Leased, IInv, TypeOK
<1>8. OwnFrozen'
  BY <1>2, <1>3, <1>5, <1>7 DEF IInv, OwnFrozen, Active
<1>9. ActiveIsConnected'
  BY <1>2, <1>5, <1>7 DEF IInv, FollowsAreReal, ActiveIsConnected
<1>10. RelationHasLease'
  <2>1. relation'[c].source = source /\ lease'[c].phase = "active"
    BY <1>1, <1>5, <1>7 DEF Following, IInv, TypeOK
  <2> QED BY <1>2, <1>5, <1>7, <2>1 DEF IInv, FollowsAreReal, RelationHasLease
<1>12. ActiveIsLed'
  BY <1>2 DEF IInv, ActiveIsLed, Active
<1>11. NoFollowCircle'
  <2>1. \A g \in Leased : lease[g].suspended # source /\ lease[g].suspended # own
    BY <1>3 DEF Suspended
  <2>2. \A f, g \in Leased' : lease'[f].suspended = lease'[g].suspended => f = g
    BY <1>5, <1>7, <2>1 DEF IInv, NoFollowCircle
  <2>3. ASSUME NEW S \in (SUBSET Leased') \ {{}}
        PROVE  \E f \in S : \A g \in S : lease'[f].source # lease'[g].suspended
    <3>1. CASE c \in S
      <4>1. \A g \in S : lease'[c].source # lease'[g].suspended
        BY <1>3, <1>5, <1>7, <2>1, <2>3
      <4> QED BY <3>1, <4>1
    <3>2. CASE c \notin S
      <4>1. S \in (SUBSET Leased) \ {{}}
        BY <1>7, <2>3, <3>2
      <4>2. PICK f \in S : \A g \in S : lease[f].source # lease[g].suspended
        BY <4>1 DEF IInv, NoFollowCircle
      <4> QED BY <1>7, <4>1, <4>2
    <3> QED BY <3>1, <3>2
  <2> QED BY <2>2, <2>3 DEF NoFollowCircle
<1> QED
  BY <1>2, <1>3, <1>6, <1>7, <1>8, <1>9, <1>10, <1>11, <1>12
  DEF IInv, FollowsAreReal, Carried, Leased

-----------------------------------------------------------------------------
(* The other steps, one by one.  What all of them have to show.            *)
Steps ==
    /\ IInv'
    /\ \A f \in Clients : Carried(f)
    /\ \A f \in Leased : lease'[f] = NoLease => connection[f] # 0
    /\ \A f \in Leased : lease'[f] # NoLease => Frozen(lease[f].suspended)

(* Contexts that nothing happens to are untouched.                         *)
LEMMA FrozenUnchanged ==
    ASSUME UNCHANGED context, NEW p
    PROVE  Frozen(p)
BY DEF Frozen

LEMMA ResumeKeeps ==
    ASSUME IInv, NEW c \in Clients, Resume(c)
    PROVE  Steps
<1>1. /\ lease' = [lease EXCEPT ![c] = Resumed(c)]
      /\ relation' = IF Resumed(c).phase = "active"
                     THEN [relation EXCEPT ![c] = Following(lease[c])] ELSE relation
      /\ UNCHANGED <<connection, lastConnection, context, removals>>
      /\ connection[c] # 0 /\ ~ResumeRefused(c) /\ c \in Leased
  BY DEF Resume, Restored, Leased
<1>2. lease[c] \in Lease
  BY <1>1, LeaseRow DEF IInv
<1>3. /\ Resumed(c) \in Lease
      /\ Resumed(c).source = lease[c].source /\ Resumed(c).suspended = lease[c].suspended
      /\ Resumed(c).phase = "active" => Resumed(c).connection = connection[c]
      /\ lease[c].phase = "active" => Resumed(c).phase = "active"
      /\ lease[c].phase # "cleanupRequired"
  BY <1>1, <1>2, ResumedKeeps DEF IInv
<1>4. /\ lease'[c] = Resumed(c) /\ \A f \in Clients \ {c} : lease'[f] = lease[f]
      /\ Leased' = Leased
  BY <1>1, <1>2, <1>3, NewLeaseRow DEF IInv, TypeOK, Leased
<1>5. TypeOK'
  BY <1>1, <1>2, <1>3 DEF IInv, TypeOK, Following, Relation, Lease
<1>6. \A f \in Clients : Carried(f)
  BY <1>1, <1>3, <1>4 DEF Carried, Leased
<1>7. \A f \in Leased : Frozen(lease[f].suspended)
  BY <1>1, FrozenUnchanged
<1>8. OwnFrozen' /\ NoFollowCircle'
  BY <1>6, <1>7, CarriedKeeps DEF IInv
<1>9. ActiveIsLed'
  BY <1>1 DEF IInv, ActiveIsLed, Active
<1>10. ActiveIsConnected'
  BY <1>1, <1>3, <1>4 DEF IInv, FollowsAreReal, ActiveIsConnected
<1>11. RelationHasLease'
  <2>1. CASE Resumed(c).phase = "active"
    <3>1. relation'[c].source = lease[c].source /\ \A f \in Clients \ {c} : relation'[f] = relation[f]
      BY <1>1, <2>1 DEF IInv, TypeOK, Following
    <3> QED BY <1>1, <1>3, <1>4, <2>1, <3>1 DEF IInv, FollowsAreReal, RelationHasLease
  <2>2. CASE Resumed(c).phase # "active"
    BY <1>1, <1>3, <1>4, <2>2 DEF IInv, FollowsAreReal, RelationHasLease
  <2> QED BY <2>1, <2>2
<1> QED
  BY <1>3, <1>4, <1>5, <1>6, <1>7, <1>8, <1>9, <1>10, <1>11, NewLeaseRow
  DEF Steps, IInv, FollowsAreReal, Leased

LEMMA StopKeeps ==
    ASSUME IInv, NEW c \in Clients, Stop(c)
    PROVE  Steps
<1>1. /\ lease' = [lease EXCEPT ![c] = NoLease] /\ relation' = [relation EXCEPT ![c] = NoRelation]
      /\ UNCHANGED <<connection, lastConnection, context, removals>> /\ connection[c] # 0
  BY DEF Stop
<1>2. NoRelation \in Relation /\ ~NoRelation.active
  BY DEF NoRelation, Relation
<1>3. /\ lease'[c] = NoLease /\ \A f \in Clients \ {c} : lease'[f] = lease[f]
      /\ relation'[c] = NoRelation /\ \A f \in Clients \ {c} : relation'[f] = relation[f]
      /\ Leased' = Leased \ {c}
  BY <1>1 DEF IInv, TypeOK, Leased
<1>4. TypeOK'
  BY <1>1, <1>2 DEF IInv, TypeOK
<1>5. \A f \in Clients : Carried(f)
  BY <1>3 DEF Carried, Leased
<1>6. \A f \in Leased : Frozen(lease[f].suspended)
  BY <1>1, FrozenUnchanged
<1>7. OwnFrozen' /\ NoFollowCircle'
  BY <1>5, <1>6, CarriedKeeps DEF IInv
<1>8. ActiveIsLed' /\ ActiveIsConnected' /\ RelationHasLease'
  BY <1>1, <1>2, <1>3
  DEF IInv, ActiveIsLed, Active, FollowsAreReal, ActiveIsConnected, RelationHasLease
<1> QED BY <1>1, <1>3, <1>4, <1>5, <1>6, <1>7, <1>8 DEF Steps, IInv, FollowsAreReal, Leased

-----------------------------------------------------------------------------
(* A step that may go over all leases, but begins and ends none.           *)
LEMMA FollowsKeeps ==
    ASSUME IInv,
           lease' = [f \in Clients |-> lease'[f]],
           \A f \in Leased : Follows(lease'[f], lease[f]),
           \A f \in Clients \ Leased : lease'[f] = lease[f],
           \A f \in Leased : Frozen(lease[f].suspended),
           connection' \in [Clients -> Connections], lastConnection' \in Connections,
           context' \in [Contexts -> Context], ActiveIsLed',
           relation' \in [Clients -> Relation], removals' \subseteq Clients,
           \A f \in Leased : lease'[f].phase = "active" => connection'[f] = connection[f],
           \A f \in Clients : relation'[f].active =>
               /\ relation[f].active /\ relation'[f].source = relation[f].source
               /\ lease'[f].phase = lease[f].phase \/ f \in removals'
               /\ f \in removals => f \in removals'
    PROVE  Steps
<1>1. \A f \in Clients : f \in Leased <=> lease[f] \in Lease
  BY LeaseRow DEF IInv
<1>2. Leased' = Leased /\ \A f \in Leased : lease'[f] # NoLease
  BY NewLeaseRow DEF Leased, Follows
<1>3. lease' \in [Clients -> Lease \cup {NoLease}]
  BY DEF Follows, Leased
<1>4. TypeOK'
  BY <1>3 DEF TypeOK
<1>5. \A f \in Clients : Carried(f)
  BY <1>2 DEF Carried, Follows, Leased
<1>6. OwnFrozen' /\ NoFollowCircle'
  BY <1>5, CarriedKeeps DEF IInv
<1>7. ActiveIsConnected'
  BY <1>1, <1>2 DEF Follows, IInv, FollowsAreReal, ActiveIsConnected
<1>8. RelationHasLease'
  BY <1>1, <1>2 DEF Follows, IInv, FollowsAreReal, RelationHasLease
<1> QED BY <1>2, <1>4, <1>5, <1>6, <1>7, <1>8 DEF Steps, IInv, FollowsAreReal

(* The same when it is about contexts and leaves memory alone.             *)
LEMMA ContextKeeps ==
    ASSUME IInv, UNCHANGED <<connection, lastConnection, lease, relation, removals>>,
           context' \in [Contexts -> Context], ActiveIsLed',
           \A f \in Leased : Frozen(lease[f].suspended)
    PROVE  Steps
<1>1. \A f \in Leased : Follows(lease'[f], lease[f])
  BY LeaseRow DEF Follows, IInv, Leased
<1> QED BY <1>1, FollowsKeeps DEF IInv, TypeOK

LEMMA RegisterKeeps ==
    ASSUME IInv, NEW c \in Clients, Register(c) \/ Disconnect(c)
    PROVE  Steps
<1>0. UNCHANGED <<context, removals>> /\ \A f \in Leased : Frozen(lease[f].suspended)
  BY FrozenUnchanged DEF Register, Disconnect
<1>1. /\ connection' \in [Clients -> Connections] /\ lastConnection' \in Connections
      /\ \A f \in Clients \ {c} : connection'[f] = connection[f]
  BY FollowAssumption DEF Register, Disconnect, IInv, TypeOK, Connections
<1>2. ActiveIsLed'
  BY <1>0 DEF IInv, ActiveIsLed, Active
<1>3. \A r \in Relation : /\ Deactivated(r) \in Relation /\ ~Deactivated(r).active
  BY DEF Deactivated, Relation
<1>4. CASE UNCHANGED <<lease, relation>> /\ connection[c] = 0
  <2>1. \A f \in Leased : /\ Follows(lease'[f], lease[f])
                          /\ lease'[f].phase = "active" => f # c
    BY <1>4, LeaseRow DEF Follows, IInv, FollowsAreReal, ActiveIsConnected, Leased
  <2> QED BY <1>0, <1>1, <1>2, <1>4, <2>1, FollowsKeeps DEF IInv, TypeOK, Leased
<1>5. CASE /\ MarkUnavailable(c, connection[c])
           /\ \/ relation' = [relation EXCEPT ![c] = Deactivated(@)]
              \/ relation' = relation /\ ~(c \in Leased /\ lease[c].connection = connection[c])
  <2>1. connection[c] \in Connections
    BY DEF IInv, TypeOK
  <2>2. \A f \in Leased : lease[f] \in Lease /\ f \in Clients
    BY LeaseRow DEF IInv, Leased
  <2>3. \A f \in Leased :
          /\ lease'[f] = Unavailable(f, c, connection[c])
          /\ Follows(lease'[f], lease[f])
          /\ f = c /\ lease[f].connection = connection[c] => lease'[f].phase # "active"
          /\ f # c \/ lease[f].connection # connection[c] => lease'[f].phase = lease[f].phase
    BY <1>5, <2>1, <2>2, UnavailableFollows DEF MarkUnavailable
  <2>4. /\ lease' = [f \in Clients |-> lease'[f]] /\ \A f \in Clients \ Leased : lease'[f] = lease[f]
    BY <1>5 DEF MarkUnavailable
  <2>5. \A f \in Leased : lease'[f].phase = "active" => f # c
    BY <2>3 DEF Follows, IInv, FollowsAreReal, ActiveIsConnected
  <2>6. relation' \in [Clients -> Relation]
    BY <1>3, <1>5 DEF IInv, TypeOK
  <2>7. \A f \in Clients : relation'[f].active =>
          /\ relation[f].active /\ relation'[f].source = relation[f].source
          /\ f # c \/ ~(c \in Leased /\ lease[c].connection = connection[c])
    BY <1>3, <1>5 DEF IInv, TypeOK
  <2>8. \A f \in Clients : relation'[f].active =>
          /\ relation[f].active /\ relation'[f].source = relation[f].source
          /\ lease'[f].phase = lease[f].phase
    BY <2>3, <2>4, <2>7
  <2> QED BY <1>0, <1>1, <1>2, <2>2, <2>3, <2>4, <2>5, <2>6, <2>8, FollowsKeeps DEF IInv, TypeOK
<1> QED BY <1>4, <1>5 DEF Register, Disconnect

-----------------------------------------------------------------------------
(* The followed contexts.                                                  *)
LEMMA ReportKeeps ==
    ASSUME IInv, NEW c \in Clients, NEW p \in Contexts, Update(c, p)
    PROVE  Steps
<1>1. /\ context' = [context EXCEPT ![p].fact = "settled", ![p].reporter = connection[c]]
      /\ lease' = [f \in Clients |-> IF f \in Leased THEN Refreshed(f, c, p) ELSE lease[f]]
      /\ UNCHANGED <<connection, lastConnection, relation, removals>> /\ ~Suspended(p)
  BY DEF Update
<1>2. connection[c] \in Connections
  BY DEF IInv, TypeOK
<1>3. /\ context' \in [Contexts -> Context]
      /\ \A q \in Contexts : /\ context'[q].lifecycle = context[q].lifecycle
                             /\ context'[q].authority = context[q].authority
      /\ \A q \in Contexts \ {p} : context'[q] = context[q]
  BY <1>1, <1>2 DEF IInv, TypeOK, Context, FactStatus
<1>4. \A f \in Leased : lease[f].suspended \in Contexts \ {p}
  BY <1>1, LeaseRow DEF Suspended, IInv, Lease, Leased
<1>5. \A f \in Leased : Frozen(lease[f].suspended)
  BY <1>3, <1>4 DEF Frozen
<1>6. ActiveIsLed'
  BY <1>3 DEF IInv, ActiveIsLed, Active
<1>7. \A f \in Leased : Follows(lease'[f], lease[f]) /\ lease'[f].phase = lease[f].phase
  BY <1>1, LeaseRow, RefreshedFollows DEF IInv, Leased
<1>8. /\ lease' = [f \in Clients |-> lease'[f]] /\ \A f \in Clients \ Leased : lease'[f] = lease[f]
  BY <1>1
<1> QED BY <1>1, <1>3, <1>5, <1>6, <1>7, <1>8, FollowsKeeps DEF IInv, TypeOK

LEMMA FactKeeps ==
    ASSUME IInv, NEW p \in Contexts, Command(p) \/ GrowStale(p)
    PROVE  Steps
<1>1. UNCHANGED <<connection, lastConnection, lease, relation, removals>>
  BY DEF Command, GrowStale
<1>2. \A f \in Leased : lease[f].suspended \in Contexts
  BY LeaseRow DEF IInv, Lease, Leased
<1>3. CASE Command(p)
  <2>1. context' = [context EXCEPT ![p].fact = "pending"] /\ ~Suspended(p)
    BY <1>3 DEF Command
  <2>2. /\ context' \in [Contexts -> Context]
        /\ \A q \in Contexts : context'[q].lifecycle = context[q].lifecycle
                              /\ context'[q].authority = context[q].authority
        /\ \A q \in Contexts \ {p} : context'[q] = context[q]
    BY <2>1 DEF IInv, TypeOK, Context, FactStatus
  <2>3. \A f \in Leased : Frozen(lease[f].suspended)
    BY <1>2, <2>1, <2>2 DEF Frozen, Suspended
  <2>4. ActiveIsLed'
    BY <2>2 DEF IInv, ActiveIsLed, Active
  <2> QED BY <1>1, <2>2, <2>3, <2>4, ContextKeeps
<1>4. CASE GrowStale(p)
  <2>1. context' = [context EXCEPT ![p].fact = "stale"] /\ context[p].fact = "settled"
    BY <1>4 DEF GrowStale
  <2>2. /\ context' \in [Contexts -> Context]
        /\ \A q \in Contexts : /\ context'[q].lifecycle = context[q].lifecycle
                               /\ context'[q].authority = context[q].authority
                               /\ context'[q].reporter = context[q].reporter
                               /\ context'[q].fact = "pending" <=> context[q].fact = "pending"
    BY <2>1 DEF IInv, TypeOK, Context, FactStatus
  <2>3. \A f \in Leased : Frozen(lease[f].suspended)
    BY <1>2, <2>2 DEF Frozen
  <2>4. ActiveIsLed'
    BY <2>2 DEF IInv, ActiveIsLed, Active
  <2> QED BY <1>1, <2>2, <2>3, <2>4, ContextKeeps
<1> QED BY <1>3, <1>4

LEMMA EnsureKeeps ==
    ASSUME IInv, NEW c \in Clients, NEW p \in Contexts, Ensure(c, p)
    PROVE  Steps
<1>1. /\ context' = [context EXCEPT ![p] =
           [lifecycle |-> "active", authority |-> c, reporter |-> 0, fact |-> "pending"]]
      /\ context[p].lifecycle = "absent"
      /\ UNCHANGED <<connection, lastConnection, lease, relation, removals>>
  BY DEF Ensure
<1>2. 0 \in Connections
  BY FollowAssumption DEF Connections
<1>3. /\ context' \in [Contexts -> Context] /\ context'[p].authority = c
      /\ \A q \in Contexts \ {p} : context'[q] = context[q]
  BY <1>1, <1>2 DEF IInv, TypeOK, Context, FactStatus
<1>4. \A f \in Leased : lease[f].suspended \in Contexts \ {p}
  BY <1>1, LeaseRow DEF IInv, OwnFrozen, Lease, Leased
<1>5. \A f \in Leased : Frozen(lease[f].suspended)
  BY <1>3, <1>4 DEF Frozen
<1>6. ActiveIsLed'
  BY <1>3 DEF IInv, ActiveIsLed, Active
<1> QED BY <1>1, <1>3, <1>5, <1>6, ContextKeeps

LEMMA CloseKeeps ==
    ASSUME IInv, NEW p \in Contexts, Close(p)
    PROVE  Steps
<1>1. /\ context' = [context EXCEPT ![p].lifecycle = "closed"] /\ ~Suspended(p)
      /\ lease' = [f \in Clients |-> SourceClosed(f, p)]
      /\ removals' = removals \cup {f \in Leased : lease[f].source = p}
      /\ UNCHANGED <<connection, lastConnection, relation>>
  BY DEF Close
<1>2. /\ context' \in [Contexts -> Context]
      /\ \A q \in Contexts \ {p} : context'[q] = context[q]
      /\ context'[p].lifecycle = "closed"
  BY <1>1 DEF IInv, TypeOK, Context
<1>3. \A f \in Leased : lease[f].suspended \in Contexts \ {p}
  BY <1>1, LeaseRow DEF Suspended, IInv, Lease, Leased
<1>4. \A f \in Leased : Frozen(lease[f].suspended)
  BY <1>2, <1>3 DEF Frozen
<1>5. ActiveIsLed'
  BY <1>2 DEF IInv, ActiveIsLed, Active
<1>6. \A f \in Leased : /\ Follows(lease'[f], lease[f])
                        /\ lease'[f].phase = lease[f].phase \/ f \in removals'
  <2> TAKE f \in Leased
  <2>1. lease[f] \in Lease /\ f \in Clients
    BY LeaseRow DEF IInv, Leased
  <2>2. CASE lease[f].source = p
    BY <1>1, <2>1, <2>2, CleanupFollows DEF SourceClosed
  <2>3. CASE lease[f].source # p
    BY <1>1, <2>1, <2>3 DEF SourceClosed, Follows
  <2> QED BY <2>2, <2>3
<1>7. /\ lease' = [f \in Clients |-> lease'[f]] /\ \A f \in Clients \ Leased : lease'[f] = lease[f]
  BY <1>1 DEF SourceClosed
<1>8. removals' \subseteq Clients /\ removals \subseteq removals'
  BY <1>1 DEF IInv, TypeOK, Leased
<1>9. \A f \in Leased : lease'[f].phase = "active" => connection'[f] = connection[f]
  BY <1>1
<1>10. \A f \in Clients : relation'[f].active =>
         /\ relation[f].active /\ relation'[f].source = relation[f].source
         /\ lease'[f].phase = lease[f].phase \/ f \in removals'
         /\ f \in removals => f \in removals'
  BY <1>1, <1>6, <1>7, <1>8
<1> QED
  BY <1>1, <1>2, <1>4, <1>5, <1>6, <1>7, <1>8, <1>9, <1>10, FollowsKeeps DEF IInv, TypeOK

LEMMA HandoffKeeps ==
    ASSUME IInv, NEW p \in Contexts, NEW target \in Clients, Handoff(p, target)
    PROVE  Steps
<1> DEFINE source == context[p].authority
<1>1. /\ source \in Clients /\ ~Suspended(p) /\ target \notin Leased
      /\ context' = [q \in Contexts |->
           IF q = p THEN [context[p] EXCEPT !.authority = target, !.reporter = connection[target]]
           ELSE IF q \in Bindings(target) THEN [context[q] EXCEPT !.lifecycle = "closed"]
           ELSE context[q]]
      /\ lease' = [f \in Clients |->
           IF f \in Leased THEN Transferred(f, p, connection[source], target) ELSE lease[f]]
      /\ relation' = [f \in Clients |->
           IF f \in Leased /\ lease'[f] # lease[f] THEN Redirected(relation[f], p, source, target)
           ELSE relation[f]]
      /\ UNCHANGED <<connection, lastConnection, removals>>
  BY DEF Handoff
<1>2. connection[target] \in Connections
  BY DEF IInv, TypeOK
<1>3. /\ context' \in [Contexts -> Context]
      /\ \A q \in Contexts \ {p} : context[q].authority # target => context'[q] = context[q]
      /\ \A q \in Contexts : /\ context'[q].lifecycle = "active" => context[q].lifecycle = "active"
                             /\ context'[q].authority \in {context[q].authority, target}
  BY <1>1, <1>2 DEF IInv, TypeOK, Context, Bindings
<1>4. \A f \in Leased : /\ lease[f] \in Lease /\ f \in Clients /\ f # target
                        /\ lease[f].suspended \in Contexts \ {p}
                        /\ context[lease[f].suspended].authority = f
  BY <1>1, LeaseRow DEF Suspended, IInv, OwnFrozen, Lease, Leased
<1>5. \A f \in Leased : Frozen(lease[f].suspended)
  BY <1>3, <1>4 DEF Frozen
<1>6. ActiveIsLed'
  BY <1>3 DEF IInv, ActiveIsLed, Active
<1>7. \A f \in Leased : Follows(lease'[f], lease[f]) /\ lease'[f].phase = lease[f].phase
  BY <1>1, <1>4, TransferredFollows DEF IInv
<1>8. /\ lease' = [f \in Clients |-> lease'[f]] /\ \A f \in Clients \ Leased : lease'[f] = lease[f]
  BY <1>1
<1>9. \A r \in Relation : /\ Redirected(r, p, source, target) \in Relation
                          /\ Redirected(r, p, source, target).active = r.active
                          /\ Redirected(r, p, source, target).source = r.source
  BY DEF Redirected, Relation
<1>10. /\ relation' \in [Clients -> Relation]
       /\ \A f \in Clients : /\ relation'[f].active = relation[f].active
                             /\ relation'[f].source = relation[f].source
  BY <1>1, <1>9 DEF IInv, TypeOK
<1> QED BY <1>1, <1>3, <1>5, <1>6, <1>7, <1>8, <1>10, FollowsKeeps DEF IInv, TypeOK

-----------------------------------------------------------------------------
(* Deadlines, the sweep and the restart.                                   *)
LEMMA SweepKeeps ==
    ASSUME IInv, NEW c \in Clients, Sweep(c)
    PROVE  Steps
<1>1. /\ c \in Leased /\ lease' = [lease EXCEPT ![c] = Swept(lease[c])]
      /\ removals' = IF lease'[c].phase = "cleanupRequired" THEN removals \cup {c} ELSE removals
      /\ UNCHANGED <<connection, lastConnection, context, relation>>
  BY DEF Sweep
<1>2. \A f \in Leased : lease[f] \in Lease /\ f \in Clients
  BY LeaseRow DEF IInv, Leased
<1>3. /\ lease'[c] = Swept(lease[c]) /\ \A f \in Clients \ {c} : lease'[f] = lease[f]
      /\ lease' = [f \in Clients |-> lease'[f]]
  BY <1>1 DEF IInv, TypeOK, Leased
<1>4. /\ \A f \in Leased : Follows(lease'[f], lease[f])
      /\ lease'[c].phase = lease[c].phase \/ c \in removals'
  BY <1>1, <1>2, <1>3, SweptFollows DEF Follows
<1>5. removals' \subseteq Clients /\ removals \subseteq removals'
  BY <1>1 DEF IInv, TypeOK, Leased
<1>6. \A f \in Leased : Frozen(lease[f].suspended)
  BY <1>1, FrozenUnchanged
<1>7. ActiveIsLed' /\ context' \in [Contexts -> Context]
  BY <1>1 DEF IInv, ActiveIsLed, Active, TypeOK
<1>8. \A f \in Clients : relation'[f].active =>
         /\ relation[f].active /\ relation'[f].source = relation[f].source
         /\ lease'[f].phase = lease[f].phase \/ f \in removals'
         /\ f \in removals => f \in removals'
  BY <1>1, <1>3, <1>4, <1>5
<1>9. \A f \in Clients \ Leased : lease'[f] = lease[f]
  BY <1>1, <1>3
<1> QED BY <1>1, <1>3, <1>4, <1>5, <1>6, <1>7, <1>8, <1>9, FollowsKeeps DEF IInv, TypeOK

LEMMA RemoveKeeps ==
    ASSUME IInv, NEW c \in Clients, RemoveRelation(c)
    PROVE  Steps
<1>1. /\ removals' = removals \ {c} /\ relation' = [relation EXCEPT ![c] = NoRelation]
      /\ UNCHANGED <<connection, lastConnection, context, lease>>
  BY DEF RemoveRelation
<1>2. \A f \in Leased : Follows(lease'[f], lease[f]) /\ Frozen(lease[f].suspended)
  BY <1>1, LeaseRow, FrozenUnchanged DEF Follows, IInv, Leased
<1>3. NoRelation \in Relation /\ ~NoRelation.active
  BY DEF NoRelation, Relation
<1>4. /\ relation' \in [Clients -> Relation]
      /\ \A f \in Clients : relation'[f].active => f # c /\ relation'[f] = relation[f]
  BY <1>1, <1>3 DEF IInv, TypeOK
<1>5. ActiveIsLed'
  BY <1>1 DEF IInv, ActiveIsLed, Active
<1> QED BY <1>1, <1>2, <1>4, <1>5, FollowsKeeps DEF IInv, TypeOK

LEMMA DeadlineKeeps ==
    ASSUME IInv, NEW c \in Clients, GracePasses(c) \/ RecoveryPasses(c)
    PROVE  Steps
<1>1. /\ c \in Leased /\ UNCHANGED <<connection, lastConnection, context, relation, removals>>
      /\ \/ lease' = [lease EXCEPT ![c].grace = "passed"]
         \/ lease' = [lease EXCEPT ![c].recovery = "passed"]
  BY DEF GracePasses, RecoveryPasses
<1>2. \A f \in Leased : lease[f] \in Lease /\ f \in Clients
  BY LeaseRow DEF IInv, Leased
<1>3. /\ Follows(lease'[c], lease[c]) /\ lease'[c].phase = lease[c].phase
      /\ \A f \in Clients \ {c} : lease'[f] = lease[f]
      /\ lease' = [f \in Clients |-> lease'[f]]
  BY <1>1, <1>2 DEF IInv, TypeOK, Follows, Lease, Deadline
<1>4. \A f \in Leased : Follows(lease'[f], lease[f]) /\ lease'[f].phase = lease[f].phase
  BY <1>2, <1>3 DEF Follows
<1>5. \A f \in Leased : Frozen(lease[f].suspended)
  BY <1>1, FrozenUnchanged
<1>6. ActiveIsLed'
  BY <1>1 DEF IInv, ActiveIsLed, Active
<1>7. /\ \A f \in Clients : lease'[f].phase = lease[f].phase
      /\ \A f \in Clients \ Leased : lease'[f] = lease[f]
  BY <1>1, <1>3, <1>4
<1> QED BY <1>1, <1>3, <1>4, <1>5, <1>6, <1>7, FollowsKeeps DEF IInv, TypeOK

LEMMA RestartKeeps ==
    ASSUME IInv, Restart
    PROVE  Steps
<1>1. /\ connection' = [c \in Clients |-> 0] /\ relation' = [c \in Clients |-> NoRelation]
      /\ removals' = {} /\ UNCHANGED <<lastConnection, context>>
      /\ lease' = [f \in Clients |-> IF f \in Leased THEN Recovered(lease[f]) ELSE lease[f]]
  BY DEF Restart
<1>2. \A f \in Leased : /\ f \in Clients /\ Follows(lease'[f], lease[f])
                        /\ lease'[f].phase # "active"
  BY <1>1, LeaseRow, RecoveredFollows DEF IInv, Leased
<1>3. /\ connection' \in [Clients -> Connections] /\ relation' \in [Clients -> Relation]
      /\ \A f \in Clients : ~relation'[f].active
  BY <1>1, FollowAssumption DEF Connections, NoRelation, Relation
<1>4. \A f \in Leased : Frozen(lease[f].suspended)
  BY <1>1, FrozenUnchanged
<1>5. ActiveIsLed'
  BY <1>1 DEF IInv, ActiveIsLed, Active
<1>6. /\ lease' = [f \in Clients |-> lease'[f]] /\ \A f \in Clients \ Leased : lease'[f] = lease[f]
  BY <1>1
<1> QED BY <1>1, <1>2, <1>3, <1>4, <1>5, <1>6, FollowsKeeps DEF IInv, TypeOK

-----------------------------------------------------------------------------
(* All steps together.                                                     *)
LEMMA Initially == Init => IInv
<1> SUFFICES ASSUME Init PROVE IInv
  OBVIOUS
<1>1. PICK leader \in [Contexts -> Clients \cup {NoClient}] :
        context = [p \in Contexts |->
          [ lifecycle |-> IF leader[p] = NoClient THEN "absent" ELSE "active",
            authority |-> leader[p], reporter |-> 0, fact |-> "pending" ]]
  BY DEF Init
<1>2. 0 \in Connections /\ NoRelation \in Relation /\ ~NoRelation.active
  BY FollowAssumption DEF Connections, NoRelation, Relation
<1>3. TypeOK
  BY <1>1, <1>2 DEF Init, TypeOK, Context, FactStatus
<1>4. Leased = {}
  BY DEF Init, Leased
<1>5. OwnFrozen /\ NoFollowCircle /\ ActiveIsConnected
  <2>1. OwnFrozen
    BY <1>4 DEF OwnFrozen
  <2>2. ActiveIsConnected
    BY <1>4 DEF ActiveIsConnected
  <2>3. \A S \in SUBSET Leased : S = {}
    BY <1>4
  <2>4. NoFollowCircle
    BY <1>4, <2>3 DEF NoFollowCircle
  <2> QED BY <2>1, <2>2, <2>4
<1>6. ActiveIsLed
  BY <1>1 DEF ActiveIsLed, Active
<1>7. RelationHasLease
  BY <1>2 DEF Init, RelationHasLease
<1> QED BY <1>3, <1>5, <1>6, <1>7 DEF IInv, FollowsAreReal

(* A start begins one lease and leaves the others as they are.             *)
LEMMA StartSteps ==
    ASSUME IInv, NEW c \in Clients, NEW source \in Contexts, Start(c, source)
    PROVE  /\ IInv'
           /\ \A f \in Leased : lease'[f] = lease[f] /\ Frozen(lease[f].suspended)
<1>1. c \notin Leased
  BY DEF Start, Leasable, Leased
<1>2. \A f \in Leased : lease'[f] = lease[f]
  BY <1>1 DEF Start, IInv, TypeOK, Leased
<1> QED BY <1>2, StartKeeps, FrozenUnchanged

LEMMA Stepwise ==
    ASSUME IInv, [Next]_vars
    PROVE  /\ IInv'
           /\ \A f \in Leased :
                /\ lease'[f] # NoLease =>
                     /\ lease'[f].suspended = lease[f].suspended
                     /\ Frozen(lease[f].suspended)
                     /\ lease[f].phase = "cleanupRequired" => lease'[f].phase = "cleanupRequired"
                /\ lease'[f] = NoLease => connection[f] # 0
<1>1. CASE \E c \in Clients, source \in Contexts : Start(c, source)
  <2>1. \A f \in Leased : lease[f] # NoLease
    BY DEF Leased
  <2> QED BY <1>1, <2>1, StartSteps
<1>2. CASE Steps
  BY <1>2 DEF Steps, Carried, Leased
<1>3. ASSUME NEW c \in Clients, FollowStep(c), ~\E source \in Contexts : Start(c, source)
      PROVE  Steps
  BY <1>3, ResumeKeeps, StopKeeps, RegisterKeeps, SweepKeeps, RemoveKeeps, DeadlineKeeps
  DEF FollowStep
<1>4. ASSUME NEW p \in Contexts, ContextStep(p) PROVE Steps
  BY <1>4, FactKeeps, CloseKeeps, ReportKeeps, EnsureKeeps, HandoffKeeps DEF ContextStep
<1>5. CASE UNCHANGED vars
  <2>1. UNCHANGED <<connection, lastConnection, context, lease, relation, removals>>
    BY <1>5 DEF vars
  <2>2. Steps
    <3>1. context' \in [Contexts -> Context] /\ ActiveIsLed'
      BY <2>1 DEF IInv, TypeOK, ActiveIsLed, Active
    <3> QED BY <2>1, <3>1, FrozenUnchanged, ContextKeeps
  <2> QED BY <1>2, <2>2
<1> QED BY <1>1, <1>2, <1>3, <1>4, <1>5, RestartKeeps DEF Next

-----------------------------------------------------------------------------
LEMMA Inductive == Spec => []IInv
<1>1. IInv /\ [Next]_vars => IInv'
  BY Stepwise
<1> QED BY Initially, <1>1, PTL DEF Spec

(* follow_store.py and ws_state.py keep rows and relationships of these    *)
(* shapes.                                                                 *)
THEOREM TypeCorrect == Spec => []TypeOK
<1>1. IInv => TypeOK
  BY DEF IInv
<1> QED BY Inductive, <1>1, PTL

(* The durable rows, the relationships in memory and the connections       *)
(* agree: markFollowConnectionUnavailable and the sweep leave no active    *)
(* lease to a connection that is gone, and no relationship without one.    *)
THEOREM FollowsReal == Spec => []FollowsAreReal
<1>1. IInv => FollowsAreReal
  BY DEF IInv
<1> QED BY Inductive, <1>1, PTL

(* Whatever devices follow whom, _require_follow_profile_resources_available *)
(* lets no circle of frozen contexts close.                                *)
THEOREM NoCircle == Spec => []NoFollowCircle
<1>1. IInv => NoFollowCircle
  BY DEF IInv
<1> QED BY Inductive, <1>1, PTL

(* The barrier of the safety lease: no handler changes a follower's own    *)
(* context between start and stop.                                         *)
THEOREM StaysFrozen == Spec => FrozenWhileFollowing
<1>1. IInv /\ [Next]_vars =>
        [\A f \in Clients :
           f \in Leased /\ lease'[f] # NoLease =>
               /\ lease'[f].suspended = lease[f].suspended
               /\ Frozen(lease[f].suspended)]_vars
  BY Stepwise
<1> QED BY Inductive, <1>1, PTL DEF Spec, FrozenWhileFollowing

(* A lease that asks for cleanup stays so until its own device, connected, *)
(* stops it.                                                               *)
THEOREM EndedByFollower == Spec => EndsWithItsFollower
<1>1. IInv /\ [Next]_vars =>
        [\A f \in Leased :
           /\ lease[f].phase = "cleanupRequired" /\ lease'[f] # NoLease =>
                lease'[f].phase = "cleanupRequired"
           /\ lease'[f] = NoLease => connection[f] # 0]_vars
  BY Stepwise
<1> QED BY Inductive, <1>1, PTL DEF Spec, EndsWithItsFollower
=============================================================================
