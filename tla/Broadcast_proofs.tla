-------------------------- MODULE Broadcast_proofs --------------------------
(***************************************************************************)
(* Theorems about broadcasts.                                              *)
(*                                                                         *)
(* That the fences are exact is not inductive by itself: a device that is  *)
(* left with a terminal recovery must not belong to a broadcast that is    *)
(* still on record, and a broadcast without a record must have no members. *)
(***************************************************************************)
EXTENDS Broadcast, TLAPS

(* A live broadcast can still end.                                         *)
LiveHasRoom ==
    \A b \in Broadcasts : broadcast[b].lifecycle \in Live => broadcast[b].revision < LastRevision

(* Only a broadcast on record has members.                                 *)
RecordHasMembers ==
    \A b \in Broadcasts : broadcast[b].lifecycle \in {"absent", "compacted"} => Members(b) = {}

(* Only a compacted broadcast leaves a recovery.                           *)
RecoveryIsCompacted ==
    \A b \in Broadcasts, c \in Clients :
        recovery[c].broadcast = b => broadcast[b].lifecycle = "compacted"

IInv ==
    /\ TypeOK /\ LiveHasRoom /\ RecordHasMembers /\ RecoveryIsCompacted
    /\ FencesExact /\ StatusIsTrue

-----------------------------------------------------------------------------
(* The numbers that bound revisions and attempts.                          *)
LEMMA Bounds == /\ LastRevision \in Nat /\ 2 < LastRevision /\ MaxAttempt \in Nat /\ 1 <= MaxAttempt
                /\ Retained \in Nat /\ 1 <= Retained
BY BroadcastAssumption DEF LastRevision

(* A member's row is a whole one.                                          *)
LEMMA MemberRow ==
    ASSUME TypeOK, NEW b \in Broadcasts, NEW c \in Clients
    PROVE  /\ participant[b][c] \in Participant \cup {NoParticipant}
           /\ c \in Members(b) <=> participant[b][c] \in Participant
<1>1. participant[b][c] \in Participant \cup {NoParticipant}
  BY DEF TypeOK
<1>2. NoParticipant \notin Participant
  <2>1. NoParticipant.sync = "none"
    BY DEF NoParticipant
  <2> QED BY <2>1 DEF Participant
<1> QED BY <1>1, <1>2 DEF Members

(* A recovery or a fence stands for a broadcast, or there is none.         *)
LEMMA RecoveryRow ==
    ASSUME TypeOK, NEW c \in Clients
    PROVE  /\ recovery[c] # NoDelivery <=> recovery[c].broadcast \in Broadcasts
           /\ recovery[c] # NoDelivery <=> recovery[c] \in Delivery
<1>1. recovery[c] \in Delivery \cup {NoDelivery}
  BY DEF TypeOK
<1>2. NoDelivery.broadcast \notin Broadcasts
  BY BroadcastAssumption DEF NoDelivery
<1>3. \A d \in Delivery : d.broadcast \in Broadcasts
  BY DEF Delivery
<1> QED BY <1>1, <1>2, <1>3

LEMMA FenceRow ==
    ASSUME TypeOK, NEW c \in Clients
    PROVE  /\ fence[c] # NoFence <=> fence[c].broadcast \in Broadcasts
           /\ fence[c] # NoFence <=> fence[c] \in Fence
<1>1. fence[c] \in Fence \cup {NoFence}
  BY DEF TypeOK
<1>2. NoFence.broadcast \notin Broadcasts
  BY BroadcastAssumption DEF NoFence
<1>3. \A f \in Fence : f.broadcast \in Broadcasts
  BY DEF Fence
<1> QED BY <1>1, <1>2, <1>3

(* A fence is told by its broadcast and its phase.                         *)
LEMMA FenceCases ==
    ASSUME TypeOK, NEW c \in Clients, NEW b \in Broadcasts
    PROVE  fence[c].broadcast = b <=>
             \/ fence[c] = [broadcast |-> b, phase |-> "nonterminal"]
             \/ fence[c] = [broadcast |-> b, phase |-> "restorePending"]
<1>1. fence[c].broadcast = b => fence[c] \in Fence
  BY FenceRow
<1>2. fence[c] \in Fence => fence[c] = [broadcast |-> fence[c].broadcast, phase |-> fence[c].phase]
  BY DEF Fence
<1>3. fence[c] \in Fence => fence[c].phase \in {"nonterminal", "restorePending"}
  BY DEF Fence
<1> QED BY <1>1, <1>2, <1>3

(* Of two broadcasts, one at most is live.                                 *)
LEMMA OneLive ==
    ASSUME IInv, NEW b \in Broadcasts, NEW e \in Broadcasts,
           broadcast[b].lifecycle \in Live, broadcast[e].lifecycle \in Live
    PROVE  b = e
BY DEF IInv, FencesExact

(* A target row is whole, and does not confirm what it has not confirmed.  *)
LEMMA TargetedRow ==
    ASSUME NEW p \in Participant, NEW d \in Delivery
    PROVE  /\ Targeted(p, d) \in Participant
           /\ Targeted(p, d).target = d /\ Targeted(p, d).applied = p.applied
           /\ Targeted(p, d).restoring = p.restoring
           /\ Targeted(p, d).sync # "applied"
           /\ Targeted(p, d).sync = "lagging" => p.sync = "lagging"
<1>1. Targeted(p, d).sync = IF p.sync = "applied" THEN "open" ELSE p.sync
  BY DEF Targeted, Participant
<1>2. /\ Targeted(p, d).target = d /\ Targeted(p, d).applied = p.applied
      /\ Targeted(p, d).restoring = p.restoring
  BY DEF Targeted, Participant
<1>3. Targeted(p, d) \in Participant
  BY DEF Targeted, Participant
<1> QED BY <1>1, <1>2, <1>3

(* The first delivery of a revision.                                       *)
LEMMA OfType ==
    ASSUME NEW b \in Broadcasts, NEW r \in Revisions, NEW a \in Attempts
    PROVE  /\ Of(b, r, a) \in Delivery /\ Of(b, r, a).broadcast = b
           /\ Of(b, r, a).revision = r /\ Of(b, r, a).attempt = a
BY DEF Of, Delivery

LEMMA FirstType ==
    ASSUME NEW b \in Broadcasts, NEW r \in Revisions, NEW S \in SUBSET Clients
    PROVE  /\ FirstDeliveries(b, r, S) \subseteq [client : Clients, delivery : Delivery]
           /\ \A c \in S : Entry(c, Of(b, r, 1)) \in FirstDeliveries(b, r, S)
<1>1. 1 \in Attempts
  BY Bounds DEF Attempts
<1> QED BY <1>1, OfType DEF FirstDeliveries, Entry

-----------------------------------------------------------------------------
(* The invariant apart from what it says of connections.                   *)
RowsOK ==
    /\ broadcast \in [Broadcasts -> Record]
    /\ participant \in [Broadcasts -> [Clients -> Participant \cup {NoParticipant}]]
    /\ ledger \subseteq [client : Clients, delivery : Delivery]
    /\ fence \in [Clients -> Fence \cup {NoFence}]
    /\ sourceFence \in Broadcasts \cup {NoBroadcast}
    /\ recovery \in [Clients -> Delivery \cup {NoDelivery}]

RInv ==
    /\ RowsOK /\ LiveHasRoom /\ RecordHasMembers /\ RecoveryIsCompacted
    /\ FencesExact /\ StatusIsTrue

(* What the end, or another revision, of broadcast b makes of its rows.    *)
Advanced(b, lifecycle) ==
    /\ broadcast' = [broadcast EXCEPT ![b] = At(lifecycle, NextRevision(b))]
    /\ \A e \in Broadcasts \ {b} : participant'[e] = participant[e]
    /\ \A c \in Clients \ Members(b) : participant'[b][c] = participant[b][c]
    /\ \A c \in Members(b) :
         /\ participant'[b][c] \in Participant
         /\ participant'[b][c].target = Of(b, NextRevision(b), 1)
         /\ participant'[b][c].applied = participant[b][c].applied
         /\ participant'[b][c].sync # "applied"
    /\ participant' \in [Broadcasts -> [Clients -> Participant \cup {NoParticipant}]]
    /\ \E pruned \in {{}, Prunable(b, NextRevision(b))} :
         ledger' = (ledger \ pruned) \cup FirstDeliveries(b, NextRevision(b), Members(b))
    /\ UNCHANGED recovery

(* The next revision of a live broadcast.                                  *)
LEMMA NextType ==
    ASSUME IInv, NEW b \in Broadcasts, broadcast[b].lifecycle \in Live
    PROVE  /\ NextRevision(b) \in Revisions
           /\ broadcast[b].revision \in Nat /\ NextRevision(b) = broadcast[b].revision + 1
           /\ 1 \in Attempts
           /\ Of(b, NextRevision(b), 1) \in Delivery
           /\ Of(b, NextRevision(b), 1).broadcast = b
           /\ Of(b, NextRevision(b), 1).revision = NextRevision(b)
<1>1. broadcast[b].revision \in 0 .. LastRevision /\ broadcast[b].revision < LastRevision
  BY DEF IInv, TypeOK, Record, LiveHasRoom
<1>2. /\ NextRevision(b) \in Revisions /\ broadcast[b].revision \in Nat
      /\ NextRevision(b) = broadcast[b].revision + 1
  BY <1>1, Bounds DEF Revisions, NextRevision
<1>3. 1 \in Attempts
  BY Bounds DEF Attempts
<1> QED BY <1>2, <1>3, OfType

LEMMA AdvancedMembers ==
    ASSUME IInv, NEW b \in Broadcasts, NEW l, Advanced(b, l)
    PROVE  \A e \in Broadcasts : Members(e)' = Members(e)
<1> SUFFICES ASSUME NEW e \in Broadcasts PROVE Members(e)' = Members(e)
  OBVIOUS
<1>1. NoParticipant \notin Participant
  <2>1. NoParticipant.sync = "none"
    BY DEF NoParticipant
  <2> QED BY <2>1 DEF Participant
<1>2. \A c \in Clients : participant'[e][c] # NoParticipant <=> participant[e][c] # NoParticipant
  BY <1>1 DEF Advanced, Members
<1> QED BY <1>2 DEF Members

(* The status stays true of the next revision.                             *)
LEMMA AdvancedStatus ==
    ASSUME IInv, NEW b \in Broadcasts, broadcast[b].lifecycle \in Live, NEW l, Advanced(b, l)
    PROVE  /\ ledger' \subseteq [client : Clients, delivery : Delivery]
           /\ StatusIsTrue'
<1> DEFINE r == NextRevision(b)
<1>1. PICK pruned \in {{}, Prunable(b, r)} :
        ledger' = (ledger \ pruned) \cup FirstDeliveries(b, r, Members(b))
  BY DEF Advanced
<1>2. /\ r \in Revisions /\ Members(b) \in SUBSET Clients
      /\ broadcast[b].revision \in Nat /\ r = broadcast[b].revision + 1
      /\ Of(b, r, 1).broadcast = b /\ Of(b, r, 1).revision = r
  BY NextType DEF Members
<1>3. /\ FirstDeliveries(b, r, Members(b)) \subseteq [client : Clients, delivery : Delivery]
      /\ \A c \in Members(b) : Entry(c, Of(b, r, 1)) \in ledger'
  BY <1>1, <1>2, FirstType
<1>4. ledger' \subseteq [client : Clients, delivery : Delivery]
  BY <1>1, <1>3 DEF IInv, TypeOK
<1>5. ASSUME NEW e \in Broadcasts, NEW c \in Members(e)'
      PROVE  /\ participant'[e][c].target.broadcast = e
             /\ participant'[e][c].target.revision = broadcast'[e].revision
             /\ Entry(c, participant'[e][c].target) \in ledger'
             /\ participant'[e][c].applied <= participant'[e][c].target.revision
             /\ participant'[e][c].sync = "applied" =>
                  participant'[e][c].applied = participant'[e][c].target.revision
             /\ participant'[e][c].sync = "lagging" =>
                  participant'[e][c].applied < participant'[e][c].target.revision
  <2>1. c \in Members(e) /\ c \in Clients
    BY <1>5, AdvancedMembers DEF Members
  <2>2. CASE e = b
    <3>1. /\ participant'[b][c].target = Of(b, r, 1)
          /\ participant'[b][c].applied = participant[b][c].applied
          /\ participant'[b][c].sync # "applied"
      BY <2>1, <2>2 DEF Advanced
    <3>2. /\ participant[b][c].applied <= participant[b][c].target.revision
          /\ participant[b][c].target.revision = broadcast[b].revision
      BY <2>1, <2>2 DEF IInv, StatusIsTrue
    <3>3. participant[b][c].applied \in Nat
      BY <2>1, <2>2, MemberRow, Bounds DEF IInv, Participant
    <3>4. broadcast'[b].revision = r
      BY DEF Advanced, At, IInv, TypeOK
    <3> QED BY <1>2, <1>3, <2>1, <2>2, <3>1, <3>2, <3>3, <3>4
  <2>3. CASE e # b
    <3>1. participant'[e] = participant[e] /\ broadcast'[e] = broadcast[e]
      BY <2>3 DEF Advanced
    <3>2. Entry(c, participant[e][c].target) \in ledger /\ participant[e][c].target.broadcast = e
      BY <2>1 DEF IInv, StatusIsTrue
    <3>3. Entry(c, participant[e][c].target) \notin pruned
      BY <1>1, <2>3, <3>2 DEF Prunable, Entry
    <3> QED BY <1>1, <2>1, <3>1, <3>2, <3>3 DEF IInv, StatusIsTrue
  <2> QED BY <2>2, <2>3
<1>6. StatusIsTrue'
  BY <1>5 DEF StatusIsTrue
<1> QED BY <1>4, <1>6

(* Another revision of a live broadcast keeps the invariant.               *)
LEMMA CommitInv ==
    ASSUME IInv, NEW b \in Broadcasts, NEW l \in Live, CommitRevision(b, l)
    PROVE  RInv'
<1> DEFINE r == NextRevision(b)
<1>1. /\ broadcast[b].lifecycle \in Live /\ r < LastRevision
      /\ UNCHANGED <<fence, sourceFence, recovery>>
  BY DEF CommitRevision
<1>2. /\ r \in Revisions /\ Of(b, r, 1) \in Delivery
  BY <1>1, NextType
<1>3. \A c \in Clients : participant'[b][c] = IF c \in Members(b)
                                              THEN Targeted(participant[b][c], Of(b, r, 1))
                                              ELSE participant[b][c]
  BY DEF CommitRevision, IInv, TypeOK
<1>4. \A c \in Clients : participant'[b][c] \in Participant \cup {NoParticipant}
  BY <1>2, <1>3, MemberRow, TargetedRow DEF IInv
<1>5. \A c \in Members(b) : participant[b][c] \in Participant /\ c \in Clients
  BY MemberRow DEF IInv, Members
<1>6. Advanced(b, l)
  <2>1. /\ broadcast' = [broadcast EXCEPT ![b] = At(l, r)]
        /\ \A e \in Broadcasts \ {b} : participant'[e] = participant[e]
        /\ \E pruned \in {{}, Prunable(b, r)} :
             ledger' = (ledger \ pruned) \cup FirstDeliveries(b, r, Members(b))
        /\ UNCHANGED recovery
    BY DEF CommitRevision, IInv, TypeOK
  <2>2. \A c \in Clients \ Members(b) : participant'[b][c] = participant[b][c]
    BY <1>3
  <2>3. \A c \in Members(b) :
          /\ participant'[b][c] \in Participant
          /\ participant'[b][c].target = Of(b, r, 1)
          /\ participant'[b][c].applied = participant[b][c].applied
          /\ participant'[b][c].sync # "applied"
    BY <1>2, <1>3, <1>5, TargetedRow
  <2>4. participant' \in [Broadcasts -> [Clients -> Participant \cup {NoParticipant}]]
    BY <1>4 DEF CommitRevision, IInv, TypeOK
  <2> QED BY <2>1, <2>2, <2>3, <2>4 DEF Advanced
<1>7. \A e \in Broadcasts : Members(e)' = Members(e)
  BY <1>6, AdvancedMembers
<1>8. /\ broadcast' \in [Broadcasts -> Record]
      /\ broadcast'[b].lifecycle = l /\ broadcast'[b].revision = r
      /\ \A e \in Broadcasts \ {b} : broadcast'[e] = broadcast[e]
  BY <1>2, Bounds DEF CommitRevision, IInv, TypeOK, At, Record, Live, Revisions
<1>9. RowsOK'
  BY <1>1, <1>6, <1>8, AdvancedStatus DEF RowsOK, Advanced, IInv, TypeOK
<1>10. LiveHasRoom' /\ RecordHasMembers' /\ RecoveryIsCompacted'
  BY <1>1, <1>7, <1>8 DEF IInv, LiveHasRoom, RecordHasMembers, RecoveryIsCompacted, Live
<1>11. FencesExact'
  <2>1. \A e \in Broadcasts, c \in Clients : Mirrors(e, c)' <=> Mirrors(e, c)
    BY <1>1, <1>7, <1>8 DEF Mirrors
  <2>2. \A e \in Broadcasts, c \in Clients : Restores(e, c)' <=> Restores(e, c)
    BY <1>1, <1>6, <1>7, <1>8 DEF Restores, Owing, Advanced, Live
  <2>3. \A e \in Broadcasts : broadcast'[e].lifecycle \in Live <=> broadcast[e].lifecycle \in Live
    BY <1>1, <1>8
  <2> QED BY <1>1, <2>1, <2>2, <2>3 DEF IInv, FencesExact
<1> QED BY <1>1, <1>6, <1>9, <1>10, <1>11, AdvancedStatus DEF RInv

(* The end of a live broadcast, alone or in a restart, keeps it too.       *)
LEMMA EndInv ==
    ASSUME IInv, NEW b \in Broadcasts, broadcast[b].lifecycle \in Live,
           broadcast' = [broadcast EXCEPT ![b] = At("stopped", NextRevision(b))],
           participant' = [participant EXCEPT ![b] = [c \in Clients |->
             IF c \in Members(b) THEN Ended(b, c) ELSE @[c]]],
           ledger' = ledger \cup FirstDeliveries(b, NextRevision(b), Members(b)),
           fence' = [c \in Clients |-> TerminalFence(b, c)],
           sourceFence' = NoBroadcast,
           UNCHANGED recovery
    PROVE  RInv'
<1> DEFINE r == NextRevision(b)
<1>1. r \in Revisions /\ Of(b, r, 1) \in Delivery
  BY NextType
<1>2. \A c \in Clients : participant'[b][c] = IF c \in Members(b) THEN Ended(b, c)
                                              ELSE participant[b][c]
  BY DEF IInv, TypeOK
<1>3. \A c \in Members(b) :
        /\ c \in Clients
        /\ Ended(b, c) \in Participant /\ Ended(b, c).target = Of(b, r, 1)
        /\ Ended(b, c).applied = participant[b][c].applied
        /\ Ended(b, c).sync # "applied" /\ Ended(b, c).restoring = TRUE
  <2> TAKE c \in Members(b)
  <2>1. participant[b][c] \in Participant /\ c \in Clients
    BY MemberRow DEF IInv, Members
  <2> DEFINE p == Targeted(participant[b][c], Of(b, r, 1))
  <2>2. /\ p \in Participant /\ p.target = Of(b, r, 1)
        /\ p.applied = participant[b][c].applied /\ p.sync # "applied"
    BY <1>1, <2>1, TargetedRow
  <2>3. Ended(b, c) = [p EXCEPT !.restoring = TRUE]
    BY DEF Ended
  <2> HIDE DEF p
  <2> QED BY <2>1, <2>2, <2>3 DEF Participant
<1>4. \A c \in Clients : participant'[b][c] \in Participant \cup {NoParticipant}
  BY <1>2, <1>3, MemberRow DEF IInv
<1>5. Advanced(b, "stopped")
  <2>1. /\ \A e \in Broadcasts \ {b} : participant'[e] = participant[e]
        /\ participant' \in [Broadcasts -> [Clients -> Participant \cup {NoParticipant}]]
    BY <1>4 DEF IInv, TypeOK
  <2>2. ledger' = (ledger \ {}) \cup FirstDeliveries(b, r, Members(b))
    OBVIOUS
  <2> QED BY <1>2, <1>3, <2>1, <2>2 DEF Advanced
<1>6. \A e \in Broadcasts : Members(e)' = Members(e)
  BY <1>5, AdvancedMembers
<1>7. /\ broadcast' \in [Broadcasts -> Record]
      /\ broadcast'[b].lifecycle = "stopped" /\ broadcast'[b].revision = r
      /\ \A e \in Broadcasts \ {b} : broadcast'[e] = broadcast[e]
  BY <1>1, Bounds DEF IInv, TypeOK, At, Record, Revisions
<1>8. \A c \in Clients :
        fence'[c] = IF fence[c] = [broadcast |-> b, phase |-> "nonterminal"]
                    THEN [broadcast |-> b, phase |-> "restorePending"] ELSE fence[c]
  <2> TAKE c \in Clients
  <2>1. ~Restores(b, c)
    BY DEF Restores, IInv, RecoveryIsCompacted, Live
  <2>2. fence[c] # [broadcast |-> b, phase |-> "restorePending"]
    BY <2>1 DEF IInv, FencesExact
  <2>3. fence[c].broadcast = b <=> fence[c] = [broadcast |-> b, phase |-> "nonterminal"]
    BY <2>2, FenceCases DEF IInv
  <2> QED BY <2>3 DEF TerminalFence, Restoring
<1>9. fence' \in [Clients -> Fence \cup {NoFence}]
  <2>1. \A c \in Clients : fence'[c] \in Fence \cup {NoFence}
    BY <1>8 DEF IInv, TypeOK, Fence
  <2> QED BY <2>1
<1>10. RowsOK'
  BY <1>5, <1>7, <1>9, AdvancedStatus DEF RowsOK, Advanced, IInv, TypeOK
<1>11. LiveHasRoom' /\ RecordHasMembers' /\ RecoveryIsCompacted'
  BY <1>6, <1>7 DEF IInv, LiveHasRoom, RecordHasMembers, RecoveryIsCompacted, Live
<1>12. FencesExact'
  <2>1. \A e \in Broadcasts : broadcast'[e].lifecycle \notin Live
    BY <1>7, OneLive DEF Live
  <2>2. \A e \in Broadcasts \ {b}, c \in Clients : Restores(e, c)' <=> Restores(e, c)
    BY <1>5, <1>6, <1>7 DEF Restores, Owing, Advanced
  <2>3. \A c \in Clients : Restores(b, c)' <=> Mirrors(b, c)
    BY <1>2, <1>3, <1>6, <1>7 DEF Restores, Owing, Mirrors, IInv, RecoveryIsCompacted, Live
  <2>4. \A e \in Broadcasts \ {b}, c \in Clients : ~Mirrors(e, c)
    BY OneLive DEF Mirrors
  <2>5. ASSUME NEW e \in Broadcasts, NEW c \in Clients
        PROVE  /\ fence'[c] # [broadcast |-> e, phase |-> "nonterminal"] /\ ~Mirrors(e, c)'
               /\ fence'[c] = [broadcast |-> e, phase |-> "restorePending"] <=> Restores(e, c)'
    <3> DEFINE Mirroring(x) == [broadcast |-> x, phase |-> "nonterminal"]
               Restoration(x) == [broadcast |-> x, phase |-> "restorePending"]
    <3>1. ~Mirrors(e, c)'
      BY <2>1 DEF Mirrors
    <3>2. /\ Mirroring(b).phase # Restoration(e).phase /\ Mirroring(e) # Restoration(b)
          /\ e # b => Mirroring(e) # Mirroring(b) /\ Restoration(e) # Restoration(b)
      <4>1. \A x \in Broadcasts : /\ Mirroring(x).phase = "nonterminal"
                                  /\ Restoration(x).phase = "restorePending"
                                  /\ Mirroring(x).broadcast = x /\ Restoration(x).broadcast = x
        OBVIOUS
      <4> HIDE DEF Mirroring, Restoration
      <4> QED BY <4>1
    <3>3. /\ fence[c] = Mirroring(b) <=> Mirrors(b, c)
          /\ fence[c] = Mirroring(e) <=> Mirrors(e, c)
          /\ fence[c] = Restoration(b) <=> Restores(b, c)
          /\ fence[c] = Restoration(e) <=> Restores(e, c)
      BY DEF IInv, FencesExact
    <3>4. ~Restores(b, c)
      BY DEF Restores, IInv, RecoveryIsCompacted, Live
    <3>5. fence'[c] = IF fence[c] = Mirroring(b) THEN Restoration(b) ELSE fence[c]
      BY <1>8
    <3> HIDE DEF Mirroring, Restoration
    <3>6. /\ fence'[c] # Mirroring(e)
          /\ fence'[c] = Restoration(e) <=> Restores(e, c)'
      <4>1. CASE e = b
        BY <2>3, <3>2, <3>3, <3>4, <3>5, <4>1
      <4>2. CASE e # b
        BY <2>2, <2>4, <3>2, <3>3, <3>5, <4>2
      <4> QED BY <4>1, <4>2
    <3> QED BY <3>1, <3>6 DEF Mirroring, Restoration
  <2>6. \A e \in Broadcasts : sourceFence' # e
    BY BroadcastAssumption
  <2> QED BY <2>1, <2>5, <2>6 DEF FencesExact
<1> QED BY <1>5, <1>10, <1>11, <1>12, AdvancedStatus DEF RInv

-----------------------------------------------------------------------------
(* One device's row of a broadcast.                                        *)

(* The status of row p is true of broadcast b as it is.                    *)
RowIsTrue(b, p) ==
    /\ p.target.broadcast = b /\ p.target.revision = broadcast[b].revision
    /\ p.applied <= p.target.revision
    /\ p.sync = "applied" => p.applied = p.target.revision
    /\ p.sync = "lagging" => p.applied < p.target.revision

(* Only the fence of broadcast b is taken off device c.                    *)
LEMMA FreedFence ==
    ASSUME TypeOK, NEW b \in Broadcasts, NEW c \in Clients, fence' = Freed(c, b)
    PROVE  /\ fence' \in [Clients -> Fence \cup {NoFence}]
           /\ \A x \in Clients, e \in Broadcasts, ph \in {"nonterminal", "restorePending"} :
                fence'[x] = [broadcast |-> e, phase |-> ph] <=>
                  fence[x] = [broadcast |-> e, phase |-> ph] /\ ~(x = c /\ e = b)
<1>1. \A x \in Clients : fence'[x] = IF x = c /\ fence[x].broadcast = b THEN NoFence ELSE fence[x]
  BY DEF Freed, TypeOK
<1>2. fence' \in [Clients -> Fence \cup {NoFence}]
  BY DEF Freed, TypeOK
<1>3. ASSUME NEW x \in Clients, NEW e \in Broadcasts, NEW ph \in {"nonterminal", "restorePending"}
      PROVE  fence'[x] = [broadcast |-> e, phase |-> ph] <=>
                  fence[x] = [broadcast |-> e, phase |-> ph] /\ ~(x = c /\ e = b)
  <2> DEFINE f == [broadcast |-> e, phase |-> ph]
  <2>1. f.broadcast = e
    OBVIOUS
  <2>2. NoFence.broadcast = NoBroadcast /\ e # NoBroadcast
    BY BroadcastAssumption DEF NoFence
  <2> HIDE DEF f
  <2>3. fence'[x] = f <=> fence[x] = f /\ ~(x = c /\ e = b)
    BY <1>1, <2>1, <2>2
  <2> QED BY <2>3 DEF f
<1> QED BY <1>2, <1>3

(* The fences stay exact when a device is freed from what it owed.         *)
LEMMA FencesFollow ==
    ASSUME IInv, NEW b \in Broadcasts, NEW c \in Clients,
           UNCHANGED <<broadcast, sourceFence>>,
           \A x \in Clients, e \in Broadcasts, ph \in {"nonterminal", "restorePending"} :
             fence'[x] = [broadcast |-> e, phase |-> ph] <=>
               fence[x] = [broadcast |-> e, phase |-> ph] /\ ~(x = c /\ e = b),
           \A e \in Broadcasts, x \in Clients :
             /\ Mirrors(e, x)' <=> Mirrors(e, x) /\ ~(x = c /\ e = b)
             /\ Restores(e, x)' <=> Restores(e, x) /\ ~(x = c /\ e = b)
    PROVE  FencesExact'
<1>1. ASSUME NEW x \in Clients, NEW e \in Broadcasts
      PROVE  /\ fence'[x] = [broadcast |-> e, phase |-> "nonterminal"] <=> Mirrors(e, x)'
             /\ fence'[x] = [broadcast |-> e, phase |-> "restorePending"] <=> Restores(e, x)'
  <2>1. /\ fence[x] = [broadcast |-> e, phase |-> "nonterminal"] <=> Mirrors(e, x)
        /\ fence[x] = [broadcast |-> e, phase |-> "restorePending"] <=> Restores(e, x)
    BY DEF IInv, FencesExact
  <2>2. \A ph \in {"nonterminal", "restorePending"} :
          fence'[x] = [broadcast |-> e, phase |-> ph] <=>
            fence[x] = [broadcast |-> e, phase |-> ph] /\ ~(x = c /\ e = b)
    OBVIOUS
  <2> QED BY <2>1, <2>2
<1>2. \A e \in Broadcasts : sourceFence' = e <=> broadcast'[e].lifecycle \in Live
  BY DEF IInv, FencesExact
<1> QED BY <1>1, <1>2 DEF FencesExact

(* A row that changes and stays true keeps the invariant, when the device  *)
(* owes what it owed or has just restored.                                 *)
LEMMA RowInv ==
    ASSUME IInv, NEW b \in Broadcasts, NEW c \in Members(b), NEW p \in Participant,
           RowIsTrue(b, p),
           participant' = [participant EXCEPT ![b][c] = p],
           ledger' \subseteq [client : Clients, delivery : Delivery],
           Entry(c, p.target) \in ledger',
           \A x \in ledger : x # Entry(c, participant[b][c].target) => x \in ledger',
           UNCHANGED <<broadcast, sourceFence, recovery>>,
           \/ p.restoring = participant[b][c].restoring /\ UNCHANGED fence
           \/ /\ broadcast[b].lifecycle = "stopped" /\ p.restoring = FALSE
              /\ fence' = Freed(c, b)
    PROVE  RInv'
<1>1. c \in Clients /\ participant[b][c] \in Participant /\ p # NoParticipant
  <2>1. NoParticipant.sync = "none"
    BY DEF NoParticipant
  <2> QED BY <2>1, MemberRow DEF IInv, Members, Participant
<1>2. \A e \in Broadcasts, x \in Clients :
        participant'[e][x] = IF e = b /\ x = c THEN p ELSE participant[e][x]
  BY <1>1 DEF IInv, TypeOK
<1>3. \A e \in Broadcasts : Members(e)' = Members(e)
  BY <1>1, <1>2, MemberRow DEF IInv, Members
<1>4. \A e \in Broadcasts, x \in Clients : Mirrors(e, x)' <=> Mirrors(e, x)
  BY <1>3 DEF Mirrors
<1>5. \A e \in Broadcasts, x \in Clients : ~(e = b /\ x = c) => (Restores(e, x)' <=> Restores(e, x))
  BY <1>2, <1>3 DEF Restores, Owing
<1>6. fence' \in [Clients -> Fence \cup {NoFence}] /\ FencesExact'
  <2>1. CASE p.restoring = participant[b][c].restoring /\ UNCHANGED fence
    <3>1. Restores(b, c)' <=> Restores(b, c)
      BY <1>1, <1>2, <1>3, <2>1 DEF Restores, Owing
    <3> QED BY <1>4, <1>5, <2>1, <3>1 DEF IInv, TypeOK, FencesExact
  <2>2. CASE /\ broadcast[b].lifecycle = "stopped" /\ p.restoring = FALSE
             /\ fence' = Freed(c, b)
    <3>0. /\ fence' \in [Clients -> Fence \cup {NoFence}]
          /\ \A x \in Clients, e \in Broadcasts, ph \in {"nonterminal", "restorePending"} :
               fence'[x] = [broadcast |-> e, phase |-> ph] <=>
                 fence[x] = [broadcast |-> e, phase |-> ph] /\ ~(x = c /\ e = b)
      <4>1. TypeOK /\ fence' = Freed(c, b) /\ c \in Clients
        BY <1>1, <2>2 DEF IInv
      <4> QED BY <4>1, FreedFence
    <3>1. ~Restores(b, c)' /\ ~Mirrors(b, c)
      BY <1>1, <1>2, <2>2 DEF Restores, Owing, Mirrors, IInv, RecoveryIsCompacted, Live
    <3>2. \A e \in Broadcasts : sourceFence' = e <=> broadcast'[e].lifecycle \in Live
      BY DEF IInv, FencesExact
    <3>3. ASSUME NEW x \in Clients, NEW e \in Broadcasts
          PROVE  /\ fence'[x] = [broadcast |-> e, phase |-> "nonterminal"] <=> Mirrors(e, x)'
                 /\ fence'[x] = [broadcast |-> e, phase |-> "restorePending"] <=> Restores(e, x)'
      <4>1. /\ fence[x] = [broadcast |-> e, phase |-> "nonterminal"] <=> Mirrors(e, x)
            /\ fence[x] = [broadcast |-> e, phase |-> "restorePending"] <=> Restores(e, x)
        BY DEF IInv, FencesExact
      <4>2. \A ph \in {"nonterminal", "restorePending"} :
              fence'[x] = [broadcast |-> e, phase |-> ph] <=>
                fence[x] = [broadcast |-> e, phase |-> ph] /\ ~(x = c /\ e = b)
        BY <3>0
      <4> QED BY <1>4, <1>5, <3>1, <4>1, <4>2
    <3> QED BY <3>0, <3>2, <3>3 DEF FencesExact
  <2> QED BY <2>1, <2>2
<1>7. StatusIsTrue'
  <2>1. ASSUME NEW e \in Broadcasts, NEW x \in Members(e)'
        PROVE  RowIsTrue(e, participant[e][x])' /\ Entry(x, participant'[e][x].target) \in ledger'
    <3>1. x \in Members(e) /\ x \in Clients
      BY <1>3, <2>1 DEF Members
    <3>2. CASE e = b /\ x = c
      BY <1>2, <3>1, <3>2 DEF RowIsTrue
    <3>3. CASE ~(e = b /\ x = c)
      <4>1. participant'[e][x] = participant[e][x]
        BY <1>2, <3>1, <3>3
      <4>2. /\ RowIsTrue(e, participant[e][x])
            /\ Entry(x, participant[e][x].target) \in ledger
        BY <3>1 DEF IInv, StatusIsTrue, RowIsTrue
      <4>3. Entry(x, participant[e][x].target) # Entry(c, participant[b][c].target)
        <5>1. participant[b][c].target.broadcast = b /\ participant[e][x].target.broadcast = e
          BY <3>1 DEF IInv, StatusIsTrue
        <5>2. ASSUME Entry(x, participant[e][x].target) = Entry(c, participant[b][c].target)
              PROVE  x = c /\ participant[e][x].target = participant[b][c].target
          BY <5>2 DEF Entry
        <5> QED BY <3>3, <5>1, <5>2
      <4> QED BY <4>1, <4>2, <4>3 DEF RowIsTrue
    <3> QED BY <3>2, <3>3
  <2> QED BY <2>1 DEF StatusIsTrue, RowIsTrue
<1>8. RowsOK'
  <2>1. participant' \in [Broadcasts -> [Clients -> Participant \cup {NoParticipant}]]
    BY <1>1 DEF IInv, TypeOK
  <2> QED BY <1>6, <2>1 DEF IInv, TypeOK, RowsOK
<1>9. LiveHasRoom' /\ RecordHasMembers' /\ RecoveryIsCompacted'
  BY <1>3 DEF IInv, LiveHasRoom, RecordHasMembers, RecoveryIsCompacted
<1> QED BY <1>6, <1>7, <1>8, <1>9 DEF RInv

(* Another delivery takes the place of the current one.                    *)
LEMMA ReplacedInv ==
    ASSUME IInv, NEW b \in Broadcasts, NEW c \in Members(b), broadcast[b].revision \in Revisions,
           Replaced(b, c, Replacement(b, c)),
           UNCHANGED <<broadcast, sourceFence, recovery, fence>>
    PROVE  RInv'
<1> DEFINE d == Replacement(b, c)
           q == participant[b][c]
           p == [q EXCEPT !.target = d, !.sync = "open"]
<1>1. c \in Clients /\ q \in Participant
  BY MemberRow DEF IInv, Members
<1>2. d = Of(b, broadcast[b].revision, q.target.attempt + 1) /\ d.attempt \in Attempts
  BY DEF Replaced, Replacement
<1>3. d \in Delivery /\ d.broadcast = b /\ d.revision = broadcast[b].revision
  BY <1>2 DEF Of, Delivery
<1>4. /\ q.target.revision = broadcast[b].revision /\ q.applied <= q.target.revision
  BY DEF IInv, StatusIsTrue
<1> HIDE DEF d
<1>5. /\ p \in Participant /\ p.target = d /\ p.sync = "open"
      /\ p.applied = q.applied /\ p.restoring = q.restoring
  BY <1>1, <1>3 DEF Participant
<1>6. participant' = [participant EXCEPT ![b][c] = p]
  BY <1>1 DEF d, Replaced, IInv, TypeOK
<1>7. ledger' = (ledger \ {Entry(c, q.target)}) \cup {Entry(c, d)}
  BY DEF d, Replaced
<1>8. ledger' \subseteq [client : Clients, delivery : Delivery]
  BY <1>1, <1>3, <1>7 DEF IInv, TypeOK, Entry
<1> HIDE DEF p
<1>9. RowIsTrue(b, p)
  BY <1>3, <1>4, <1>5 DEF RowIsTrue
<1> HIDE DEF q
<1> QED BY <1>5, <1>6, <1>7, <1>8, <1>9, RowInv DEF q

(* A device that applied a revision counts as applied if it is the target. *)
LEMMA SettledRow ==
    ASSUME IInv, NEW d \in Delivery, NEW c \in Members(d.broadcast),
           d.revision <= broadcast[d.broadcast].revision,
           d.revision >= participant[d.broadcast][c].applied
    PROVE  /\ Settled(participant[d.broadcast][c], d) \in Participant
           /\ Settled(participant[d.broadcast][c], d).target = participant[d.broadcast][c].target
           /\ RowIsTrue(d.broadcast, Settled(participant[d.broadcast][c], d))
           /\ Settled(participant[d.broadcast][c], d).restoring =
                (participant[d.broadcast][c].restoring /\ ~IsTerminal(d))
<1> DEFINE b == d.broadcast
           q == participant[b][c]
<1>1. b \in Broadcasts /\ d.revision \in Revisions
  BY DEF Delivery
<1>2. c \in Clients /\ q \in Participant
  BY <1>1, MemberRow DEF IInv, Members
<1>3. q.target.broadcast = b /\ q.target.revision = broadcast[b].revision
  BY <1>1 DEF IInv, StatusIsTrue
<1>4. d.revision \in 0 .. LastRevision /\ q.target.revision \in Nat
  BY <1>1, <1>2, Bounds DEF Revisions, Participant, Delivery
<1>5. IsTerminal(d) \in BOOLEAN
  BY DEF IsTerminal
<1> HIDE DEF q
<1>6. /\ Settled(q, d) \in Participant /\ Settled(q, d).target = q.target
      /\ Settled(q, d).applied = d.revision
      /\ Settled(q, d).sync = IF d.revision = q.target.revision THEN "applied" ELSE "lagging"
      /\ Settled(q, d).restoring = (q.restoring /\ ~IsTerminal(d))
  BY <1>2, <1>4, <1>5 DEF Settled, Participant
<1>7. RowIsTrue(b, Settled(q, d))
  BY <1>3, <1>4, <1>6 DEF RowIsTrue
<1> QED BY <1>6, <1>7 DEF q

-----------------------------------------------------------------------------
(* The actions that touch rows.                                            *)

(* What is known of a broadcast with a full record.                        *)
LEMMA FullRow ==
    ASSUME IInv, NEW b \in Broadcasts, NEW c \in Members(b)
    PROVE  /\ c \in Clients /\ participant[b][c] \in Participant
           /\ RowIsTrue(b, participant[b][c])
           /\ broadcast[b].revision \in Revisions
           /\ Entry(c, participant[b][c].target) \in ledger
<1>1. c \in Clients /\ participant[b][c] \in Participant
  BY MemberRow DEF IInv, Members
<1>2. RowIsTrue(b, participant[b][c]) /\ Entry(c, participant[b][c].target) \in ledger
  BY DEF IInv, StatusIsTrue, RowIsTrue
<1>3. participant[b][c].target.revision \in Revisions
  BY <1>1 DEF Participant, Delivery
<1> QED BY <1>1, <1>2, <1>3 DEF RowIsTrue

LEMMA AppliedInv ==
    ASSUME IInv, NEW c \in Clients, NEW d \in Delivery, Applied(c, d)
    PROVE  RInv'
<1> DEFINE b == d.broadcast
           p == Settled(participant[b][c], d)
<1>1. b \in Broadcasts /\ c \in Members(b) /\ d.revision <= broadcast[b].revision
  BY DEF Delivery, Applied, Answers
<1>2. /\ p \in Participant /\ p.target = participant[b][c].target /\ RowIsTrue(b, p)
      /\ p.restoring = (participant[b][c].restoring /\ ~IsTerminal(d))
  BY <1>1, SettledRow DEF Applied
<1>3. participant' = [participant EXCEPT ![b][c] = p]
  BY <1>1 DEF Applied, IInv, TypeOK
<1>4. /\ ledger' \subseteq [client : Clients, delivery : Delivery]
      /\ Entry(c, participant[b][c].target) \in ledger' /\ ledger' = ledger
  BY <1>1, FullRow DEF Applied, IInv, TypeOK
<1>5. participant[b][c].restoring \in BOOLEAN
  BY <1>1, FullRow DEF Participant
<1>6. \/ p.restoring = participant[b][c].restoring /\ UNCHANGED fence
      \/ /\ broadcast[b].lifecycle = "stopped" /\ p.restoring = FALSE
         /\ fence' = Freed(c, b)
  <2>1. CASE IsTerminal(d)
    BY <1>2, <2>1 DEF Applied, IsTerminal
  <2>2. CASE ~IsTerminal(d)
    BY <1>2, <1>5, <2>2 DEF Applied
  <2> QED BY <2>1, <2>2
<1>7. UNCHANGED <<broadcast, sourceFence, recovery>>
  BY DEF Applied
<1> HIDE DEF p, b
<1> QED BY <1>1, <1>2, <1>3, <1>4, <1>6, <1>7, RowInv

(* A row that is reopened.                                                 *)
LEMMA ReopenedInv ==
    ASSUME IInv, NEW b \in Broadcasts, NEW c \in Members(b),
           participant' = [participant EXCEPT ![b][c].sync = "open"],
           UNCHANGED <<broadcast, ledger, fence, sourceFence, recovery>>
    PROVE  RInv'
<1> DEFINE q == participant[b][c]
           p == [q EXCEPT !.sync = "open"]
<1>1. /\ c \in Clients /\ q \in Participant /\ RowIsTrue(b, q)
      /\ Entry(c, q.target) \in ledger
  BY FullRow
<1> HIDE DEF q
<1>2. /\ p \in Participant /\ p.target = q.target /\ p.sync = "open"
      /\ p.applied = q.applied /\ p.restoring = q.restoring
  BY <1>1 DEF Participant
<1>3. participant' = [participant EXCEPT ![b][c] = p]
  BY DEF q
<1> HIDE DEF p
<1>4. RowIsTrue(b, p)
  BY <1>1, <1>2 DEF RowIsTrue
<1> QED BY <1>1, <1>2, <1>3, <1>4, RowInv DEF q, IInv, TypeOK

LEMMA StartInv ==
    ASSUME IInv, NEW b \in Broadcasts, Start(b)
    PROVE  RInv'
<1>1. PICK chosen \in SUBSET {c \in Clients : Available(c)} :
        /\ broadcast' = [broadcast EXCEPT ![b] = At("active", 1)]
        /\ participant' = [participant EXCEPT ![b] = [c \in Clients |->
             IF c \in chosen THEN NewParticipant(b) ELSE NoParticipant]]
        /\ fence' = [c \in Clients |->
             IF c \in chosen THEN [broadcast |-> b, phase |-> "nonterminal"] ELSE fence[c]]
        /\ sourceFence' = b
        /\ ledger' = ledger \cup FirstDeliveries(b, 1, chosen)
  BY DEF Start, SourceReady, Choices
<1>2. 1 \in Revisions /\ 1 \in Attempts
  BY Bounds DEF Revisions, Attempts
<1>3. /\ Of(b, 1, 1) \in Delivery /\ Of(b, 1, 1).broadcast = b /\ Of(b, 1, 1).revision = 1
  BY <1>2, OfType
<1>4. /\ NewParticipant(b) \in Participant /\ NewParticipant(b).target = Of(b, 1, 1)
      /\ NewParticipant(b).sync = "open" /\ NewParticipant(b).applied = 0
      /\ NewParticipant(b) # NoParticipant
  <2>1. NoParticipant.sync = "none"
    BY DEF NoParticipant
  <2>2. NewParticipant(b).sync = "open"
    BY DEF NewParticipant
  <2>3. NewParticipant(b) \in Participant
    BY <1>3, Bounds DEF NewParticipant, Participant
  <2> QED BY <2>1, <2>2, <2>3 DEF NewParticipant
<1>5. chosen \subseteq Clients /\ \A c \in chosen : fence[c] = NoFence
  BY DEF Available
<1>6. /\ broadcast[b].lifecycle = "absent" /\ UNCHANGED recovery
      /\ \A e \in Broadcasts : broadcast[e].lifecycle \notin Live
  BY BroadcastAssumption DEF Start, SourceReady, Choices, IInv, FencesExact
<1>7. /\ broadcast' \in [Broadcasts -> Record]
      /\ broadcast'[b].lifecycle = "active" /\ broadcast'[b].revision = 1
      /\ \A e \in Broadcasts \ {b} : broadcast'[e] = broadcast[e]
  BY <1>1, <1>2, Bounds DEF IInv, TypeOK, At, Record
<1>8. /\ participant' \in [Broadcasts -> [Clients -> Participant \cup {NoParticipant}]]
      /\ \A c \in Clients : participant'[b][c] = IF c \in chosen THEN NewParticipant(b)
                                                 ELSE NoParticipant
      /\ \A e \in Broadcasts \ {b} : participant'[e] = participant[e]
  BY <1>1, <1>4 DEF IInv, TypeOK
<1>9. Members(b)' = chosen /\ \A e \in Broadcasts \ {b} : Members(e)' = Members(e)
  BY <1>4, <1>5, <1>8 DEF Members
<1>10. /\ fence' \in [Clients -> Fence \cup {NoFence}]
       /\ \A c \in Clients : fence'[c] = IF c \in chosen
                                         THEN [broadcast |-> b, phase |-> "nonterminal"]
                                         ELSE fence[c]
  <2>1. [broadcast |-> b, phase |-> "nonterminal"] \in Fence
    BY DEF Fence
  <2> QED BY <1>1, <2>1 DEF IInv, TypeOK
<1>11. /\ ledger' \subseteq [client : Clients, delivery : Delivery]
       /\ \A c \in chosen : Entry(c, Of(b, 1, 1)) \in ledger'
  BY <1>1, <1>2, <1>5, FirstType DEF IInv, TypeOK
<1>12. RowsOK'
  BY <1>1, <1>6, <1>7, <1>8, <1>10, <1>11 DEF RowsOK, IInv, TypeOK
<1>13. LiveHasRoom' /\ RecordHasMembers' /\ RecoveryIsCompacted'
  BY <1>6, <1>7, <1>9, Bounds DEF IInv, LiveHasRoom, RecordHasMembers, RecoveryIsCompacted
<1>14. StatusIsTrue'
  <2>1. ASSUME NEW e \in Broadcasts, NEW c \in Members(e)'
        PROVE  RowIsTrue(e, participant[e][c])' /\ Entry(c, participant'[e][c].target) \in ledger'
    <3>1. CASE e = b
      BY <1>3, <1>4, <1>5, <1>7, <1>8, <1>9, <1>11, <2>1, <3>1 DEF RowIsTrue
    <3>2. CASE e # b
      BY <1>1, <1>7, <1>8, <1>9, <2>1, <3>2 DEF RowIsTrue, IInv, StatusIsTrue
    <3> QED BY <3>1, <3>2
  <2> QED BY <2>1 DEF StatusIsTrue, RowIsTrue
<1>15. FencesExact'
  <2>1. \A e \in Broadcasts, c \in Clients : ~Mirrors(e, c)
    BY <1>6 DEF Mirrors
  <2>2. \A e \in Broadcasts, c \in Clients : Mirrors(e, c)' <=> e = b /\ c \in chosen
    BY <1>6, <1>7, <1>9 DEF Mirrors, Live
  <2>3. \A e \in Broadcasts, c \in Clients : Restores(e, c)' <=> Restores(e, c)
    <3>1. \A c \in Clients : ~Restores(b, c) /\ ~Restores(b, c)'
      BY <1>6, <1>7 DEF Restores, IInv, RecoveryIsCompacted
    <3>2. \A e \in Broadcasts \ {b}, c \in Clients : Restores(e, c)' <=> Restores(e, c)
      BY <1>6, <1>7, <1>8, <1>9 DEF Restores, Owing
    <3> QED BY <3>1, <3>2
  <2>4. ASSUME NEW e \in Broadcasts, NEW c \in Clients
        PROVE  /\ fence'[c] = [broadcast |-> e, phase |-> "nonterminal"] <=> Mirrors(e, c)'
               /\ fence'[c] = [broadcast |-> e, phase |-> "restorePending"] <=> Restores(e, c)'
    <3> DEFINE Mirroring(x) == [broadcast |-> x, phase |-> "nonterminal"]
               Restoration(x) == [broadcast |-> x, phase |-> "restorePending"]
    <3>1. /\ Restoration(e) # Mirroring(b) /\ (Mirroring(e) = Mirroring(b) => e = b)
          /\ Restoration(e) # NoFence /\ Mirroring(e) # NoFence
      <4>1. /\ Mirroring(b).phase = "nonterminal" /\ Mirroring(b).broadcast = b
            /\ Mirroring(e).broadcast = e
            /\ Restoration(e).phase = "restorePending" /\ Restoration(e).broadcast = e
        OBVIOUS
      <4>2. NoFence.broadcast # e
        BY BroadcastAssumption DEF NoFence
      <4> HIDE DEF Mirroring, Restoration
      <4> QED BY <4>1, <4>2
    <3>2. /\ fence[c] # Mirroring(e)
          /\ fence[c] = Restoration(e) <=> Restores(e, c)
      BY <2>1 DEF IInv, FencesExact
    <3>3. fence'[c] = IF c \in chosen THEN Mirroring(b) ELSE fence[c]
      BY <1>10
    <3> HIDE DEF Mirroring, Restoration
    <3>4. /\ fence'[c] = Mirroring(e) <=> e = b /\ c \in chosen
          /\ fence'[c] = Restoration(e) <=> Restores(e, c)
      BY <1>5, <3>1, <3>2, <3>3
    <3> QED BY <2>2, <2>3, <3>4 DEF Mirroring, Restoration
  <2>5. \A e \in Broadcasts : sourceFence' = e <=> broadcast'[e].lifecycle \in Live
    BY <1>1, <1>6, <1>7 DEF Live
  <2> QED BY <2>4, <2>5 DEF FencesExact
<1> QED BY <1>12, <1>13, <1>14, <1>15 DEF RInv

(* A compacted broadcast's terminal delivery is made once more.            *)
LEMMA AgainInv ==
    ASSUME IInv, NEW c \in Clients, recovery[c] # NoDelivery,
           Again(recovery[c]).attempt \in Attempts,
           recovery' = [recovery EXCEPT ![c] = Again(@)],
           UNCHANGED <<broadcast, participant, ledger, fence, sourceFence>>
    PROVE  RInv'
<1>1. recovery[c] \in Delivery
  BY RecoveryRow DEF IInv
<1>2. Again(recovery[c]) \in Delivery /\ Again(recovery[c]).broadcast = recovery[c].broadcast
  BY <1>1 DEF Again, Delivery
<1>3. \A x \in Clients : recovery'[x].broadcast = recovery[x].broadcast
  BY <1>2 DEF IInv, TypeOK
<1>4. recovery' \in [Clients -> Delivery \cup {NoDelivery}]
  BY <1>2 DEF IInv, TypeOK
<1>5. \A e \in Broadcasts, x \in Clients :
        /\ Mirrors(e, x)' <=> Mirrors(e, x)
        /\ Restores(e, x)' <=> Restores(e, x)
  BY <1>3 DEF Mirrors, Restores, Owing, Members
<1>6. FencesExact'
  BY <1>5 DEF IInv, FencesExact
<1>7. RowsOK'
  BY <1>4 DEF RowsOK, IInv, TypeOK
<1>8. LiveHasRoom' /\ RecordHasMembers' /\ RecoveryIsCompacted' /\ StatusIsTrue'
  BY <1>3 DEF IInv, LiveHasRoom, RecordHasMembers, RecoveryIsCompacted, StatusIsTrue, Members
<1> QED BY <1>6, <1>7, <1>8 DEF RInv

(* A device restored after a compacted broadcast.                          *)
LEMMA AppliedCompactInv ==
    ASSUME IInv, NEW c \in Clients, NEW d \in Delivery, AppliedCompact(c, d)
    PROVE  RInv'
<1> DEFINE b == d.broadcast
<1>1. /\ b \in Broadcasts /\ recovery[c].broadcast = b
      /\ fence' = Freed(c, b) /\ recovery' = [recovery EXCEPT ![c] = NoDelivery]
      /\ UNCHANGED <<broadcast, participant, ledger, sourceFence>>
  BY DEF AppliedCompact, AnswersCompact, Delivery
<1> HIDE DEF b
<1>2. broadcast[b].lifecycle = "compacted"
  BY <1>1 DEF IInv, RecoveryIsCompacted
<1>3. /\ recovery' \in [Clients -> Delivery \cup {NoDelivery}]
      /\ \A x \in Clients : recovery'[x] = IF x = c THEN NoDelivery ELSE recovery[x]
  BY <1>1 DEF IInv, TypeOK
<1>4. \A e \in Broadcasts : NoDelivery.broadcast # e
  BY BroadcastAssumption DEF NoDelivery
<1>5. /\ fence' \in [Clients -> Fence \cup {NoFence}]
      /\ \A x \in Clients, e \in Broadcasts, ph \in {"nonterminal", "restorePending"} :
           fence'[x] = [broadcast |-> e, phase |-> ph] <=>
             fence[x] = [broadcast |-> e, phase |-> ph] /\ ~(x = c /\ e = b)
  <2>1. TypeOK
    BY DEF IInv
  <2> QED BY <1>1, <2>1, FreedFence
<1>6. ASSUME NEW e \in Broadcasts, NEW x \in Clients
      PROVE  /\ Mirrors(e, x)' <=> Mirrors(e, x) /\ ~(x = c /\ e = b)
             /\ Restores(e, x)' <=> Restores(e, x) /\ ~(x = c /\ e = b)
  <2>1. Mirrors(e, x)' <=> Mirrors(e, x) /\ ~(x = c /\ e = b)
    BY <1>1, <1>2 DEF Mirrors, Members, Live
  <2>2. Restores(e, x)' <=> Restores(e, x) /\ ~(x = c /\ e = b)
    BY <1>1, <1>2, <1>3, <1>4 DEF Restores, Owing, Members
  <2> QED BY <2>1, <2>2
<1>7. FencesExact'
  BY <1>1, <1>5, <1>6, FencesFollow
<1>8. RowsOK'
  BY <1>1, <1>3, <1>5 DEF RowsOK, IInv, TypeOK
<1>9. LiveHasRoom' /\ RecordHasMembers' /\ RecoveryIsCompacted' /\ StatusIsTrue'
  BY <1>1, <1>3, <1>4
  DEF IInv, LiveHasRoom, RecordHasMembers, RecoveryIsCompacted, StatusIsTrue, Members
<1> QED BY <1>7, <1>8, <1>9 DEF RInv

LEMMA CompactInv ==
    ASSUME IInv, NEW b \in Broadcasts, Compact(b)
    PROVE  RInv'
<1>1. /\ broadcast[b].lifecycle = "stopped"
      /\ \A c \in Owing(b) : recovery[c] = NoDelivery
      /\ recovery' = Kept(b)
      /\ ledger' = {e \in ledger : e.delivery.broadcast # b}
      /\ UNCHANGED <<fence, sourceFence>>
  BY DEF Compact
<1>2. /\ broadcast' \in [Broadcasts -> Record]
      /\ broadcast'[b].lifecycle = "compacted"
      /\ \A e \in Broadcasts \ {b} : broadcast'[e] = broadcast[e]
  BY DEF Compact, IInv, TypeOK, Record
<1>3. /\ participant' \in [Broadcasts -> [Clients -> Participant \cup {NoParticipant}]]
      /\ \A c \in Clients : participant'[b][c] = NoParticipant
      /\ \A e \in Broadcasts \ {b} : participant'[e] = participant[e]
  BY DEF Compact, IInv, TypeOK
<1>4. Members(b)' = {} /\ \A e \in Broadcasts \ {b} : Members(e)' = Members(e)
  BY <1>3 DEF Members
<1>5. \A c \in Owing(b) : /\ c \in Members(b) /\ participant[b][c].target \in Delivery
                          /\ participant[b][c].target.broadcast = b
  BY FullRow DEF Owing, RowIsTrue, Participant
<1>6. \A c \in Clients : recovery'[c] = IF c \in Owing(b) THEN participant[b][c].target
                                        ELSE recovery[c]
  BY <1>1 DEF Kept
<1>7. recovery' \in [Clients -> Delivery \cup {NoDelivery}]
  BY <1>1, <1>5 DEF Kept, IInv, TypeOK
<1>8. \A e \in Broadcasts : NoDelivery.broadcast # e
  BY BroadcastAssumption DEF NoDelivery
<1>9. \A c \in Clients : recovery[c].broadcast # b
  BY <1>1 DEF IInv, RecoveryIsCompacted
<1>10. RowsOK'
  BY <1>1, <1>2, <1>3, <1>7 DEF RowsOK, IInv, TypeOK
<1>11. LiveHasRoom' /\ RecordHasMembers' /\ RecoveryIsCompacted'
  <2>1. LiveHasRoom' /\ RecordHasMembers'
    BY <1>2, <1>4 DEF IInv, LiveHasRoom, RecordHasMembers, Live
  <2>2. RecoveryIsCompacted'
    BY <1>2, <1>5, <1>6, <1>9 DEF IInv, RecoveryIsCompacted
  <2> QED BY <2>1, <2>2
<1>12. StatusIsTrue'
  <2>1. ASSUME NEW e \in Broadcasts, NEW c \in Members(e)'
        PROVE  RowIsTrue(e, participant[e][c])' /\ Entry(c, participant'[e][c].target) \in ledger'
    <3>1. e # b /\ c \in Members(e)
      BY <1>4, <2>1
    <3>2. Entry(c, participant[e][c].target).delivery.broadcast = e
      BY <3>1, FullRow DEF Entry, RowIsTrue
    <3> QED BY <1>1, <1>2, <1>3, <3>1, <3>2, FullRow DEF RowIsTrue
  <2> QED BY <2>1 DEF StatusIsTrue, RowIsTrue
<1>13. FencesExact'
  <2>1. \A e \in Broadcasts : broadcast'[e].lifecycle \in Live <=> broadcast[e].lifecycle \in Live
    BY <1>1, <1>2 DEF Live
  <2>2. \A e \in Broadcasts, c \in Clients : Mirrors(e, c)' <=> Mirrors(e, c)
    BY <1>1, <1>4, <2>1 DEF Mirrors, Live
  <2>3. \A c \in Clients : Restores(b, c)' <=> Restores(b, c)
    <3> SUFFICES ASSUME NEW c \in Clients PROVE Restores(b, c)' <=> Restores(b, c)
      OBVIOUS
    <3>1. Restores(b, c) <=> c \in Owing(b)
      BY <1>1, <1>9 DEF Restores
    <3>2. Restores(b, c)' <=> recovery'[c].broadcast = b
      BY <1>2 DEF Restores
    <3> QED BY <1>5, <1>6, <1>9, <3>1, <3>2
  <2>4. ASSUME NEW e \in Broadcasts \ {b}, NEW c \in Clients
        PROVE  Restores(e, c)' <=> Restores(e, c)
    <3>1. recovery'[c].broadcast = e <=> recovery[c].broadcast = e
      BY <1>1, <1>5, <1>6, <1>8
    <3> QED BY <1>2, <1>3, <1>4, <3>1 DEF Restores, Owing
  <2> QED BY <1>1, <2>1, <2>2, <2>3, <2>4 DEF IInv, FencesExact
<1> QED BY <1>10, <1>11, <1>12, <1>13 DEF RInv

LEMMA AbandonInv ==
    ASSUME IInv, NEW b \in Broadcasts, NEW c \in Clients, Abandon(b, c)
    PROVE  RInv'
<1>1. /\ fence[c] = [broadcast |-> b, phase |-> "restorePending"]
      /\ ledger' = {e \in ledger : e.client # c \/ e.delivery.broadcast # b}
      /\ fence' = Freed(c, b)
      /\ UNCHANGED <<broadcast, sourceFence>>
  BY DEF Abandon, Abandonable, RestorePending
<1>2. /\ participant' \in [Broadcasts -> [Clients -> Participant \cup {NoParticipant}]]
      /\ \A e \in Broadcasts, x \in Clients :
           participant'[e][x] = IF e = b /\ x = c THEN NoParticipant ELSE participant[e][x]
  BY DEF Abandon, Abandonable, RestorePending, IInv, TypeOK
<1>3. /\ recovery' \in [Clients -> Delivery \cup {NoDelivery}]
      /\ \A x \in Clients : recovery'[x] = IF x = c THEN NoDelivery ELSE recovery[x]
  BY DEF Abandon, Abandonable, RestorePending, IInv, TypeOK
<1>4. \A e \in Broadcasts : NoDelivery.broadcast # e
  BY BroadcastAssumption DEF NoDelivery
<1>5. \A e \in Broadcasts, x \in Clients :
        x \in Members(e)' <=> x \in Members(e) /\ ~(e = b /\ x = c)
  BY <1>2 DEF Members
<1>6. /\ fence' \in [Clients -> Fence \cup {NoFence}]
      /\ \A x \in Clients, e \in Broadcasts, ph \in {"nonterminal", "restorePending"} :
           fence'[x] = [broadcast |-> e, phase |-> ph] <=>
             fence[x] = [broadcast |-> e, phase |-> ph] /\ ~(x = c /\ e = b)
  <2>1. TypeOK
    BY DEF IInv
  <2> QED BY <1>1, <2>1, FreedFence
<1>7. Restores(b, c) /\ ~Mirrors(b, c)
  <2>1. Restores(b, c)
    BY <1>1 DEF IInv, FencesExact
  <2> QED BY <2>1 DEF Restores, Mirrors, IInv, RecoveryIsCompacted, Live
<1>8. \A e \in Broadcasts \ {b} : ~Restores(e, c)
  <2> SUFFICES ASSUME NEW e \in Broadcasts \ {b} PROVE ~Restores(e, c)
    OBVIOUS
  <2> DEFINE f == [broadcast |-> e, phase |-> "restorePending"]
             g == [broadcast |-> b, phase |-> "restorePending"]
  <2>1. f.broadcast = e /\ g.broadcast = b
    OBVIOUS
  <2>2. fence[c] = g /\ (fence[c] = f <=> Restores(e, c))
    BY <1>1 DEF IInv, FencesExact
  <2> HIDE DEF f, g
  <2> QED BY <2>1, <2>2
<1>9. ASSUME NEW e \in Broadcasts, NEW x \in Clients
      PROVE  /\ Mirrors(e, x)' <=> Mirrors(e, x) /\ ~(x = c /\ e = b)
             /\ Restores(e, x)' <=> Restores(e, x) /\ ~(x = c /\ e = b)
  <2>1. Mirrors(e, x)' <=> Mirrors(e, x) /\ ~(x = c /\ e = b)
    <3>1. Mirrors(e, x)' <=> x \in Members(e)' /\ broadcast[e].lifecycle \in Live
      BY <1>1 DEF Mirrors
    <3> QED BY <1>5, <3>1 DEF Mirrors
  <2>2. x \in Owing(e)' <=> x \in Owing(e) /\ ~(x = c /\ e = b)
    <3>1. x \in Owing(e)' <=> x \in Members(e)' /\ participant'[e][x].restoring
      BY DEF Owing, Members
    <3>2. x \in Owing(e) <=> x \in Members(e) /\ participant[e][x].restoring
      BY DEF Owing, Members
    <3> QED BY <1>2, <1>5, <3>1, <3>2
  <2>3. Restores(e, x)' <=> \/ broadcast[e].lifecycle = "stopped" /\ x \in Owing(e)'
                            \/ recovery'[x].broadcast = e
    BY <1>1 DEF Restores
  <2>4. recovery'[x].broadcast = e <=> x # c /\ recovery[x].broadcast = e
    BY <1>3, <1>4
  <2>5. Restores(e, x)' <=> Restores(e, x) /\ ~(x = c /\ e = b)
    BY <1>8, <2>2, <2>3, <2>4 DEF Restores
  <2> QED BY <2>1, <2>5
<1>10. FencesExact'
  BY <1>1, <1>6, <1>9, FencesFollow
<1>11. RowsOK'
  BY <1>1, <1>2, <1>3, <1>6 DEF RowsOK, IInv, TypeOK
<1>12. LiveHasRoom' /\ RecordHasMembers' /\ RecoveryIsCompacted'
  <2>1. LiveHasRoom' /\ RecoveryIsCompacted'
    BY <1>1, <1>3, <1>4 DEF IInv, LiveHasRoom, RecoveryIsCompacted
  <2>2. \A e \in Broadcasts : Members(e)' \subseteq Members(e)
    BY <1>5 DEF Members
  <2> QED BY <1>1, <2>1, <2>2 DEF IInv, RecordHasMembers
<1>13. StatusIsTrue'
  <2>1. ASSUME NEW e \in Broadcasts, NEW x \in Members(e)'
        PROVE  RowIsTrue(e, participant[e][x])' /\ Entry(x, participant'[e][x].target) \in ledger'
    <3>1. x \in Clients /\ x \in Members(e) /\ ~(e = b /\ x = c)
      BY <1>5, <2>1 DEF Members
    <3>2. /\ Entry(x, participant[e][x].target).client = x
          /\ Entry(x, participant[e][x].target).delivery.broadcast = e
      BY <3>1, FullRow DEF Entry, RowIsTrue
    <3> QED BY <1>1, <1>2, <3>1, <3>2, FullRow DEF RowIsTrue
  <2> QED BY <2>1 DEF StatusIsTrue, RowIsTrue
<1> QED BY <1>10, <1>11, <1>12, <1>13 DEF RInv

(* No row changes.                                                         *)
LEMMA SameRows ==
    ASSUME IInv, UNCHANGED <<broadcast, participant, ledger, fence, sourceFence, recovery>>
    PROVE  RInv'
<1>1. /\ \A b \in Broadcasts : Members(b)' = Members(b) /\ Owing(b)' = Owing(b)
  BY DEF Members, Owing
<1>2. RowsOK' /\ LiveHasRoom'
  BY DEF IInv, TypeOK, RowsOK, LiveHasRoom
<1>3. RecordHasMembers' /\ RecoveryIsCompacted'
  BY <1>1 DEF IInv, RecordHasMembers, RecoveryIsCompacted
<1>4. FencesExact'
  <2>1. \A b \in Broadcasts, c \in Clients :
          /\ Mirrors(b, c)' <=> Mirrors(b, c)
          /\ Restores(b, c)' <=> Restores(b, c)
    BY <1>1 DEF Mirrors, Restores
  <2> QED BY <2>1 DEF IInv, FencesExact
<1>5. StatusIsTrue'
  BY <1>1 DEF IInv, StatusIsTrue
<1> QED BY <1>2, <1>3, <1>4, <1>5 DEF RInv

(* A restart ends the one live broadcast, or changes no row.               *)
LEMMA RestartInv ==
    ASSUME IInv, Restart
    PROVE  RInv'
<1> DEFINE live == {b \in Broadcasts : broadcast[b].lifecycle \in Live}
<1>1. /\ broadcast' = [b \in Broadcasts |->
           IF b \in live THEN At("stopped", NextRevision(b)) ELSE broadcast[b]]
      /\ participant' = [b \in Broadcasts |-> [c \in Clients |->
           IF b \in live /\ c \in Members(b) THEN Ended(b, c) ELSE participant[b][c]]]
      /\ ledger' = ledger \cup UNION {FirstDeliveries(b, NextRevision(b), Members(b)) : b \in live}
      /\ fence' = [c \in Clients |->
           IF fence[c].broadcast \in live THEN TerminalFence(fence[c].broadcast, c) ELSE fence[c]]
      /\ sourceFence' = NoBroadcast
      /\ UNCHANGED recovery
  BY DEF Restart
<1>2. /\ broadcast \in [Broadcasts -> Record]
      /\ participant \in [Broadcasts -> [Clients -> Participant \cup {NoParticipant}]]
      /\ fence \in [Clients -> Fence \cup {NoFence}]
  BY DEF IInv, TypeOK
<1>3. CASE live = {}
  <2>1. broadcast' = broadcast /\ participant' = participant
    BY <1>1, <1>2, <1>3
  <2>2. ledger' = ledger /\ fence' = fence
    BY <1>1, <1>2, <1>3
  <2>3. sourceFence = NoBroadcast
    BY <1>3 DEF IInv, TypeOK, FencesExact
  <2>4. UNCHANGED <<broadcast, participant, ledger, fence, sourceFence, recovery>>
    BY <1>1, <2>1, <2>2, <2>3
  <2> QED BY <2>4, SameRows
<1>4. ASSUME NEW b \in live PROVE RInv'
  <2>1. b \in Broadcasts /\ broadcast[b].lifecycle \in Live
    OBVIOUS
  <2>2. live = {b}
    BY <2>1, OneLive
  <2> HIDE DEF live
  <2>3. broadcast' = [broadcast EXCEPT ![b] = At("stopped", NextRevision(b))]
    BY <1>1, <1>2, <2>2
  <2>4. participant' = [participant EXCEPT ![b] = [c \in Clients |->
          IF c \in Members(b) THEN Ended(b, c) ELSE @[c]]]
    <3>1. \A e \in Broadcasts : e # b => participant'[e] = participant[e]
      BY <1>1, <1>2, <2>2
    <3>2. participant'[b] = [c \in Clients |->
            IF c \in Members(b) THEN Ended(b, c) ELSE participant[b][c]]
      BY <1>1, <2>1, <2>2
    <3>3. participant' = [e \in Broadcasts |-> participant'[e]]
      BY <1>1
    <3> QED BY <1>2, <3>1, <3>2, <3>3
  <2>5. ledger' = ledger \cup FirstDeliveries(b, NextRevision(b), Members(b))
    BY <1>1, <2>2
  <2>6. fence' = [c \in Clients |-> TerminalFence(b, c)]
    BY <1>1, <2>2 DEF TerminalFence
  <2> QED BY <1>1, <2>1, <2>3, <2>4, <2>5, <2>6, EndInv
<1> QED BY <1>3, <1>4

-----------------------------------------------------------------------------
(* The rest of the type invariant.                                         *)
LinksOK ==
    /\ retired \subseteq Clients
    /\ source \in BOOLEAN /\ suspending \in BOOLEAN
    /\ online \subseteq Clients /\ registering \subseteq Clients
    /\ outbox \subseteq Event
    /\ told \in [Broadcasts -> SUBSET Clients]

LEMMA TerminateLinks ==
    ASSUME TypeOK, NEW b \in Broadcasts, Terminate(b)
    PROVE  /\ outbox' \subseteq Event /\ UNCHANGED <<retired, told>>
BY DEF Terminate, TypeOK, Event, Members

LEMMA RegisterLinks ==
    ASSUME TypeOK, NEW c \in Clients, BeginRegister(c)
    PROVE  LinksOK'
<1>1. /\ registering' \in {registering, registering \cup {c}}
      /\ \/ told' = told \/ \E b \in Broadcasts : Told(b, c)
      /\ UNCHANGED <<retired, source, suspending, online, outbox>>
  <2>1. ReplayCompact(c) => \/ told' = told
                            \/ \E b \in Broadcasts : Told(b, c)
    BY RecoveryRow DEF ReplayCompact
  <2> QED BY <2>1
    DEF BeginRegister, ReplayMirror, ReplayTerminal, ReplayCompact, ReplayNothing, Registering
<1>2. told' \in [Broadcasts -> SUBSET Clients]
  BY <1>1 DEF Told, TypeOK
<1> QED BY <1>1, <1>2 DEF LinksOK, TypeOK

LEMMA SourceLinks ==
    ASSUME TypeOK, SourceStep
    PROVE  LinksOK'
<1>1. CASE SourceConnects \/ SourceDisconnects \/ SourcePruned
  BY <1>1 DEF SourceConnects, SourceDisconnects, SourcePruned, LinksOK, TypeOK, rows
<1>2. CASE Suspend
  BY <1>2 DEF Suspend, CommitRevision, LinksOK, TypeOK, rows
<1>3. ASSUME NEW b \in Broadcasts, Start(b) \/ Mirror(b) \/ Resume(b) PROVE LinksOK'
  BY <1>3 DEF Start, SourceReady, Choices, Mirror, Controllable, Resume, CommitRevision, LinksOK, TypeOK, links
<1>4. ASSUME NEW b \in Broadcasts, Stop(b) \/ SweepSource(b) PROVE LinksOK'
  BY <1>4, TerminateLinks DEF Stop, SweepSource, LinksOK, TypeOK, links
<1> QED BY <1>1, <1>2, <1>3, <1>4 DEF SourceStep

LEMMA DeviceLinks ==
    ASSUME TypeOK, NEW c \in Clients, DeviceStep(c)
    PROVE  LinksOK'
<1>1. CASE BeginRegister(c)
  BY <1>1, RegisterLinks
<1>2. CASE FinishRegister(c) \/ Disconnect(c)
  BY <1>2 DEF FinishRegister, Disconnect, LinksOK, TypeOK, rows
<1>3. ASSUME NEW d \in Delivery,
             Applied(c, d) \/ Failed(c, d) \/ AppliedCompact(c, d) \/ RejectedCompact(c, d)
      PROVE  LinksOK'
  BY <1>3 DEF Applied, Failed, AppliedCompact, RejectedCompact, LinksOK, TypeOK, links
<1>4. ASSUME NEW d \in Delivery, Rejected(c, d) PROVE LinksOK'
  <2>1. \/ told' = told \/ Told(d.broadcast, c)
    BY <1>4 DEF Rejected
  <2>2. told' \in [Broadcasts -> SUBSET Clients]
    BY <2>1 DEF Told, TypeOK
  <2> QED BY <1>4, <2>2 DEF Rejected, LinksOK, TypeOK, links
<1>5. ASSUME NEW b \in Broadcasts, TimeOut(b, c) \/ Abandon(b, c) PROVE LinksOK'
  BY <1>5 DEF TimeOut, Abandon, Abandonable, RestorePending, LinksOK, TypeOK, links
<1> QED BY <1>1, <1>2, <1>3, <1>4, <1>5 DEF DeviceStep, FeedbackStep

LEMMA EmitLinks ==
    ASSUME TypeOK, NEW e \in outbox, Emit(e)
    PROVE  LinksOK'
<1>1. e.broadcast \in Broadcasts /\ e.client \in Clients
  BY DEF TypeOK, Event
<1>2. told' \in [Broadcasts -> SUBSET Clients]
  BY <1>1 DEF Emit, Told, TypeOK
<1> QED BY <1>2 DEF Emit, LinksOK, TypeOK, rows

-----------------------------------------------------------------------------
(* Each step keeps the rows as they must be.                               *)
LEMMA SourceRows ==
    ASSUME IInv, SourceStep
    PROVE  RInv'
<1>1. CASE SourceConnects \/ SourceDisconnects \/ SourcePruned
  BY <1>1, SameRows DEF SourceConnects, SourceDisconnects, SourcePruned, rows
<1>2. CASE Suspend
  <2>1. CASE \E b \in Broadcasts : CommitRevision(b, "waitingForSource")
    BY <2>1, CommitInv DEF Live
  <2>2. CASE UNCHANGED rows
    BY <2>2, SameRows DEF rows
  <2> QED BY <1>2, <2>1, <2>2 DEF Suspend
<1>3. ASSUME NEW b \in Broadcasts, Start(b) PROVE RInv'
  BY <1>3, StartInv
<1>4. ASSUME NEW b \in Broadcasts, Mirror(b) \/ Resume(b) PROVE RInv'
  BY <1>4, CommitInv DEF Mirror, Controllable, Resume, Live
<1>5. ASSUME NEW b \in Broadcasts, Stop(b) \/ SweepSource(b) PROVE RInv'
  BY <1>5, EndInv DEF Stop, SweepSource, Terminate
<1> QED BY <1>1, <1>2, <1>3, <1>4, <1>5 DEF SourceStep

LEMMA RegisterRows ==
    ASSUME IInv, NEW c \in Clients, BeginRegister(c)
    PROVE  RInv'
<1>1. UNCHANGED <<broadcast, fence, sourceFence>>
  BY DEF BeginRegister
<1>2. ASSUME NEW b \in Broadcasts, ReplayMirror(b, c) \/ ReplayTerminal(b, c) PROVE RInv'
  <2>1. /\ c \in Members(b) /\ Replaced(b, c, Replacement(b, c)) /\ UNCHANGED recovery
    BY <1>2 DEF ReplayMirror, ReplayTerminal, Owed
  <2> QED BY <1>1, <2>1, FullRow, ReplacedInv
<1>3. CASE ReplayCompact(c)
  BY <1>1, <1>3, AgainInv DEF ReplayCompact
<1>4. CASE ReplayNothing(c)
  BY <1>1, <1>4, SameRows DEF ReplayNothing
<1> QED BY <1>2, <1>3, <1>4 DEF BeginRegister

LEMMA FeedbackRows ==
    ASSUME IInv, NEW c \in Clients, FeedbackStep(c)
    PROVE  RInv'
<1>1. PICK d \in Delivery : \/ Applied(c, d) \/ Failed(c, d) \/ Rejected(c, d)
                            \/ AppliedCompact(c, d) \/ RejectedCompact(c, d)
  BY DEF FeedbackStep
<1>2. d.broadcast \in Broadcasts
  BY DEF Delivery
<1>3. CASE Applied(c, d)
  BY <1>3, AppliedInv
<1>4. CASE Failed(c, d)
  BY <1>2, <1>4, ReopenedInv DEF Failed, Answers
<1>5. CASE Rejected(c, d)
  <2>1. /\ c \in Members(d.broadcast) /\ Replaced(d.broadcast, c, Replacement(d.broadcast, c))
        /\ UNCHANGED <<broadcast, fence, sourceFence, recovery>>
    BY <1>5 DEF Rejected, Answers
  <2> QED BY <1>2, <2>1, FullRow, ReplacedInv
<1>6. CASE AppliedCompact(c, d)
  BY <1>6, AppliedCompactInv
<1>7. CASE RejectedCompact(c, d)
  <2>1. recovery[c] # NoDelivery
    BY <1>2, <1>7, RecoveryRow DEF RejectedCompact, AnswersCompact, IInv
  <2> QED BY <1>7, <2>1, AgainInv DEF RejectedCompact
<1> QED BY <1>1, <1>3, <1>4, <1>5, <1>6, <1>7

LEMMA DeviceRows ==
    ASSUME IInv, NEW c \in Clients, DeviceStep(c)
    PROVE  RInv'
<1>1. CASE BeginRegister(c)
  BY <1>1, RegisterRows
<1>2. CASE FinishRegister(c) \/ Disconnect(c)
  BY <1>2, SameRows DEF FinishRegister, Disconnect, rows
<1>3. CASE FeedbackStep(c)
  BY <1>3, FeedbackRows
<1>4. ASSUME NEW b \in Broadcasts, TimeOut(b, c) PROVE RInv'
  BY <1>4, ReopenedInv DEF TimeOut
<1>5. ASSUME NEW b \in Broadcasts, Abandon(b, c) PROVE RInv'
  BY <1>5, AbandonInv
<1> QED BY <1>1, <1>2, <1>3, <1>4, <1>5 DEF DeviceStep

LEMMA RestLinks ==
    ASSUME TypeOK, Restart \/ \E b \in Broadcasts : Compact(b)
    PROVE  LinksOK'
BY DEF Restart, Compact, LinksOK, TypeOK, links

LEMMA InitInv == Init => IInv
<1> SUFFICES ASSUME Init PROVE IInv
  OBVIOUS
<1>1. At("absent", 0) \in Record
  BY Bounds DEF At, Record
<1>2. TypeOK
  BY <1>1 DEF Init, TypeOK
<1>3. \A b \in Broadcasts : broadcast[b].lifecycle = "absent" /\ Members(b) = {}
  BY DEF Init, At, Members
<1>4. \A c \in Clients : recovery[c].broadcast = NoBroadcast
  BY DEF Init, NoDelivery
<1>5. LiveHasRoom /\ RecordHasMembers /\ RecoveryIsCompacted /\ StatusIsTrue
  BY <1>3, <1>4, BroadcastAssumption
  DEF LiveHasRoom, RecordHasMembers, RecoveryIsCompacted, StatusIsTrue, Live
<1>6. FencesExact
  <2>1. ASSUME NEW b \in Broadcasts, NEW c \in Clients
        PROVE  ~Mirrors(b, c) /\ ~Restores(b, c)
    BY <1>3, <1>4, BroadcastAssumption DEF Mirrors, Restores
  <2>2. \A b \in Broadcasts, c \in Clients : fence[c].broadcast # b
    BY BroadcastAssumption DEF Init, NoFence
  <2>3. \A b \in Broadcasts, c \in Clients, ph \in {"nonterminal", "restorePending"} :
          fence[c] # [broadcast |-> b, phase |-> ph]
    <3> SUFFICES ASSUME NEW b \in Broadcasts, NEW c \in Clients,
                        NEW ph \in {"nonterminal", "restorePending"}
                 PROVE  fence[c] # [broadcast |-> b, phase |-> ph]
      OBVIOUS
    <3>1. [broadcast |-> b, phase |-> ph].broadcast = b
      OBVIOUS
    <3> QED BY <2>2, <3>1
  <2>4. \A b \in Broadcasts : sourceFence # b /\ broadcast[b].lifecycle \notin Live
    BY <1>3, BroadcastAssumption DEF Init, Live
  <2> QED BY <2>1, <2>3, <2>4 DEF FencesExact
<1> QED BY <1>2, <1>5, <1>6 DEF IInv

LEMMA NextInv == IInv /\ [Next]_vars => IInv'
<1> SUFFICES ASSUME IInv, [Next]_vars PROVE RInv' /\ LinksOK'
  BY DEF IInv, RInv, RowsOK, LinksOK, TypeOK
<1>1. CASE UNCHANGED vars
  <2>1. UNCHANGED rows
    BY <1>1 DEF vars
  <2>2. RInv'
    BY <2>1, SameRows DEF rows
  <2>3. LinksOK'
    BY <1>1 DEF vars, links, rows, LinksOK, IInv, TypeOK
  <2> QED BY <2>2, <2>3
<1>2. CASE SourceStep
  BY <1>2, SourceRows, SourceLinks DEF IInv
<1>3. ASSUME NEW c \in Clients, DeviceStep(c) PROVE RInv' /\ LinksOK'
  BY <1>3, DeviceRows, DeviceLinks DEF IInv
<1>4. ASSUME NEW e \in outbox, Emit(e) PROVE RInv' /\ LinksOK'
  <2>1. RInv'
    BY <1>4, SameRows DEF Emit, rows
  <2> QED BY <1>4, <2>1, EmitLinks DEF IInv
<1>5. ASSUME NEW b \in Broadcasts, Compact(b) PROVE RInv' /\ LinksOK'
  BY <1>5, CompactInv, RestLinks DEF IInv
<1>6. CASE Restart
  BY <1>6, RestartInv, RestLinks DEF IInv
<1> QED BY <1>1, <1>2, <1>3, <1>4, <1>5, <1>6 DEF Next

-----------------------------------------------------------------------------
(* Every reachable state satisfies the inductive invariant.                *)
THEOREM BroadcastInvariant == Spec => []IInv
<1> QED BY InitInv, NextInv, PTL DEF Spec

(* The rows, the fences and the connections keep their shape.              *)
THEOREM BroadcastTypeCorrect == Spec => []TypeOK
<1>1. IInv => TypeOK
  BY DEF IInv
<1> QED BY <1>1, BroadcastInvariant, PTL

(* A device's own context is fenced exactly while it mirrors a broadcast   *)
(* or has to restore after one.                                            *)
THEOREM FencesAreExact == Spec => []FencesExact
<1>1. IInv => FencesExact
  BY DEF IInv
<1> QED BY <1>1, BroadcastInvariant, PTL

(* What the status says of a participant is true of the present revision.  *)
THEOREM StatusStaysTrue == Spec => []StatusIsTrue
<1>1. IInv => StatusIsTrue
  BY DEF IInv
<1> QED BY <1>1, BroadcastInvariant, PTL

(* A step that leaves each fence with its broadcast.                       *)
Stays == \A c \in Clients : fence[c] # NoFence => fence'[c].broadcast = fence[c].broadcast

LEMMA TerminalStays ==
    ASSUME TypeOK, NEW b \in Broadcasts, NEW c \in Clients
    PROVE  fence[c] # NoFence => TerminalFence(b, c).broadcast = fence[c].broadcast
<1>1. fence[c] # NoFence => Restoring(fence[c]).broadcast = fence[c].broadcast
  BY FenceRow DEF Restoring, Fence
<1> QED BY <1>1 DEF TerminalFence

LEMMA SourceStays ==
    ASSUME TypeOK, SourceStep
    PROVE  Stays
<1>1. CASE SourceConnects \/ SourceDisconnects \/ SourcePruned \/ Suspend
  BY <1>1 DEF SourceConnects, SourceDisconnects, SourcePruned, Suspend, CommitRevision, rows, Stays
<1>2. ASSUME NEW b \in Broadcasts, Start(b) PROVE Stays
  BY <1>2 DEF Start, SourceReady, Choices, Available, Stays
<1>3. ASSUME NEW b \in Broadcasts, Mirror(b) \/ Resume(b) PROVE Stays
  BY <1>3 DEF Mirror, Controllable, Resume, CommitRevision, Stays
<1>4. ASSUME NEW b \in Broadcasts, Stop(b) \/ SweepSource(b) PROVE Stays
  BY <1>4, TerminalStays DEF Stop, SweepSource, Terminate, Stays
<1> QED BY <1>1, <1>2, <1>3, <1>4 DEF SourceStep

LEMMA RestartStays ==
    ASSUME TypeOK, Restart
    PROVE  Stays
<1> DEFINE live == {b \in Broadcasts : broadcast[b].lifecycle \in Live}
<1>1. fence' = [c \in Clients |->
        IF fence[c].broadcast \in live THEN TerminalFence(fence[c].broadcast, c) ELSE fence[c]]
  BY DEF Restart
<1> QED BY <1>1, TerminalStays DEF Stays

(* A device gets its own context back only after it was sent the terminal  *)
(* event of that broadcast, or is given up for good.                       *)
LEMMA FreedStep ==
    ASSUME TypeOK, [Next]_vars, NEW c \in Clients,
           fence[c] # NoFence, fence'[c].broadcast # fence[c].broadcast
    PROVE  c \in retired' \cup told[fence[c].broadcast]
<1>1. ASSUME NEW x \in Clients, NEW b \in Broadcasts, fence' = Freed(x, b)
      PROVE  x = c /\ b = fence[c].broadcast
  BY <1>1 DEF Freed, TypeOK
<1>2. CASE UNCHANGED vars
  BY <1>2 DEF vars, rows
<1>3. CASE SourceStep \/ Restart
  BY <1>3, SourceStays, RestartStays DEF Stays
<1>4. ASSUME NEW x \in Clients, DeviceStep(x)
      PROVE  c \in retired' \cup told[fence[c].broadcast]
  <2>1. CASE BeginRegister(x) \/ FinishRegister(x) \/ Disconnect(x)
    BY <2>1 DEF BeginRegister, FinishRegister, Disconnect, rows
  <2>2. ASSUME NEW d \in Delivery, Failed(x, d) \/ Rejected(x, d) \/ RejectedCompact(x, d)
        PROVE  FALSE
    BY <2>2 DEF Failed, Rejected, RejectedCompact
  <2>3. ASSUME NEW d \in Delivery, Applied(x, d)
        PROVE  c \in told[fence[c].broadcast]
    <3>1. IsTerminal(d) /\ fence' = Freed(x, d.broadcast) /\ d.broadcast \in Broadcasts
      BY <2>3 DEF Applied, Delivery
    <3>2. x \in told[d.broadcast]
      BY <2>3, <3>1 DEF Applied, Answers, IsTerminal
    <3> QED BY <1>1, <3>1, <3>2
  <2>4. ASSUME NEW d \in Delivery, AppliedCompact(x, d)
        PROVE  c \in told[fence[c].broadcast]
    BY <1>1, <2>4 DEF AppliedCompact, AnswersCompact, Delivery
  <2>5. ASSUME NEW b \in Broadcasts, TimeOut(b, x) PROVE FALSE
    BY <2>5 DEF TimeOut
  <2>6. ASSUME NEW b \in Broadcasts, Abandon(b, x) PROVE c \in retired'
    BY <1>1, <2>6 DEF Abandon, Abandonable, RestorePending
  <2> QED BY <1>4, <2>1, <2>2, <2>3, <2>4, <2>5, <2>6 DEF DeviceStep, FeedbackStep
<1>5. ASSUME NEW e \in outbox, Emit(e) PROVE FALSE
  BY <1>5 DEF Emit, rows
<1>6. ASSUME NEW b \in Broadcasts, Compact(b) PROVE FALSE
  BY <1>6 DEF Compact
<1> QED BY <1>2, <1>3, <1>4, <1>5, <1>6 DEF Next

(* No device is freed from a broadcast that it was not told has ended.     *)
THEOREM FreedByItsDeviceCorrect == Spec => FreedByItsDevice
<1>1. TypeOK /\ [Next]_vars =>
        [\A c \in Clients :
           fence[c] # NoFence /\ fence'[c].broadcast # fence[c].broadcast =>
             c \in retired' \cup told[fence[c].broadcast]]_vars
  BY FreedStep
<1> QED BY <1>1, BroadcastTypeCorrect, PTL DEF Spec, FreedByItsDevice

=============================================================================
