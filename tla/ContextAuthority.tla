--------------------------- MODULE ContextAuthority ---------------------------
(***************************************************************************)
(* What a handoff promises the devices of a user, without connections,     *)
(* timers, messages and restarts: a playback context has one authority, a  *)
(* device is the authority of at most one context, the authority can only  *)
(* go to the one device it is being offered to, and an offer ends.         *)
(***************************************************************************)
CONSTANTS
    Clients, Contexts,
    NoClient                \* a value that is not a client

VARIABLES
    authority,              \* the authority of each context, NoClient if it is not active
    offer                   \* the device it is being handed to, NoClient if none

vars == <<authority, offer>>

Init ==
    /\ authority = [p \in Contexts |-> NoClient]
    /\ offer = [p \in Contexts |-> NoClient]

Owned(c) == {p \in Contexts : authority[p] = c}
Offered(c) == \E p \in Contexts : offer[p] = c
Involved(c) == Offered(c) \/ \E p \in Owned(c) : offer[p] # NoClient

Open(p, c) ==
    /\ authority[p] = NoClient /\ Owned(c) = {} /\ ~Offered(c)
    /\ authority' = [authority EXCEPT ![p] = c]
    /\ UNCHANGED offer

(* Neither the giver nor the receiver takes part in another offer.         *)
Offer(p, c) ==
    /\ authority[p] \notin {NoClient, c}
    /\ ~Involved(authority[p]) /\ ~Involved(c)
    /\ offer' = [offer EXCEPT ![p] = c]
    /\ UNCHANGED authority

(* What the receiver had before, an idle context, is retired with it.      *)
Move(p) ==
    /\ offer[p] # NoClient
    /\ authority' = [q \in Contexts |->
                        IF q = p THEN offer[p]
                        ELSE IF authority[q] = offer[p] THEN NoClient ELSE authority[q]]
    /\ offer' = [offer EXCEPT ![p] = NoClient]

(* A restart withdraws every offer at once.                                *)
Withdraw(P) ==
    /\ P # {} /\ \A p \in P : offer[p] # NoClient
    /\ offer' = [p \in Contexts |-> IF p \in P THEN NoClient ELSE offer[p]]
    /\ UNCHANGED authority

Close(p) ==
    /\ authority[p] # NoClient /\ ~Involved(authority[p])
    /\ authority' = [authority EXCEPT ![p] = NoClient]
    /\ UNCHANGED offer

Next ==
    \/ \E p \in Contexts, c \in Clients : Open(p, c) \/ Offer(p, c)
    \/ \E p \in Contexts : Move(p) \/ Close(p)
    \/ \E P \in SUBSET Contexts : Withdraw(P)

Ended(p) == Move(p) \/ \E P \in SUBSET Contexts : p \in P /\ Withdraw(P)

Spec == Init /\ [][Next]_vars

FairSpec == Spec /\ \A p \in Contexts : WF_vars(Ended(p))

=============================================================================
