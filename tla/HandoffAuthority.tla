--------------------------- MODULE HandoffAuthority ---------------------------
(***************************************************************************)
(* Handoffs implement ContextAuthority: the authority of an active context *)
(* is the client in its row, and a context is offered to the target of its *)
(* live handoff.                                                           *)
(***************************************************************************)
EXTENDS Handoff

OfferOf(p) == {handoff[h].target : h \in {k \in Handoffs : IsLive(k) /\ handoff[k].context = p}}

Owner(p) == IF context[p].lifecycle = "active" THEN context[p].authority ELSE NoClient
OfferTo(p) == IF OfferOf(p) = {} THEN NoClient ELSE CHOOSE c \in OfferOf(p) : TRUE

Authority == INSTANCE ContextAuthority WITH
    authority <- [p \in Contexts |-> Owner(p)],
    offer <- [p \in Contexts |-> OfferTo(p)]

(* Whatever messages, timers, broadcasts and restarts do, a context has    *)
(* one authority that only an accepted offer moves.                        *)
ImplementsAuthority == Authority!Spec

(* And while nobody broadcasts every offer ends.                           *)
ImplementsFairAuthority == Authority!FairSpec

=============================================================================
