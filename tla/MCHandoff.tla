------------------------------ MODULE MCHandoff ------------------------------
(***************************************************************************)
(* Handoffs on small instances; contexts and handoffs are interchangeable, *)
(* and so are the clients that start handoffs, and those that do not.      *)
(***************************************************************************)
EXTENDS HandoffAuthority, TLC

Symmetry ==
    Permutations(Origins) \cup Permutations(Clients \ Origins)
    \cup Permutations(Contexts) \cup Permutations(Handoffs)

=============================================================================
