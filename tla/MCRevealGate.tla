---------------------------- MODULE MCRevealGate ----------------------------
(***************************************************************************)
(* Small instances of RevealGate for TLC.  Sessions, tickets, accounts and *)
(* workers are model values the specification never orders or names, so    *)
(* they are symmetric.                                                     *)
(***************************************************************************)
EXTENDS RevealGateRefinement, TLC

Symmetry ==
  Permutations(Sessions) \cup Permutations(Tickets)
    \cup Permutations(Accounts) \cup Permutations(Workers)
=============================================================================
