---------------------------- MODULE MCRateWindow ----------------------------
(***************************************************************************)
(* A small instance of RateWindow: one address shared by two sessions.     *)
(***************************************************************************)
EXTENDS RateWindow, TLC

CONSTANTS ip, s1, s2

Limits == ip :> 2 @@ s1 :> 1 @@ s2 :> 1

Symmetry == Permutations(Requests) \cup Permutations({s1, s2})
=============================================================================
