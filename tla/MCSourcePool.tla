---------------------------- MODULE MCSourcePool ----------------------------
(***************************************************************************)
(* A small instance of SourcePool for TLC: source a polls well within the  *)
(* freshness, source b more rarely than it, as in the default settings.    *)
(***************************************************************************)
EXTENDS SourcePool, TLC

CONSTANTS a, b

BothOrder == <<a, b>>
BothIntervals == a :> 1 @@ b :> 6
=============================================================================
