--------------------------- MODULE MCTurnController ---------------------------
(***************************************************************************)
(* Instances of TurnController for TLC: two sessions, four submissions.    *)
(***************************************************************************)
EXTENDS TurnControllerProofs

CONSTANTS s1, s2, s3, s4

SubsAll == {s1, s2, s3, s4}
HookedSome == {s1, s2, s4}
=============================================================================
