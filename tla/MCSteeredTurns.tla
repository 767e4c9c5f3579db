---------------------------- MODULE MCSteeredTurns ----------------------------
(***************************************************************************)
(* Instance of SteeredTurns for TLC: three submissions, the one in the     *)
(* middle abortable.                                                       *)
(***************************************************************************)
EXTENDS SteeredTurns

CONSTANTS s1, s2, s3

ThreeSubs == {s1, s2, s3}
=============================================================================
