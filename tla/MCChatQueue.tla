----------------------------- MODULE MCChatQueue -----------------------------
(***************************************************************************)
(* Instances of ChatQueue for TLC.                                         *)
(***************************************************************************)
EXTENDS ChatQueue, TLC

CONSTANTS s1, s2, s3

Interchangeable == Permutations(Sessions)
=============================================================================
