----------------------------- MODULE MCTaskRunner -----------------------------
(***************************************************************************)
(* The instance of TaskRunner for TLC: two processes on one database.      *)
(***************************************************************************)
EXTENDS TaskRunner

CONSTANTS k1, d1, d2, p1, p2

OneSession == [t \in Tasks |-> k1]
TwoProcs == {p1, p2}
DrainSlots == {d1, d2}
=============================================================================
