------------------------------ MODULE MCToolSteps ------------------------------
(***************************************************************************)
(* Instances of ToolSteps for TLC.                                         *)
(***************************************************************************)
EXTENDS ToolSteps

\* Two pages of the browser, a memory write, a skill view, a file write and a
\* reply.
SomeCalls == {"nav1", "nav2", "store", "view", "write", "reply"}
ClassOfCall(c) ==
    CASE c \in {"nav1", "nav2"} -> "browser"
      [] c = "view" -> "pure_read"
      [] c = "write" -> "approval_gated"
      [] c = "reply" -> "terminal"
      [] OTHER -> "memory_write"
ToolOfCall(c) == IF c \in {"nav1", "nav2"} THEN "nav" ELSE c

\* Singles, batches, batches with a tail, an oversized read, a gated call.
SomeEmissions == {
    <<"nav1">>, <<"nav2">>, <<"store">>, <<"view">>, <<"reply">>,
    <<"nav1", "nav1">>, <<"nav1", "store">>, <<"view", "store">>, 
    <<"view", "view", "view">>, <<"store", "write">>, <<"store", "reply">>}

\* Five files, read again and again in one batch.
Reads == {"read1", "read2", "read3", "read4", "read5"}
Self(c) == c
Read(c) == "pure_read"
FiveReads == {<<"read1", "read2", "read3", "read4", "read5">>}
=============================================================================
