----------------------------- MODULE SessionFifo -----------------------------
(***************************************************************************)
(* What the turn controller promises the surfaces, without promises, maps  *)
(* or tails: turns of one session begin in the order they were submitted,  *)
(* each only after everything submitted before it to that session has      *)
(* settled; turns of different sessions are independent.  The promise ends *)
(* for a session one of whose turns was abandoned in the queue.            *)
(***************************************************************************)
CONSTANTS Sessions, Subs

VARIABLES status,   \* idle -> queued -> running -> settled, or queued -> abandoned
          session,  \* the session each turn is for
          before    \* what was unsettled in the session when it was submitted

vars == <<status, session, before>>

Unsettled(k) == {s \in Subs : session[s] = k /\ status[s] \in {"queued", "running"}}

Init ==
    /\ status = [s \in Subs |-> "idle"]
    /\ session \in [Subs -> Sessions]
    /\ before = [s \in Subs |-> {}]

Submit(s) ==
    /\ status[s] = "idle"
    /\ status' = [status EXCEPT ![s] = "queued"]
    /\ before' = [before EXCEPT ![s] = Unsettled(session[s])]
    /\ UNCHANGED session

\* A turn of session k was given up while it was queued.
Broken(k) == \E t \in Subs : session[t] = k /\ status[t] = "abandoned"

Begin(s) ==
    /\ status[s] = "queued"
    /\ before[s] \cap Unsettled(session[s]) = {} \/ Broken(session[s])
    /\ status' = [status EXCEPT ![s] = "running"]
    /\ UNCHANGED <<session, before>>

Settle(s) ==
    /\ status[s] = "running"
    /\ status' = [status EXCEPT ![s] = "settled"]
    /\ UNCHANGED <<session, before>>

Abandon(s) ==
    /\ status[s] = "queued"
    /\ status' = [status EXCEPT ![s] = "abandoned"]
    /\ UNCHANGED <<session, before>>

Next == \E s \in Subs : Submit(s) \/ Begin(s) \/ Settle(s) \/ Abandon(s)

\* A queued turn begins unless it is abandoned, a running one settles.
Spec ==
    /\ Init /\ [][Next]_vars
    /\ \A s \in Subs : WF_vars(Begin(s)) /\ WF_vars(Settle(s))

SafeSpec == Init /\ [][Next]_vars

=============================================================================
