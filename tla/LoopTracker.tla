------------------------------ MODULE LoopTracker ------------------------------
(***************************************************************************)
(* The no-progress tracker of one turn: a ring of the calls it has seen    *)
(* and the count of vetoes in a row.  A tracker is a record                *)
(*   history    the ring, oldest first, of records [call, out]; out is     *)
(*              "pending" until the outcome is known, then "vetoed" or the *)
(*              result                                                     *)
(*   vetoCall   the call vetoed last, unless another one ran since         *)
(*   vetoCount  how often in a row                                         *)
(* Hashes of arguments and results are the calls and results themselves.   *)
(***************************************************************************)
EXTENDS Naturals, Sequences, FiniteSets, FiniteSetsExt

CONSTANTS Critical,      \* criticalThreshold
          BreakerStreak, \* breakerVetoStreak
          HistorySize,   \* historySize
          Escalation,    \* wanderingEscalation
          Wandering,     \* the calls of wandering-prone tools
          ToolOf(_),     \* the tool a call names
          NoCall

ASSUME TrackerAssumption ==
    /\ Critical \in Nat \ {0, 1}
    /\ BreakerStreak \in Nat \ {0}
    /\ Escalation \in Nat \ {0, 1}
    /\ HistorySize \in Nat
    /\ HistorySize >= Critical
    /\ HistorySize >= Escalation

\* The entry a multi-call step leaves in the ring under the <batch> label.
CompositeEntry == [call |-> NoCall, out |-> "composite"]

NewTracker == [history |-> <<>>, vetoCall |-> NoCall, vetoCount |-> 0]

\* history.push and trimHistory.
Push(h, entry) ==
    LET long == Append(h, entry)
    IN IF Len(long) > HistorySize THEN Tail(long) ELSE long

\* The entries of call c that have a result.
Answers(h, c) == {i \in DOMAIN h : h[i].call = c /\ h[i].out \notin {"pending", "vetoed"}}

\* getNoProgressStreak: how many of the latest answers of c are the same.
Streak(h, c) == IF Answers(h, c) = {} THEN 0 ELSE
    LET latest == h[Max(Answers(h, c))].out
    IN Cardinality({i \in Answers(h, c) :
           \A j \in Answers(h, c) : j >= i => h[j].out = latest})

\* effectiveSpread: the distinct calls of c's tool that have an answer, c too.
Spread(h, c) ==
    Cardinality({c} \cup {d \in Wandering : ToolOf(d) = ToolOf(c) /\ Answers(h, d) # {}})

BreakerTripped(tr, c) == tr.vetoCall = c /\ tr.vetoCount >= BreakerStreak

WanderingEscalated(tr, c) == c \in Wandering /\ Spread(tr.history, c) >= Escalation

\* Mutant: one repeat too many.
VetoesLate(tr, c) ==
    Streak(tr.history, c) > Critical \/ BreakerTripped(tr, c) \/ WanderingEscalated(tr, c)

\* The gate vetoes call c.
Vetoes(tr, c) ==
    Streak(tr.history, c) >= Critical \/ BreakerTripped(tr, c) \/ WanderingEscalated(tr, c)

\* Mutant: only wandering ends the turn.
ForcesWanderer(tr, c) == WanderingEscalated(tr, c)

\* The veto ends the turn.
Forces(tr, c) == BreakerTripped(tr, c) \/ WanderingEscalated(tr, c)

RecordCall(tr, c) == [tr EXCEPT !.history = Push(@, [call |-> c, out |-> "pending"])]

\* patchLatestPending.
Patch(h, c, out) ==
    LET pending == {i \in DOMAIN h : h[i] = [call |-> c, out |-> "pending"]}
    IN IF pending = {}
       THEN Push(h, [call |-> c, out |-> out])
       ELSE [h EXCEPT ![Max(pending)].out = out]

\* recordOutcome of a veto: noteVeto.
RecordVeto(tr, c) ==
    [history |-> Patch(tr.history, c, "vetoed"),
     vetoCall |-> c,
     vetoCount |-> IF tr.vetoCall = c THEN tr.vetoCount + 1 ELSE 1]

\* recordOutcome of a call that ran: the vetoes in a row are over if they were
\* of another call.
RecordOutcome(tr, c, r) ==
    LET h == Patch(tr.history, c, r)
    IN IF tr.vetoCall \in {NoCall, c}
       THEN [tr EXCEPT !.history = h]
       ELSE [history |-> h, vetoCall |-> NoCall, vetoCount |-> 0]

\* observeBatchComposite: its verdict is a notice, its entry takes a place.
ObserveComposite(tr) == [tr EXCEPT !.history = Push(@, CompositeEntry)]

=============================================================================
