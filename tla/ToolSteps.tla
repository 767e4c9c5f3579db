------------------------------- MODULE ToolSteps -------------------------------
(***************************************************************************)
(* The steps of an agent turn and the batches of tool calls they execute.  *)
(*                                                                         *)
(* A step asks the model for a batch ("infer"), gates every call of it in  *)
(* order before any is dispatched, and starts the first of each group:     *)
(* pure reads in waves side by side, the calls of any other class one      *)
(* after the other, the groups side by side ("groups").  A terminal call   *)
(* at the tail runs alone after them ("tail").  Gate and first dispatch    *)
(* happen before the first await and are one action; so are the end of a   *)
(* call and the dispatch of what waited for it.  The turns of the session  *)
(* follow one another, but a call of a cancelled batch may still run when  *)
(* the next turn has begun: a ghost.                                       *)
(***************************************************************************)
EXTENDS LoopTracker, SequencesExt

CONSTANTS Calls,         \* what the model can call: a tool with its arguments
          ClassOf(_),    \* the resource class of a call
          Mutating,      \* the calls of tools that are not readonly
          Views,         \* the skill.view calls
          Emissions,     \* the arrays of calls the model may emit
          Cap,           \* maxParallelToolCalls
          WaveCeiling,   \* MAX_WAVE_SPLIT_CALLS
          Results,       \* what a call can return, errors included
          MaxSteps,      \* options.maxSteps
          MaxTurns,      \* bound on turns
          MayAbort       \* BOOLEAN: the signal of a turn may fire

\* Where a call may be before it has a result, or instead of one.
Waiting == {"queued", "running"}
Unrun == {"vetoed", "refused", "answered", "cancelled"}

ASSUME StepsAssumption ==
    /\ Wandering \subseteq Calls /\ Mutating \subseteq Calls /\ Views \subseteq Calls
    /\ NoCall \notin Calls
    /\ Emissions \subseteq Seq(Calls) \ {<<>>}
    /\ Cap \in Nat \ {0}
    /\ WaveCeiling \in Nat /\ MaxSteps \in Nat /\ MaxTurns \in Nat
    /\ MayAbort \in BOOLEAN
    /\ Results \cap ({"pending", "tail", "thrown"} \cup Waiting \cup Unrun) = {}

VARIABLES turns,     \* turns begun
          phase,     \* "idle", "think" (the top of the loop), "infer", "groups", "tail"
          aborted,   \* options.signal.aborted
          step,      \* the step index i
          tracker,   \* the turn's ToolLoopTracker
          batch,     \* the calls of the step
          slot,      \* the slot of each call, or where the call is
          breaker,   \* loopSignals has a breaker
          loaded,    \* the skills loaded in the session, by their view
          ghosts,    \* calls of ended turns that still run
          cancelled, \* history: the turns whose step was cancelled
          rut,       \* history: per call, for how many steps in a row it ran
                     \* and returned the same
          lull       \* history: the latest steps that had the same batch and
                     \* brought nothing new, by their first

vars == <<turns, phase, aborted, step, tracker, batch, slot, breaker, loaded, ghosts, cancelled, rut, lull>>

Slots == Waiting \cup Unrun \cup {"tail", "thrown"} \cup Results
Ghosts == [turn : 1..MaxTurns, call : Calls, at : Nat]
NoRut == [c \in Calls |-> [n |-> 0, out |-> NoCall]]
NoLull == [batch |-> <<>>, slot |-> <<>>, runs |-> 0, vetoes |-> 0]

TypeOK ==
    /\ turns \in 0..MaxTurns
    /\ phase \in {"idle", "think", "infer", "groups", "tail"}
    /\ aborted \in BOOLEAN
    /\ step \in 0..MaxSteps
    /\ Len(tracker.history) <= HistorySize
    /\ tracker.vetoCall \in Calls \cup {NoCall}
    /\ tracker.vetoCount \in Nat
    /\ batch \in Seq(Calls)
    /\ slot \in Seq(Slots) /\ Len(slot) = Len(batch)
    /\ breaker \in BOOLEAN
    /\ loaded \subseteq Views
    /\ ghosts \subseteq Ghosts
    /\ cancelled \subseteq 1..MaxTurns

Init ==
    /\ turns = 0
    /\ phase = "idle"
    /\ aborted = FALSE
    /\ step = 0
    /\ tracker = NewTracker
    /\ batch = <<>>
    /\ slot = <<>>
    /\ breaker = FALSE
    /\ loaded = {}
    /\ ghosts = {}
    /\ cancelled = {}
    /\ rut = NoRut
    /\ lull = NoLull

-----------------------------------------------------------------------------
(* What the model emits and what the step makes of it.                     *)

Terminal(c) == ClassOf(c) = "terminal"
Gated(c) == ClassOf(c) = "approval_gated"

TerminalLast(e) == \A i \in DOMAIN e : Terminal(e[i]) => i = Len(e)

\* validateBatch.
Valid(e) ==
    \/ Len(e) = 1
    \/ Len(e) <= Cap /\ TerminalLast(e) /\ \A i \in DOMAIN e : ~Gated(e[i])

\* trySplitPureReadWaves, and tryTrimApprovalGated for what is left.
Splits(e) ==
    /\ Len(e) > Cap
    /\ Len(e) <= WaveCeiling
    /\ \A i \in DOMAIN e : ClassOf(e[i]) = "pure_read"
Trims(e) ==
    /\ Len(e) <= Cap
    /\ TerminalLast(e)
    /\ \E i \in DOMAIN e : Gated(e[i])

FirstGated(e) == CHOOSE i \in DOMAIN e :
    Gated(e[i]) /\ \A j \in DOMAIN e : Gated(e[j]) => i <= j

\* The batch that is executed: a batch that fails because of approval-gated
\* calls alone is cut down to the first of them.
BatchOf(e) == IF Valid(e) \/ Splits(e) THEN e ELSE <<e[FirstGated(e)]>>

-----------------------------------------------------------------------------
(* The batch.                                                              *)

\* Mutant: the calls of a class are started together, whatever the class.
WaitsForNone(b, sl, i) == {}

\* What the group of call i has to get done before i: an earlier wave, or
\* everything before it.
WaitsFor(b, sl, i) ==
    LET invoked == {j \in DOMAIN b : ClassOf(b[j]) = ClassOf(b[i]) /\ sl[j] \notin Unrun}
        wave(j) == (Cardinality({k \in invoked : k <= j}) - 1) \div Cap
    IN IF ClassOf(b[i]) = "pure_read"
       THEN {j \in invoked : j < i /\ wave(j) < wave(i)}
       ELSE {j \in invoked : j < i}

\* Every call that waits for nothing any more is invoked.
Launch(b, sl) == [i \in DOMAIN sl |->
    IF sl[i] = "queued" /\ \A j \in WaitsFor(b, sl, i) : sl[j] \notin Waiting
    THEN "running" ELSE sl[i]]

\* Mutant: a call that never started is left as it is.
SkipNothing(b, sl) == sl

\* The same after the signal fired: what comes up is skipped.
Skip(b, sl) == [i \in DOMAIN sl |->
    IF sl[i] = "queued" /\ \A j \in WaitsFor(b, sl, i) : sl[j] # "running"
    THEN "cancelled" ELSE sl[i]]

HasTail(b) == Len(b) > 1 /\ Terminal(Last(b))

\* The gate of call i: plan mode refuses before the tracker hears of the call,
\* a loop is vetoed, a view of a loaded skill is answered at once.
GateCall(g, b, i, planMode) ==
    LET c == b[i]
        seen == RecordCall(g.tracker, c)
    IN IF HasTail(b) /\ i = Len(b) THEN [g EXCEPT !.slot[i] = "tail"]
       ELSE IF planMode /\ c \in Mutating THEN [g EXCEPT !.slot[i] = "refused"]
       ELSE IF Terminal(c) THEN g
       ELSE IF Vetoes(g.tracker, c)
            THEN [slot |-> [g.slot EXCEPT ![i] = "vetoed"],
                  tracker |-> RecordVeto(seen, c),
                  breaker |-> g.breaker \/ Forces(g.tracker, c)]
       ELSE IF c \in Views /\ c \in loaded
            THEN [g EXCEPT !.slot[i] = "answered", !.tracker = RecordOutcome(seen, c, "answered")]
       ELSE [g EXCEPT !.tracker = seen]

\* Phase 1 of executeBatch: the calls are gated in the order of the batch.
Gate(b, planMode) ==
    LET start == [slot |-> [i \in DOMAIN b |-> "queued"], tracker |-> tracker, breaker |-> FALSE]
        gated[n \in 0..Len(b)] ==
            IF n = 0 THEN start ELSE GateCall(gated[n - 1], b, n, planMode)
    IN gated[Len(b)]

\* Mutant: the batch goes on when the first call has settled.
FirstOver(sl) == \E i \in DOMAIN sl : sl[i] \notin Waiting

GroupsOver(sl) == \A i \in DOMAIN sl : sl[i] \notin Waiting

\* The turn is over; what still runs of its batch goes on unobserved.
EndTurn(sl) ==
    /\ phase' = "idle"
    /\ aborted' = FALSE
    /\ step' = 0
    /\ tracker' = NewTracker
    /\ batch' = <<>>
    /\ slot' = <<>>
    /\ breaker' = FALSE
    /\ rut' = NoRut
    /\ lull' = NoLull
    /\ ghosts' = ghosts \cup
           {[turn |-> turns, call |-> batch[i], at |-> i] : i \in {j \in DOMAIN sl : sl[j] = "running"}}
    /\ UNCHANGED turns

\* executeStep throws: its nextSession is gone, and the turn is cancelled.
CancelStep(sl) ==
    /\ EndTurn(sl)
    /\ cancelled' = cancelled \cup {turns}
    /\ UNCHANGED loaded

Ran(b, sl, c) == {sl[i] : i \in {j \in DOMAIN b : b[j] = c /\ sl[j] \in Results}}

InRut(b, sl) == [c \in Calls |->
    IF Ran(b, sl, c) = {rut[c].out} THEN [n |-> rut[c].n + 1, out |-> rut[c].out]
    ELSE IF Cardinality(Ran(b, sl, c)) = 1
         THEN [n |-> 1, out |-> CHOOSE r \in Ran(b, sl, c) : TRUE]
    ELSE [n |-> 0, out |-> NoCall]]

AllVetoed(sl) == \A i \in DOMAIN sl : sl[i] = "vetoed"

\* A step goes on with a lull when each of its calls was vetoed or returned what
\* it did in the first one.  A call that plan mode refuses is no repetition.
GoesOn(b, sl) == b = lull.batch /\ \A i \in DOMAIN b : sl[i] \in {"vetoed", lull.slot[i]}

InLull(b, sl) ==
    LET before == IF GoesOn(b, sl) THEN lull ELSE [NoLull EXCEPT !.batch = b, !.slot = sl]
    IN IF \E i \in DOMAIN b : sl[i] = "refused" THEN NoLull
       ELSE IF AllVetoed(sl) THEN [before EXCEPT !.vetoes = @ + 1]
       ELSE [before EXCEPT !.runs = @ + 1]

\* The step is recorded.  A terminal call or a breaker ends the turn, else the
\* composite of a batch enters the ring and the loop goes on.
RecordStep(sl, tr) ==
    /\ loaded' = loaded \cup {c \in Views : Ran(batch, sl, c) # {}}
    /\ IF Terminal(Last(batch)) \/ breaker
       THEN EndTurn(sl)
       ELSE /\ phase' = "think"
            /\ step' = step + 1
            /\ tracker' = IF Len(batch) > 1 THEN ObserveComposite(tr) ELSE tr
            /\ rut' = InRut(batch, sl)
            /\ lull' = InLull(batch, sl)
            /\ batch' = <<>>
            /\ slot' = <<>>
            /\ breaker' = FALSE
            /\ UNCHANGED <<turns, aborted, ghosts>>
    /\ UNCHANGED cancelled

\* executeBatch goes on from slots sl: over the groups, then the tail, then
\* back to the step, which is cancelled if the signal fired meanwhile.
Proceed(sl, tr) ==
    CASE ~GroupsOver(sl) ->
            /\ slot' = sl
            /\ tracker' = tr
            /\ UNCHANGED <<turns, phase, aborted, step, batch, breaker, loaded, ghosts, cancelled, rut, lull>>
      [] GroupsOver(sl) /\ aborted -> CancelStep(sl)
      [] GroupsOver(sl) /\ ~aborted /\ Last(sl) = "tail" ->
            /\ slot' = [sl EXCEPT ![Len(sl)] = "running"]
            /\ tracker' = tr
            /\ phase' = "tail"
            /\ UNCHANGED <<turns, aborted, step, batch, breaker, loaded, ghosts, cancelled, rut, lull>>
      [] OTHER -> RecordStep(sl, tr)

-----------------------------------------------------------------------------

StartTurn ==
    /\ phase = "idle"
    /\ turns < MaxTurns
    /\ turns' = turns + 1
    /\ phase' = "think"
    /\ UNCHANGED <<aborted, step, tracker, batch, slot, breaker, loaded, ghosts, cancelled, rut, lull>>

\* The top of the loop: on to the next inference.
BeginStep ==
    /\ phase = "think"
    /\ ~aborted
    /\ step < MaxSteps
    /\ phase' = "infer"
    /\ UNCHANGED <<turns, aborted, step, tracker, batch, slot, breaker, loaded, ghosts, cancelled, rut, lull>>

\* The loop ends at its top (signal, budget), or in the inference (cancelled,
\* failed, an emission that stays unusable after its repair).
LeaveLoop ==
    /\ \/ phase = "think" /\ (aborted \/ step = MaxSteps)
       \/ phase = "infer"
    /\ EndTurn(slot)
    /\ UNCHANGED <<loaded, cancelled>>

\* The model's batch arrives: gate it, dispatch what can start.  Whether plan
\* mode is on is the operator's affair at any moment.
Emit(e, planMode) ==
    /\ phase = "infer"
    /\ Valid(e) \/ Splits(e) \/ Trims(e)
    /\ LET b == BatchOf(e)
           g == Gate(b, planMode)
       IN /\ batch' = b
          /\ IF aborted
             THEN /\ slot' = [i \in DOMAIN b |-> "cancelled"]
                  /\ UNCHANGED <<tracker, breaker>>
             ELSE /\ slot' = Launch(b, g.slot)
                  /\ tracker' = g.tracker
                  /\ breaker' = g.breaker
    /\ phase' = "groups"
    /\ UNCHANGED <<turns, aborted, step, loaded, ghosts, cancelled, rut, lull>>

\* Nothing of the batch was dispatched.
NothingToWaitFor ==
    /\ phase = "groups"
    /\ GroupsOver(slot)
    /\ Proceed(slot, tracker)

Dispatched(sl) == IF aborted THEN Skip(batch, sl) ELSE Launch(batch, sl)

\* A call settles with a result, which an error is too.
CallReturns(i, r) ==
    /\ phase \in {"groups", "tail"}
    /\ slot[i] = "running"
    /\ LET sl == [slot EXCEPT ![i] = r]
           tr == IF Terminal(batch[i]) THEN tracker ELSE RecordOutcome(tracker, batch[i], r)
       IN Proceed(IF phase = "groups" THEN Dispatched(sl) ELSE sl, tr)

\* A call honours the signal and throws.  Among pure reads it is swallowed;
\* in any other group it rejects the batch at once, whatever still runs.
CallThrows(i) ==
    /\ phase \in {"groups", "tail"}
    /\ slot[i] = "running"
    /\ aborted
    /\ LET sl == [slot EXCEPT ![i] = "thrown"]
       IN IF ClassOf(batch[i]) = "pure_read"
          THEN Proceed(Skip(batch, sl), tracker)
          ELSE CancelStep(sl)

\* The signal of the running turn fires.
Abort ==
    /\ MayAbort
    /\ phase # "idle"
    /\ ~aborted
    /\ aborted' = TRUE
    /\ UNCHANGED <<turns, phase, step, tracker, batch, slot, breaker, loaded, ghosts, cancelled, rut, lull>>

\* A ghost settles; its slot, its tracker and its step are nobody's any more.
GhostSettles == \E g \in ghosts :
    /\ ghosts' = ghosts \ {g}
    /\ UNCHANGED <<turns, phase, aborted, step, tracker, batch, slot, breaker, loaded, cancelled, rut, lull>>

CallSettles == \E i \in DOMAIN slot : (\E r \in Results : CallReturns(i, r)) \/ CallThrows(i)

Next ==
    \/ StartTurn
    \/ BeginStep
    \/ LeaveLoop
    \/ \E e \in Emissions, planMode \in BOOLEAN : Emit(e, planMode)
    \/ NothingToWaitFor
    \/ \E i \in DOMAIN slot : (\E r \in Results : CallReturns(i, r)) \/ CallThrows(i)
    \/ Abort
    \/ GhostSettles

Spec == Init /\ [][Next]_vars

\* An inference and a tool call return; the user owes neither turns nor aborts.
Fairness ==
    /\ WF_vars(BeginStep)
    /\ WF_vars(LeaveLoop)
    /\ WF_vars(NothingToWaitFor)
    /\ WF_vars(CallSettles)

FairSpec == Spec /\ Fairness

-----------------------------------------------------------------------------

Active(cls) == {i \in DOMAIN slot : ClassOf(batch[i]) = cls /\ slot[i] = "running"}

\* Calls that share a resource never meet: of a serial class one call runs,
\* after all earlier ones of the batch; a wave of reads is no wider than the
\* cap; an approval prompt is alone in its batch; and a terminal call runs
\* when everything else has settled.
DispatchOrder ==
    /\ \A i, j \in DOMAIN slot :
        i < j /\ slot[j] = "running" /\ ClassOf(batch[i]) = ClassOf(batch[j]) =>
            slot[i] \notin Waiting \/ ClassOf(batch[i]) = "pure_read"
    /\ Cardinality(Active("pure_read")) <= Cap
    /\ Active("approval_gated") # {} => Len(batch) = 1
    /\ Active("terminal") # {} => \A i \in DOMAIN slot : i < Len(slot) => slot[i] \notin Waiting

\* A step that is recorded is whole: a call outlives its step only where its
\* own turn was cancelled, and between steps the ring holds the outcome of every
\* call, none of them still pending.
StepsAreWhole ==
    /\ \A g \in ghosts : g.turn \in cancelled
    /\ phase \in {"think", "infer"} =>
        \A i \in DOMAIN tracker.history : tracker.history[i].out # "pending"

\* "a hard veto at 5": a call that returned the same in Critical steps in a
\* row does not run again in the next one.
RutIsCut == \A c \in Calls : rut[c].n <= Critical

\* "repeated identical tool calls draw ... a hard veto at 5; after 3 consecutive
\* vetoes the agent is forced into a graceful reply", for a call that is all its
\* steps do: it runs at most Critical times with the same answer, is vetoed at
\* most BreakerStreak times, and the next repeat has the forced reply for an
\* answer.
VetoesEndTurn == phase \in {"think", "infer"} /\ Len(lull.batch) = 1 =>
    lull.runs <= Critical /\ lull.vetoes <= BreakerStreak

\* The same of any batch.
RepeatsEnd == phase \in {"think", "infer"} => lull.runs + lull.vetoes <= Critical + BreakerStreak

\* Every turn ends: no batch waits for itself, for a skipped call or for one
\* that was cut off.
TurnEnds == phase # "idle" ~> phase = "idle"

=============================================================================
