----------------------------- MODULE SteeredTurns -----------------------------
(***************************************************************************)
(* Turns of the agent loop under the turn queue, with messages steered     *)
(* into a turn that already runs and with the stored session each turn     *)
(* starts from and writes back.                                            *)
(*                                                                         *)
(* runTurn(session, message) submits a body to the queue.  The body loads  *)
(* the stored session, opens the steering window, alternates between the   *)
(* gap before a step (phase "gap") and the step itself ("step": the        *)
(* inference and its tools), drains the window at every step boundary,     *)
(* closes and drains it once when the turn ends ("flushed"), saves the     *)
(* session and returns what was never drained to its host.                 *)
(***************************************************************************)
EXTENDS Naturals, Sequences, FiniteSets

CONSTANTS Sessions, Subs, Hooked, Signalled, NoSub,
          NumMsgs,        \* steering messages, numbered in the order typed
          MaxSteps,       \* options.maxSteps
          MaxPending,     \* MAX_PENDING_STEERS
          SaveMayFail,    \* BOOLEAN: sessionStore.save may throw
          MayShutdown     \* BOOLEAN: shutdown() may be called

Msgs == 1..NumMsgs

ASSUME SteeringAssumption ==
    /\ Hooked \subseteq Subs
    /\ Signalled \subseteq Subs
    /\ NoSub \notin Subs
    /\ NumMsgs \in Nat
    /\ MaxSteps \in Nat
    /\ MaxPending \in Nat \ {0}
    /\ Subs \cap Msgs = {}
    /\ SaveMayFail \in BOOLEAN
    /\ MayShutdown \in BOOLEAN

VARIABLES pc, sess, prev, released, queues, hooks, busy, ahead
VARIABLES phase,      \* where the running body of each submission is
          steps,      \* the step index i of the loop
          local,      \* the transcript the turn works on
          stored,     \* the transcript of each session in the session store
          accepting,  \* SteeringInbox.accepting
          inbox,      \* SteeringInbox.bySession
          fate,       \* what became of each steering message
          takenBy,    \* the turn that drained it, at a step or at its end
          during,     \* history: the turns running when it was accepted
          host        \* "up", then "stopping" in shutdown(), then "closed"

Queue == INSTANCE TurnController

queueVars == <<pc, sess, prev, released, queues, hooks, busy, ahead>>
turnVars == <<phase, steps, local, stored>>
windowVars == <<accepting, inbox, fate, takenBy, during>>
vars == <<queueVars, turnVars, windowVars, host>>

Phases == {"none", "gap", "step", "flushed", "over"}
Fates == {"unsent", "refused", "pending", "applied", "handed",
          "returned", "logged", "cleared", "lost"}

TypeOK ==
    /\ Queue!TypeOK
    /\ phase \in [Subs -> Phases]
    /\ steps \in [Subs -> 0..MaxSteps]
    /\ local \in [Subs -> Seq(Subs \cup Msgs)]
    /\ stored \in [Sessions -> Seq(Subs \cup Msgs)]
    /\ accepting \in SUBSET Sessions
    /\ inbox \in [Sessions -> Seq(Msgs)]
    /\ \A k \in Sessions : Len(inbox[k]) <= MaxPending
    /\ fate \in [Msgs -> Fates]
    /\ takenBy \in [Msgs -> Subs \cup {NoSub}]
    /\ during \in [Msgs -> SUBSET Subs]
    /\ host \in {"up", "stopping", "closed"}

Init ==
    /\ Queue!Init
    /\ phase = [s \in Subs |-> "none"]
    /\ steps = [s \in Subs |-> 0]
    /\ local = [s \in Subs |-> <<>>]
    /\ stored = [k \in Sessions |-> <<>>]
    /\ accepting = {}
    /\ inbox = [k \in Sessions |-> <<>>]
    /\ fate = [m \in Msgs |-> "unsent"]
    /\ takenBy = [m \in Msgs |-> NoSub]
    /\ during = [m \in Msgs |-> {}]
    /\ host = "up"

Elements(seq) == {seq[i] : i \in DOMAIN seq}

\* SteeringInbox.drain for session k by turn s: the messages get fate f.
Drain(s, k, f) ==
    /\ inbox' = [inbox EXCEPT ![k] = <<>>]
    /\ fate' = [m \in Msgs |-> IF m \in Elements(inbox[k]) THEN f ELSE fate[m]]
    /\ takenBy' = [m \in Msgs |-> IF m \in Elements(inbox[k]) THEN s ELSE takenBy[m]]
    /\ UNCHANGED during

\* Mutant: the final drain leaves the window open until the queue moves on.
DrainLeavesOpen(s, k, f) == Drain(s, k, f) /\ UNCHANGED accepting

\* Mutant: the window closes and the inbox keeps what is pending.
CloseOnly(s, k, f) ==
    /\ accepting' = accepting \ {k}
    /\ UNCHANGED <<inbox, fate, takenBy, during>>

\* SteeringInbox.closeAndDrain: the window closes in the same step.
CloseAndDrain(s, k, f) == Drain(s, k, f) /\ accepting' = accepting \ {k}

-----------------------------------------------------------------------------

\* runTurn() submits; a submission may be refused, or abandoned in the queue.
SubmitTurn(s) ==
    /\ Queue!Enqueue(s) \/ Queue!EnqueueAborted(s)
    /\ UNCHANGED <<turnVars, windowVars, host>>

LeaveQueue(s) ==
    /\ Queue!AbortWaiting(s) \/ Queue!DropAborted(s)
    /\ UNCHANGED <<turnVars, windowVars, host>>

\* Mutant: the body works on the copy its caller made before any turn ran.
StartTurnOnSnapshot(s) ==
    /\ Queue!StartRun(s)
    /\ phase' = [phase EXCEPT ![s] = "gap"]
    /\ local' = [local EXCEPT ![s] = <<s>>]
    /\ accepting' = accepting \cup {sess[s]}
    /\ UNCHANGED <<steps, stored, inbox, fate, takenBy, during, host>>

\* The queue calls the body, which up to its first await loads the freshest
\* stored session, opens the window and records the user's message.  With the
\* store closed the load throws and the body is over at once.
StartTurn(s) ==
    /\ Queue!StartRun(s)
    /\ IF host # "closed"
       THEN /\ phase' = [phase EXCEPT ![s] = "gap"]
            /\ local' = [local EXCEPT ![s] = Append(stored[sess[s]], s)]
            /\ accepting' = accepting \cup {sess[s]}
       ELSE /\ phase' = [phase EXCEPT ![s] = "over"]
            /\ UNCHANGED <<local, accepting>>
    /\ UNCHANGED <<steps, stored, inbox, fate, takenBy, during, host>>

\* Mutant: steered text goes before what the transcript already has.
BeginStepPrepends(s) ==
    /\ phase[s] = "gap"
    /\ steps[s] < MaxSteps
    /\ phase' = [phase EXCEPT ![s] = "step"]
    /\ steps' = [steps EXCEPT ![s] = @ + 1]
    /\ local' = [local EXCEPT ![s] = inbox[sess[s]] \o @]
    /\ Drain(s, sess[s], "applied")
    /\ UNCHANGED <<queueVars, stored, accepting, host>>

\* Mutant: pending messages join the transcript and stay in the inbox until the
\* turn ends.
BeginStepPeeks(s) ==
    /\ phase[s] = "gap"
    /\ steps[s] < MaxSteps
    /\ phase' = [phase EXCEPT ![s] = "step"]
    /\ steps' = [steps EXCEPT ![s] = @ + 1]
    /\ local' = [local EXCEPT ![s] = @ \o inbox[sess[s]]]
    /\ UNCHANGED <<queueVars, stored, windowVars, host>>

\* A step boundary: pending messages join the transcript and this step's
\* prompt.
BeginStep(s) ==
    /\ phase[s] = "gap"
    /\ steps[s] < MaxSteps
    /\ phase' = [phase EXCEPT ![s] = "step"]
    /\ steps' = [steps EXCEPT ![s] = @ + 1]
    /\ local' = [local EXCEPT ![s] = @ \o inbox[sess[s]]]
    /\ Drain(s, sess[s], "applied")
    /\ UNCHANGED <<queueVars, stored, accepting, host>>

\* A step that called tools: on to the next boundary.
ContinueTurn(s) ==
    /\ phase[s] = "step"
    /\ phase' = [phase EXCEPT ![s] = "gap"]
    /\ UNCHANGED <<queueVars, steps, local, stored, windowVars, host>>

\* The turn ends: after a step (reply, finish, breaker, cancelled or failed),
\* or at a boundary with the step budget spent or the signal aborted.
\* flushSteering puts what is still pending into the result.
EndTurn(s) ==
    /\ \/ phase[s] = "step"
       \/ phase[s] = "gap" /\ (steps[s] = MaxSteps \/ s \in Signalled)
    /\ phase' = [phase EXCEPT ![s] = "flushed"]
    /\ CloseAndDrain(s, sess[s], "handed")
    /\ UNCHANGED <<queueVars, steps, local, stored, host>>

\* The turn's own state goes with its call frame.
FreeFrame(s) ==
    /\ phase' = [phase EXCEPT ![s] = "over"]
    /\ steps' = [steps EXCEPT ![s] = 0]
    /\ local' = [local EXCEPT ![s] = <<>>]

\* Mutant: runTurn has no finally block.
ThrowTurnNoFinally(s) ==
    /\ phase[s] \in {"gap", "step"}
    /\ FreeFrame(s)
    /\ UNCHANGED <<queueVars, stored, windowVars, host>>

\* An error outside the classified handling, before or after the loop's try
\* block, leaves runTurnInner: the finally block of runTurn closes the window
\* and logs what it strands; nothing is saved.
ThrowTurn(s) ==
    /\ phase[s] \in {"gap", "step"}
    /\ FreeFrame(s)
    /\ CloseAndDrain(s, sess[s], "logged")
    /\ UNCHANGED <<queueVars, stored, host>>

\* The messages in the result of turn s, still on their way to its host.
Resolve(s, f) == fate' =
    [m \in Msgs |-> IF fate[m] = "handed" /\ takenBy[m] = s THEN f ELSE fate[m]]

\* executeTurn saves the session, the queue moves on, and the host gets the
\* result with the undelivered messages.
ReturnTurn(s) ==
    /\ phase[s] = "flushed"
    /\ host # "closed"
    /\ FreeFrame(s)
    /\ stored' = [stored EXCEPT ![sess[s]] = local[s]]
    /\ Resolve(s, "returned")
    /\ Queue!FinishRun(s)
    /\ UNCHANGED <<accepting, inbox, takenBy, during, host>>

\* The save throws (the store is closed, or the write fails): runTurn rejects
\* and the result with its undelivered messages is gone.
FailSave(s) ==
    /\ phase[s] = "flushed"
    /\ host = "closed" \/ SaveMayFail
    /\ FreeFrame(s)
    /\ Resolve(s, "lost")
    /\ Queue!FinishRun(s)
    /\ UNCHANGED <<stored, accepting, inbox, takenBy, during, host>>

\* A body that threw settles.
RejectTurn(s) ==
    /\ phase[s] = "over"
    /\ Queue!FinishRun(s)
    /\ UNCHANGED <<turnVars, windowVars, host>>

\* steer(): push the next message, to any session.  Accepted only while the
\* window is open and below the cap.
Steer(k) == \E m \in Msgs :
    /\ fate[m] = "unsent"
    /\ \A n \in 1..(m - 1) : fate[n] # "unsent"
    /\ IF k \in accepting /\ Len(inbox[k]) < MaxPending
       THEN /\ inbox' = [inbox EXCEPT ![k] = Append(@, m)]
            /\ fate' = [fate EXCEPT ![m] = "pending"]
            /\ during' = [during EXCEPT ![m] = Queue!Running(k)]
       ELSE /\ fate' = [fate EXCEPT ![m] = "refused"]
            /\ UNCHANGED <<inbox, during>>
    /\ UNCHANGED <<queueVars, turnVars, accepting, takenBy, host>>

\* shutdown() first clears the inbox; the turns that run are not stopped, and
\* one still in the queue may start and open its window again.
Shutdown ==
    /\ MayShutdown
    /\ host = "up"
    /\ host' = "stopping"
    /\ accepting' = {}
    /\ inbox' = [k \in Sessions |-> <<>>]
    /\ fate' = [m \in Msgs |-> IF fate[m] = "pending" THEN "cleared" ELSE fate[m]]
    /\ UNCHANGED <<queueVars, turnVars, takenBy, during>>

\* After the channels, MCP servers and browser stopped, shutdown() closes the
\* session store.
CloseStore ==
    /\ host = "stopping"
    /\ host' = "closed"
    /\ UNCHANGED <<queueVars, turnVars, windowVars>>

Next ==
    \/ \E s \in Subs :
        \/ SubmitTurn(s) \/ LeaveQueue(s)
        \/ StartTurn(s) \/ BeginStep(s) \/ ContinueTurn(s) \/ EndTurn(s) \/ ThrowTurn(s)
        \/ ReturnTurn(s) \/ FailSave(s) \/ RejectTurn(s)
    \/ \E k \in Sessions : Steer(k)
    \/ Shutdown
    \/ CloseStore

Spec == Init /\ [][Next]_vars

\* Promise reactions run, an inference or a tool call returns, and a body that
\* is over settles; users owe neither submissions nor messages.
Fairness == \A s \in Subs :
    /\ WF_vars(StartTurn(s))
    /\ WF_vars(LeaveQueue(s) /\ pc[s] = "aborting")
    /\ WF_vars(BeginStep(s))
    /\ WF_vars(ContinueTurn(s) \/ EndTurn(s))
    /\ WF_vars(ReturnTurn(s) \/ FailSave(s))
    /\ WF_vars(RejectTurn(s))

FairSpec == Spec /\ Fairness

-----------------------------------------------------------------------------

Accepted(m) == fate[m] \notin {"unsent", "refused"}

\* An open window always belongs to a turn that runs and has yet to close it,
\* so what it accepts is drained: no message waits in an inbox without a
\* reader.  Holds for overlapping turns too.
WindowHasReader == \A k \in Sessions :
    /\ k \in accepting => \E s \in Queue!Running(k) : phase[s] \in {"gap", "step"}
    /\ inbox[k] # <<>> => k \in accepting

InInbox(m) == \E k \in Sessions : m \in Elements(inbox[k])
InTranscript(m) ==
    \/ \E k \in Sessions : m \in Elements(stored[k])
    \/ \E s \in Subs : m \in Elements(local[s])

\* A message that was accepted is heard or handed back, never both and never
\* neither: it is pending exactly while it waits in an inbox a running turn will
\* drain; it stands in a transcript only if a step boundary took it, and then in
\* the one its turn will save; and it is on its way to a host only in the result
\* of a turn that has closed its window and has yet to return.
HeardOrHandedBack ==
    /\ WindowHasReader
    /\ \A m \in Msgs : fate[m] = "pending" <=> InInbox(m)
    /\ \A m \in Msgs : InTranscript(m) => fate[m] = "applied"
    /\ \A m \in Msgs, s \in Subs :
        fate[m] = "applied" /\ takenBy[m] = s /\ phase[s] \in {"gap", "step", "flushed"}
            => m \in Elements(local[s])
    /\ \A m \in Msgs : fate[m] = "handed" =>
        \E s \in Subs : takenBy[m] = s /\ phase[s] = "flushed"

\* A message is drained by a turn that ran when it was accepted, never by a
\* later one "under a 'while you were working' notice about a turn that had
\* already ended" - in a session without a drop.
SteersStayInTheirTurn == \A m \in Msgs :
    takenBy[m] # NoSub /\ Queue!NoneDropped(sess[takenBy[m]]) => takenBy[m] \in during[m]

\* Messages enter a transcript in the order they were typed, and each once.
TranscriptInOrder == \A k \in Sessions, s \in Subs :
    \A t \in {stored[k], local[s]} : \A i, j \in DOMAIN t :
        i < j /\ t[i] \in Msgs /\ t[j] \in Msgs => t[i] < t[j]

\* What a session has stored is never overwritten by a turn that started from
\* an older copy, in a session without a drop.
TranscriptGrows == [][\A k \in Sessions : Queue!NoneDropped(k)' =>
    /\ Len(stored[k]) <= Len(stored'[k])
    /\ SubSeq(stored'[k], 1, Len(stored[k])) = stored[k]]_vars

\* An accepted message does not stay pending for ever.
SteersResolve == \A m \in Msgs : fate[m] = "pending" ~> fate[m] # "pending"

=============================================================================
