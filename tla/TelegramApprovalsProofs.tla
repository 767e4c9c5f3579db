------------------------ MODULE TelegramApprovalsProofs ------------------------
(***************************************************************************)
(* The Telegram channel uses the gate by its operations only, so what is   *)
(* proved about the gate holds of it; and its own guarantee: whoever waits *)
(* for an answer can get one, with the one exception stop() makes.         *)
(***************************************************************************)
EXTENDS TelegramApprovals, ApprovalGateProofs

-----------------------------------------------------------------------------
(* The channel implements the gate's specification.                        *)

LEMMA GateStepOfChannel == ASSUME [Next]_vars PROVE [GateNext]_gateVars
  <1>1. CASE UNCHANGED vars
    BY <1>1 DEF vars
  <1>2. ASSUME NEW m \in Subs, Message(m) PROVE UNCHANGED gateVars
    BY <1>2 DEF Message
  <1>3. ASSUME NEW m \in Subs, StartTurn(m) PROVE UNCHANGED gateVars
    BY <1>3 DEF StartTurn
  <1>4. ASSUME NEW m \in Subs, EndTurn(m) \/ DropTurn(m) PROVE UNCHANGED gateVars
    BY <1>4 DEF EndTurn, DropTurn, FreeSlot
  <1>5. ASSUME NEW m \in Subs, NEW r \in Requests, Ask(m, r) PROVE GateNext
    <2>1. PICK a \in Subjects : Request(r, a, m \in aborted)
      BY <1>5 DEF Ask
    <2>2. Request(r, a, TRUE) \/ Request(r, a, FALSE)
      BY <2>1 DEF Request
    <2>3. QED
      BY <2>2 DEF GateNext
  <1>6. CASE NewSession
    BY <1>6 DEF NewSession
  <1>7. ASSUME NEW m \in Subs, AbortController(m) PROVE GateNext
    BY <1>7 DEF AbortController, RequestsOf, GateNext
  <1>8. CASE CancelCommand
    BY <1>7, <1>8 DEF CancelCommand
  <1>9. ASSUME NEW r \in Requests, NEW approved \in BOOLEAN, Settle(r, approved)
        PROVE  GateNext
    BY <1>9 DEF Settle, GateNext, Scopes
  <1>10. ASSUME NEW r \in Requests,
                SendFails(r) \/ Timeout(r) \/ \E approved \in BOOLEAN : Click(r, approved)
         PROVE  GateNext
    BY <1>9, <1>10 DEF SendFails, Timeout, Click
  <1>11. ASSUME NEW r \in Requests, NEW approved \in BOOLEAN, NEW sc \in Scopes,
                HostAnswers(r, approved, sc)
         PROVE  GateNext
    BY <1>11 DEF HostAnswers, GateNext
  <1>12. ASSUME NEW r \in Requests, SendDelivered(r) PROVE UNCHANGED gateVars
    BY <1>12 DEF SendDelivered
  <1>13. ASSUME NEW k \in Sessions, HostLeaves(k) PROVE GateNext
    <2>1. {k} \in SUBSET Sessions
      OBVIOUS
    <2>2. QED
      BY <1>13, <2>1 DEF HostLeaves, GateNext
  <1>14. CASE HostSetsLevel
    BY <1>14 DEF HostSetsLevel, GateNext
  <1>15. CASE Stop
    <2>1. CASE inflight # NoSub
      BY <1>15, <2>1 DEF Stop, AbortController, RequestsOf, GateNext
    <2>2. CASE inflight = NoSub
      BY <1>15, <2>2 DEF Stop
    <2>3. QED
      BY <2>1, <2>2
  <1>16. CASE BotStopped \/ Start
    BY <1>16 DEF BotStopped, Start
  <1>17. QED
    BY <1>1, <1>2, <1>3, <1>4, <1>5, <1>6, <1>8, <1>10, <1>11, <1>12, <1>13, <1>14, <1>15, <1>16
    DEF Next

\* Every behaviour of the channel is, in the gate's variables, a behaviour of
\* the gate: the bridge, the host and the turns reach it by its methods alone.
THEOREM ImplementsGate == Spec => GateSpec
  <1>1. Init => GateInit
    BY DEF Init
  <1>2. [Next]_vars => [GateNext]_gateVars
    BY GateStepOfChannel
  <1>3. QED
    BY <1>1, <1>2, PTL DEF Spec, GateSpec

\* In the Telegram channel no tool call goes unprompted but by the level or by a
\* grant of its own session.
THEOREM ChannelSilenceEarned == Spec => AutoIsEarned
  BY ImplementsGate, SilenceEarned

\* Clicks, timers, aborts and hosts that come late change no decision.
THEOREM ChannelDecisionsFinal == Spec => DecidedOnce
  BY ImplementsGate, DecisionsFinal

-----------------------------------------------------------------------------
(* Who waits is watched.  The invariant behind it: a message in the queue or *)
(* at work still holds the chat's slot, has lost it to a later message, or   *)
(* was aborted; so what stop() does not abort had been displaced.            *)

ShapeInv ==
    /\ pc \in [Subs -> Queue!PCs]
    /\ inflight \in Subs \cup {NoSub}
    /\ state \in [Requests -> States]
    /\ owner \in [Requests -> Subs \cup {NoSub}]
    /\ prompt \in [Requests -> Prompts]

SlotInv == \A m \in Subs : pc[m] \in {"waiting", "aborting", "running"} =>
    inflight = m \/ m \in displaced \/ m \in aborted

ChannelInv == ShapeInv /\ SlotInv /\ PendingIsLive /\ PromptsAreWatched

LEMMA InitChannel == ASSUME Init PROVE ChannelInv
  BY DEF Init, Queue!Init, Queue!PCs, GateInit, States, Prompts, ChannelInv, ShapeInv, SlotInv,
         PendingIsLive, PromptsAreWatched

\* A step of the queue changes where one message is, along enqueue()'s path.
LEMMA QueueStep ==
    ASSUME ShapeInv, NEW m \in Subs, NEW p \in Queue!PCs, pc' = [pc EXCEPT ![m] = p]
    PROVE  pc' \in [Subs -> Queue!PCs] /\ \A n \in Subs : n # m => pc'[n] = pc[n]
  BY DEF ShapeInv

\* A step that settles or keeps requests, moves no message and keeps the prompts
\* of what still waits within reach, keeps the invariant.
LEMMA CalmStep ==
    ASSUME ChannelInv, UNCHANGED <<pc, inflight, aborted, displaced, owner>>,
           state' \in [Requests -> States], prompt' \in [Requests -> Prompts],
           \A r \in Requests : state'[r] = "pending" => state[r] = "pending" /\
               \/ prompt'[r] = prompt[r]
               \/ prompt'[r] \in {"armed", "strayArmed"}
    PROVE  ChannelInv'
  BY DEF ChannelInv, ShapeInv, SlotInv, PendingIsLive, PromptsAreWatched

\* Abort(R) and resolve() only take requests out of pending.
LEMMA ResolveTakesOut ==
    ASSUME ShapeInv, NEW r \in Requests, NEW approved \in BOOLEAN, NEW sc \in Scopes,
           Resolve(r, approved, sc)
    PROVE  /\ state' \in [Requests -> States]
           /\ \A q \in Requests : state'[q] = "pending" => state[q] = "pending" /\ q # r
  BY DEF ShapeInv, Resolve, States

LEMMA AbortFacts ==
    ASSUME ShapeInv, NEW m \in Subs, AbortController(m)
    PROVE  /\ aborted' = aborted \cup {m}
           /\ pc' \in [Subs -> Queue!PCs]
           /\ \A n \in Subs : pc'[n] = pc[n] \/ (n = m /\ pc'[n] = "aborting")
           /\ \A n \in Subs : pc[n] = "running" => pc'[n] = "running"
           /\ \A n \in Subs : pc'[n] \in {"waiting", "aborting", "running"} =>
                  pc[n] \in {"waiting", "aborting", "running"}
           /\ state' \in [Requests -> States]
           /\ \A r \in Requests : state'[r] = "pending" => state[r] = "pending" /\ owner[r] # m
  <1>1. aborted' = aborted \cup {m}
    BY DEF AbortController
  <1>2. /\ state' \in [Requests -> States]
        /\ \A r \in Requests : state'[r] = "pending" => state[r] = "pending" /\ owner[r] # m
    BY DEF AbortController, Abort, RequestsOf, ShapeInv, States
  <1>3. pc' = IF pc[m] = "waiting" THEN [pc EXCEPT ![m] = "aborting"] ELSE pc
    BY DEF AbortController, Queue!AbortWaiting, queueVars
  <1>4. QED
    BY <1>1, <1>2, <1>3 DEF ShapeInv, Queue!PCs

LEMMA MessageStep == ASSUME ChannelInv, NEW m \in Subs, Message(m) PROVE ChannelInv'
  <1>1. /\ pc[m] = "idle"
        /\ pc' = [pc EXCEPT ![m] = "waiting"]
        /\ inflight' = m
        /\ displaced' = displaced \cup ({inflight} \ {NoSub})
        /\ UNCHANGED <<state, owner, prompt, aborted>>
    BY DEF Message, Queue!Enqueue, gateVars, promptVars
  <1>2. \A n \in Subs : n # m => pc'[n] = pc[n]
    BY <1>1 DEF ChannelInv, ShapeInv
  <1>3. ShapeInv'
    BY <1>1 DEF ChannelInv, ShapeInv, Queue!PCs
  <1>4. SlotInv'
    BY <1>1, <1>2, ChannelAssumption DEF ChannelInv, SlotInv
  <1>5. PendingIsLive' /\ PromptsAreWatched'
    BY <1>1, <1>2 DEF ChannelInv, ShapeInv, PendingIsLive, PromptsAreWatched
  <1>6. QED
    BY <1>3, <1>4, <1>5 DEF ChannelInv

LEMMA StartTurnStep == ASSUME ChannelInv, NEW m \in Subs, StartTurn(m) PROVE ChannelInv'
  <1>1. /\ pc[m] = "waiting"
        /\ pc' = [pc EXCEPT ![m] = "running"]
        /\ UNCHANGED <<state, owner, prompt, aborted, inflight, displaced>>
    BY DEF StartTurn, Queue!StartRun, gateVars, promptVars, chatVars
  <1>2. QED
    BY <1>1 DEF ChannelInv, ShapeInv, SlotInv, PendingIsLive, PromptsAreWatched, Queue!PCs

\* A turn that ends, or a message dropped from the queue, leaves nothing behind
\* that waits.
LEMMA LeaveStep ==
    ASSUME ChannelInv, NEW m \in Subs, EndTurn(m) \/ DropTurn(m)
    PROVE  ChannelInv'
  <1>1. \A r \in Requests : state[r] = "pending" => owner[r] # m
    BY DEF ChannelInv, PendingIsLive, EndTurn, DropTurn, Parked, RequestsOf, Queue!DropAborted
  <1>2. PICK p \in {"done", "dropped"} : pc' = [pc EXCEPT ![m] = p]
    BY DEF EndTurn, DropTurn, Queue!FinishRun, Queue!DropAborted
  <1>3. /\ inflight' = IF inflight = m THEN NoSub ELSE inflight
        /\ UNCHANGED <<state, owner, prompt, aborted, displaced>>
    BY DEF EndTurn, DropTurn, FreeSlot, gateVars, promptVars
  <1>4. ShapeInv' /\ SlotInv'
    BY <1>2, <1>3 DEF ChannelInv, ShapeInv, SlotInv, Queue!PCs
  <1>5. PendingIsLive' /\ PromptsAreWatched'
    BY <1>1, <1>2, <1>3 DEF ChannelInv, ShapeInv, PendingIsLive, PromptsAreWatched
  <1>6. QED
    BY <1>4, <1>5 DEF ChannelInv

LEMMA AskStep ==
    ASSUME ChannelInv, NEW m \in Subs, NEW r \in Requests, Ask(m, r)
    PROVE  ChannelInv'
  <1>1. PICK a \in Subjects :
            /\ pc[m] = "running"
            /\ Request(r, a, m \in aborted)
            /\ owner' = [owner EXCEPT ![r] = m]
            /\ prompt' = [prompt EXCEPT ![r] =
                    IF state'[r] = "pending" THEN Route(sess[m]) ELSE "settled"]
            /\ UNCHANGED <<pc, aborted, inflight, displaced>>
    BY DEF Ask, queueVars, chatVars
  <1>2. PICK s \in {"auto", "aborted", "pending"} :
            /\ state' = [state EXCEPT ![r] = s]
            /\ s = "pending" => m \notin aborted
    BY <1>1 DEF Request
  <1>3. ShapeInv' /\ SlotInv'
    BY <1>1, <1>2 DEF ChannelInv, ShapeInv, SlotInv, States, Prompts, Route
  <1>4. ASSUME NEW q \in Requests, q # r
        PROVE  state'[q] = state[q] /\ owner'[q] = owner[q] /\ prompt'[q] = prompt[q]
    BY <1>1, <1>2, <1>4 DEF ChannelInv, ShapeInv
  <1>5. /\ state'[r] = "pending" => m \notin aborted
        /\ owner'[r] = m
        /\ state'[r] = "pending" => prompt'[r] \in {"sending", "host"}
    BY <1>1, <1>2 DEF ChannelInv, ShapeInv, Route
  <1>6. PendingIsLive'
    BY <1>1, <1>4, <1>5, ChannelAssumption DEF ChannelInv, PendingIsLive
  <1>7. PromptsAreWatched'
    BY <1>1, <1>4, <1>5 DEF ChannelInv, PromptsAreWatched
  <1>8. QED
    BY <1>3, <1>6, <1>7 DEF ChannelInv

LEMMA CancelStep == ASSUME ChannelInv, CancelCommand PROVE ChannelInv'
  <1>1. /\ inflight \in Subs
        /\ AbortController(inflight)
        /\ UNCHANGED <<inflight, displaced, owner, prompt>>
    BY DEF CancelCommand, promptVars
  <1>2. ShapeInv' /\ SlotInv'
    BY <1>1, AbortFacts DEF ChannelInv, ShapeInv, SlotInv
  <1>3. PendingIsLive' /\ PromptsAreWatched'
    BY <1>1, AbortFacts DEF ChannelInv, ShapeInv, PendingIsLive, PromptsAreWatched
  <1>4. QED
    BY <1>2, <1>3 DEF ChannelInv

LEMMA StopStep == ASSUME ChannelInv, Stop PROVE ChannelInv'
  <1>1. /\ inflight' = NoSub
        /\ UNCHANGED <<displaced, owner>>
        /\ prompt' = [r \in Requests |->
                CASE prompt[r] = "armed" -> "cut"
                  [] prompt[r] = "sending" -> "stray"
                  [] OTHER -> prompt[r]]
    BY DEF Stop, CancelAll
  <1>2. prompt' \in [Requests -> Prompts]
    BY <1>1 DEF ChannelInv, ShapeInv, Prompts
  <1>3. \A r \in Requests : prompt'[r] =
            CASE prompt[r] = "armed" -> "cut"
              [] prompt[r] = "sending" -> "stray"
              [] OTHER -> prompt[r]
    BY <1>1
  <1>4. ASSUME \A r \in Requests : state'[r] = "pending" =>
                  state[r] = "pending" /\ owner[r] \in displaced,
               NEW r \in Requests, state'[r] = "pending"
        PROVE  \/ prompt'[r] \in {"host", "sending", "armed", "stray", "strayArmed"}
               \/ prompt'[r] = "cut" /\ owner'[r] \in displaced'
    BY <1>1, <1>3, <1>4 DEF ChannelInv, PromptsAreWatched
  <1>5. CASE inflight = NoSub
    <2>1. UNCHANGED <<pc, state, aborted>>
      BY <1>5 DEF Stop, queueVars, gateVars
    <2>2. ShapeInv' /\ SlotInv' /\ PendingIsLive'
      BY <1>1, <1>2, <1>5, <2>1, ChannelAssumption DEF ChannelInv, ShapeInv, SlotInv, PendingIsLive
    <2>3. \A r \in Requests : state'[r] = "pending" =>
              state[r] = "pending" /\ owner[r] \in displaced
      BY <1>5, <2>1, ChannelAssumption DEF ChannelInv, ShapeInv, SlotInv, PendingIsLive
    <2>4. QED
      BY <1>4, <2>2, <2>3 DEF ChannelInv, PromptsAreWatched
  <1>6. CASE inflight # NoSub
    <2>1. inflight \in Subs /\ AbortController(inflight)
      BY <1>6 DEF Stop, ChannelInv, ShapeInv
    <2>2. ShapeInv' /\ SlotInv'
      BY <1>1, <1>2, <2>1, AbortFacts DEF ChannelInv, ShapeInv, SlotInv
    <2>3. PendingIsLive'
      BY <1>1, <2>1, AbortFacts DEF ChannelInv, ShapeInv, PendingIsLive
    <2>4. \A r \in Requests : state'[r] = "pending" =>
              state[r] = "pending" /\ owner[r] \in displaced
      BY <2>1, AbortFacts DEF ChannelInv, ShapeInv, SlotInv, PendingIsLive
    <2>5. QED
      BY <1>4, <2>2, <2>3, <2>4 DEF ChannelInv, PromptsAreWatched
  <1>7. QED
    BY <1>5, <1>6

LEMMA SettleStep ==
    ASSUME ChannelInv, NEW r \in Requests, NEW approved \in BOOLEAN, NEW sc \in Scopes,
           Resolve(r, approved, sc), prompt' = [prompt EXCEPT ![r] = "settled"],
           UNCHANGED <<pc, inflight, aborted, displaced, owner>>
    PROVE  ChannelInv'
  <1>1. prompt' \in [Requests -> Prompts]
    BY DEF ChannelInv, ShapeInv, Prompts
  <1>2. \A q \in Requests : q # r => prompt'[q] = prompt[q]
    BY DEF ChannelInv, ShapeInv
  <1>3. QED
    BY <1>1, <1>2, CalmStep, ResolveTakesOut DEF ChannelInv

LEMMA PromptStep ==
    ASSUME ChannelInv, NEW r \in Requests,
           \/ SendFails(r) \/ Timeout(r)
           \/ \E approved \in BOOLEAN : Click(r, approved)
           \/ \E approved \in BOOLEAN, sc \in Scopes : HostAnswers(r, approved, sc)
    PROVE  ChannelInv'
  <1>1. PICK approved \in BOOLEAN, sc \in Scopes :
            /\ Resolve(r, approved, sc)
            /\ prompt' = [prompt EXCEPT ![r] = "settled"]
            /\ UNCHANGED <<pc, inflight, aborted, displaced, owner>>
    <2>1. "once" \in Scopes
      BY DEF Scopes
    <2>2. ASSUME NEW approved \in BOOLEAN, Settle(r, approved)
          PROVE  /\ Resolve(r, approved, "once")
                 /\ prompt' = [prompt EXCEPT ![r] = "settled"]
                 /\ UNCHANGED <<pc, inflight, aborted, displaced, owner>>
      BY <2>2 DEF Settle, queueVars, chatVars
    <2>3. CASE SendFails(r) \/ Timeout(r)
      BY <2>1, <2>2, <2>3 DEF SendFails, Timeout
    <2>4. CASE \E approved \in BOOLEAN : Click(r, approved)
      BY <2>1, <2>2, <2>4 DEF Click
    <2>5. CASE \E approved \in BOOLEAN, sc \in Scopes : HostAnswers(r, approved, sc)
      BY <2>5 DEF HostAnswers, queueVars, chatVars
    <2>6. QED
      BY <2>3, <2>4, <2>5
  <1>2. QED
    BY <1>1, SettleStep

LEMMA HostStep ==
    ASSUME ChannelInv, (\E k \in Sessions : HostLeaves(k)) \/ HostSetsLevel
    PROVE  ChannelInv'
  <1>1. UNCHANGED <<pc, inflight, aborted, displaced, owner, prompt>>
    BY DEF HostLeaves, HostSetsLevel, queueVars, chatVars, promptVars
  <1>2. /\ state' \in [Requests -> States]
        /\ \A r \in Requests : state'[r] = "pending" => state[r] = "pending"
    BY DEF ChannelInv, ShapeInv, HostLeaves, HostSetsLevel, DenyPending, ClearGrants, SetLevel, States
  <1>3. prompt' \in [Requests -> Prompts] /\ \A r \in Requests : prompt'[r] = prompt[r]
    BY <1>1 DEF ChannelInv, ShapeInv
  <1>4. QED
    BY <1>1, <1>2, <1>3, CalmStep

LEMMA QuietStep ==
    ASSUME ChannelInv,
           UNCHANGED vars \/ NewSession \/ BotStopped \/ Start
           \/ \E r \in Requests : SendDelivered(r)
    PROVE  ChannelInv'
  <1>1. UNCHANGED <<pc, inflight, aborted, displaced, owner, state>>
    BY DEF vars, NewSession, BotStopped, Start, SendDelivered, queueVars, chatVars, promptVars, gateVars
  <1>2. /\ prompt' \in [Requests -> Prompts]
        /\ \A r \in Requests : prompt'[r] = prompt[r] \/ prompt'[r] \in {"armed", "strayArmed"}
    BY DEF ChannelInv, ShapeInv, Prompts, vars, NewSession, BotStopped, Start, SendDelivered,
           promptVars
  <1>3. state' \in [Requests -> States]
    BY <1>1 DEF ChannelInv, ShapeInv
  <1>4. QED
    BY <1>1, <1>2, <1>3, CalmStep

LEMMA ChannelStep == ASSUME ChannelInv, [Next]_vars PROVE ChannelInv'
  BY MessageStep, StartTurnStep, LeaveStep, AskStep, CancelStep, StopStep, PromptStep, HostStep,
     QuietStep
  DEF Next

THEOREM ChannelInvariance == Spec => []ChannelInv
  <1>1. Init => ChannelInv
    BY InitChannel
  <1>2. ChannelInv /\ [Next]_vars => ChannelInv'
    BY ChannelStep
  <1>3. QED
    BY <1>1, <1>2, PTL DEF Spec

\* requireApproval's wait under approval-bridge.ts and telegram-channel.ts:
\* whoever waits can be answered, or was left behind by stop() after a later
\* message had taken the chat's slot.
THEOREM PromptsWatched == Spec => []PromptsAreWatched
  BY ChannelInvariance, PTL DEF ChannelInv

\* No aborted turn is left parked on the gate.
THEOREM PendingLive == Spec => []PendingIsLive
  BY ChannelInvariance, PTL DEF ChannelInv

-----------------------------------------------------------------------------
(* One prompt per session.  The queue lets one turn of a session run as long *)
(* as it drops none, and a turn asks one thing at a time.                    *)

\* The theorems of the queue, about the queue of this module.
QP == INSTANCE TurnControllerProofs WITH Hooked <- Subs, Signalled <- Subs

LEMMA QueueStepOfChannel == ASSUME [Next]_vars PROVE [Queue!Next]_queueVars
  <1>1. ASSUME NEW m \in Subs, AbortController(m) PROVE [Queue!Next]_queueVars
    BY <1>1 DEF AbortController, Queue!Next
  <1>2. ASSUME NEW m \in Subs, Message(m) \/ StartTurn(m) \/ EndTurn(m) \/ DropTurn(m)
        PROVE  Queue!Next
    BY <1>2 DEF Message, StartTurn, EndTurn, DropTurn, Queue!Next
  <1>3. ASSUME NEW m \in Subs, NEW r \in Requests, Ask(m, r) PROVE UNCHANGED queueVars
    BY <1>3 DEF Ask
  <1>4. CASE CancelCommand
    BY <1>1, <1>4 DEF CancelCommand
  <1>5. CASE Stop
    <2>1. CASE inflight # NoSub
      <3>1. AbortController(inflight)
        BY <1>5, <2>1 DEF Stop
      <3>2. QED
        BY <3>1 DEF AbortController, Queue!Next, Queue!AbortWaiting
    <2>2. CASE inflight = NoSub
      BY <1>5, <2>2 DEF Stop
    <2>3. QED
      BY <2>1, <2>2
  <1>6. ASSUME NEW r \in Requests,
               \/ SendDelivered(r) \/ SendFails(r) \/ Timeout(r)
               \/ \E approved \in BOOLEAN : Click(r, approved)
               \/ \E approved \in BOOLEAN, sc \in Scopes : HostAnswers(r, approved, sc)
        PROVE  UNCHANGED queueVars
    BY <1>6 DEF SendDelivered, SendFails, Timeout, Click, HostAnswers, Settle
  <1>7. ASSUME NEW k \in Sessions, HostLeaves(k) PROVE UNCHANGED queueVars
    BY <1>7 DEF HostLeaves
  <1>8. CASE NewSession \/ HostSetsLevel \/ BotStopped \/ Start \/ UNCHANGED vars
    BY <1>8 DEF NewSession, HostSetsLevel, BotStopped, Start, vars
  <1>9. QED
    BY <1>2, <1>3, <1>4, <1>5, <1>6, <1>7, <1>8 DEF Next

\* The chat's messages go through the queue by its operations only.
THEOREM ImplementsQueue == Spec => Queue!Spec
  <1>1. Init => Queue!Init
    BY DEF Init
  <1>2. [Next]_vars => [Queue!Next]_(Queue!tcVars)
    BY QueueStepOfChannel DEF queueVars, Queue!tcVars
  <1>3. QED
    BY <1>1, <1>2, PTL DEF Spec, Queue!Spec

LEMMA QueueFacts == Spec => [](Queue!TypeOK /\ Queue!AtMostOneRunUnlessDropped)
  <1>1. Queue!Spec => QP!Spec
    BY DEF Queue!Spec, QP!Spec, Queue!Init, QP!Init, Queue!Next, QP!Next, Queue!tcVars,
       QP!tcVars, Queue!Enqueue, QP!Enqueue, Queue!EnqueueAborted, QP!EnqueueAborted,
       Queue!StartRun, QP!StartRun, Queue!AbortWaiting, QP!AbortWaiting,
       Queue!DropAborted, QP!DropAborted, Queue!FinishRun, QP!FinishRun, Queue!Live,
       QP!Live, Queue!ReleaseTurn, QP!ReleaseTurn, Queue!PreviousSettled,
       QP!PreviousSettled
  <1>2. QP!Spec => []QP!TypeOK
    BY QP!TypeCorrect, ChannelAssumption
  <1>3. QP!Spec => []QP!AtMostOneRunUnlessDropped
    BY QP!MutualExclusion, ChannelAssumption
  <1>4. QP!TypeOK => Queue!TypeOK
    BY DEF QP!TypeOK, Queue!TypeOK, QP!PCs, Queue!PCs
  <1>5. QP!AtMostOneRunUnlessDropped => Queue!AtMostOneRunUnlessDropped
    BY DEF QP!AtMostOneRunUnlessDropped, Queue!AtMostOneRunUnlessDropped,
       QP!NoneDropped, Queue!NoneDropped, QP!Running, Queue!Running
  <1>6. QED
    BY <1>1, <1>2, <1>3, <1>4, <1>5, ImplementsQueue, PTL

\* A pending request is about the session of its turn, and a turn has one.
AskedInv ==
    /\ \A r \in Requests : state[r] = "pending" => asked[r].session = sess[owner[r]]
    /\ \A r, q \in Requests :
        state[r] = "pending" /\ state[q] = "pending" /\ owner[r] = owner[q] => r = q

LEMMA InitAsked == ASSUME Init PROVE AskedInv
  BY DEF Init, GateInit, AskedInv

\* Only a turn that asks brings a new pending request.
LEMMA PendingStep ==
    ASSUME ChannelInv, [Next]_vars, \A m \in Subs, r \in Requests : ~Ask(m, r)
    PROVE  /\ asked' = asked /\ owner' = owner
           /\ \A r \in Requests : state'[r] = "pending" => state[r] = "pending"
  <1>1. ASSUME UNCHANGED gateVars
        PROVE  asked' = asked /\ \A r \in Requests : state'[r] = "pending" => state[r] = "pending"
    BY <1>1 DEF gateVars
  <1>2. ASSUME NEW m \in Subs, Message(m) \/ StartTurn(m) \/ EndTurn(m) \/ DropTurn(m)
        PROVE  UNCHANGED gateVars /\ owner' = owner
    BY <1>2 DEF Message, StartTurn, EndTurn, DropTurn, FreeSlot, promptVars
  <1>3. ASSUME NEW m \in Subs, AbortController(m)
        PROVE  asked' = asked /\ \A r \in Requests : state'[r] = "pending" => state[r] = "pending"
    BY <1>3, AbortFacts DEF ChannelInv, AbortController, Abort
  <1>4. CASE CancelCommand
    BY <1>3, <1>4 DEF CancelCommand, promptVars
  <1>5. CASE Stop
    <2>1. CASE inflight # NoSub
      BY <1>3, <1>5, <2>1 DEF Stop, ChannelInv, ShapeInv
    <2>2. CASE inflight = NoSub
      BY <1>1, <1>5, <2>2 DEF Stop
    <2>3. QED
      BY <1>5, <2>1, <2>2 DEF Stop
  <1>6. ASSUME NEW r \in Requests, NEW approved \in BOOLEAN, NEW sc \in Scopes,
               Resolve(r, approved, sc)
        PROVE  asked' = asked /\ \A q \in Requests : state'[q] = "pending" => state[q] = "pending"
    BY <1>6, ResolveTakesOut DEF ChannelInv, Resolve
  <1>7. "once" \in Scopes
    BY DEF Scopes
  <1>8. ASSUME NEW r \in Requests, NEW approved \in BOOLEAN, Settle(r, approved)
        PROVE  /\ asked' = asked /\ owner' = owner
               /\ \A q \in Requests : state'[q] = "pending" => state[q] = "pending"
    BY <1>6, <1>7, <1>8 DEF Settle
  <1>9. ASSUME NEW r \in Requests,
               SendFails(r) \/ Timeout(r) \/ \E approved \in BOOLEAN : Click(r, approved)
        PROVE  /\ asked' = asked /\ owner' = owner
               /\ \A q \in Requests : state'[q] = "pending" => state[q] = "pending"
    BY <1>8, <1>9 DEF SendFails, Timeout, Click
  <1>10. ASSUME NEW r \in Requests, NEW approved \in BOOLEAN, NEW sc \in Scopes,
                HostAnswers(r, approved, sc)
         PROVE  /\ asked' = asked /\ owner' = owner
                /\ \A q \in Requests : state'[q] = "pending" => state[q] = "pending"
    BY <1>6, <1>10 DEF HostAnswers
  <1>11. ASSUME NEW k \in Sessions, HostLeaves(k) \/ HostSetsLevel
         PROVE  /\ asked' = asked /\ owner' = owner
                /\ \A q \in Requests : state'[q] = "pending" => state[q] = "pending"
    BY <1>11 DEF HostLeaves, HostSetsLevel, DenyPending, ClearGrants, SetLevel, promptVars
  <1>12. ASSUME NEW r \in Requests, SendDelivered(r)
         PROVE  UNCHANGED gateVars /\ owner' = owner
    BY <1>12 DEF SendDelivered
  <1>13. CASE NewSession \/ BotStopped \/ Start \/ UNCHANGED vars
    BY <1>1, <1>13 DEF NewSession, BotStopped, Start, vars, promptVars
  <1>14. CASE HostSetsLevel
    BY <1>14 DEF HostSetsLevel, SetLevel, promptVars
  <1>15. QED
    BY <1>1, <1>2, <1>4, <1>5, <1>9, <1>10, <1>11, <1>12, <1>13, <1>14 DEF Next

LEMMA StepAsked ==
    ASSUME ChannelInv, GateTypeOK, AskedInv, [Next]_vars
    PROVE  AskedInv'
  <1>1. sess' = sess
    BY QueueStepOfChannel DEF queueVars, Queue!Next, Queue!Enqueue, Queue!EnqueueAborted,
       Queue!StartRun, Queue!AbortWaiting, Queue!DropAborted, Queue!FinishRun
  <1>2. CASE \A m \in Subs, r \in Requests : ~Ask(m, r)
    BY <1>1, <1>2, PendingStep DEF AskedInv
  <1>3. ASSUME NEW m \in Subs, NEW r \in Requests, Ask(m, r) PROVE AskedInv'
    <2>1. PICK a \in Subjects :
              /\ ~ Parked(m)
              /\ a.session = sess[m]
              /\ Request(r, a, m \in aborted)
              /\ owner' = [owner EXCEPT ![r] = m]
      BY <1>3 DEF Ask
    <2>2. asked'[r].session = sess[m] /\ owner'[r] = m
      BY <2>1 DEF Request, GateTypeOK, ChannelInv, ShapeInv
    <2>3. \A q \in Requests : q # r =>
              state'[q] = state[q] /\ asked'[q] = asked[q] /\ owner'[q] = owner[q]
      BY <2>1 DEF Request, GateTypeOK, ChannelInv, ShapeInv
    <2>4. \A q \in Requests : state[q] = "pending" => owner[q] # m
      BY <2>1 DEF Parked, RequestsOf
    <2>5. \A q \in Requests : state'[q] = "pending" => asked'[q].session = sess'[owner'[q]]
      BY <1>1, <2>2, <2>3 DEF AskedInv
    <2>6. ASSUME NEW p \in Requests, NEW q \in Requests,
                 state'[p] = "pending", state'[q] = "pending", owner'[p] = owner'[q]
          PROVE  p = q
      BY <2>2, <2>3, <2>4, <2>6 DEF AskedInv
    <2>7. QED
      BY <2>5, <2>6 DEF AskedInv
  <1>4. QED
    BY <1>2, <1>3

\* approval-gate.ts, "At most one request is pending per session by design": a
\* turn waits for one answer at a time, and two turns of a session that wait
\* have one of its messages dropped from the queue to thank for it.
THEOREM OnePending == Spec => []OnePendingPerSession
  <1>1. Spec => [](ChannelInv /\ GateTypeOK)
    <2>1. GateInv => GateTypeOK
      BY DEF GateInv
    <2>2. QED
      BY <2>1, ImplementsGate, GateInvariance, ChannelInvariance, PTL
  <1>2. Init => AskedInv
    BY InitAsked
  <1>3. ChannelInv /\ GateTypeOK /\ AskedInv /\ [Next]_vars => AskedInv'
    BY StepAsked
  <1>4. Spec => []AskedInv
    BY <1>1, <1>2, <1>3, PTL DEF Spec
  <1>5. Queue!TypeOK /\ Queue!AtMostOneRunUnlessDropped /\ ChannelInv /\ AskedInv
            => OnePendingPerSession
    <2>1. SUFFICES ASSUME Queue!TypeOK, Queue!AtMostOneRunUnlessDropped, ChannelInv, AskedInv,
                          NEW r \in Requests, NEW q \in Requests, r # q,
                          state[r] = "pending", state[q] = "pending",
                          asked[r].session = asked[q].session
                   PROVE  owner[r] # owner[q] /\ ~ Queue!NoneDropped(asked[r].session)
      BY DEF OnePendingPerSession
    <2>2. /\ owner[r] \in Subs /\ pc[owner[r]] = "running"
          /\ owner[q] \in Subs /\ pc[owner[q]] = "running"
      BY <2>1 DEF ChannelInv, ShapeInv, PendingIsLive
    <2>3. /\ sess[owner[r]] = asked[r].session /\ sess[owner[q]] = asked[r].session
          /\ sess[owner[r]] \in Sessions
      BY <2>1, <2>2 DEF AskedInv, Queue!TypeOK
    <2>4. owner[r] # owner[q]
      BY <2>1 DEF AskedInv
    <2>5. Queue!NoneDropped(asked[r].session) => owner[r] = owner[q]
      BY <2>1, <2>2, <2>3 DEF Queue!AtMostOneRunUnlessDropped, Queue!Running
    <2>6. QED
      BY <2>4, <2>5
  <1>6. QED
    BY <1>1, <1>4, <1>5, QueueFacts, PTL

-----------------------------------------------------------------------------

\* The types of what neither the queue, nor the gate, nor ChannelInv speaks of.
LinkTypes ==
    /\ aborted \subseteq Subs
    /\ current \in Sessions \cup {NoSession}
    /\ bound \in Sessions \cup {NoSession}
    /\ channel \in {"up", "stopping", "down"}
    /\ stops \in 0..MaxStops
    /\ displaced \subseteq Subs

LEMMA StepLink ==
    ASSUME LinkTypes, ChannelInv, Queue!TypeOK, [Next]_vars
    PROVE  LinkTypes'
  <1>1. ASSUME NEW m \in Subs, Message(m) PROVE LinkTypes'
    <2>1. sess[m] \in Sessions
      BY DEF Queue!TypeOK
    <2>2. QED
      BY <1>1, <2>1 DEF Message, Bind, LinkTypes, ChannelInv, ShapeInv
  <1>2. ASSUME NEW m \in Subs, StartTurn(m) \/ EndTurn(m) \/ DropTurn(m) PROVE LinkTypes'
    BY <1>2 DEF StartTurn, EndTurn, DropTurn, FreeSlot, LinkTypes, chatVars, linkVars
  <1>3. ASSUME NEW m \in Subs, AbortController(m) PROVE aborted' \subseteq Subs
    BY <1>3 DEF AbortController, LinkTypes
  <1>4. CASE CancelCommand
    BY <1>3, <1>4 DEF CancelCommand, linkVars, LinkTypes
  <1>5. CASE Stop
    <2>1. aborted' \subseteq Subs
      BY <1>3, <1>5 DEF Stop, LinkTypes, ChannelInv, ShapeInv
    <2>2. stops' \in 0..MaxStops
      BY <1>5, ChannelAssumption DEF Stop, LinkTypes
    <2>3. QED
      BY <1>5, <2>1, <2>2 DEF Stop, LinkTypes
  <1>6. ASSUME NEW m \in Subs, NEW r \in Requests, Ask(m, r) PROVE LinkTypes'
    BY <1>6 DEF Ask, chatVars, linkVars, LinkTypes
  <1>7. ASSUME NEW r \in Requests,
               \/ SendDelivered(r) \/ SendFails(r) \/ Timeout(r)
               \/ \E approved \in BOOLEAN : Click(r, approved)
               \/ \E approved \in BOOLEAN, sc \in Scopes : HostAnswers(r, approved, sc)
        PROVE  LinkTypes'
    BY <1>7 DEF SendDelivered, SendFails, Timeout, Click, HostAnswers, Settle, chatVars, linkVars,
       LinkTypes
  <1>8. ASSUME NEW k \in Sessions, HostLeaves(k) PROVE LinkTypes'
    BY <1>8 DEF HostLeaves, chatVars, linkVars, LinkTypes
  <1>9. CASE NewSession \/ HostSetsLevel \/ BotStopped \/ Start \/ UNCHANGED vars
    BY <1>9 DEF NewSession, HostSetsLevel, BotStopped, Start, vars, chatVars, linkVars, LinkTypes
  <1>10. QED
    BY <1>1, <1>2, <1>4, <1>5, <1>6, <1>7, <1>8, <1>9 DEF Next

\* Queue, gate and channel keep their types together.
THEOREM ChannelTypes == Spec => []TypeOK
  <1>1. Init => LinkTypes
    BY ChannelAssumption DEF Init, LinkTypes
  <1>2. LinkTypes /\ ChannelInv /\ Queue!TypeOK /\ [Next]_vars => LinkTypes'
    BY StepLink
  <1>3. Spec => []LinkTypes
    BY <1>1, <1>2, ChannelInvariance, QueueFacts, PTL DEF Spec
  <1>4. GateInv => GateTypeOK
    BY DEF GateInv
  <1>5. Queue!TypeOK /\ GateTypeOK /\ ChannelInv /\ LinkTypes => TypeOK
    BY DEF ChannelInv, ShapeInv, LinkTypes, TypeOK
  <1>6. QED
    BY <1>3, <1>4, <1>5, ImplementsGate, GateInvariance, ChannelInvariance, QueueFacts, PTL

=============================================================================
