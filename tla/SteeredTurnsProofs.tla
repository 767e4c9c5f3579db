-------------------------- MODULE SteeredTurnsProofs --------------------------
(***************************************************************************)
(* Theorems about SteeredTurns for every set of sessions, submissions and  *)
(* messages: its turns are submissions of TurnController, an open steering *)
(* window has a reader, a message is drained by a turn it was typed into   *)
(* and is heard or handed back, never both, messages enter transcripts in  *)
(* order, and a stored transcript only grows.                              *)
(***************************************************************************)
EXTENDS SteeredTurns, SequenceTheorems, TLAPS

\* The theorems of the queue, about the queue of this module.
QP == INSTANCE TurnControllerProofs

\* The phases in which a body still reads its session's inbox, and those in
\* which it works on a transcript it has yet to save.
Reading(s) == phase[s] \in {"gap", "step"}
InTurn(s) == phase[s] \in {"gap", "step", "flushed"}

\* Only a submission the queue runs is inside a turn.
PhaseInv == \A s \in Subs : InTurn(s) => pc[s] = "running"

\* A message waits in one inbox, pending, and nobody has taken it; messages are
\* sent in the order of their numbers.
InboxInv ==
    /\ \A m, n \in Msgs : fate[m] = "unsent" /\ m < n => fate[n] = "unsent"
    /\ \A k \in Sessions : \A m \in Elements(inbox[k]) : fate[m] = "pending"
    /\ \A k, l \in Sessions : k # l => Elements(inbox[k]) \cap Elements(inbox[l]) = {}
    /\ \A m \in Msgs : takenBy[m] # NoSub => fate[m] \notin {"unsent", "pending"}

\* Whatever waits in an inbox was accepted while the turn that now runs did.
StayInv == \A k \in Sessions : Queue!NoneDropped(k) =>
    \A m \in Elements(inbox[k]) : Queue!Running(k) \subseteq during[m]

Prefix(a, b) == Len(a) <= Len(b) /\ \A i \in 1..Len(a) : b[i] = a[i]

\* What a turn works on continues what its session has stored.
CopyInv == \A s \in Subs :
    InTurn(s) /\ Queue!NoneDropped(sess[s]) => Prefix(stored[sess[s]], local[s])

\* Only a submission whose body ran has taken a message.
TakenInv == \A m \in Msgs, s \in Subs : takenBy[m] = s => pc[s] \in {"running", "done"}

Increasing(t) == \A i, j \in DOMAIN t :
    i < j /\ t[i] \in Msgs /\ t[j] \in Msgs => t[i] < t[j]

\* The transcripts of session k: the stored one and its turns' own.
Transcripts(k) == {stored[k]} \cup {local[s] : s \in {t \in Subs : sess[t] = k}}

\* What waits in an inbox comes after everything the session's transcripts
\* hold already.
OrderInv == \A k \in Sessions :
    /\ Increasing(inbox[k])
    /\ \A t \in Transcripts(k) : Increasing(t)
    /\ \A t \in Transcripts(k) : \A x \in Elements(t) \cap Msgs :
        /\ fate[x] # "unsent"
        /\ \A m \in Elements(inbox[k]) : x < m

\* The inductive invariant.
IInv ==
    /\ TypeOK
    /\ PhaseInv
    /\ WindowHasReader
    /\ InboxInv
    /\ StayInv
    /\ SteersStayInTheirTurn
    /\ CopyInv
    /\ OrderInv
    /\ TakenInv
    /\ HeardOrHandedBack

-----------------------------------------------------------------------------

\* What Append and concatenation do to the elements and to the order.
LEMMA ElementsAppend ==
    ASSUME NEW S, NEW t \in Seq(S), NEW e
    PROVE  Elements(Append(t, e)) = Elements(t) \cup {e}
<1>1. /\ DOMAIN t = 1..Len(t)
      /\ DOMAIN Append(t, e) = 1..(Len(t) + 1)
      /\ Append(t, e)[Len(t) + 1] = e
      /\ \A i \in 1..Len(t) : Append(t, e)[i] = t[i]
      /\ Len(t) \in Nat
  OBVIOUS
<1> QED
  BY <1>1 DEF Elements

LEMMA ElementsConcat ==
    ASSUME NEW S, NEW t \in Seq(S), NEW u \in Seq(S)
    PROVE  Elements(t \o u) = Elements(t) \cup Elements(u)
<1>1. /\ DOMAIN t = 1..Len(t) /\ DOMAIN u = 1..Len(u)
      /\ DOMAIN (t \o u) = 1..(Len(t) + Len(u))
      /\ \A i \in 1..(Len(t) + Len(u)) :
            (t \o u)[i] = IF i <= Len(t) THEN t[i] ELSE u[i - Len(t)]
      /\ Len(t) \in Nat /\ Len(u) \in Nat
  BY ConcatProperties
<1>2. \A i \in 1..Len(u) : (t \o u)[Len(t) + i] = u[i]
  BY <1>1
<1>3. \A i \in 1..Len(t) : i \in DOMAIN (t \o u) /\ (t \o u)[i] = t[i]
  BY <1>1
<1>4. \A i \in 1..Len(u) : Len(t) + i \in DOMAIN (t \o u)
  BY <1>1
<1>5. Elements(t) \subseteq Elements(t \o u)
  BY <1>1, <1>3 DEF Elements
<1>6. Elements(u) \subseteq Elements(t \o u)
  BY <1>1, <1>2, <1>4 DEF Elements
<1>7. Elements(t \o u) \subseteq Elements(t) \cup Elements(u)
  BY <1>1 DEF Elements
<1> QED
  BY <1>5, <1>6, <1>7

LEMMA ElementsEmpty == Elements(<<>>) = {}
  BY DEF Elements

LEMMA IncreasingAppend ==
    ASSUME NEW S, NEW t \in Seq(S), NEW e, Increasing(t),
           e \in Msgs => \A x \in Elements(t) \cap Msgs : x < e
    PROVE  Increasing(Append(t, e))
<1>1. /\ DOMAIN t = 1..Len(t)
      /\ DOMAIN Append(t, e) = 1..(Len(t) + 1)
      /\ Append(t, e)[Len(t) + 1] = e
      /\ \A i \in 1..Len(t) : Append(t, e)[i] = t[i]
      /\ Len(t) \in Nat
  OBVIOUS
<1> QED
  BY <1>1 DEF Increasing, Elements

LEMMA IncreasingConcat ==
    ASSUME NEW S, NEW t \in Seq(S), NEW u \in Seq(S), Increasing(t), Increasing(u),
           \A x \in Elements(t) \cap Msgs, y \in Elements(u) \cap Msgs : x < y
    PROVE  Increasing(t \o u)
<1>1. /\ DOMAIN t = 1..Len(t) /\ DOMAIN u = 1..Len(u)
      /\ DOMAIN (t \o u) = 1..(Len(t) + Len(u))
      /\ \A i \in 1..(Len(t) + Len(u)) :
            (t \o u)[i] = IF i <= Len(t) THEN t[i] ELSE u[i - Len(t)]
      /\ Len(t) \in Nat /\ Len(u) \in Nat
  BY ConcatProperties
<1>2. SUFFICES ASSUME NEW i \in 1..(Len(t) + Len(u)), NEW j \in 1..(Len(t) + Len(u)),
                      i < j, (t \o u)[i] \in Msgs, (t \o u)[j] \in Msgs
               PROVE  (t \o u)[i] < (t \o u)[j]
  BY <1>1 DEF Increasing
<1>3. CASE j <= Len(t)
  BY <1>1, <1>2, <1>3 DEF Increasing
<1>4. CASE i > Len(t)
  BY <1>1, <1>2, <1>4 DEF Increasing
<1>5. CASE i <= Len(t) /\ j > Len(t)
  <2>1. t[i] \in Elements(t) \cap Msgs
    BY <1>1, <1>2, <1>5 DEF Elements
  <2>2. j - Len(t) \in 1..Len(u) /\ (t \o u)[j] = u[j - Len(t)]
    BY <1>1, <1>2, <1>5
  <2>3. u[j - Len(t)] \in Elements(u) \cap Msgs
    BY <1>1, <1>2, <2>2 DEF Elements
  <2> QED
    BY <1>1, <1>2, <1>5, <2>1, <2>2, <2>3
<1> QED
  BY <1>1, <1>3, <1>4, <1>5

LEMMA PrefixAppend ==
    ASSUME NEW S, NEW t \in Seq(S), NEW e PROVE Prefix(t, Append(t, e))
  BY DEF Prefix

LEMMA PrefixConcat ==
    ASSUME NEW S, NEW a \in Seq(S), NEW t \in Seq(S), NEW u \in Seq(S), Prefix(a, t)
    PROVE  Prefix(a, t \o u)
<1>1. /\ Len(t \o u) = Len(t) + Len(u)
      /\ \A i \in 1..Len(t) : (t \o u)[i] = t[i]
      /\ Len(t) \in Nat /\ Len(u) \in Nat /\ Len(a) \in Nat
  BY ConcatProperties
<1> QED
  BY <1>1 DEF Prefix

LEMMA PrefixIsSubSeq ==
    ASSUME NEW S, NEW a \in Seq(S), NEW b \in Seq(S), Prefix(a, b)
    PROVE  Len(a) <= Len(b) /\ SubSeq(b, 1, Len(a)) = a
<1>1. /\ Len(a) \in Nat /\ Len(b) \in Nat /\ Len(a) <= Len(b)
      /\ \A i \in 1..Len(b) : b[i] \in S
  BY DEF Prefix
<1>2. /\ SubSeq(b, 1, Len(a)) \in Seq(S)
      /\ Len(SubSeq(b, 1, Len(a))) = Len(a)
      /\ \A i \in 1..Len(a) : SubSeq(b, 1, Len(a))[i] = b[i]
  BY <1>1
<1> QED
  BY <1>1, <1>2, SeqEqual DEF Prefix

-----------------------------------------------------------------------------

\* Every step is a step of the queue or leaves the queue alone.
LEMMA QueueStep == [Next]_vars => [Queue!Next]_queueVars
<1> SUFFICES ASSUME [Next]_vars PROVE [Queue!Next]_queueVars
  OBVIOUS
<1>1. ASSUME NEW s \in Subs, SubmitTurn(s) \/ LeaveQueue(s) \/ StartTurn(s)
                             \/ ReturnTurn(s) \/ FailSave(s) \/ RejectTurn(s)
      PROVE  Queue!Next
  BY <1>1 DEF SubmitTurn, LeaveQueue, StartTurn, ReturnTurn, FailSave, RejectTurn, Queue!Next
<1>2. ASSUME NEW s \in Subs, BeginStep(s) \/ ContinueTurn(s) \/ EndTurn(s) \/ ThrowTurn(s)
      PROVE  UNCHANGED queueVars
  BY <1>2 DEF BeginStep, ContinueTurn, EndTurn, ThrowTurn
<1>3. ASSUME (\E k \in Sessions : Steer(k)) \/ Shutdown \/ CloseStore \/ UNCHANGED vars
      PROVE  UNCHANGED queueVars
  BY <1>3 DEF Steer, Shutdown, CloseStore, vars
<1> QED
  BY <1>1, <1>2, <1>3 DEF Next

\* runTurn goes through the turn queue and nothing else touches it.
THEOREM ImplementsQueue == Spec => Queue!Spec
<1>1. Init => Queue!Init
  BY DEF Init
<1>2. [Next]_vars => [Queue!Next]_(Queue!tcVars)
  BY QueueStep DEF queueVars, Queue!tcVars
<1> QED
  BY <1>1, <1>2, PTL DEF Spec, Queue!Spec

\* What the queue's own theorems say of it holds here.
LEMMA QueueFacts == Spec => [](Queue!TypeOK /\ Queue!AtMostOneRunUnlessDropped)
<1>1. Queue!Spec => QP!Spec
  BY DEF Queue!Spec, QP!Spec, Queue!Init, QP!Init, Queue!Next, QP!Next, Queue!tcVars,
     QP!tcVars, Queue!Enqueue, QP!Enqueue, Queue!EnqueueAborted, QP!EnqueueAborted,
     Queue!StartRun, QP!StartRun, Queue!AbortWaiting, QP!AbortWaiting,
     Queue!DropAborted, QP!DropAborted, Queue!FinishRun, QP!FinishRun, Queue!Live,
     QP!Live, Queue!ReleaseTurn, QP!ReleaseTurn, Queue!PreviousSettled,
     QP!PreviousSettled
<1>2. QP!Spec => []QP!TypeOK
  BY QP!TypeCorrect, SteeringAssumption
<1>3. QP!Spec => []QP!AtMostOneRunUnlessDropped
  BY QP!MutualExclusion, SteeringAssumption
<1>4. QP!TypeOK => Queue!TypeOK
  BY DEF QP!TypeOK, Queue!TypeOK, QP!PCs, Queue!PCs
<1>5. QP!AtMostOneRunUnlessDropped => Queue!AtMostOneRunUnlessDropped
  BY DEF QP!AtMostOneRunUnlessDropped, Queue!AtMostOneRunUnlessDropped,
     QP!NoneDropped, Queue!NoneDropped, QP!Running, Queue!Running
<1> QED
  BY <1>1, <1>2, <1>3, <1>4, <1>5, ImplementsQueue, PTL

\* A session that has seen no drop after a step had seen none before it, and
\* nobody changes session.
LEMMA DropsStay ==
    ASSUME Queue!TypeOK, [Next]_vars
    PROVE  /\ UNCHANGED sess
           /\ \A k \in Sessions : Queue!NoneDropped(k)' => Queue!NoneDropped(k)
<1>1. [Queue!Next]_queueVars
  BY QueueStep
<1> QED
  BY <1>1 DEF Queue!TypeOK, Queue!PCs, Queue!NoneDropped, Queue!Next, queueVars,
     Queue!Enqueue, Queue!EnqueueAborted, Queue!StartRun, Queue!AbortWaiting,
     Queue!DropAborted, Queue!FinishRun

-----------------------------------------------------------------------------

LEMMA InitIInv == Init => IInv
<1> SUFFICES ASSUME Init PROVE IInv
  OBVIOUS
<1> USE SteeringAssumption DEF Init
<1>1. TypeOK
  <2>1. Queue!TypeOK
    BY DEF Queue!Init, Queue!TypeOK, Queue!PCs
  <2> QED
    BY <2>1 DEF TypeOK, Phases, Fates
<1>2. PhaseInv /\ CopyInv
  BY DEF PhaseInv, CopyInv, InTurn
<1>3. \A k \in Sessions : inbox[k] = <<>> /\ Elements(inbox[k]) = {}
  BY ElementsEmpty
<1>4. WindowHasReader /\ InboxInv /\ StayInv /\ SteersStayInTheirTurn
  BY <1>3 DEF WindowHasReader, InboxInv, StayInv, SteersStayInTheirTurn
<1>5. OrderInv
  <2>1. \A k \in Sessions : \A t \in Transcripts(k) : t = <<>> /\ Elements(t) = {}
    BY ElementsEmpty DEF Transcripts
  <2>2. Increasing(<<>>)
    BY DEF Increasing
  <2> QED
    BY <1>3, <2>1, <2>2 DEF OrderInv
<1>6. TakenInv
  BY DEF TakenInv
<1>7. HeardOrHandedBack
  <2>1. \A m \in Msgs : ~InInbox(m) /\ ~InTranscript(m)
    BY <1>3, ElementsEmpty DEF InInbox, InTranscript
  <2> QED
    BY <1>4, <2>1 DEF HeardOrHandedBack
<1> QED
  BY <1>1, <1>2, <1>4, <1>5, <1>6, <1>7 DEF IInv

\* The names of the phases and fates, and what the parts of the actions do to
\* the types.
LEMMA Names ==
    /\ {"gap", "step", "flushed", "over"} \subseteq Phases
    /\ {"refused", "pending", "applied", "handed", "returned", "logged", "cleared",
        "lost"} \subseteq Fates
  BY DEF Phases, Fates

LEMMA DrainTypes ==
    ASSUME TypeOK, NEW s \in Subs, NEW k \in Sessions, NEW f \in Fates, Drain(s, k, f)
    PROVE  /\ inbox' \in [Sessions -> Seq(Msgs)]
           /\ \A l \in Sessions : Len(inbox'[l]) <= MaxPending
           /\ fate' \in [Msgs -> Fates]
           /\ takenBy' \in [Msgs -> Subs \cup {NoSub}]
           /\ during' \in [Msgs -> SUBSET Subs]
<1> USE DEF TypeOK, Drain
<1>1. inbox' \in [Sessions -> Seq(Msgs)]
  OBVIOUS
<1>2. \A l \in Sessions : Len(inbox'[l]) <= MaxPending
  BY SteeringAssumption
<1>3. fate' \in [Msgs -> Fates]
  OBVIOUS
<1>4. takenBy' \in [Msgs -> Subs \cup {NoSub}]
  OBVIOUS
<1> QED
  BY <1>1, <1>2, <1>3, <1>4

LEMMA FrameTypes ==
    ASSUME TypeOK, NEW s \in Subs, FreeFrame(s)
    PROVE  /\ phase' \in [Subs -> Phases]
           /\ steps' \in [Subs -> 0..MaxSteps]
           /\ local' \in [Subs -> Seq(Subs \cup Msgs)]
<1> USE SteeringAssumption, Names DEF TypeOK, FreeFrame
<1>1. phase' \in [Subs -> Phases]
  OBVIOUS
<1>2. steps' \in [Subs -> 0..MaxSteps]
  OBVIOUS
<1>3. <<>> \in Seq(Subs \cup Msgs)
  OBVIOUS
<1>4. local' \in [Subs -> Seq(Subs \cup Msgs)]
  BY <1>3
<1> QED
  BY <1>1, <1>2, <1>4

\* No action leaves the declared shape of the state.
LEMMA StepTypeOK == TypeOK /\ Queue!TypeOK' /\ [Next]_vars => TypeOK'
<1> SUFFICES ASSUME TypeOK, Queue!TypeOK', [Next]_vars PROVE TypeOK'
  OBVIOUS
<1> USE SteeringAssumption, Names DEF TypeOK
<1>0. sess \in [Subs -> Sessions]
  BY DEF Queue!TypeOK
<1>1. ASSUME NEW s \in Subs, SubmitTurn(s) \/ LeaveQueue(s) \/ RejectTurn(s)
      PROVE  TypeOK'
  BY <1>1 DEF SubmitTurn, LeaveQueue, RejectTurn, turnVars, windowVars
<1>2. ASSUME NEW s \in Subs, StartTurn(s) PROVE TypeOK'
  <2>1. Append(stored[sess[s]], s) \in Seq(Subs \cup Msgs)
    BY <1>0
  <2>2. phase' \in [Subs -> Phases]
    BY <1>2 DEF StartTurn
  <2>3. local' \in [Subs -> Seq(Subs \cup Msgs)]
    BY <1>2, <2>1 DEF StartTurn
  <2>4. accepting' \in SUBSET Sessions
    BY <1>0, <1>2 DEF StartTurn
  <2>5. UNCHANGED <<steps, stored, inbox, fate, takenBy, during, host>>
    BY <1>2 DEF StartTurn
  <2> QED
    BY <2>2, <2>3, <2>4, <2>5
<1>3. ASSUME NEW s \in Subs, BeginStep(s) PROVE TypeOK'
  <2>1. local[s] \o inbox[sess[s]] \in Seq(Subs \cup Msgs)
    <3>1. inbox[sess[s]] \in Seq(Subs \cup Msgs)
      BY <1>0, SeqMonotonic
    <3> QED
      BY <3>1
  <2>2. phase' \in [Subs -> Phases] /\ steps' \in [Subs -> 0..MaxSteps]
    BY <1>3 DEF BeginStep
  <2>3. local' \in [Subs -> Seq(Subs \cup Msgs)]
    BY <1>3, <2>1 DEF BeginStep
  <2>4. UNCHANGED <<stored, accepting, host>>
    BY <1>3 DEF BeginStep
  <2> QED
    BY <1>0, <1>3, <2>2, <2>3, <2>4, DrainTypes DEF BeginStep
<1>4. ASSUME NEW s \in Subs, ContinueTurn(s) PROVE TypeOK'
  <2>1. phase' \in [Subs -> Phases]
    BY <1>4 DEF ContinueTurn
  <2> QED
    BY <1>4, <2>1 DEF ContinueTurn, windowVars
<1>5. ASSUME NEW s \in Subs, EndTurn(s) PROVE TypeOK'
  <2>1. phase' \in [Subs -> Phases]
    BY <1>5 DEF EndTurn
  <2>2. Drain(s, sess[s], "handed") /\ accepting' \in SUBSET Sessions
    BY <1>5 DEF EndTurn, CloseAndDrain
  <2> QED
    BY <1>0, <1>5, <2>1, <2>2, DrainTypes DEF EndTurn
<1>6. ASSUME NEW s \in Subs, ThrowTurn(s) PROVE TypeOK'
  <2>1. Drain(s, sess[s], "logged") /\ accepting' \in SUBSET Sessions
    BY <1>6 DEF ThrowTurn, CloseAndDrain
  <2> QED
    BY <1>0, <1>6, <2>1, DrainTypes, FrameTypes DEF ThrowTurn
<1>7. ASSUME NEW s \in Subs, ReturnTurn(s) PROVE TypeOK'
  <2>1. fate' \in [Msgs -> Fates]
    BY <1>7 DEF ReturnTurn, Resolve
  <2>2. stored' \in [Sessions -> Seq(Subs \cup Msgs)]
    BY <1>0, <1>7 DEF ReturnTurn
  <2> QED
    BY <1>7, <2>1, <2>2, FrameTypes DEF ReturnTurn
<1>8. ASSUME NEW s \in Subs, FailSave(s) PROVE TypeOK'
  <2>1. fate' \in [Msgs -> Fates]
    BY <1>8 DEF FailSave, Resolve
  <2> QED
    BY <1>8, <2>1, FrameTypes DEF FailSave
<1>9. ASSUME NEW k \in Sessions, Steer(k) PROVE TypeOK'
  <2>1. PICK m \in Msgs : Steer(k)!(m)
    BY <1>9 DEF Steer
  <2>2. Queue!Running(k) \subseteq Subs
    BY DEF Queue!Running
  <2>3. CASE k \in accepting /\ Len(inbox[k]) < MaxPending
    <3>1. Append(inbox[k], m) \in Seq(Msgs) /\ Len(Append(inbox[k], m)) <= MaxPending
      BY <2>3
    <3>2. inbox' = [inbox EXCEPT ![k] = Append(inbox[k], m)]
      BY <2>1, <2>3
    <3>3. /\ inbox' \in [Sessions -> Seq(Msgs)]
          /\ \A l \in Sessions : Len(inbox'[l]) <= MaxPending
      BY <3>1, <3>2
    <3>4. fate' \in [Msgs -> Fates]
      BY <2>1, <2>3
    <3>5. during' = [during EXCEPT ![m] = Queue!Running(k)]
      BY <2>1, <2>3
    <3>6. during' \in [Msgs -> SUBSET Subs]
      BY <2>2, <3>5
    <3> QED
      BY <2>1, <3>3, <3>4, <3>6 DEF turnVars
  <2>4. CASE ~(k \in accepting /\ Len(inbox[k]) < MaxPending)
    <3>1. fate' \in [Msgs -> Fates]
      BY <2>1, <2>4
    <3>2. UNCHANGED <<inbox, during, turnVars, accepting, takenBy, host>>
      BY <2>1, <2>4
    <3> QED
      BY <3>1, <3>2 DEF turnVars
  <2> QED
    BY <2>3, <2>4
<1>10. ASSUME Shutdown PROVE TypeOK'
  <2>1. /\ inbox' \in [Sessions -> Seq(Msgs)]
        /\ \A k \in Sessions : Len(inbox'[k]) <= MaxPending
    BY <1>10 DEF Shutdown
  <2>2. fate' \in [Msgs -> Fates]
    BY <1>10 DEF Shutdown
  <2> QED
    BY <1>10, <2>1, <2>2 DEF Shutdown, turnVars
<1>11. CASE CloseStore \/ UNCHANGED vars
  BY <1>11 DEF CloseStore, vars, turnVars, windowVars
<1> QED
  BY <1>1, <1>2, <1>3, <1>4, <1>5, <1>6, <1>7, <1>8, <1>9, <1>10, <1>11 DEF Next

-----------------------------------------------------------------------------

\* Who is inside a turn is running: a body leaves its turn before the queue
\* moves on, and only the queue starts one.
LEMMA StepPhaseInv == TypeOK /\ PhaseInv /\ [Next]_vars => PhaseInv'
<1> SUFFICES ASSUME TypeOK, PhaseInv, [Next]_vars, NEW r \in Subs
             PROVE  (InTurn(r) => pc[r] = "running")'
  BY DEF PhaseInv
<1> USE DEF TypeOK, PhaseInv, InTurn, Queue!TypeOK, Queue!PCs
<1>1. ASSUME NEW s \in Subs, SubmitTurn(s) PROVE InTurn(r)' => pc'[r] = "running"
  BY <1>1 DEF SubmitTurn, turnVars, Queue!Enqueue, Queue!EnqueueAborted
<1>2. ASSUME NEW s \in Subs, LeaveQueue(s) PROVE InTurn(r)' => pc'[r] = "running"
  BY <1>2 DEF LeaveQueue, turnVars, Queue!AbortWaiting, Queue!DropAborted
<1>3. ASSUME NEW s \in Subs, StartTurn(s) PROVE InTurn(r)' => pc'[r] = "running"
  BY <1>3 DEF StartTurn, Queue!StartRun
<1>4. ASSUME NEW s \in Subs, BeginStep(s) \/ ContinueTurn(s) \/ EndTurn(s) \/ ThrowTurn(s)
      PROVE  InTurn(r)' => pc'[r] = "running"
  BY <1>4 DEF BeginStep, ContinueTurn, EndTurn, ThrowTurn, FreeFrame, queueVars
<1>5. ASSUME NEW s \in Subs, ReturnTurn(s) \/ FailSave(s)
      PROVE  InTurn(r)' => pc'[r] = "running"
  BY <1>5 DEF ReturnTurn, FailSave, FreeFrame, Queue!FinishRun
<1>6. ASSUME NEW s \in Subs, RejectTurn(s) PROVE InTurn(r)' => pc'[r] = "running"
  BY <1>6 DEF RejectTurn, turnVars, Queue!FinishRun
<1>7. CASE (\E k \in Sessions : Steer(k)) \/ Shutdown \/ CloseStore \/ UNCHANGED vars
  BY <1>7 DEF Steer, Shutdown, CloseStore, vars, queueVars, turnVars
<1> QED
  BY <1>1, <1>2, <1>3, <1>4, <1>5, <1>6, <1>7 DEF Next

\* The reader of an open window stays until it closes the window itself.
LEMMA StepWindow ==
    TypeOK /\ PhaseInv /\ WindowHasReader /\ [Next]_vars => WindowHasReader'
<1> SUFFICES ASSUME TypeOK, PhaseInv, WindowHasReader, [Next]_vars, NEW k \in Sessions
             PROVE  (/\ k \in accepting => \E r \in Queue!Running(k) : Reading(r)
                     /\ inbox[k] # <<>> => k \in accepting)'
  BY DEF WindowHasReader, Reading
<1> DEFINE HasReader == \E r \in Queue!Running(k) : Reading(r)
<1>0. /\ k \in accepting => HasReader
      /\ inbox[k] # <<>> => k \in accepting
  BY DEF WindowHasReader, Reading
<1> USE DEF TypeOK, Queue!TypeOK, Queue!PCs, Queue!Running, Reading
<1>1. ASSUME NEW s \in Subs, SubmitTurn(s) PROVE HasReader => HasReader'
  BY <1>1 DEF SubmitTurn, turnVars, Queue!Enqueue, Queue!EnqueueAborted
<1>2. ASSUME NEW s \in Subs, LeaveQueue(s) PROVE HasReader => HasReader'
  BY <1>2 DEF LeaveQueue, turnVars, Queue!AbortWaiting, Queue!DropAborted
<1>3. ASSUME NEW s \in Subs, SubmitTurn(s) \/ LeaveQueue(s) \/ RejectTurn(s)
      PROVE  UNCHANGED <<accepting, inbox>>
  BY <1>3 DEF SubmitTurn, LeaveQueue, RejectTurn, windowVars
<1>4. ASSUME NEW s \in Subs, StartTurn(s)
      PROVE  /\ k \in accepting' => HasReader'
             /\ inbox'[k] # <<>> => k \in accepting'
  <2>1. HasReader => HasReader'
    BY <1>4 DEF StartTurn, Queue!StartRun
  <2>2. ASSUME k \notin accepting, k \in accepting' PROVE HasReader'
    <3>1. sess[s] = k /\ phase'[s] = "gap"
      BY <1>4, <2>2 DEF StartTurn
    <3>2. pc'[s] = "running" /\ sess' = sess
      BY <1>4 DEF StartTurn, Queue!StartRun
    <3> QED
      BY <3>1, <3>2
  <2>3. inbox' = inbox /\ accepting \subseteq accepting'
    BY <1>4 DEF StartTurn
  <2> QED
    BY <1>0, <2>1, <2>2, <2>3
<1>5. ASSUME NEW s \in Subs, BeginStep(s) \/ ContinueTurn(s)
      PROVE  /\ k \in accepting' => HasReader'
             /\ inbox'[k] # <<>> => k \in accepting'
  <2>1. HasReader => HasReader'
    BY <1>5 DEF BeginStep, ContinueTurn, queueVars
  <2>2. accepting' = accepting /\ (inbox'[k] = inbox[k] \/ inbox'[k] = <<>>)
    BY <1>5 DEF BeginStep, Drain, ContinueTurn, windowVars
  <2> QED
    BY <1>0, <2>1, <2>2
<1>6. ASSUME NEW s \in Subs, EndTurn(s) \/ ThrowTurn(s)
      PROVE  /\ k \in accepting' => HasReader'
             /\ inbox'[k] # <<>> => k \in accepting'
  <2>1. CASE sess[s] = k
    BY <1>6, <2>1 DEF EndTurn, ThrowTurn, CloseAndDrain, Drain
  <2>2. CASE sess[s] # k
    <3>1. HasReader => HasReader'
      BY <1>6, <2>2 DEF EndTurn, ThrowTurn, FreeFrame, queueVars
    <3>2. (k \in accepting' <=> k \in accepting) /\ inbox'[k] = inbox[k]
      BY <1>6, <2>2 DEF EndTurn, ThrowTurn, CloseAndDrain, Drain
    <3> QED
      BY <1>0, <3>1, <3>2
  <2> QED
    BY <2>1, <2>2
<1>7. ASSUME NEW s \in Subs, ReturnTurn(s) \/ FailSave(s)
      PROVE  (HasReader => HasReader') /\ UNCHANGED <<accepting, inbox>>
  BY <1>7 DEF ReturnTurn, FailSave, FreeFrame, Queue!FinishRun
<1>8. ASSUME NEW s \in Subs, RejectTurn(s) PROVE HasReader => HasReader'
  BY <1>8 DEF RejectTurn, turnVars, Queue!FinishRun
<1>9. ASSUME NEW l \in Sessions, Steer(l)
      PROVE  /\ HasReader => HasReader'
             /\ accepting' = accepting
             /\ inbox'[k] # <<>> => inbox[k] # <<>> \/ k \in accepting
  BY <1>9 DEF Steer, queueVars, turnVars
<1>10. CASE Shutdown
  BY <1>10 DEF Shutdown
<1>11. CASE CloseStore \/ UNCHANGED vars
  BY <1>0, <1>11 DEF CloseStore, vars, queueVars, turnVars, windowVars
<1>12. ASSUME NEW s \in Subs, SubmitTurn(s) \/ LeaveQueue(s) \/ ReturnTurn(s)
                              \/ FailSave(s) \/ RejectTurn(s)
       PROVE  /\ k \in accepting' => HasReader'
              /\ inbox'[k] # <<>> => k \in accepting'
  BY <1>0, <1>1, <1>2, <1>3, <1>7, <1>8, <1>12
<1> QED
  BY <1>0, <1>4, <1>5, <1>6, <1>9, <1>10, <1>11, <1>12 DEF Next

-----------------------------------------------------------------------------

\* What a step does to the messages: nothing; the turn of a running body drains
\* its session's inbox; the messages in a result get their fate; shutdown()
\* clears; one is typed.
Drained(s) ==
    /\ Reading(s)
    /\ \E f \in {"applied", "handed", "logged"} : Drain(s, sess[s], f)
Resolved(s) ==
    /\ \E f \in {"returned", "lost"} : Resolve(s, f)
    /\ UNCHANGED <<inbox, takenBy, during>>
Refused(m) == fate' = [fate EXCEPT ![m] = "refused"] /\ UNCHANGED <<inbox, during, takenBy>>
AcceptedAt(k, m) ==
    /\ k \in accepting
    /\ inbox' = [inbox EXCEPT ![k] = Append(@, m)]
    /\ fate' = [fate EXCEPT ![m] = "pending"]
    /\ during' = [during EXCEPT ![m] = Queue!Running(k)]
    /\ UNCHANGED takenBy
Unsent(m) == fate[m] = "unsent" /\ \A n \in 1..(m - 1) : fate[n] # "unsent"

LEMMA MessageSteps ==
    ASSUME [Next]_vars
    PROVE  \/ UNCHANGED <<inbox, fate, takenBy, during>>
           \/ \E s \in Subs : Drained(s) \/ Resolved(s)
           \/ Shutdown
           \/ \E k \in Sessions, m \in Msgs : Unsent(m) /\ (AcceptedAt(k, m) \/ Refused(m))
<1>1. ASSUME NEW s \in Subs, SubmitTurn(s) \/ LeaveQueue(s) \/ StartTurn(s)
                             \/ ContinueTurn(s) \/ RejectTurn(s)
      PROVE  UNCHANGED <<inbox, fate, takenBy, during>>
  BY <1>1 DEF SubmitTurn, LeaveQueue, StartTurn, ContinueTurn, RejectTurn, windowVars
<1>2. ASSUME NEW s \in Subs, BeginStep(s) \/ EndTurn(s) \/ ThrowTurn(s) PROVE Drained(s)
  BY <1>2 DEF BeginStep, EndTurn, ThrowTurn, CloseAndDrain, Drained, Reading
<1>3. ASSUME NEW s \in Subs, ReturnTurn(s) \/ FailSave(s) PROVE Resolved(s)
  BY <1>3 DEF ReturnTurn, FailSave, Resolved
<1>4. ASSUME NEW k \in Sessions, Steer(k)
      PROVE  \E m \in Msgs : Unsent(m) /\ (AcceptedAt(k, m) \/ Refused(m))
  <2>1. PICK m \in Msgs : Steer(k)!(m)
    BY <1>4 DEF Steer
  <2>2. CASE k \in accepting /\ Len(inbox[k]) < MaxPending
    <3>1. Unsent(m) /\ AcceptedAt(k, m)
      BY <2>1, <2>2 DEF Unsent, AcceptedAt
    <3> QED
      BY <3>1
  <2>3. CASE ~(k \in accepting /\ Len(inbox[k]) < MaxPending)
    <3>1. Unsent(m) /\ Refused(m)
      BY <2>1, <2>3 DEF Unsent, Refused
    <3> QED
      BY <3>1
  <2> QED
    BY <2>2, <2>3
<1>5. CASE CloseStore \/ UNCHANGED vars
  BY <1>5 DEF CloseStore, vars, windowVars
<1> QED
  BY <1>1, <1>2, <1>3, <1>4, <1>5 DEF Next

\* A message is accepted into one inbox, leaves it once, and is taken at most
\* once.
LEMMA StepInboxInv == TypeOK /\ InboxInv /\ [Next]_vars => InboxInv'
<1> SUFFICES ASSUME TypeOK, InboxInv, [Next]_vars PROVE InboxInv'
  OBVIOUS
<1>0. sess \in [Subs -> Sessions]
  BY DEF TypeOK, Queue!TypeOK
<1> USE DEF TypeOK, InboxInv
<1>1. CASE UNCHANGED <<inbox, fate, takenBy, during>>
  BY <1>1
<1>2. ASSUME NEW s \in Subs, Drained(s) PROVE InboxInv'
  <2>1. PICK f \in {"applied", "handed", "logged"} : Drain(s, sess[s], f)
    BY <1>2 DEF Drained
  <2>2. \A l \in Sessions : Elements(inbox'[l]) =
            IF l = sess[s] THEN {} ELSE Elements(inbox[l])
    BY <1>0, <2>1, ElementsEmpty DEF Drain
  <2>3. \A m \in Msgs : fate'[m] = IF m \in Elements(inbox[sess[s]]) THEN f ELSE fate[m]
    BY <2>1 DEF Drain
  <2>4. \A m \in Msgs : takenBy'[m] = IF m \in Elements(inbox[sess[s]]) THEN s ELSE takenBy[m]
    BY <2>1 DEF Drain
  <2>5. \A l \in Sessions : Elements(inbox[l]) \subseteq Msgs
    BY DEF Elements
  <2>6. \A m, n \in Msgs : fate'[m] = "unsent" /\ m < n => fate'[n] = "unsent"
    BY <1>0, <2>3
  <2>7. \A l \in Sessions : \A m \in Elements(inbox'[l]) : fate'[m] = "pending"
    BY <1>0, <2>2, <2>3, <2>5
  <2>8. \A k, l \in Sessions : k # l => Elements(inbox'[k]) \cap Elements(inbox'[l]) = {}
    BY <2>2
  <2>9. \A m \in Msgs : takenBy'[m] # NoSub => fate'[m] \notin {"unsent", "pending"}
    BY <2>3, <2>4
  <2> QED
    BY <2>6, <2>7, <2>8, <2>9
<1>3. ASSUME NEW s \in Subs, Resolved(s) PROVE InboxInv'
  <2>0. PICK f \in {"returned", "lost"} : Resolve(s, f)
    BY <1>3 DEF Resolved
  <2>1. /\ UNCHANGED <<inbox, takenBy>>
        /\ \A m \in Msgs :
              fate'[m] = IF fate[m] = "handed" /\ takenBy[m] = s THEN f ELSE fate[m]
    BY <1>3, <2>0 DEF Resolved, Resolve
  <2>2. \A l \in Sessions : Elements(inbox[l]) \subseteq Msgs
    BY DEF Elements
  <2> QED
    BY <2>0, <2>1, <2>2
<1>4. CASE Shutdown
  <2>1. /\ takenBy' = takenBy
        /\ \A m \in Msgs : fate'[m] = IF fate[m] = "pending" THEN "cleared" ELSE fate[m]
    BY <1>4 DEF Shutdown
  <2>2. \A l \in Sessions : Elements(inbox'[l]) = {}
    BY <1>4, ElementsEmpty DEF Shutdown
  <2> QED
    BY <2>1, <2>2
<1>5. ASSUME NEW k \in Sessions, NEW m \in Msgs, Unsent(m), AcceptedAt(k, m)
      PROVE  InboxInv'
  <2>1. \A l \in Sessions : Elements(inbox'[l]) =
            IF l = k THEN Elements(inbox[k]) \cup {m} ELSE Elements(inbox[l])
    BY <1>5, ElementsAppend DEF AcceptedAt
  <2>2. /\ takenBy' = takenBy
        /\ \A n \in Msgs : fate'[n] = IF n = m THEN "pending" ELSE fate[n]
    BY <1>5 DEF AcceptedAt
  <2>3. \A n \in Msgs : n < m => fate[n] # "unsent"
    BY <1>5, SteeringAssumption DEF Unsent, Msgs
  <2>4. fate[m] = "unsent"
    BY <1>5 DEF Unsent
  <2>5. \A n, o \in Msgs : fate'[n] = "unsent" /\ n < o => fate'[o] = "unsent"
    BY <2>2, <2>3
  <2>6. \A l \in Sessions : Elements(inbox[l]) \subseteq Msgs
    BY DEF Elements
  <2>7. \A l \in Sessions : m \notin Elements(inbox[l])
    BY <2>4
  <2>8. \A l \in Sessions : \A n \in Elements(inbox'[l]) : n = m \/ n \in Elements(inbox[l])
    BY <2>1
  <2>9. \A l \in Sessions : \A n \in Elements(inbox'[l]) : fate'[n] = "pending"
    BY <2>2, <2>6, <2>8
  <2>10. \A l, o \in Sessions : l # o => Elements(inbox'[l]) \cap Elements(inbox'[o]) = {}
    <3>1. SUFFICES ASSUME NEW l \in Sessions, NEW o \in Sessions, l # o,
                          NEW n \in Elements(inbox'[l]), n \in Elements(inbox'[o])
                   PROVE  FALSE
      OBVIOUS
    <3>2. CASE n = m
      <4>1. l = k /\ o = k
        BY <2>1, <2>7, <3>1, <3>2
      <4> QED
        BY <3>1, <4>1
    <3>3. CASE n # m
      BY <2>8, <3>1, <3>3
    <3> QED
      BY <3>2, <3>3
  <2>11. \A n \in Msgs : takenBy'[n] # NoSub => fate'[n] \notin {"unsent", "pending"}
    BY <2>2, <2>4
  <2> QED
    BY <2>5, <2>9, <2>10, <2>11
<1>6. ASSUME NEW m \in Msgs, Unsent(m), Refused(m) PROVE InboxInv'
  <2>1. /\ UNCHANGED <<inbox, takenBy>>
        /\ \A n \in Msgs : fate'[n] = IF n = m THEN "refused" ELSE fate[n]
    BY <1>6 DEF Refused
  <2>2. \A n \in Msgs : n < m => fate[n] # "unsent"
    BY <1>6, SteeringAssumption DEF Unsent, Msgs
  <2>3. fate[m] = "unsent"
    BY <1>6 DEF Unsent
  <2>4. \A l \in Sessions : Elements(inbox[l]) \subseteq Msgs
    BY DEF Elements
  <2>5. \A n, o \in Msgs : fate'[n] = "unsent" /\ n < o => fate'[o] = "unsent"
    BY <2>1, <2>2
  <2> QED
    BY <2>1, <2>3, <2>4, <2>5
<1> QED
  BY <1>1, <1>2, <1>3, <1>4, <1>5, <1>6, MessageSteps

-----------------------------------------------------------------------------

\* The bodies of a session that run: one is added when the queue starts it.
LEMMA RunnersStep ==
    ASSUME TypeOK, [Next]_vars, NEW k \in Sessions
    PROVE  \/ Queue!Running(k)' \subseteq Queue!Running(k)
           \/ /\ UNCHANGED <<inbox, fate, takenBy, during>>
              /\ \E s \in Subs :
                    /\ s \notin Queue!Running(k)
                    /\ Queue!Running(k)' = Queue!Running(k) \cup {s}
<1> USE DEF TypeOK, Queue!TypeOK, Queue!PCs, Queue!Running
<1>1. ASSUME NEW s \in Subs, SubmitTurn(s) PROVE Queue!Running(k)' \subseteq Queue!Running(k)
  BY <1>1 DEF SubmitTurn, Queue!Enqueue, Queue!EnqueueAborted
<1>2. ASSUME NEW s \in Subs, LeaveQueue(s) PROVE Queue!Running(k)' \subseteq Queue!Running(k)
  BY <1>2 DEF LeaveQueue, Queue!AbortWaiting, Queue!DropAborted
<1>3. ASSUME NEW s \in Subs, StartTurn(s), sess[s] = k
      PROVE  /\ s \notin Queue!Running(k)
             /\ Queue!Running(k)' = Queue!Running(k) \cup {s}
  BY <1>3 DEF StartTurn, Queue!StartRun
<1>4. ASSUME NEW s \in Subs, StartTurn(s), sess[s] # k
      PROVE  Queue!Running(k)' \subseteq Queue!Running(k)
  BY <1>4 DEF StartTurn, Queue!StartRun
<1>5. ASSUME NEW s \in Subs, StartTurn(s) PROVE UNCHANGED <<inbox, fate, takenBy, during>>
  BY <1>5 DEF StartTurn
<1>6. ASSUME NEW s \in Subs, ReturnTurn(s) \/ FailSave(s) \/ RejectTurn(s)
      PROVE  Queue!Running(k)' \subseteq Queue!Running(k)
  BY <1>6 DEF ReturnTurn, FailSave, RejectTurn, Queue!FinishRun
<1>7. ASSUME NEW s \in Subs, BeginStep(s) \/ ContinueTurn(s) \/ EndTurn(s) \/ ThrowTurn(s)
      PROVE  Queue!Running(k)' \subseteq Queue!Running(k)
  BY <1>7 DEF BeginStep, ContinueTurn, EndTurn, ThrowTurn, queueVars
<1>8. CASE (\E l \in Sessions : Steer(l)) \/ Shutdown \/ CloseStore \/ UNCHANGED vars
  BY <1>8 DEF Steer, Shutdown, CloseStore, vars, queueVars
<1>9. ASSUME NEW s \in Subs, StartTurn(s)
      PROVE  \/ Queue!Running(k)' \subseteq Queue!Running(k)
             \/ /\ UNCHANGED <<inbox, fate, takenBy, during>>
                /\ s \notin Queue!Running(k)
                /\ Queue!Running(k)' = Queue!Running(k) \cup {s}
  BY <1>3, <1>4, <1>5, <1>9
<1> HIDE DEF Queue!Running
<1> QED
  BY <1>1, <1>2, <1>6, <1>7, <1>8, <1>9 DEF Next

\* While a message waits its turn runs on, and no other starts beside it.
LEMMA StepStayInv ==
    ASSUME TypeOK, InboxInv, WindowHasReader, StayInv, [Next]_vars,
           Queue!AtMostOneRunUnlessDropped'
    PROVE  StayInv'
<1> SUFFICES ASSUME NEW k \in Sessions, Queue!NoneDropped(k)', NEW m \in Elements(inbox'[k])
             PROVE  Queue!Running(k)' \subseteq during'[m]
  BY DEF StayInv
<1>0. sess \in [Subs -> Sessions] /\ inbox \in [Sessions -> Seq(Msgs)]
  BY DEF TypeOK, Queue!TypeOK
<1>1. Queue!NoneDropped(k)
  BY DropsStay DEF TypeOK
<1>2. \A n \in Elements(inbox[k]) : Queue!Running(k) \subseteq during[n]
  BY <1>1 DEF StayInv
<1>3. CASE ~(Queue!Running(k)' \subseteq Queue!Running(k))
  <2>1. UNCHANGED <<inbox, fate, takenBy, during>>
    BY <1>3, RunnersStep
  <2>2. PICK s \in Subs : /\ s \notin Queue!Running(k)
                          /\ Queue!Running(k)' = Queue!Running(k) \cup {s}
    BY <1>3, RunnersStep
  <2>3. inbox[k] # <<>>
    BY <2>1, ElementsEmpty
  <2>4. PICK r \in Queue!Running(k) : TRUE
    BY <2>3 DEF WindowHasReader
  <2>5. r = s
    BY <2>2, <2>4 DEF Queue!AtMostOneRunUnlessDropped
  <2> QED
    BY <2>2, <2>4, <2>5
<1>4. CASE Queue!Running(k)' \subseteq Queue!Running(k)
  <2>1. CASE UNCHANGED <<inbox, fate, takenBy, during>>
    BY <1>2, <1>4, <2>1
  <2>2. ASSUME NEW s \in Subs, Drained(s) \/ Resolved(s)
        PROVE  Queue!Running(k)' \subseteq during'[m]
    <3>1. during' = during /\ (inbox'[k] = inbox[k] \/ inbox'[k] = <<>>)
      BY <1>0, <2>2 DEF Drained, Drain, Resolved
    <3> QED
      BY <1>2, <1>4, <3>1, ElementsEmpty
  <2>3. CASE Shutdown
    BY <1>0, <2>3, ElementsEmpty DEF Shutdown
  <2>4. ASSUME NEW l \in Sessions, NEW n \in Msgs, Unsent(n), AcceptedAt(l, n)
        PROVE  Queue!Running(k)' \subseteq during'[m]
    <3>1. n \notin Elements(inbox[k])
      BY <2>4 DEF Unsent, InboxInv
    <3>2. Elements(inbox'[l]) = Elements(inbox[l]) \cup {n}
      BY <1>0, <2>4, ElementsAppend DEF AcceptedAt
    <3>3. l # k => inbox'[k] = inbox[k]
      BY <1>0, <2>4 DEF AcceptedAt
    <3>4. CASE m = n
      <4>1. l = k
        BY <3>1, <3>3, <3>4
      <4>2. during'[n] = Queue!Running(k)
        BY <2>4, <4>1 DEF AcceptedAt, TypeOK
      <4> QED
        BY <1>4, <3>4, <4>2
    <3>5. CASE m # n
      <4>1. m \in Elements(inbox[k])
        BY <3>2, <3>3, <3>5
      <4>2. during'[m] = during[m]
        BY <2>4, <3>5, <4>1 DEF AcceptedAt, TypeOK, Elements
      <4> QED
        BY <1>2, <1>4, <4>1, <4>2
    <3> QED
      BY <3>4, <3>5
  <2>5. ASSUME NEW n \in Msgs, Refused(n) PROVE Queue!Running(k)' \subseteq during'[m]
    BY <1>2, <1>4, <2>5 DEF Refused
  <2> QED
    BY <2>1, <2>2, <2>3, <2>4, <2>5, MessageSteps
<1> QED
  BY <1>3, <1>4

\* The turn that takes a message is the one that runs, and so ran when it was
\* accepted.
LEMMA StepSteersStay ==
    ASSUME TypeOK, TypeOK', PhaseInv, InboxInv, StayInv, SteersStayInTheirTurn, [Next]_vars
    PROVE  SteersStayInTheirTurn'
<1>0. sess \in [Subs -> Sessions] /\ inbox \in [Sessions -> Seq(Msgs)] /\ sess' = sess
  BY DropsStay DEF TypeOK, Queue!TypeOK
<1>1. \A k \in Sessions : Queue!NoneDropped(k)' => Queue!NoneDropped(k)
  BY DropsStay DEF TypeOK
<1> SUFFICES ASSUME NEW m \in Msgs, NEW t \in Subs, takenBy'[m] = t,
                    Queue!NoneDropped(sess[t])
             PROVE  t \in during'[m]
  BY <1>0, <1>1 DEF SteersStayInTheirTurn, TypeOK
<1>2. takenBy[m] = t => t \in during[m]
  BY SteeringAssumption DEF SteersStayInTheirTurn
<1>3. takenBy[m] = t => fate[m] # "unsent"
  BY SteeringAssumption DEF InboxInv
<1>4. CASE UNCHANGED <<inbox, fate, takenBy, during>>
  BY <1>2, <1>4
<1>5. ASSUME NEW s \in Subs, Drained(s) PROVE t \in during'[m]
  <2>1. /\ during' = during
        /\ takenBy'[m] = IF m \in Elements(inbox[sess[s]]) THEN s ELSE takenBy[m]
    BY <1>5 DEF Drained, Drain
  <2>2. CASE m \in Elements(inbox[sess[s]])
    <3>1. t = s
      BY <2>1, <2>2
    <3>2. s \in Queue!Running(sess[s])
      BY <1>5 DEF Drained, Reading, PhaseInv, InTurn, Queue!Running
    <3> QED
      BY <1>0, <2>1, <2>2, <3>1, <3>2 DEF StayInv
  <2>3. CASE m \notin Elements(inbox[sess[s]])
    BY <1>2, <2>1, <2>3
  <2> QED
    BY <2>2, <2>3
<1>6. ASSUME NEW s \in Subs, Resolved(s) PROVE t \in during'[m]
  BY <1>2, <1>6 DEF Resolved
<1>7. CASE Shutdown
  BY <1>2, <1>7 DEF Shutdown
<1>8. ASSUME NEW k \in Sessions, NEW n \in Msgs, Unsent(n), AcceptedAt(k, n) \/ Refused(n)
      PROVE  t \in during'[m]
  <2>1. takenBy[m] = t /\ m # n
    BY <1>3, <1>8 DEF AcceptedAt, Refused, Unsent
  <2>2. during'[m] = during[m]
    BY <1>8, <2>1 DEF AcceptedAt, Refused, TypeOK
  <2> QED
    BY <1>2, <2>1, <2>2
<1> QED
  BY <1>4, <1>5, <1>6, <1>7, <1>8, MessageSteps

-----------------------------------------------------------------------------

\* What a step does to the transcripts: nothing; a turn starts from the stored
\* copy; a step boundary adds the inbox; a turn goes, saving its copy or not.
Started(s) ==
    /\ phase'[s] \in {"gap", "over"}
    /\ phase'[s] = "gap" => local' = [local EXCEPT ![s] = Append(stored[sess[s]], s)]
    /\ phase'[s] = "over" => local' = local
    /\ UNCHANGED <<stored, inbox, fate>>
Went(s) ==
    /\ phase'[s] = "over"
    /\ local' = [local EXCEPT ![s] = <<>>]
    /\ \/ stored' = stored
       \/ ReturnTurn(s)

LEMMA TranscriptSteps ==
    ASSUME TypeOK, [Next]_vars
    PROVE  \/ UNCHANGED <<local, stored>> /\ \A r \in Subs : InTurn(r)' => InTurn(r)
           \/ \E s \in Subs : /\ Started(s) \/ BeginStep(s) \/ Went(s)
                              /\ \A r \in Subs \ {s} : phase'[r] = phase[r]
<1> USE DEF TypeOK
<1>1. ASSUME NEW s \in Subs, SubmitTurn(s) \/ LeaveQueue(s) \/ RejectTurn(s)
      PROVE  UNCHANGED <<local, stored, phase>>
  BY <1>1 DEF SubmitTurn, LeaveQueue, RejectTurn, turnVars
<1>2. ASSUME NEW s \in Subs, StartTurn(s)
      PROVE  Started(s) /\ \A r \in Subs \ {s} : phase'[r] = phase[r]
  BY <1>2 DEF StartTurn, Started
<1>3. ASSUME NEW s \in Subs, BeginStep(s)
      PROVE  \A r \in Subs \ {s} : phase'[r] = phase[r]
  BY <1>3 DEF BeginStep
<1>4. ASSUME NEW s \in Subs, ContinueTurn(s) \/ EndTurn(s)
      PROVE  UNCHANGED <<local, stored>> /\ \A r \in Subs : InTurn(r)' => InTurn(r)
  BY <1>4 DEF ContinueTurn, EndTurn, InTurn
<1>5. ASSUME NEW s \in Subs, ThrowTurn(s) \/ ReturnTurn(s) \/ FailSave(s)
      PROVE  Went(s) /\ \A r \in Subs \ {s} : phase'[r] = phase[r]
  BY <1>5 DEF ThrowTurn, ReturnTurn, FailSave, FreeFrame, Went
<1>6. CASE (\E k \in Sessions : Steer(k)) \/ Shutdown \/ CloseStore \/ UNCHANGED vars
  <2>1. UNCHANGED <<local, stored, phase>>
    BY <1>6 DEF Steer, Shutdown, CloseStore, vars, turnVars
  <2> QED
    BY <2>1 DEF InTurn
<1>7. UNCHANGED <<local, stored, phase>> =>
        UNCHANGED <<local, stored>> /\ \A r \in Subs : InTurn(r)' => InTurn(r)
  BY DEF InTurn
<1> QED
  BY <1>1, <1>2, <1>3, <1>4, <1>5, <1>6, <1>7 DEF Next

\* Nobody else saves to the session a turn works on.
LEMMA StepCopyInv ==
    ASSUME TypeOK, PhaseInv, CopyInv, Queue!AtMostOneRunUnlessDropped, [Next]_vars
    PROVE  CopyInv'
<1>0. /\ sess \in [Subs -> Sessions] /\ sess' = sess
      /\ stored \in [Sessions -> Seq(Subs \cup Msgs)]
      /\ local \in [Subs -> Seq(Subs \cup Msgs)]
      /\ \A k \in Sessions : Queue!NoneDropped(k)' => Queue!NoneDropped(k)
  BY DropsStay DEF TypeOK, Queue!TypeOK
<1> SUFFICES ASSUME NEW r \in Subs, InTurn(r)', Queue!NoneDropped(sess[r])
             PROVE  Prefix(stored'[sess[r]], local'[r])
  BY <1>0 DEF CopyInv
<1>1. InTurn(r) => Prefix(stored[sess[r]], local[r])
  BY DEF CopyInv
<1>2. CASE UNCHANGED <<local, stored>> /\ (InTurn(r)' => InTurn(r))
  BY <1>1, <1>2
<1>3. ASSUME NEW s \in Subs, Started(s), \A q \in Subs \ {s} : phase'[q] = phase[q]
      PROVE  Prefix(stored'[sess[r]], local'[r])
  <2>1. CASE r = s
    <3>1. /\ stored[sess[s]] \in Seq(Subs \cup Msgs)
          /\ stored' = stored
          /\ local'[s] = Append(stored[sess[s]], s)
      BY <1>0, <1>3, <2>1 DEF Started, InTurn
    <3> QED
      BY <2>1, <3>1, PrefixAppend
  <2>2. CASE r # s
    BY <1>0, <1>1, <1>3, <2>2 DEF Started, InTurn
  <2> QED
    BY <2>1, <2>2
<1>4. ASSUME NEW s \in Subs, BeginStep(s) PROVE Prefix(stored'[sess[r]], local'[r])
  <2>1. CASE r = s
    <3>1. inbox[sess[s]] \in Seq(Subs \cup Msgs)
      <4>1. inbox[sess[s]] \in Seq(Msgs)
        BY <1>0 DEF TypeOK
      <4> QED
        BY <4>1, SeqMonotonic
    <3>2. /\ local'[s] = local[s] \o inbox[sess[s]] /\ stored' = stored
          /\ InTurn(s)
      BY <1>0, <1>4 DEF BeginStep, InTurn
    <3>3. stored[sess[s]] \in Seq(Subs \cup Msgs) /\ local[s] \in Seq(Subs \cup Msgs)
      BY <1>0
    <3> QED
      BY <1>1, <2>1, <3>1, <3>2, <3>3, PrefixConcat
  <2>2. CASE r # s
    BY <1>0, <1>1, <1>4, <2>2 DEF BeginStep, InTurn
  <2> QED
    BY <2>1, <2>2
<1>5. ASSUME NEW s \in Subs, Went(s), \A q \in Subs \ {s} : phase'[q] = phase[q]
      PROVE  Prefix(stored'[sess[r]], local'[r])
  <2>1. r # s /\ InTurn(r) /\ local'[r] = local[r]
    BY <1>0, <1>5 DEF Went, InTurn
  <2>2. CASE stored' = stored
    BY <1>1, <2>1, <2>2
  <2>3. CASE ReturnTurn(s)
    <3>1. pc[r] = "running" /\ pc[s] = "running"
      BY <2>1, <2>3 DEF PhaseInv, ReturnTurn, InTurn
    <3>2. sess[s] # sess[r]
      BY <1>0, <2>1, <3>1 DEF Queue!AtMostOneRunUnlessDropped, Queue!Running
    <3>3. stored'[sess[r]] = stored[sess[r]]
      BY <1>0, <2>3, <3>2 DEF ReturnTurn
    <3> QED
      BY <1>1, <2>1, <3>3
  <2> QED
    BY <1>5, <2>2, <2>3 DEF Went
<1> QED
  BY <1>2, <1>3, <1>4, <1>5, TranscriptSteps

\* A save continues what the session has stored.
LEMMA StepGrows ==
    ASSUME TypeOK, CopyInv, [Next]_vars, NEW k \in Sessions, Queue!NoneDropped(k)'
    PROVE  /\ Len(stored[k]) <= Len(stored'[k])
           /\ SubSeq(stored'[k], 1, Len(stored[k])) = stored[k]
<1>0. /\ sess \in [Subs -> Sessions]
      /\ stored \in [Sessions -> Seq(Subs \cup Msgs)]
      /\ local \in [Subs -> Seq(Subs \cup Msgs)]
      /\ Queue!NoneDropped(k)
  BY DropsStay DEF TypeOK, Queue!TypeOK
<1>1. Prefix(stored[k], stored[k])
  BY <1>0 DEF Prefix
<1>2. Prefix(stored[k], stored'[k]) /\ stored'[k] \in Seq(Subs \cup Msgs)
  <2>1. CASE stored'[k] = stored[k]
    BY <1>0, <1>1, <2>1
  <2>2. ASSUME NEW s \in Subs, ReturnTurn(s), stored'[k] # stored[k]
        PROVE  Prefix(stored[k], stored'[k]) /\ stored'[k] \in Seq(Subs \cup Msgs)
    <3>1. sess[s] = k /\ stored'[k] = local[s] /\ InTurn(s)
      BY <1>0, <2>2 DEF ReturnTurn, InTurn
    <3> QED
      BY <1>0, <3>1 DEF CopyInv
  <2> QED
    BY <2>1, <2>2, TranscriptSteps DEF Started, BeginStep, Went
<1> QED
  BY <1>0, <1>2, PrefixIsSubSeq

-----------------------------------------------------------------------------

\* A message that was sent stays sent, and what an inbox gains is the lowest
\* message not sent yet.
LEMMA InboxGains ==
    ASSUME TypeOK, InboxInv, [Next]_vars
    PROVE  /\ \A m \in Msgs : fate'[m] = "unsent" => fate[m] = "unsent"
           /\ \A k \in Sessions : \/ inbox'[k] \in {inbox[k], <<>>}
                                  \/ \E m \in Msgs : /\ fate[m] = "unsent"
                                                     /\ inbox'[k] = Append(inbox[k], m)
<1>0. sess \in [Subs -> Sessions] /\ inbox \in [Sessions -> Seq(Msgs)]
      /\ fate \in [Msgs -> Fates]
  BY DEF TypeOK, Queue!TypeOK
<1>1. CASE UNCHANGED <<inbox, fate, takenBy, during>>
  BY <1>1
<1>2. ASSUME NEW s \in Subs, Drained(s)
      PROVE  /\ \A m \in Msgs : fate'[m] = "unsent" => fate[m] = "unsent"
             /\ \A k \in Sessions : inbox'[k] \in {inbox[k], <<>>}
  <2>1. PICK f \in {"applied", "handed", "logged"} : Drain(s, sess[s], f)
    BY <1>2 DEF Drained
  <2>2. \A m \in Msgs : fate'[m] = IF m \in Elements(inbox[sess[s]]) THEN f ELSE fate[m]
    BY <2>1 DEF Drain
  <2>3. \A k \in Sessions : inbox'[k] \in {inbox[k], <<>>}
    BY <1>0, <2>1 DEF Drain
  <2> QED
    BY <2>2, <2>3
<1>3. ASSUME NEW s \in Subs, Resolved(s)
      PROVE  /\ \A m \in Msgs : fate'[m] = "unsent" => fate[m] = "unsent"
             /\ \A k \in Sessions : inbox'[k] \in {inbox[k], <<>>}
  <2>1. PICK f \in {"returned", "lost"} : Resolve(s, f)
    BY <1>3 DEF Resolved
  <2>2. \A m \in Msgs :
            fate'[m] = IF fate[m] = "handed" /\ takenBy[m] = s THEN f ELSE fate[m]
    BY <2>1 DEF Resolve
  <2> QED
    BY <1>3, <2>2 DEF Resolved
<1>4. CASE Shutdown
  <2>1. \A m \in Msgs : fate'[m] = IF fate[m] = "pending" THEN "cleared" ELSE fate[m]
    BY <1>4 DEF Shutdown
  <2>2. \A k \in Sessions : inbox'[k] = <<>>
    BY <1>4 DEF Shutdown
  <2> QED
    BY <2>1, <2>2
<1>5. ASSUME NEW k \in Sessions, NEW m \in Msgs, Unsent(m), AcceptedAt(k, m)
      PROVE  /\ \A n \in Msgs : fate'[n] = "unsent" => fate[n] = "unsent"
             /\ \A l \in Sessions : \/ inbox'[l] \in {inbox[l], <<>>}
                                    \/ \E n \in Msgs : /\ fate[n] = "unsent"
                                                       /\ inbox'[l] = Append(inbox[l], n)
  BY <1>0, <1>5 DEF AcceptedAt, Unsent
<1>6. ASSUME NEW m \in Msgs, Unsent(m), Refused(m)
      PROVE  /\ \A n \in Msgs : fate'[n] = "unsent" => fate[n] = "unsent"
             /\ \A l \in Sessions : inbox'[l] \in {inbox[l], <<>>}
  BY <1>0, <1>6 DEF Refused
<1> QED
  BY <1>1, <1>2, <1>3, <1>4, <1>5, <1>6, MessageSteps

\* Every step leaves the transcripts and the inbox of a session in the order
\* typed: a new message is the highest one sent.
LEMMA StepOrderInv ==
    ASSUME TypeOK, InboxInv, OrderInv, [Next]_vars
    PROVE  OrderInv'
<1>0. /\ sess \in [Subs -> Sessions] /\ sess' = sess
      /\ inbox \in [Sessions -> Seq(Msgs)]
      /\ stored \in [Sessions -> Seq(Subs \cup Msgs)]
      /\ local \in [Subs -> Seq(Subs \cup Msgs)]
      /\ Msgs \subseteq Nat
  BY DropsStay, SteeringAssumption DEF TypeOK, Queue!TypeOK, Msgs
<1>1. \A m, x \in Msgs : fate[m] = "unsent" /\ fate[x] # "unsent" => x < m
  <2> SUFFICES ASSUME NEW m \in Msgs, NEW x \in Msgs, fate[m] = "unsent",
                      fate[x] # "unsent", ~(x < m)
               PROVE  FALSE
    OBVIOUS
  <2>1. m < x
    BY <1>0
  <2> QED
    BY <2>1 DEF InboxInv
<1> SUFFICES ASSUME NEW k \in Sessions
             PROVE  (/\ Increasing(inbox[k])
                     /\ \A t \in Transcripts(k) : Increasing(t)
                     /\ \A t \in Transcripts(k) : \A x \in Elements(t) \cap Msgs :
                         /\ fate[x] # "unsent"
                         /\ \A m \in Elements(inbox[k]) : x < m)'
  BY DEF OrderInv
<1>2. /\ Increasing(inbox[k])
      /\ \A t \in Transcripts(k) : Increasing(t)
      /\ \A t \in Transcripts(k) : \A x \in Elements(t) \cap Msgs :
          /\ fate[x] # "unsent"
          /\ \A m \in Elements(inbox[k]) : x < m
  BY DEF OrderInv
<1>3. \A m \in Elements(inbox[k]) : m \in Msgs /\ fate[m] = "pending"
  BY <1>0 DEF InboxInv, Elements
<1>4. Increasing(inbox'[k])
  <2>1. CASE inbox'[k] = inbox[k]
    BY <1>2, <2>1
  <2>2. CASE inbox'[k] = <<>>
    BY <2>2 DEF Increasing
  <2>3. ASSUME NEW m \in Msgs, fate[m] = "unsent", inbox'[k] = Append(inbox[k], m)
        PROVE  Increasing(inbox'[k])
    <3>1. \A x \in Elements(inbox[k]) \cap Msgs : x < m
      BY <1>1, <1>3, <2>3
    <3>2. inbox[k] \in Seq(Msgs)
      BY <1>0
    <3> QED
      BY <1>2, <2>3, <3>1, <3>2, IncreasingAppend
  <2> QED
    BY <2>1, <2>2, <2>3, InboxGains
<1>5. \A m \in Elements(inbox'[k]) :
          m \in Elements(inbox[k]) \/ (m \in Msgs /\ fate[m] = "unsent")
  <2>1. CASE inbox'[k] = inbox[k]
    BY <2>1
  <2>2. CASE inbox'[k] = <<>>
    <3>1. Elements(inbox'[k]) = {}
      BY <2>2, ElementsEmpty
    <3> QED
      BY <3>1
  <2>3. ASSUME NEW m \in Msgs, fate[m] = "unsent", inbox'[k] = Append(inbox[k], m)
        PROVE  \A n \in Elements(inbox'[k]) :
                   n \in Elements(inbox[k]) \/ (n \in Msgs /\ fate[n] = "unsent")
    <3>1. inbox[k] \in Seq(Msgs)
      BY <1>0
    <3>2. Elements(inbox'[k]) = Elements(inbox[k]) \cup {m}
      BY <2>3, <3>1, ElementsAppend
    <3> QED
      BY <2>3, <3>2
  <2> QED
    BY <2>1, <2>2, <2>3, InboxGains
<1>6. ASSUME NEW t \in Transcripts(k)', Increasing(t),
             \A x \in Elements(t) \cap Msgs : \E u \in Transcripts(k) : x \in Elements(u)
      PROVE  \A x \in Elements(t) \cap Msgs :
                 fate'[x] # "unsent" /\ \A m \in Elements(inbox'[k]) : x < m
  BY <1>1, <1>2, <1>3, <1>5, <1>6, InboxGains
<1> DEFINE Good(t) == /\ Increasing(t)
                      /\ \A x \in Elements(t) \cap Msgs :
                            \E u \in Transcripts(k) : x \in Elements(u)
<1>7. \A t \in Transcripts(k) : Good(t)
  BY <1>2
<1>8. Good(<<>>)
  BY ElementsEmpty DEF Increasing
<1>9. CASE \A t \in Transcripts(k)' : Good(t)
  BY <1>4, <1>6, <1>9
<1>10. CASE UNCHANGED <<local, stored>>
  <2>1. Transcripts(k)' = Transcripts(k)
    BY <1>0, <1>10 DEF Transcripts
  <2> QED
    BY <1>7, <1>9, <2>1
<1>11. ASSUME NEW s \in Subs, Started(s), ~UNCHANGED <<local, stored>>
       PROVE  \A t \in Transcripts(k)' : Good(t)
  <2>1. /\ stored' = stored
        /\ local' = [local EXCEPT ![s] = Append(stored[sess[s]], s)]
    BY <1>11 DEF Started
  <2>2. stored[sess[s]] \in Seq(Subs \cup Msgs)
    BY <1>0
  <2>3. sess[s] = k => Good(Append(stored[k], s))
    <3>1. stored[k] \in Transcripts(k)
      BY DEF Transcripts
    <3>2. s \notin Msgs
      BY SteeringAssumption
    <3>3. Elements(Append(stored[k], s)) \cap Msgs \subseteq Elements(stored[k])
      BY <1>0, <3>2, ElementsAppend
    <3>4. Increasing(Append(stored[k], s))
      BY <1>0, <1>2, <3>1, <3>2, IncreasingAppend
    <3> QED
      BY <3>1, <3>3, <3>4
  <2>4. \A t \in Transcripts(k)' :
            t \in Transcripts(k) \/ (sess[s] = k /\ t = Append(stored[k], s))
    <3>1. ASSUME NEW q \in Subs, sess[q] = k
          PROVE  \/ local'[q] \in Transcripts(k)
                 \/ sess[s] = k /\ local'[q] = Append(stored[k], s)
      <4>1. CASE q = s
        BY <1>0, <2>1, <3>1, <4>1
      <4>2. CASE q # s
        BY <1>0, <2>1, <3>1, <4>2 DEF Transcripts
      <4> QED
        BY <4>1, <4>2
    <3>2. stored'[k] \in Transcripts(k)
      BY <2>1 DEF Transcripts
    <3>3. \A t \in Transcripts(k)' :
              t = stored'[k] \/ \E q \in Subs : sess[q] = k /\ t = local'[q]
      BY <1>0 DEF Transcripts
    <3> QED
      BY <3>1, <3>2, <3>3
  <2> QED
    BY <1>7, <2>3, <2>4
<1>12. ASSUME NEW s \in Subs, Went(s) PROVE \A t \in Transcripts(k)' : Good(t)
  <2>1. local' = [local EXCEPT ![s] = <<>>]
    BY <1>12 DEF Went
  <2>2. stored'[k] \in Transcripts(k)
    BY <1>0, <1>12 DEF Went, ReturnTurn, Transcripts
  <2>3. \A t \in Transcripts(k)' : t \in Transcripts(k) \/ t = <<>>
    BY <1>0, <2>1, <2>2 DEF Transcripts
  <2> QED
    BY <1>7, <1>8, <2>3
<1>13. ASSUME NEW s \in Subs, BeginStep(s), sess[s] # k
       PROVE  \A t \in Transcripts(k)' : Good(t)
  <2>1. Transcripts(k)' = Transcripts(k)
    BY <1>0, <1>13 DEF BeginStep, Transcripts
  <2> QED
    BY <1>7, <2>1
<1>14. ASSUME NEW s \in Subs, BeginStep(s), sess[s] = k
       PROVE  /\ \A t \in Transcripts(k)' : Increasing(t)
              /\ \A t \in Transcripts(k)' : \A x \in Elements(t) \cap Msgs :
                  /\ fate'[x] # "unsent"
                  /\ \A m \in Elements(inbox'[k]) : x < m
  <2>1. /\ stored' = stored
        /\ local' = [local EXCEPT ![s] = local[s] \o inbox[k]]
        /\ inbox'[k] = <<>>
    BY <1>0, <1>14 DEF BeginStep, Drain
  <2>2. inbox[k] \in Seq(Subs \cup Msgs) /\ local[s] \in Seq(Subs \cup Msgs)
    <3>1. inbox[k] \in Seq(Msgs)
      BY <1>0
    <3> QED
      BY <1>0, <3>1, SeqMonotonic
  <2>3. local[s] \in Transcripts(k)
    BY <1>14 DEF Transcripts
  <2>4. Increasing(local[s] \o inbox[k])
    BY <1>2, <2>2, <2>3, IncreasingConcat
  <2>5. \A x \in Elements(local[s] \o inbox[k]) \cap Msgs : fate[x] # "unsent"
    BY <1>2, <1>3, <2>2, <2>3, ElementsConcat
  <2>6. \A t \in Transcripts(k)' : t \in Transcripts(k) \/ t = local[s] \o inbox[k]
    BY <1>0, <2>1 DEF Transcripts
  <2>7. Elements(inbox'[k]) = {}
    BY <2>1, ElementsEmpty
  <2> QED
    BY <1>2, <2>4, <2>5, <2>6, <2>7, InboxGains
<1> QED
  BY <1>4, <1>9, <1>10, <1>11, <1>12, <1>13, <1>14, TranscriptSteps

-----------------------------------------------------------------------------

\* What became of a message does not change again.
Settled == {"refused", "applied", "returned", "logged", "cleared", "lost"}

LEMMA SettledStays ==
    ASSUME TypeOK, InboxInv, [Next]_vars, NEW m \in Msgs, fate[m] \in Settled
    PROVE  fate'[m] = fate[m] /\ takenBy'[m] = takenBy[m]
<1> USE DEF TypeOK, Settled
<1>0. sess \in [Subs -> Sessions] /\ \A k \in Sessions : m \notin Elements(inbox[k])
  BY DEF Queue!TypeOK, InboxInv
<1>1. CASE UNCHANGED <<inbox, fate, takenBy, during>>
  BY <1>1
<1>2. ASSUME NEW s \in Subs, Drained(s) PROVE fate'[m] = fate[m] /\ takenBy'[m] = takenBy[m]
  BY <1>0, <1>2 DEF Drained, Drain
<1>3. ASSUME NEW s \in Subs, Resolved(s) PROVE fate'[m] = fate[m] /\ takenBy'[m] = takenBy[m]
  BY <1>3 DEF Resolved, Resolve
<1>4. CASE Shutdown
  BY <1>4 DEF Shutdown
<1>5. ASSUME NEW k \in Sessions, NEW n \in Msgs, Unsent(n), AcceptedAt(k, n) \/ Refused(n)
      PROVE  fate'[m] = fate[m] /\ takenBy'[m] = takenBy[m]
  BY <1>5 DEF Unsent, AcceptedAt, Refused
<1> QED
  BY <1>1, <1>2, <1>3, <1>4, <1>5, MessageSteps

\* A message enters a transcript at a step boundary, from the inbox.
LEMMA TranscriptGains ==
    ASSUME TypeOK, [Next]_vars, NEW m \in Msgs, InTranscript(m)'
    PROVE  \/ InTranscript(m)
           \/ \E s \in Subs : BeginStep(s) /\ m \in Elements(inbox[sess[s]])
<1>0. /\ sess \in [Subs -> Sessions]
      /\ inbox \in [Sessions -> Seq(Msgs)]
      /\ stored \in [Sessions -> Seq(Subs \cup Msgs)]
      /\ local \in [Subs -> Seq(Subs \cup Msgs)]
  BY DEF TypeOK, Queue!TypeOK
<1>1. CASE UNCHANGED <<local, stored>>
  BY <1>1 DEF InTranscript
<1>2. ASSUME NEW s \in Subs, Started(s) PROVE InTranscript(m)
  <2>1. CASE local' = local
    BY <1>2, <2>1 DEF Started, InTranscript
  <2>2. CASE local' = [local EXCEPT ![s] = Append(stored[sess[s]], s)]
    <3>1. m \notin {s} /\ stored' = stored
      BY <1>2, SteeringAssumption DEF Started
    <3>2. Elements(local'[s]) = Elements(stored[sess[s]]) \cup {s}
      BY <1>0, <2>2, ElementsAppend
    <3>3. \A q \in Subs \ {s} : local'[q] = local[q]
      BY <1>0, <2>2
    <3> QED
      BY <1>0, <3>1, <3>2, <3>3 DEF InTranscript
  <2> QED
    BY <1>2, <2>1, <2>2 DEF Started
<1>3. ASSUME NEW s \in Subs, BeginStep(s)
      PROVE  InTranscript(m) \/ m \in Elements(inbox[sess[s]])
  <2>1. /\ stored' = stored
        /\ local' = [local EXCEPT ![s] = local[s] \o inbox[sess[s]]]
    BY <1>3 DEF BeginStep
  <2>2. inbox[sess[s]] \in Seq(Subs \cup Msgs) /\ local[s] \in Seq(Subs \cup Msgs)
    <3>1. inbox[sess[s]] \in Seq(Msgs)
      BY <1>0
    <3> QED
      BY <1>0, <3>1, SeqMonotonic
  <2>3. Elements(local'[s]) = Elements(local[s]) \cup Elements(inbox[sess[s]])
    BY <1>0, <2>1, <2>2, ElementsConcat
  <2>4. \A q \in Subs \ {s} : local'[q] = local[q]
    BY <1>0, <2>1
  <2> QED
    BY <2>1, <2>3, <2>4 DEF InTranscript
<1>4. ASSUME NEW s \in Subs, Went(s) PROVE InTranscript(m)
  <2>1. \A q \in Subs : local'[q] = local[q] \/ Elements(local'[q]) = {}
    BY <1>0, <1>4, ElementsEmpty DEF Went
  <2>2. \A k \in Sessions : stored'[k] = stored[k] \/ stored'[k] = local[s]
    BY <1>0, <1>4 DEF Went, ReturnTurn
  <2> QED
    BY <2>1, <2>2 DEF InTranscript
<1> QED
  BY <1>1, <1>2, <1>3, <1>4, TranscriptSteps

\* A body that ran runs or is done.
LEMMA StepTakenInv == TypeOK /\ PhaseInv /\ TakenInv /\ [Next]_vars => TakenInv'
<1> SUFFICES ASSUME TypeOK, PhaseInv, TakenInv, [Next]_vars,
                    NEW m \in Msgs, NEW r \in Subs, takenBy'[m] = r
             PROVE  pc'[r] \in {"running", "done"}
  BY DEF TakenInv
<1>1. pc[r] \in {"running", "done"} => pc'[r] \in {"running", "done"}
  BY QueueStep DEF queueVars, TypeOK, Queue!TypeOK, Queue!PCs, Queue!Next, Queue!Enqueue,
     Queue!EnqueueAborted, Queue!StartRun, Queue!AbortWaiting, Queue!DropAborted, Queue!FinishRun
<1>2. takenBy'[m] = takenBy[m] \/ \E s \in Subs : Drained(s) /\ takenBy'[m] = s
  <2>1. ASSUME NEW s \in Subs, Drained(s) PROVE takenBy'[m] \in {takenBy[m], s}
    BY <2>1 DEF Drained, Drain
  <2>2. ASSUME NEW s \in Subs, Resolved(s) PROVE takenBy' = takenBy
    BY <2>2 DEF Resolved
  <2>3. ASSUME NEW k \in Sessions, NEW n \in Msgs, AcceptedAt(k, n) \/ Refused(n)
        PROVE  takenBy' = takenBy
    BY <2>3 DEF AcceptedAt, Refused
  <2>4. Shutdown => takenBy' = takenBy
    BY DEF Shutdown
  <2> QED
    BY <2>1, <2>2, <2>3, <2>4, MessageSteps
<1>3. \A s \in Subs : Drained(s) => pc[s] = "running"
  BY DEF Drained, Reading, PhaseInv, InTurn
<1> QED
  BY <1>1, <1>2, <1>3 DEF TakenInv

\* A pending message stays where it is until it is drained or cleared.
LEMMA StepPending ==
    ASSUME TypeOK, InboxInv, \A n \in Msgs : fate[n] = "pending" => InInbox(n),
           [Next]_vars, NEW m \in Msgs, fate'[m] = "pending"
    PROVE  InInbox(m)'
<1>0. /\ sess \in [Subs -> Sessions] /\ inbox \in [Sessions -> Seq(Msgs)]
      /\ fate \in [Msgs -> Fates]
  BY DEF TypeOK, Queue!TypeOK
<1> USE DEF InInbox
<1>1. CASE UNCHANGED <<inbox, fate, takenBy, during>>
  BY <1>1
<1>2. ASSUME NEW s \in Subs, Drained(s) PROVE InInbox(m)'
  <2>1. PICK f \in {"applied", "handed", "logged"} : Drain(s, sess[s], f)
    BY <1>2 DEF Drained
  <2>2. m \notin Elements(inbox[sess[s]]) /\ fate[m] = "pending"
    BY <2>1 DEF Drain
  <2>3. \A k \in Sessions \ {sess[s]} : inbox'[k] = inbox[k]
    BY <1>0, <2>1 DEF Drain
  <2> QED
    BY <2>2, <2>3
<1>3. ASSUME NEW s \in Subs, Resolved(s) PROVE InInbox(m)'
  BY <1>3 DEF Resolved, Resolve
<1>4. CASE Shutdown
  BY <1>4 DEF Shutdown
<1>5. ASSUME NEW k \in Sessions, NEW n \in Msgs, AcceptedAt(k, n) PROVE InInbox(m)'
  <2>1. \A l \in Sessions : Elements(inbox'[l]) =
            IF l = k THEN Elements(inbox[k]) \cup {n} ELSE Elements(inbox[l])
    <3>1. inbox[k] \in Seq(Msgs)
      BY <1>0
    <3>2. Elements(Append(inbox[k], n)) = Elements(inbox[k]) \cup {n}
      BY <3>1, ElementsAppend
    <3> QED
      BY <1>0, <1>5, <3>2 DEF AcceptedAt
  <2>2. m # n => fate[m] = "pending"
    BY <1>0, <1>5 DEF AcceptedAt
  <2> QED
    BY <2>1, <2>2
<1>6. ASSUME NEW n \in Msgs, Refused(n) PROVE InInbox(m)'
  BY <1>0, <1>6 DEF Refused
<1> QED
  BY <1>1, <1>2, <1>3, <1>4, <1>5, <1>6, MessageSteps

\* What the turns' own copies hold and what their results carry.
Kept(m, s) == fate[m] = "applied" /\ takenBy[m] = s /\ InTurn(s) => m \in Elements(local[s])
Carried(m) == fate[m] = "handed" => \E s \in Subs : takenBy[m] = s /\ phase[s] = "flushed"

\* A step boundary adds what it drains to the turn's copy; nobody else touches
\* the copy of a turn until it goes.
LEMMA StepKept ==
    ASSUME TypeOK, InboxInv, TakenInv, \A n \in Msgs, q \in Subs : Kept(n, q), [Next]_vars,
           NEW m \in Msgs, NEW r \in Subs
    PROVE  Kept(m, r)'
<1> SUFFICES ASSUME fate'[m] = "applied", takenBy'[m] = r, InTurn(r)'
             PROVE  m \in Elements(local'[r])
  BY DEF Kept
<1>0. /\ sess \in [Subs -> Sessions]
      /\ inbox \in [Sessions -> Seq(Msgs)]
      /\ local \in [Subs -> Seq(Subs \cup Msgs)]
      /\ fate \in [Msgs -> Fates]
      /\ phase \in [Subs -> Phases]
  BY DEF TypeOK, Queue!TypeOK
<1>1. fate[m] = "applied" /\ takenBy[m] = r /\ InTurn(r) => m \in Elements(local[r])
  BY DEF Kept
<1>2. ASSUME NEW s \in Subs, BeginStep(s) PROVE m \in Elements(local'[r])
  <2>1. /\ local' = [local EXCEPT ![s] = local[s] \o inbox[sess[s]]]
        /\ Drain(s, sess[s], "applied")
        /\ InTurn(s) /\ phase' = [phase EXCEPT ![s] = "step"]
    BY <1>2 DEF BeginStep, InTurn
  <2>2. inbox[sess[s]] \in Seq(Subs \cup Msgs) /\ local[s] \in Seq(Subs \cup Msgs)
    <3>1. inbox[sess[s]] \in Seq(Msgs)
      BY <1>0
    <3> QED
      BY <1>0, <3>1, SeqMonotonic
  <2>3. Elements(local'[s]) = Elements(local[s]) \cup Elements(inbox[sess[s]])
    BY <1>0, <2>1, <2>2, ElementsConcat
  <2>4. CASE m \in Elements(inbox[sess[s]])
    BY <2>1, <2>3, <2>4 DEF Drain
  <2>5. CASE m \notin Elements(inbox[sess[s]])
    <3>1. fate[m] = "applied" /\ takenBy[m] = r
      BY <2>1, <2>5 DEF Drain
    <3>2. InTurn(r) /\ (r # s => local'[r] = local[r])
      BY <1>0, <2>1 DEF InTurn
    <3> QED
      BY <1>1, <2>3, <3>1, <3>2
  <2> QED
    BY <2>4, <2>5
<1>3. CASE \A s \in Subs : ~BeginStep(s)
  <2>1. fate[m] = "applied" /\ takenBy[m] = r
    <3>1. CASE UNCHANGED <<inbox, fate, takenBy, during>>
      BY <3>1
    <3>2. ASSUME NEW s \in Subs, EndTurn(s) \/ ThrowTurn(s)
          PROVE  fate[m] = "applied"
      BY <1>0, <3>2 DEF EndTurn, ThrowTurn, CloseAndDrain, Drain
    <3>3. ASSUME NEW s \in Subs, ReturnTurn(s) \/ FailSave(s)
          PROVE  fate[m] = "applied"
      BY <3>3 DEF ReturnTurn, FailSave, Resolve
    <3>4. ASSUME NEW k \in Sessions, Steer(k) PROVE fate[m] = "applied"
      BY <1>0, <3>4 DEF Steer
    <3>5. CASE Shutdown
      BY <3>5 DEF Shutdown
    <3>6. ASSUME NEW s \in Subs, SubmitTurn(s) \/ LeaveQueue(s) \/ StartTurn(s)
                                 \/ ContinueTurn(s) \/ RejectTurn(s)
          PROVE  fate[m] = "applied"
      BY <3>6 DEF SubmitTurn, LeaveQueue, StartTurn, ContinueTurn, RejectTurn, windowVars
    <3>7. CASE CloseStore \/ UNCHANGED vars
      BY <3>7 DEF CloseStore, vars, windowVars
    <3>8. fate[m] = "applied"
      BY <1>3, <3>2, <3>3, <3>4, <3>5, <3>6, <3>7 DEF Next
    <3> QED
      BY <3>8, SettledStays DEF Settled
  <2>2. CASE UNCHANGED <<local, stored>> /\ (InTurn(r)' => InTurn(r))
    BY <1>1, <2>1, <2>2
  <2>3. ASSUME NEW s \in Subs, StartTurn(s) PROVE m \in Elements(local'[r])
    <3>1. r # s
      BY <2>1, <2>3 DEF TakenInv, StartTurn, Queue!StartRun
    <3>2. phase'[r] = phase[r] /\ local'[r] = local[r]
      BY <1>0, <2>3, <3>1 DEF StartTurn
    <3> QED
      BY <1>1, <2>1, <3>2 DEF InTurn
  <2>4. ASSUME NEW s \in Subs, ThrowTurn(s) \/ ReturnTurn(s) \/ FailSave(s)
        PROVE  m \in Elements(local'[r])
    <3>1. FreeFrame(s)
      BY <2>4 DEF ThrowTurn, ReturnTurn, FailSave
    <3>2. r # s
      BY <1>0, <3>1 DEF FreeFrame, InTurn
    <3>3. phase'[r] = phase[r] /\ local'[r] = local[r]
      BY <1>0, <3>1, <3>2 DEF FreeFrame
    <3> QED
      BY <1>1, <2>1, <3>3 DEF InTurn
  <2>5. ASSUME NEW s \in Subs, SubmitTurn(s) \/ LeaveQueue(s) \/ ContinueTurn(s) \/ EndTurn(s)
                               \/ RejectTurn(s)
        PROVE  UNCHANGED <<local, stored>> /\ (InTurn(r)' => InTurn(r))
    BY <1>0, <2>5 DEF SubmitTurn, LeaveQueue, ContinueTurn, EndTurn, RejectTurn, turnVars, InTurn
  <2>6. ASSUME (\E k \in Sessions : Steer(k)) \/ Shutdown \/ CloseStore \/ UNCHANGED vars
        PROVE  UNCHANGED <<local, stored>> /\ (InTurn(r)' => InTurn(r))
    BY <2>6 DEF Steer, Shutdown, CloseStore, vars, turnVars, InTurn
  <2> QED
    BY <1>3, <2>2, <2>3, <2>4, <2>5, <2>6 DEF Next
<1> QED
  BY <1>2, <1>3

\* A turn that has closed its window resolves what its result carries when it
\* returns, and only that.
LEMMA StepCarried ==
    ASSUME TypeOK, PhaseInv, \A n \in Msgs : Carried(n), [Next]_vars, NEW m \in Msgs
    PROVE  Carried(m)'
<1> SUFFICES ASSUME fate'[m] = "handed"
             PROVE  \E s \in Subs : takenBy'[m] = s /\ phase'[s] = "flushed"
  BY DEF Carried
<1>0. /\ fate \in [Msgs -> Fates] /\ takenBy \in [Msgs -> Subs \cup {NoSub}]
      /\ phase \in [Subs -> Phases]
  BY DEF TypeOK
<1>1. fate[m] = "handed" => \E s \in Subs : takenBy[m] = s /\ phase[s] = "flushed"
  BY DEF Carried
<1>2. ASSUME fate[m] = "handed", takenBy'[m] = takenBy[m],
             NEW s \in Subs, phase[s] # "flushed", \A q \in Subs \ {s} : phase'[q] = phase[q]
      PROVE  \E q \in Subs : takenBy'[m] = q /\ phase'[q] = "flushed"
  BY <1>1, <1>2
<1>3. ASSUME NEW s \in Subs, StartTurn(s)
      PROVE  \E q \in Subs : takenBy'[m] = q /\ phase'[q] = "flushed"
  <2>1. phase[s] # "flushed"
    BY <1>3 DEF StartTurn, Queue!StartRun, PhaseInv, InTurn
  <2>2. /\ UNCHANGED <<fate, takenBy>>
        /\ \A q \in Subs \ {s} : phase'[q] = phase[q]
    BY <1>0, <1>3 DEF StartTurn
  <2> QED
    BY <1>2, <2>1, <2>2
<1>4. ASSUME NEW s \in Subs, BeginStep(s) \/ ThrowTurn(s)
      PROVE  \E q \in Subs : takenBy'[m] = q /\ phase'[q] = "flushed"
  <2>1. PICK f \in {"applied", "logged"} : Drain(s, sess[s], f)
    BY <1>4 DEF BeginStep, ThrowTurn, CloseAndDrain
  <2>2. fate[m] = "handed" /\ takenBy'[m] = takenBy[m]
    BY <2>1 DEF Drain
  <2>3. phase[s] # "flushed" /\ \A q \in Subs \ {s} : phase'[q] = phase[q]
    BY <1>0, <1>4 DEF BeginStep, ThrowTurn, FreeFrame
  <2> QED
    BY <1>2, <2>2, <2>3
<1>5. ASSUME NEW s \in Subs, EndTurn(s)
      PROVE  \E q \in Subs : takenBy'[m] = q /\ phase'[q] = "flushed"
  <2>1. /\ Drain(s, sess[s], "handed")
        /\ phase' = [phase EXCEPT ![s] = "flushed"]
        /\ phase[s] # "flushed"
    BY <1>5 DEF EndTurn, CloseAndDrain
  <2>2. CASE m \in Elements(inbox[sess[s]])
    BY <1>0, <2>1, <2>2 DEF Drain
  <2>3. CASE m \notin Elements(inbox[sess[s]])
    <3>1. fate[m] = "handed" /\ takenBy'[m] = takenBy[m]
      BY <2>1, <2>3 DEF Drain
    <3> QED
      BY <1>0, <1>2, <2>1, <3>1
  <2> QED
    BY <2>2, <2>3
<1>6. ASSUME NEW s \in Subs, ReturnTurn(s) \/ FailSave(s)
      PROVE  \E q \in Subs : takenBy'[m] = q /\ phase'[q] = "flushed"
  <2>1. fate[m] = "handed" /\ takenBy[m] # s /\ takenBy' = takenBy
    BY <1>6 DEF ReturnTurn, FailSave, Resolve
  <2>2. \A q \in Subs \ {s} : phase'[q] = phase[q]
    BY <1>0, <1>6 DEF ReturnTurn, FailSave, FreeFrame
  <2> QED
    BY <1>1, <2>1, <2>2
<1>7. ASSUME NEW s \in Subs, ContinueTurn(s)
      PROVE  \E q \in Subs : takenBy'[m] = q /\ phase'[q] = "flushed"
  <2>1. /\ UNCHANGED <<fate, takenBy>> /\ phase[s] # "flushed"
        /\ \A q \in Subs \ {s} : phase'[q] = phase[q]
    BY <1>0, <1>7 DEF ContinueTurn, windowVars
  <2> QED
    BY <1>2, <2>1
<1>8. ASSUME NEW s \in Subs, SubmitTurn(s) \/ LeaveQueue(s) \/ RejectTurn(s)
      PROVE  UNCHANGED <<phase, fate, takenBy>>
  BY <1>8 DEF SubmitTurn, LeaveQueue, RejectTurn, turnVars, windowVars
<1>9. ASSUME NEW k \in Sessions, Steer(k)
      PROVE  UNCHANGED <<phase, takenBy>> /\ fate[m] = "handed"
  BY <1>0, <1>9 DEF Steer, turnVars
<1>10. CASE Shutdown
  BY <1>1, <1>10 DEF Shutdown, turnVars
<1>11. CASE CloseStore \/ UNCHANGED vars
  BY <1>1, <1>11 DEF CloseStore, vars, turnVars, windowVars
<1> QED
  BY <1>1, <1>3, <1>4, <1>5, <1>6, <1>7, <1>8, <1>9, <1>10, <1>11 DEF Next

\* Every step leaves each accepted message in one place.
LEMMA StepHeard ==
    ASSUME TypeOK, PhaseInv, InboxInv, InboxInv', WindowHasReader', TakenInv,
           HeardOrHandedBack, [Next]_vars
    PROVE  HeardOrHandedBack'
<1>1. ASSUME NEW m \in Msgs PROVE (fate[m] = "pending" <=> InInbox(m))'
  <2>1. fate'[m] = "pending" => InInbox(m)'
    BY StepPending DEF HeardOrHandedBack
  <2>2. InInbox(m)' => fate'[m] = "pending"
    BY DEF InInbox, InboxInv
  <2> QED
    BY <2>1, <2>2
<1>2. ASSUME NEW m \in Msgs, InTranscript(m)' PROVE fate'[m] = "applied"
  <2>1. CASE InTranscript(m)
    <3>1. fate[m] = "applied"
      BY <2>1 DEF HeardOrHandedBack
    <3> QED
      BY <3>1, SettledStays DEF Settled
  <2>2. ASSUME NEW s \in Subs, BeginStep(s), m \in Elements(inbox[sess[s]])
        PROVE  fate'[m] = "applied"
    BY <2>2 DEF BeginStep, Drain
  <2> QED
    BY <1>2, <2>1, <2>2, TranscriptGains
<1>3. ASSUME NEW m \in Msgs, NEW s \in Subs PROVE Kept(m, s)'
  BY StepKept DEF HeardOrHandedBack, Kept, InTurn
<1>4. ASSUME NEW m \in Msgs PROVE Carried(m)'
  BY StepCarried DEF HeardOrHandedBack, Carried
<1> QED
  BY <1>1, <1>2, <1>3, <1>4 DEF HeardOrHandedBack, Kept, Carried, InTurn

-----------------------------------------------------------------------------

\* IInv is inductive under what the queue guarantees, hence holds always.
THEOREM Invariance == Spec => []IInv
<1> DEFINE QInv == Queue!TypeOK /\ Queue!AtMostOneRunUnlessDropped
<1>1. IInv /\ QInv /\ QInv' /\ [Next]_vars => IInv'
  <2> SUFFICES ASSUME IInv, QInv, QInv', [Next]_vars PROVE IInv'
    OBVIOUS
  <2> USE DEF IInv
  <2>1. TypeOK' /\ PhaseInv' /\ WindowHasReader'
    BY StepTypeOK, StepPhaseInv, StepWindow
  <2>2. InboxInv' /\ StayInv'
    BY StepInboxInv, StepStayInv
  <2>3. SteersStayInTheirTurn'
    BY <2>1, StepSteersStay
  <2>4. CopyInv' /\ OrderInv'
    BY StepCopyInv, StepOrderInv
  <2>5. TakenInv'
    BY StepTakenInv
  <2>6. HeardOrHandedBack'
    BY <2>1, <2>2, StepHeard
  <2> QED
    BY <2>1, <2>2, <2>3, <2>4, <2>5, <2>6
<1> QED
  BY InitIInv, QueueFacts, <1>1, PTL DEF Spec

\* No step leaves the declared shape of the state.
THEOREM TypeCorrect == Spec => []TypeOK
  BY Invariance, PTL DEF IInv

\* An open window belongs to a turn that has yet to close it, whatever turns
\* overlap, fail or end during shutdown.
THEOREM WindowsHaveReaders == Spec => []WindowHasReader
  BY Invariance, PTL DEF IInv

\* Every message accepted waits where a running turn will read it, or was heard
\* and is in the transcript that turn saves, or is on its way back to a host, or
\* has been given back, logged, cleared or lost without being heard; whatever
\* turns overlap, fail or end during shutdown.
THEOREM MessagesAccountedFor == Spec => []HeardOrHandedBack
  BY Invariance, PTL DEF IInv

\* What became of a message does not change again: one that was heard is not
\* handed back, and one that was handed back is not heard.
THEOREM FatesAreFinal ==
    Spec => [][\A m \in Msgs : fate[m] \in Settled =>
                  fate'[m] = fate[m] /\ takenBy'[m] = takenBy[m]]_vars
<1>1. IInv /\ [Next]_vars =>
        [\A m \in Msgs : fate[m] \in Settled =>
            fate'[m] = fate[m] /\ takenBy'[m] = takenBy[m]]_vars
  BY SettledStays DEF IInv
<1> QED
  BY <1>1, Invariance, PTL DEF Spec

\* A turn that returns has stored every message it heard.
THEOREM HeardIsStored ==
    Spec => [][\A s \in Subs, m \in Msgs : ReturnTurn(s) /\ fate[m] = "applied" /\ takenBy[m] = s
                  => m \in Elements(stored'[sess[s]])]_vars
<1>1. IInv /\ [Next]_vars =>
        [\A s \in Subs, m \in Msgs : ReturnTurn(s) /\ fate[m] = "applied" /\ takenBy[m] = s
            => m \in Elements(stored'[sess[s]])]_vars
  <2> SUFFICES ASSUME IInv, NEW s \in Subs, NEW m \in Msgs, ReturnTurn(s),
                      fate[m] = "applied", takenBy[m] = s
               PROVE  m \in Elements(stored'[sess[s]])
    OBVIOUS
  <2>1. m \in Elements(local[s])
    BY DEF IInv, HeardOrHandedBack, ReturnTurn
  <2>2. stored'[sess[s]] = local[s]
    BY DEF ReturnTurn, IInv, TypeOK, Queue!TypeOK
  <2> QED
    BY <2>1, <2>2
<1> QED
  BY <1>1, Invariance, PTL DEF Spec

\* A message is drained by a turn that ran when it was accepted, in a session
\* none of whose submissions was dropped.
THEOREM SteersStay == Spec => []SteersStayInTheirTurn
  BY Invariance, PTL DEF IInv

\* Every transcript, stored or being worked on, has the steered messages in the
\* order typed, each once, whatever turns overlap.
THEOREM TranscriptsInOrder == Spec => []TranscriptInOrder
<1>1. IInv => TranscriptInOrder
  <2> SUFFICES ASSUME IInv, NEW k \in Sessions, NEW s \in Subs,
                      NEW t \in {stored[k], local[s]}
               PROVE  Increasing(t)
    BY DEF TranscriptInOrder, Increasing
  <2>1. sess[s] \in Sessions
    BY DEF IInv, TypeOK, Queue!TypeOK
  <2>2. stored[k] \in Transcripts(k) /\ local[s] \in Transcripts(sess[s])
    BY DEF Transcripts
  <2> QED
    BY <2>1, <2>2 DEF IInv, OrderInv
<1> QED
  BY <1>1, Invariance, PTL

\* What a session has stored is never overwritten by a turn that started from
\* an older copy, in a session none of whose submissions was dropped.
THEOREM StoredTranscriptsGrow == Spec => TranscriptGrows
<1>1. IInv /\ [Next]_vars =>
        [\A k \in Sessions : Queue!NoneDropped(k)' =>
            /\ Len(stored[k]) <= Len(stored'[k])
            /\ SubSeq(stored'[k], 1, Len(stored[k])) = stored[k]]_vars
  BY StepGrows DEF IInv
<1> QED
  BY <1>1, Invariance, PTL DEF Spec, TranscriptGrows

=============================================================================
