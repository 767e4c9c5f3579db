------------------------- MODULE TurnControllerProofs -------------------------
(***************************************************************************)
(* Theorems about TurnController for every set of sessions and submissions: *)
(* type correctness, per-session order and mutual exclusion as long as no  *)
(* submission of the session was aborted in the queue, and that busy flags,*)
(* hooks and map entries belong to who they should.                        *)
(***************************************************************************)
EXTENDS TurnController, TLAPS

\* A promise is resolved exactly when its submission has settled, and chains
\* stay inside a session and reach only submissions that were enqueued.
ChainInv ==
    /\ \A s \in Subs : s \in released <=> pc[s] \in {"done", "dropped"}
    /\ \A s \in Subs : prev[s] # NoSub =>
        pc[prev[s]] \notin {"idle", "rejected"} /\ sess[prev[s]] = sess[s]
    /\ \A s \in Subs : \A t \in ahead[s] : pc[t] \notin {"idle", "rejected"}
    /\ TailIsLive

\* Two unsettled submissions of a session were enqueued one before the other.
Ordered(k) == \A s, t \in Live(k) : s = t \/ t \in ahead[s] \/ s \in ahead[t]

\* Who is unsettled is the tail or was ahead of it.
TailCovers(k) ==
    /\ queues[k] = NoSub => Live(k) = {}
    /\ queues[k] # NoSub => Live(k) \subseteq {queues[k]} \cup ahead[queues[k]]

\* Who is unsettled and ahead of s is the predecessor s awaits or was ahead of
\* that one.
ChainCovers(k) == \A s \in Live(k) : ahead[s] \cap Live(k) # {} =>
    /\ prev[s] # NoSub
    /\ ahead[s] \cap Live(k) \subseteq {prev[s]} \cup ahead[prev[s]]

\* Nobody is still ahead of a submission that started.
StartedIsFirst(k) == \A s \in Subs :
    sess[s] = k /\ pc[s] \in {"running", "done"} => ahead[s] \cap Live(k) = {}

OrderInv == \A k \in Sessions : NoneDropped(k) =>
    Ordered(k) /\ TailCovers(k) /\ ChainCovers(k) /\ StartedIsFirst(k)

\* The inductive invariant.
IInv == TypeOK /\ ChainInv /\ OrderInv /\ OwnershipAgrees

-----------------------------------------------------------------------------

LEMMA InitIInv == Init => IInv
  BY SubsAssumption DEF Init, IInv, TypeOK, PCs, ChainInv, TailIsLive, Live,
     OrderInv, Ordered, TailCovers, ChainCovers, StartedIsFirst, OwnershipAgrees,
     Running

\* No action leaves the type of the state.
LEMMA StepTypeOK == TypeOK /\ [Next]_tcVars => TypeOK'
<1> SUFFICES ASSUME TypeOK, [Next]_tcVars PROVE TypeOK'
  OBVIOUS
<1> USE DEF TypeOK, PCs, ReleaseTurn
<1>1. ASSUME NEW s \in Subs, Enqueue(s) PROVE TypeOK'
  BY <1>1 DEF Enqueue, Live
<1>2. ASSUME NEW s \in Subs, EnqueueAborted(s) PROVE TypeOK'
  BY <1>2 DEF EnqueueAborted
<1>3. ASSUME NEW s \in Subs, StartRun(s) PROVE TypeOK'
  BY <1>3 DEF StartRun
<1>4. ASSUME NEW s \in Subs, AbortWaiting(s) PROVE TypeOK'
  BY <1>4 DEF AbortWaiting
<1>5. ASSUME NEW s \in Subs, DropAborted(s) PROVE TypeOK'
  BY <1>5 DEF DropAborted
<1>6. ASSUME NEW s \in Subs, FinishRun(s) PROVE TypeOK'
  BY <1>6 DEF FinishRun
<1>7. CASE UNCHANGED tcVars
  BY <1>7 DEF tcVars
<1> QED
  BY <1>1, <1>2, <1>3, <1>4, <1>5, <1>6, <1>7 DEF Next

\* The chain of promises stays well formed whatever is aborted or dropped.
LEMMA StepChainInv == TypeOK /\ ChainInv /\ [Next]_tcVars => ChainInv'
<1> SUFFICES ASSUME TypeOK, ChainInv, [Next]_tcVars PROVE ChainInv'
  OBVIOUS
<1> USE SubsAssumption DEF TypeOK, PCs, ChainInv, TailIsLive, Live, ReleaseTurn
<1>1. ASSUME NEW s \in Subs, Enqueue(s) PROVE ChainInv'
  BY <1>1 DEF Enqueue
<1>2. ASSUME NEW s \in Subs, EnqueueAborted(s) PROVE ChainInv'
  BY <1>2 DEF EnqueueAborted
<1>3. ASSUME NEW s \in Subs, StartRun(s) PROVE ChainInv'
  BY <1>3 DEF StartRun
<1>4. ASSUME NEW s \in Subs, AbortWaiting(s) PROVE ChainInv'
  BY <1>4 DEF AbortWaiting
<1>5. ASSUME NEW s \in Subs, DropAborted(s) PROVE ChainInv'
  BY <1>5 DEF DropAborted
<1>6. ASSUME NEW s \in Subs, FinishRun(s) PROVE ChainInv'
  BY <1>6 DEF FinishRun
<1>7. CASE UNCHANGED tcVars
  BY <1>7 DEF tcVars
<1> QED
  BY <1>1, <1>2, <1>3, <1>4, <1>5, <1>6, <1>7 DEF Next

\* A session that has seen no drop after a step had seen none before it.
LEMMA DropsStay ==
    ASSUME TypeOK, [Next]_tcVars, NEW k \in Sessions, NoneDropped(k)'
    PROVE  NoneDropped(k)
  BY DEF TypeOK, NoneDropped, Next, tcVars, Enqueue, EnqueueAborted, StartRun,
     AbortWaiting, DropAborted, FinishRun

\* The order of a session without drops survives every step.
LEMMA StepOrderInv ==
    TypeOK /\ ChainInv /\ OrderInv /\ [Next]_tcVars => OrderInv'
<1> SUFFICES ASSUME TypeOK, ChainInv, OrderInv, [Next]_tcVars,
                    NEW k \in Sessions, NoneDropped(k)'
             PROVE  (Ordered(k) /\ TailCovers(k) /\ ChainCovers(k)
                        /\ StartedIsFirst(k))'
  BY DEF OrderInv
<1>1. NoneDropped(k)
  BY DropsStay
<1>2. Ordered(k) /\ TailCovers(k) /\ ChainCovers(k) /\ StartedIsFirst(k)
  BY <1>1 DEF OrderInv
<1> USE SubsAssumption DEF TypeOK, PCs, Live
<1>3. ASSUME NEW s \in Subs, Enqueue(s)
      PROVE  (Ordered(k) /\ TailCovers(k) /\ ChainCovers(k) /\ StartedIsFirst(k))'
  <2>1. CASE sess[s] = k
    <3>1. Live(k)' = Live(k) \cup {s} /\ s \notin Live(k) /\ ahead'[s] = Live(k)
      BY <1>3, <2>1 DEF Enqueue
    <3>2. \A t \in Subs \ {s} : ahead'[t] = ahead[t] /\ s \notin ahead[t]
      BY <1>3 DEF Enqueue, ChainInv
    <3>3. \A t \in Subs \ {s} : prev'[t] = prev[t] /\ prev[t] # s
      BY <1>3 DEF Enqueue, ChainInv
    <3>4. prev'[s] = queues[k] /\ queues'[k] = s /\ queues[k] # s
      BY <1>3, <2>1 DEF Enqueue, ChainInv, TailIsLive
    <3>5. Ordered(k)'
      BY <1>2, <3>1, <3>2 DEF Ordered
    <3>6. TailCovers(k)'
      BY <3>1, <3>4 DEF TailCovers
    <3>7. ChainCovers(k)'
      BY <1>2, <3>1, <3>2, <3>3, <3>4 DEF ChainCovers, TailCovers
    <3>8. StartedIsFirst(k)'
      BY <1>2, <1>3, <3>1, <3>2 DEF StartedIsFirst, Enqueue
    <3> QED
      BY <3>5, <3>6, <3>7, <3>8
  <2>2. CASE sess[s] # k
    BY <1>2, <1>3, <2>2 DEF Enqueue, ChainInv, TailIsLive, Ordered, TailCovers,
       ChainCovers, StartedIsFirst
  <2> QED
    BY <2>1, <2>2
<1>4. ASSUME NEW s \in Subs, EnqueueAborted(s)
      PROVE  (Ordered(k) /\ TailCovers(k) /\ ChainCovers(k) /\ StartedIsFirst(k))'
  BY <1>2, <1>4 DEF EnqueueAborted, Ordered, TailCovers, ChainCovers, StartedIsFirst
<1>5. ASSUME NEW s \in Subs, StartRun(s)
      PROVE  (Ordered(k) /\ TailCovers(k) /\ ChainCovers(k) /\ StartedIsFirst(k))'
  <2>1. Live(k)' = Live(k)
    BY <1>5 DEF StartRun
  <2>2. Ordered(k)' /\ TailCovers(k)' /\ ChainCovers(k)'
    BY <1>2, <1>5, <2>1 DEF StartRun, Ordered, TailCovers, ChainCovers
  <2>3. sess[s] = k => ahead[s] \cap Live(k) = {}
    <3> SUFFICES ASSUME sess[s] = k, prev[s] # NoSub PROVE ahead[s] \cap Live(k) = {}
      BY <1>2, <1>5 DEF StartRun, ChainCovers
    <3>1. prev[s] \in Subs /\ sess[prev[s]] = k /\ pc[prev[s]] = "done"
      BY <1>1, <1>5 DEF StartRun, PreviousSettled, ChainInv, NoneDropped
    <3>2. ahead[prev[s]] \cap Live(k) = {} /\ prev[s] \notin Live(k)
      BY <1>2, <3>1 DEF StartedIsFirst
    <3> QED
      BY <1>2, <1>5, <3>2 DEF StartRun, ChainCovers
  <2>4. StartedIsFirst(k)'
    BY <1>2, <1>5, <2>1, <2>3 DEF StartRun, StartedIsFirst
  <2> QED
    BY <2>2, <2>4
<1>6. ASSUME NEW s \in Subs, AbortWaiting(s)
      PROVE  (Ordered(k) /\ TailCovers(k) /\ ChainCovers(k) /\ StartedIsFirst(k))'
  BY <1>2, <1>6 DEF AbortWaiting, Ordered, TailCovers, ChainCovers, StartedIsFirst
<1>7. ASSUME NEW s \in Subs, DropAborted(s)
      PROVE  (Ordered(k) /\ TailCovers(k) /\ ChainCovers(k) /\ StartedIsFirst(k))'
  <2>1. sess[s] # k
    BY <1>7 DEF DropAborted, NoneDropped
  <2>2. Live(k)' = Live(k) /\ queues'[k] = queues[k]
    BY <1>7, <2>1 DEF DropAborted, ReleaseTurn
  <2> QED
    BY <1>2, <1>7, <2>1, <2>2 DEF DropAborted, Ordered, TailCovers, ChainCovers,
       StartedIsFirst
<1>8. ASSUME NEW s \in Subs, FinishRun(s)
      PROVE  (Ordered(k) /\ TailCovers(k) /\ ChainCovers(k) /\ StartedIsFirst(k))'
  <2>1. Live(k)' = Live(k) \ {s}
    BY <1>8 DEF FinishRun
  <2>2. UNCHANGED <<prev, ahead, sess>>
    BY <1>8 DEF FinishRun
  <2>3. Ordered(k)' /\ ChainCovers(k)'
    BY <1>2, <2>1, <2>2 DEF Ordered, ChainCovers
  <2>4. StartedIsFirst(k)'
    BY <1>2, <1>8, <2>1, <2>2 DEF FinishRun, StartedIsFirst
  <2>5. TailCovers(k)'
    BY <1>2, <1>8, <2>1, <2>2 DEF FinishRun, ReleaseTurn, TailCovers, StartedIsFirst
  <2> QED
    BY <2>3, <2>4, <2>5
<1>9. CASE UNCHANGED tcVars
  BY <1>2, <1>9 DEF tcVars, Ordered, TailCovers, ChainCovers, StartedIsFirst
<1> QED
  BY <1>3, <1>4, <1>5, <1>6, <1>7, <1>8, <1>9 DEF Next

\* Two bodies in one session would each have to have been enqueued before the
\* other one started.
LEMMA OrderGivesExclusion == OrderInv => AtMostOneRunUnlessDropped
  BY DEF OrderInv, Ordered, StartedIsFirst, AtMostOneRunUnlessDropped, Running, Live

-----------------------------------------------------------------------------

\* Flags and hooks follow the one body that runs, because there is only one.
LEMMA StepOwnership ==
    IInv /\ [Next]_tcVars /\ AtMostOneRunUnlessDropped' => OwnershipAgrees'
<1> SUFFICES ASSUME IInv, [Next]_tcVars, AtMostOneRunUnlessDropped',
                    NEW k \in Sessions, NoneDropped(k)'
             PROVE  (/\ k \in busy <=> Running(k) # {}
                     /\ hooks[k] = NoSub <=> Running(k) \cap Hooked = {}
                     /\ hooks[k] # NoSub => hooks[k] \in Running(k))'
  BY DEF OwnershipAgrees
<1> DEFINE Agrees == /\ k \in busy <=> Running(k) # {}
                     /\ hooks[k] = NoSub <=> Running(k) \cap Hooked = {}
                     /\ hooks[k] # NoSub => hooks[k] \in Running(k)
<1>1. NoneDropped(k)
  BY DropsStay DEF IInv
<1>2. Agrees
  BY <1>1 DEF IInv, OwnershipAgrees
<1>3. /\ \A s, t \in Running(k) : s = t
      /\ \A s, t \in Running(k)' : s = t
  BY <1>1, OrderGivesExclusion DEF IInv, AtMostOneRunUnlessDropped
<1> USE SubsAssumption DEF IInv, TypeOK, PCs, Running
<1>4. ASSUME NEW s \in Subs, StartRun(s) PROVE Agrees'
  <2>1. CASE sess[s] = k
    <3>1. s \in Running(k)' /\ Running(k) = {} /\ Running(k)' = {s}
      BY <1>3, <1>4, <2>1 DEF StartRun
    <3> QED
      BY <1>2, <1>4, <2>1, <3>1 DEF StartRun
  <2>2. CASE sess[s] # k
    BY <1>2, <1>4, <2>2 DEF StartRun
  <2> QED
    BY <2>1, <2>2
<1>5. ASSUME NEW s \in Subs, FinishRun(s) PROVE Agrees'
  <2>1. CASE sess[s] = k
    <3>1. Running(k) = {s} /\ Running(k)' = {}
      BY <1>3, <1>5, <2>1 DEF FinishRun
    <3> QED
      BY <1>2, <1>5, <2>1, <3>1 DEF FinishRun
  <2>2. CASE sess[s] # k
    BY <1>2, <1>5, <2>2 DEF FinishRun
  <2> QED
    BY <2>1, <2>2
<1>6. ASSUME NEW s \in Subs,
             Enqueue(s) \/ EnqueueAborted(s) \/ AbortWaiting(s) \/ DropAborted(s)
      PROVE  Agrees'
  <2>1. UNCHANGED <<hooks, busy, sess>> /\ Running(k)' = Running(k)
    BY <1>6 DEF Enqueue, EnqueueAborted, AbortWaiting, DropAborted
  <2> QED
    BY <1>2, <2>1
<1>7. CASE UNCHANGED tcVars
  BY <1>2, <1>7 DEF tcVars
<1> QED
  BY <1>4, <1>5, <1>6, <1>7 DEF Next

\* IInv is inductive, hence holds in every reachable state.
THEOREM Invariance == Spec => []IInv
<1>1. IInv /\ [Next]_tcVars => IInv'
  <2> SUFFICES ASSUME IInv, [Next]_tcVars PROVE IInv'
    OBVIOUS
  <2>1. TypeOK' /\ ChainInv' /\ OrderInv'
    BY StepTypeOK, StepChainInv, StepOrderInv DEF IInv
  <2>2. AtMostOneRunUnlessDropped'
    BY <2>1, OrderGivesExclusion DEF OrderInv, AtMostOneRunUnlessDropped, NoneDropped, Running,
       Ordered, StartedIsFirst, Live
  <2> QED
    BY <2>1, <2>2, StepOwnership DEF IInv
<1> QED
  BY InitIInv, <1>1, PTL DEF Spec

\* No step of the queue leaves the declared shape of its maps and sets.
THEOREM TypeCorrect == Spec => []TypeOK
  BY Invariance, PTL DEF IInv

\* "At most one run() runs concurrently for a given sessionId", as long as no
\* submission of the session was aborted in the queue.
THEOREM MutualExclusion == Spec => []AtMostOneRunUnlessDropped
  BY Invariance, OrderGivesExclusion, PTL DEF IInv

\* "Submissions on the same session run in the order they were enqueued",
\* under the same condition.
THEOREM RunsInOrder == Spec => []FifoUnlessDropped
<1>1. IInv => FifoUnlessDropped
  BY DEF IInv, TypeOK, OrderInv, StartedIsFirst, FifoUnlessDropped
<1> QED
  BY <1>1, Invariance, PTL

\* isBusy() and emit() speak of the running body, under the same condition.
THEOREM OwnershipCorrect == Spec => []OwnershipAgrees
  BY Invariance, PTL DEF IInv

\* The queue map holds only unsettled submissions, aborted or not: it does not
\* grow with throwaway sessions.
THEOREM TailCorrect == Spec => []TailIsLive
  BY Invariance, PTL DEF IInv, ChainInv

-----------------------------------------------------------------------------

\* Every step of the chain of promises is a step of the abstract FIFO or leaves
\* it alone, whichever submissions are aborted in the queue and when.
THEOREM ImplementsFifo == Spec => Fifo!SafeSpec
<1>1. Init => Fifo!Init
  BY DEF Init, Fifo!Init, Status
<1>2. IInv /\ IInv' /\ [Next]_tcVars => [Fifo!Next]_(Fifo!vars)
  <2> SUFFICES ASSUME IInv, IInv', [Next]_tcVars
               PROVE  [Fifo!Next]_(Fifo!vars)
    OBVIOUS
  <2> USE DEF IInv, TypeOK, PCs, Status
  <2>1. \A k \in Sessions : Fifo!Unsettled(k) = Live(k)
    BY DEF Fifo!Unsettled, Live
  <2>2. ASSUME NEW s \in Subs, Enqueue(s) PROVE Fifo!Submit(s)
    BY <2>1, <2>2 DEF Enqueue, Fifo!Submit
  <2>3. ASSUME NEW s \in Subs, StartRun(s) PROVE Fifo!Begin(s)
    <3>1. CASE NoneDropped(sess[s])
      <4>1. NoneDropped(sess[s])'
        BY <2>3, <3>1 DEF StartRun, NoneDropped
      <4>2. ahead'[s] \cap Live(sess[s])' = {} /\ UNCHANGED <<ahead, sess>>
        BY <2>3, <4>1 DEF StartRun, OrderInv, StartedIsFirst
      <4>3. ahead[s] \cap Live(sess[s]) = {}
        BY <2>3, <4>2 DEF StartRun, Live
      <4> QED
        BY <2>1, <2>3, <4>3 DEF StartRun, Fifo!Begin
    <3>2. CASE ~NoneDropped(sess[s])
      <4>1. Fifo!Broken(sess[s])
        BY <3>2 DEF NoneDropped, Fifo!Broken
      <4> QED
        BY <2>3, <4>1 DEF StartRun, Fifo!Begin
    <3> QED
      BY <3>1, <3>2
  <2>4. ASSUME NEW s \in Subs, FinishRun(s) PROVE Fifo!Settle(s)
    BY <2>4 DEF FinishRun, Fifo!Settle
  <2>5. ASSUME NEW s \in Subs, DropAborted(s) PROVE Fifo!Abandon(s)
    BY <2>5 DEF DropAborted, Fifo!Abandon
  <2>6. ASSUME NEW s \in Subs, EnqueueAborted(s) \/ AbortWaiting(s)
        PROVE  UNCHANGED Fifo!vars
    <3>1. Status' = Status
      BY <2>6 DEF EnqueueAborted, AbortWaiting
    <3> QED
      BY <2>6, <3>1 DEF EnqueueAborted, AbortWaiting, Fifo!vars
  <2>7. CASE UNCHANGED tcVars
    BY <2>7 DEF tcVars, Fifo!vars
  <2> QED
    BY <2>2, <2>3, <2>4, <2>5, <2>6, <2>7 DEF Next, Fifo!Next
<1> QED
  BY Invariance, <1>1, <1>2, PTL DEF Spec, Fifo!SafeSpec

=============================================================================
