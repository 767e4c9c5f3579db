---------------------------- MODULE ToolStepsProofs ----------------------------
(***************************************************************************)
(* ToolSteps keeps its types, the order in which the calls of a batch are  *)
(* dispatched and the wholeness of its steps, for every set of calls,      *)
(* classes, emissions and results, every cap and every threshold of the    *)
(* loop detector.  Where the ring is wide enough for the batches, it cuts  *)
(* every loop; where it holds the repeats of one call and their vetoes,    *)
(* the turn of that one call is forced to its end.                         *)
(***************************************************************************)
EXTENDS ToolSteps, FiniteSetTheorems, WellFoundedInduction, TLAPS

-----------------------------------------------------------------------------
(* What a batch and its slots are, and the inductive invariant.            *)

Outs == Results \cup {"pending", "vetoed", "answered", "composite"}
Entries == [call : Calls \cup {NoCall}, out : Outs]
Rings == {h \in Seq(Entries) : Len(h) <= HistorySize}
Trackers == [history : Rings, vetoCall : Calls \cup {NoCall}, vetoCount : Nat]

\* A batch that passed the validation, whole or cut down.
BatchOK(b) ==
    /\ b \in Seq(Calls) \ {<<>>}
    /\ TerminalLast(b)
    /\ \A i \in DOMAIN b : Gated(b[i]) => Len(b) = 1

RunningReads(b, sl) == {i \in DOMAIN b : ClassOf(b[i]) = "pure_read" /\ sl[i] = "running"}

\* Of a serial class a call runs after all earlier ones.
Serial(b, sl) == \A i, j \in DOMAIN b :
    i < j /\ sl[j] = "running" /\ ClassOf(b[i]) = ClassOf(b[j]) =>
        sl[i] \notin Waiting \/ ClassOf(b[i]) = "pure_read"

\* A read runs when the earlier waves are over.
Waves(b, sl) == \A j \in RunningReads(b, sl) : \A i \in WaitsFor(b, sl, j) : sl[i] \notin Waiting

\* The tail, and nothing else, is held back for the end.
TailHeld(b, sl) ==
    /\ HasTail(b) => sl[Len(b)] \in {"tail", "cancelled"}
    /\ \A i \in DOMAIN b : sl[i] = "tail" => HasTail(b) /\ i = Len(b)

SlotsOK(b, sl, ab) ==
    /\ sl \in [1..Len(b) -> Slots]
    /\ Serial(b, sl)
    /\ Cardinality(RunningReads(b, sl)) <= Cap
    /\ ~ab => Waves(b, sl)
    /\ TailHeld(b, sl)

\* All but the tail has settled.
OnlyTailRuns(b, sl) ==
    /\ HasTail(b)
    /\ sl \in [1..Len(b) -> Slots]
    /\ \A i \in DOMAIN b : i < Len(b) => sl[i] \notin Waiting

Vetoing(tr, br) == tr.vetoCount > BreakerStreak => br

BatchInv ==
    /\ phase \in {"idle", "think", "infer"} => batch = <<>> /\ slot = <<>> /\ ~breaker
    /\ phase \in {"groups", "tail"} => BatchOK(batch)
    /\ phase = "groups" => SlotsOK(batch, slot, aborted)
    /\ phase = "tail" => OnlyTailRuns(batch, slot)

\* A call outlives its step only where its turn was cancelled.
GhostsCut == \A g \in ghosts : g.turn \in cancelled

TurnInv ==
    /\ phase # "idle" => turns > 0
    /\ phase \in {"infer", "groups", "tail"} => step < MaxSteps

IInv ==
    /\ TypeOK
    /\ tracker \in Trackers
    /\ TurnInv
    /\ BatchInv
    /\ Vetoing(tracker, breaker)
    /\ GhostsCut

-----------------------------------------------------------------------------
(* The tracker.                                                            *)

\* The ring takes an entry and stays a ring.
LEMMA PushKeepsRing ==
    ASSUME NEW h \in Rings, NEW e \in Entries
    PROVE  Push(h, e) \in Rings
<1>1. h \in Seq(Entries) /\ Len(h) \in Nat /\ Len(h) <= HistorySize /\ HistorySize \in Nat
  BY TrackerAssumption DEF Rings
<1>2. Append(h, e) \in Seq(Entries) /\ Len(Append(h, e)) = Len(h) + 1
  BY <1>1
<1>3. Tail(Append(h, e)) \in Seq(Entries) /\ Len(Tail(Append(h, e))) = Len(h)
  <2> DEFINE a == Append(h, e)
  <2> HIDE DEF a
  <2>1. a \in Seq(Entries) /\ Len(a) = Len(h) + 1
    BY <1>2 DEF a
  <2>2. a # <<>>
    BY <1>1, <2>1
  <2>3. Tail(a) \in Seq(Entries) /\ Len(Tail(a)) = Len(h)
    BY <1>1, <2>1, <2>2
  <2> QED
    BY <2>3 DEF a
<1> QED
  BY <1>1, <1>2, <1>3 DEF Push, Rings

\* An outcome replaces the latest pending entry, or is one of its own.
LEMMA PatchKeepsRing ==
    ASSUME NEW h \in Rings, NEW c \in Calls, NEW o \in Outs
    PROVE  Patch(h, c, o) \in Rings
<1>1. [call |-> c, out |-> o] \in Entries
  BY DEF Entries
<1>2. ASSUME NEW m PROVE [h EXCEPT ![m].out = o] \in Rings
  <2>1. h \in Seq(Entries) /\ Len(h) <= HistorySize
    BY DEF Rings
  <2>2. CASE m \in DOMAIN h
    <3>1. h[m] \in Entries
      BY <2>1, <2>2
    <3>2. [h[m] EXCEPT !.out = o] \in Entries
      BY <3>1 DEF Entries
    <3>3. [h EXCEPT ![m] = [h[m] EXCEPT !.out = o]] \in Seq(Entries)
      BY <2>1, <2>2, <3>2
    <3>4. Len([h EXCEPT ![m] = [h[m] EXCEPT !.out = o]]) = Len(h)
      BY <2>1, <2>2, <3>2
    <3> QED
      BY <2>1, <3>3, <3>4 DEF Rings
  <2>3. CASE m \notin DOMAIN h
    <3>1. [h EXCEPT ![m].out = o] = h
      BY <2>1, <2>3
    <3> QED
      BY <3>1
  <2> QED
    BY <2>2, <2>3
<1> QED
  BY <1>1, <1>2, PushKeepsRing DEF Patch

LEMMA TrackerFacts ==
    ASSUME NEW tr \in Trackers
    PROVE  /\ tr.history \in Rings
           /\ tr.vetoCall \in Calls \cup {NoCall}
           /\ tr.vetoCount \in Nat
           /\ \A h \in Rings : [tr EXCEPT !.history = h] \in Trackers
BY DEF Trackers

\* A new tracker has an empty ring and no veto.
LEMMA NewTrackerFacts ==
    /\ NewTracker \in Trackers
    /\ \A br \in BOOLEAN : Vetoing(NewTracker, br)
<1>1. <<>> \in Rings
  BY TrackerAssumption DEF Rings
<1> QED
  BY <1>1, TrackerAssumption DEF NewTracker, Trackers, Vetoing

\* Hearing of a call, or of a composite, leaves the vetoes as they are.
LEMMA RecordingKeepsTracker ==
    ASSUME NEW tr \in Trackers
    PROVE  /\ \A c \in Calls : /\ RecordCall(tr, c) \in Trackers
                               /\ RecordCall(tr, c).vetoCall = tr.vetoCall
                               /\ RecordCall(tr, c).vetoCount = tr.vetoCount
           /\ ObserveComposite(tr) \in Trackers
           /\ ObserveComposite(tr).vetoCount = tr.vetoCount
<1>1. \A e \in Entries : Push(tr.history, e) \in Rings
  BY TrackerFacts, PushKeepsRing
<1>2. CompositeEntry \in Entries /\ \A c \in Calls : [call |-> c, out |-> "pending"] \in Entries
  BY DEF CompositeEntry, Entries, Outs
<1>3. \A h : /\ [tr EXCEPT !.history = h].vetoCall = tr.vetoCall
             /\ [tr EXCEPT !.history = h].vetoCount = tr.vetoCount
  BY DEF Trackers
<1> QED
  BY <1>1, <1>2, <1>3, TrackerFacts DEF RecordCall, ObserveComposite

\* An outcome never adds a veto.
LEMMA OutcomeKeepsTracker ==
    ASSUME NEW tr \in Trackers, NEW c \in Calls, NEW r \in Outs
    PROVE  /\ RecordOutcome(tr, c, r) \in Trackers
           /\ RecordOutcome(tr, c, r).vetoCount <= tr.vetoCount
<1> DEFINE h == Patch(tr.history, c, r)
<1>1. h \in Rings
  BY TrackerFacts, PatchKeepsRing
<1> HIDE DEF h
<1>2. [tr EXCEPT !.history = h] \in Trackers /\ [tr EXCEPT !.history = h].vetoCount = tr.vetoCount
  BY <1>1 DEF Trackers
<1>3. [history |-> h, vetoCall |-> NoCall, vetoCount |-> 0] \in Trackers
  BY <1>1 DEF Trackers
<1> QED
  BY <1>2, <1>3, TrackerFacts DEF RecordOutcome, h

\* A veto that completes more than the streak is one that ends the turn.
LEMMA VetoKeepsTracker ==
    ASSUME NEW tr \in Trackers, NEW c \in Calls, NEW br \in BOOLEAN, Vetoing(tr, br)
    PROVE  /\ RecordVeto(RecordCall(tr, c), c) \in Trackers
           /\ Vetoing(RecordVeto(RecordCall(tr, c), c), br \/ Forces(tr, c))
<1> DEFINE seen == RecordCall(tr, c)
<1>1. seen \in Trackers /\ seen.vetoCall = tr.vetoCall /\ seen.vetoCount = tr.vetoCount
  BY RecordingKeepsTracker
<1> HIDE DEF seen
<1>2. Patch(seen.history, c, "vetoed") \in Rings
  BY <1>1, TrackerFacts, PatchKeepsRing DEF Outs
<1>3. RecordVeto(seen, c) \in Trackers
  BY <1>1, <1>2, TrackerFacts DEF RecordVeto, Trackers
<1>4. RecordVeto(seen, c).vetoCount = IF tr.vetoCall = c THEN tr.vetoCount + 1 ELSE 1
  BY <1>1 DEF RecordVeto
<1>5. tr.vetoCount \in Nat /\ BreakerStreak \in Nat \ {0}
  BY TrackerFacts, TrackerAssumption
<1>6. RecordVeto(seen, c).vetoCount > BreakerStreak => BreakerTripped(tr, c)
  BY <1>4, <1>5 DEF BreakerTripped
<1> QED
  BY <1>3, <1>6 DEF Vetoing, Forces, seen

-----------------------------------------------------------------------------
(* Recursion along a batch.                                                *)

\* Every set of naturals that is not empty has a least element.
LEMMA LeastNat ==
    ASSUME NEW T, T \subseteq Nat, T # {}
    PROVE  \E n \in T : \A m \in T : n <= m
<1> DEFINE R == {ss \in Nat \X Nat : ss[1] < ss[2]}
<1>1. IsWellFoundedOn(R, Nat)
  BY NatLessThanWellFounded DEF OpToRel
<1> HIDE DEF R
<1>2. PICK n \in T : \A m \in T : <<m, n>> \notin R
  BY <1>1, WFMin
<1>3. ASSUME NEW m \in T PROVE n <= m
  <2>1. <<m, n>> \notin R
    BY <1>2
  <2>2. ~(m < n)
    BY <2>1 DEF R
  <2> QED
    BY <2>2
<1> QED
  BY <1>3

\* A set of naturals with zero and each successor holds them all.
LEMMA NatSetInduction ==
    ASSUME NEW S, 0 \in S, \A n \in Nat : n \in S => n + 1 \in S
    PROVE  Nat \subseteq S
<1> SUFFICES ASSUME Nat \ S # {} PROVE FALSE
  OBVIOUS
<1>1. PICK n \in Nat \ S : \A m \in Nat \ S : n <= m
  BY LeastNat
<1>2. n # 0 /\ n - 1 \in Nat /\ ~(n <= n - 1)
  OBVIOUS
<1>3. n - 1 \in S
  BY <1>1, <1>2
<1> QED
  BY <1>2, <1>3

\* Starting from v and applying next along 0..N defines a function into V.
Recursion(N, V, v, next) == \E f \in [0..N -> V] :
    \A n \in 0..N : f[n] = IF n = 0 THEN v ELSE next[<<f[n - 1], n>>]

\* A recursion over 0..N whose step stays in V defines a function into V.
LEMMA RecursionStaysIn ==
    ASSUME NEW N \in Nat, NEW V, NEW v \in V, NEW next \in [V \X Nat -> V]
    PROVE  Recursion(N, V, v, next)
<1> DEFINE Defines(f, k) == \A n \in 0..k : f[n] = IF n = 0 THEN v ELSE next[<<f[n - 1], n>>]
           S == {k \in Nat : \E f \in [0..k -> V] : Defines(f, k)}
<1>1. 0 \in S
  <2> DEFINE f == [n \in 0..0 |-> v]
  <2>1. f \in [0..0 -> V] /\ Defines(f, 0)
    OBVIOUS
  <2> QED
    BY <2>1
<1>2. ASSUME NEW k \in Nat, k \in S PROVE k + 1 \in S
  <2>1. PICK f \in [0..k -> V] : Defines(f, k)
    BY <1>2
  <2>2. \A n \in 0..k : f[n] = IF n = 0 THEN v ELSE next[<<f[n - 1], n>>]
    BY <2>1
  <2> DEFINE g == [n \in 0..(k + 1) |-> IF n = k + 1 THEN next[<<f[k], k + 1>>] ELSE f[n]]
  <2>3. f[k] \in V /\ next[<<f[k], k + 1>>] \in V
    OBVIOUS
  <2>4. g \in [0..(k + 1) -> V]
    BY <2>3
  <2>5. \A n \in 0..(k + 1) : g[n] = IF n = 0 THEN v ELSE next[<<g[n - 1], n>>]
    <3> SUFFICES ASSUME NEW n \in 0..(k + 1)
                 PROVE  g[n] = IF n = 0 THEN v ELSE next[<<g[n - 1], n>>]
      OBVIOUS
    <3>1. CASE n = k + 1
      <4>1. g[n] = next[<<f[k], n>>] /\ n # 0 /\ n - 1 = k /\ g[k] = f[k]
        BY <3>1
      <4> QED
        BY <4>1
    <3>2. CASE n # k + 1
      <4>1. n \in 0..k /\ g[n] = f[n]
        BY <3>2
      <4>2. n # 0 => g[n - 1] = f[n - 1]
        BY <4>1
      <4> QED
        BY <2>2, <4>1, <4>2
    <3> QED
      BY <3>1, <3>2
  <2> HIDE DEF g
  <2>7. Defines(g, k + 1)
    BY <2>5
  <2> HIDE DEF Defines
  <2>8. \E h \in [0..(k + 1) -> V] : Defines(h, k + 1)
    BY <2>4, <2>7
  <2> QED
    BY <2>8
<1> HIDE DEF S
<1>3. N \in S
  BY <1>1, <1>2, NatSetInduction
<1> QED
  BY <1>3 DEF S, Recursion

-----------------------------------------------------------------------------
(* The batch that is executed.                                             *)

\* A call on its own is a batch.
LEMMA SingleIsOK ==
    ASSUME NEW b \in Seq(Calls), Len(b) = 1
    PROVE  BatchOK(b)
<1>1. DOMAIN b = 1..Len(b) /\ b # <<>>
  OBVIOUS
<1>2. \A i \in DOMAIN b : i = Len(b)
  BY <1>1
<1> QED
  BY <1>1, <1>2 DEF BatchOK, TerminalLast

\* A batch that passed the validation, was left to the waves or was cut down
\* has its terminal call last and a gated call for itself.
LEMMA BatchIsOK ==
    ASSUME NEW e \in Emissions, Valid(e) \/ Splits(e) \/ Trims(e)
    PROVE  BatchOK(BatchOf(e))
<1>1. e \in Seq(Calls) \ {<<>>} /\ Len(e) \in Nat \ {0} /\ DOMAIN e = 1..Len(e)
  BY StepsAssumption
<1>2. \A b \in Seq(Calls) : Len(b) = 1 => BatchOK(b)
  BY SingleIsOK
<1>3. CASE Valid(e)
  BY <1>1, <1>2, <1>3 DEF Valid, BatchOf, BatchOK
<1>4. CASE ~Valid(e) /\ Splits(e)
  BY <1>1, <1>4 DEF Splits, BatchOf, BatchOK, TerminalLast, Terminal, Gated
<1>5. CASE ~Valid(e) /\ ~Splits(e)
  <2> DEFINE T == {i \in DOMAIN e : Gated(e[i])}
  <2>1. T \subseteq Nat /\ T # {}
    BY <1>1, <1>5 DEF Trims
  <2>2. PICK i \in T : \A j \in T : i <= j
    BY <2>1, LeastNat
  <2>3. FirstGated(e) \in DOMAIN e
    BY <2>2 DEF FirstGated
  <2>4. e[FirstGated(e)] \in Calls
    BY <1>1, <2>3
  <2> DEFINE c == e[FirstGated(e)]
  <2> HIDE DEF c
  <2>5. <<c>> \in Seq(Calls) /\ Len(<<c>>) = 1
    BY <2>4 DEF c
  <2> QED
    BY <1>2, <1>5, <2>5 DEF BatchOf, c
<1> QED
  BY <1>3, <1>4, <1>5

-----------------------------------------------------------------------------
(* The gate.                                                               *)

GateMarks == {"queued", "refused", "vetoed", "answered", "tail"}

\* The gate's record over batch b: no slot is dispatched, the tail is marked
\* at the end alone, and a veto beyond the streak has set the breaker.
GateStates(b) == {g \in [slot : [1..Len(b) -> GateMarks], tracker : Trackers, breaker : BOOLEAN] :
    /\ Vetoing(g.tracker, g.breaker)
    /\ \A i \in 1..Len(b) : g.slot[i] = "tail" => HasTail(b) /\ i = Len(b)}

\* Gating one call.
LEMMA GateCallStaysIn ==
    ASSUME NEW b \in Seq(Calls), NEW i \in 1..Len(b), NEW g \in GateStates(b),
           NEW planMode \in BOOLEAN
    PROVE  /\ GateCall(g, b, i, planMode) \in GateStates(b)
           /\ HasTail(b) /\ i = Len(b) => GateCall(g, b, i, planMode).slot[i] = "tail"
<1> DEFINE c == b[i]
           seen == RecordCall(g.tracker, c)
           R == [slot : [1..Len(b) -> GateMarks], tracker : Trackers, breaker : BOOLEAN]
<1>1. c \in Calls
  OBVIOUS
<1>2. /\ g \in R
      /\ g = [slot |-> g.slot, tracker |-> g.tracker, breaker |-> g.breaker]
      /\ g.slot \in [1..Len(b) -> GateMarks] /\ g.tracker \in Trackers /\ g.breaker \in BOOLEAN
      /\ Vetoing(g.tracker, g.breaker)
      /\ \A j \in 1..Len(b) : g.slot[j] = "tail" => HasTail(b) /\ j = Len(b)
  BY DEF GateStates
<1>3. ASSUME NEW sl \in [1..Len(b) -> GateMarks], NEW tr \in Trackers, NEW br \in BOOLEAN,
             Vetoing(tr, br),
             \A j \in 1..Len(b) : sl[j] = "tail" => HasTail(b) /\ j = Len(b)
      PROVE  [slot |-> sl, tracker |-> tr, breaker |-> br] \in GateStates(b)
  BY <1>3 DEF GateStates
<1>4. ASSUME NEW m \in GateMarks, m = "tail" => HasTail(b) /\ i = Len(b),
             NEW tr \in Trackers, NEW br \in BOOLEAN, Vetoing(tr, br)
      PROVE  /\ [slot |-> [g.slot EXCEPT ![i] = m], tracker |-> tr, breaker |-> br] \in GateStates(b)
             /\ [g.slot EXCEPT ![i] = m][i] = m
  <2> DEFINE sl == [g.slot EXCEPT ![i] = m]
  <2>1. sl \in [1..Len(b) -> GateMarks] /\ sl[i] = m
    BY <1>2
  <2>2. \A j \in 1..Len(b) : j # i => sl[j] = g.slot[j]
    BY <1>2
  <2> HIDE DEF sl
  <2>3. \A j \in 1..Len(b) : sl[j] = "tail" => HasTail(b) /\ j = Len(b)
    BY <1>2, <1>4, <2>1, <2>2
  <2>4. [slot |-> sl, tracker |-> tr, breaker |-> br] \in GateStates(b)
    BY <1>3, <1>4, <2>1, <2>3
  <2> QED
    BY <2>1, <2>4 DEF sl
<1>5. \A m : [g EXCEPT !.slot[i] = m] = [slot |-> [g.slot EXCEPT ![i] = m],
                                          tracker |-> g.tracker, breaker |-> g.breaker]
  <2> SUFFICES ASSUME NEW m
               PROVE  [g EXCEPT !.slot[i] = m] = [slot |-> [g.slot EXCEPT ![i] = m],
                                                  tracker |-> g.tracker, breaker |-> g.breaker]
    OBVIOUS
  <2> DEFINE sl == [g.slot EXCEPT ![i] = m]
  <2>1. [g EXCEPT !.slot[i] = m] = [g EXCEPT !.slot = sl]
    BY <1>2
  <2> HIDE DEF sl
  <2>2. [g EXCEPT !.slot = sl] = [slot |-> sl, tracker |-> g.tracker, breaker |-> g.breaker]
    BY <1>2
  <2> QED
    BY <2>1, <2>2 DEF sl
<1>6. \A tr : [g EXCEPT !.tracker = tr] = [slot |-> g.slot, tracker |-> tr, breaker |-> g.breaker]
  BY <1>2
<1>7. \A m, tr : [g EXCEPT !.slot[i] = m, !.tracker = tr] =
                     [slot |-> [g.slot EXCEPT ![i] = m], tracker |-> tr, breaker |-> g.breaker]
  <2> SUFFICES ASSUME NEW m, NEW tr
               PROVE  [g EXCEPT !.slot[i] = m, !.tracker = tr] =
                     [slot |-> [g.slot EXCEPT ![i] = m], tracker |-> tr, breaker |-> g.breaker]
    OBVIOUS
  <2> DEFINE g1 == [g EXCEPT !.slot[i] = m]
  <2>1. [g EXCEPT !.slot[i] = m, !.tracker = tr] = [g1 EXCEPT !.tracker = tr]
    OBVIOUS
  <2> HIDE DEF g1
  <2>2. g1 = [slot |-> [g.slot EXCEPT ![i] = m], tracker |-> g.tracker, breaker |-> g.breaker]
    BY <1>5 DEF g1
  <2> QED
    BY <2>1, <2>2
<1>8. seen \in Trackers /\ seen.vetoCount = g.tracker.vetoCount /\ Vetoing(seen, g.breaker)
  BY <1>1, <1>2, RecordingKeepsTracker DEF Vetoing
<1>9. /\ RecordOutcome(seen, c, "answered") \in Trackers
      /\ Vetoing(RecordOutcome(seen, c, "answered"), g.breaker)
  <2>1. /\ RecordOutcome(seen, c, "answered") \in Trackers
        /\ RecordOutcome(seen, c, "answered").vetoCount <= seen.vetoCount
    BY <1>1, <1>8, OutcomeKeepsTracker DEF Outs
  <2>2. /\ RecordOutcome(seen, c, "answered").vetoCount \in Nat
        /\ seen.vetoCount \in Nat /\ BreakerStreak \in Nat
    BY <1>8, <2>1, TrackerFacts, TrackerAssumption
  <2> QED
    BY <1>8, <2>1, <2>2 DEF Vetoing
<1>10. /\ RecordVeto(seen, c) \in Trackers
       /\ Vetoing(RecordVeto(seen, c), g.breaker \/ Forces(g.tracker, c))
  BY <1>1, <1>2, VetoKeepsTracker
<1> HIDE DEF c, seen
<1>11. CASE HasTail(b) /\ i = Len(b)
  <2>1. GateCall(g, b, i, planMode) = [g EXCEPT !.slot[i] = "tail"]
    BY <1>11 DEF GateCall
  <2> QED
    BY <1>2, <1>4, <1>5, <1>11, <2>1 DEF GateMarks
<1>12. CASE ~(HasTail(b) /\ i = Len(b))
  <2>1. CASE planMode /\ c \in Mutating
    <3>1. GateCall(g, b, i, planMode) = [g EXCEPT !.slot[i] = "refused"]
      BY <1>12, <2>1 DEF GateCall, c
    <3>2. GateCall(g, b, i, planMode) = [slot |-> [g.slot EXCEPT ![i] = "refused"],
                                         tracker |-> g.tracker, breaker |-> g.breaker]
      BY <1>5, <3>1
    <3> QED
      BY <1>2, <1>4, <1>12, <3>2 DEF GateMarks
  <2>2. CASE ~(planMode /\ c \in Mutating) /\ Terminal(c)
    <3>1. GateCall(g, b, i, planMode) = g
      BY <1>12, <2>2 DEF GateCall, c
    <3> QED
      BY <1>12, <3>1
  <2>3. CASE ~(planMode /\ c \in Mutating) /\ ~Terminal(c) /\ Vetoes(g.tracker, c)
    <3>1. GateCall(g, b, i, planMode) =
              [slot |-> [g.slot EXCEPT ![i] = "vetoed"], tracker |-> RecordVeto(seen, c),
               breaker |-> g.breaker \/ Forces(g.tracker, c)]
      BY <1>12, <2>3 DEF GateCall, c, seen
    <3>2. (g.breaker \/ Forces(g.tracker, c)) \in BOOLEAN
      BY DEF Forces
    <3> QED
      BY <1>2, <1>4, <1>10, <1>12, <3>1, <3>2 DEF GateMarks
  <2>4. CASE /\ ~(planMode /\ c \in Mutating) /\ ~Terminal(c) /\ ~Vetoes(g.tracker, c)
             /\ c \in Views /\ c \in loaded
    <3>1. GateCall(g, b, i, planMode) =
              [g EXCEPT !.slot[i] = "answered", !.tracker = RecordOutcome(seen, c, "answered")]
      BY <1>12, <2>4 DEF GateCall, c, seen
    <3>2. GateCall(g, b, i, planMode) = [slot |-> [g.slot EXCEPT ![i] = "answered"],
              tracker |-> RecordOutcome(seen, c, "answered"), breaker |-> g.breaker]
      BY <1>7, <3>1
    <3> QED
      BY <1>2, <1>4, <1>9, <1>12, <3>2 DEF GateMarks
  <2>5. CASE /\ ~(planMode /\ c \in Mutating) /\ ~Terminal(c) /\ ~Vetoes(g.tracker, c)
             /\ ~(c \in Views /\ c \in loaded)
    <3>1. GateCall(g, b, i, planMode) = [g EXCEPT !.tracker = seen]
      BY <1>12, <2>5 DEF GateCall, c, seen
    <3> QED
      BY <1>2, <1>3, <1>6, <1>8, <1>12, <3>1
  <2> QED
    BY <2>1, <2>2, <2>3, <2>4, <2>5
<1> QED
  BY <1>11, <1>12

\* What the gate starts from.
Ungated(b) == [slot |-> [i \in DOMAIN b |-> "queued"], tracker |-> tracker, breaker |-> FALSE]

\* Gating a batch is gating its calls one after the other.
LEMMA GateUnfolds ==
    ASSUME NEW b \in Seq(Calls) \ {<<>>}, NEW planMode \in BOOLEAN,
           tracker \in Trackers, Vetoing(tracker, FALSE)
    PROVE  \E gated :
              /\ Gate(b, planMode) = gated[Len(b)]
              /\ gated[0] = Ungated(b)
              /\ \A n \in 0..Len(b) : gated[n] \in GateStates(b)
              /\ \A n \in 1..Len(b) : gated[n] = GateCall(gated[n - 1], b, n, planMode)
<1> DEFINE V == GateStates(b)
           N == Len(b)
           start == [slot |-> [i \in DOMAIN b |-> "queued"], tracker |-> tracker, breaker |-> FALSE]
           next == [p \in V \X Nat |-> IF p[2] \in 1..N THEN GateCall(p[1], b, p[2], planMode) ELSE p[1]]
           Gates(f) == f = [n \in 0..N |-> IF n = 0 THEN start ELSE GateCall(f[n - 1], b, n, planMode)]
<1>1. N \in Nat \ {0} /\ DOMAIN b = 1..N
  OBVIOUS
<1>2. start \in V
  BY <1>1 DEF GateStates, GateMarks
<1>3. next \in [V \X Nat -> V]
  <2>1. \A p \in V \X Nat : p[1] \in V /\ p[2] \in Nat
    OBVIOUS
  <2>2. \A g \in V, i \in 1..N : GateCall(g, b, i, planMode) \in V
    BY GateCallStaysIn
  <2> HIDE DEF V
  <2> QED
    BY <2>1, <2>2
<1>4. \A g \in V, n \in 1..N : next[<<g, n>>] = GateCall(g, b, n, planMode)
  <2> HIDE DEF V
  <2> QED
    OBVIOUS
<1> HIDE DEF V, N, start, next
<1>5. Recursion(N, V, start, next)
  <2>1. N \in Nat
    BY <1>1
  <2> QED
    BY <1>2, <1>3, <2>1, RecursionStaysIn
<1>6. PICK f \in [0..N -> V] :
          \A n \in 0..N : f[n] = IF n = 0 THEN start ELSE next[<<f[n - 1], n>>]
  BY <1>5 DEF Recursion
<1>7. \A n \in 0..N : f[n] = IF n = 0 THEN start ELSE GateCall(f[n - 1], b, n, planMode)
  <2> SUFFICES ASSUME NEW n \in 0..N
               PROVE  f[n] = IF n = 0 THEN start ELSE GateCall(f[n - 1], b, n, planMode)
    OBVIOUS
  <2>1. f[n] = IF n = 0 THEN start ELSE next[<<f[n - 1], n>>]
    BY <1>6
  <2>2. n # 0 => n \in 1..N /\ f[n - 1] \in V
    BY <1>1
  <2> QED
    BY <1>4, <2>1, <2>2
<1>8. Gates(f)
  <2>1. f = [n \in 0..N |-> f[n]]
    OBVIOUS
  <2> QED
    BY <1>7, <2>1
<1> DEFINE gated == CHOOSE h : Gates(h)
<1>9. Gates(gated)
  BY <1>8
<1>10. Gate(b, planMode) = gated[N]
  BY DEF Gate, N, start
<1> HIDE DEF gated
<1>11. \A n \in 0..N : gated[n] = IF n = 0 THEN start ELSE GateCall(gated[n - 1], b, n, planMode)
  BY <1>9
<1>12. \A n \in Nat : n \in 0..N => gated[n] \in V
  <2> DEFINE S == {n \in Nat : n \in 0..N => gated[n] \in V}
  <2>1. 0 \in S
    BY <1>1, <1>2, <1>11
  <2>2. ASSUME NEW n \in Nat, n \in S PROVE n + 1 \in S
    <3> SUFFICES ASSUME n + 1 \in 0..N PROVE gated[n + 1] \in V
      OBVIOUS
    <3>1. gated[n] \in V /\ n + 1 \in 1..N
      BY <1>1, <2>2
    <3>2. gated[n + 1] = GateCall(gated[n], b, n + 1, planMode)
      BY <1>1, <1>11
    <3> QED
      BY <3>1, <3>2, GateCallStaysIn DEF V, N
  <2> HIDE DEF S
  <2>3. Nat \subseteq S
    BY <2>1, <2>2, NatSetInduction
  <2> QED
    BY <2>3 DEF S
<1>13. gated[0] = Ungated(b) /\ \A n \in 0..N : gated[n] \in V
  <2>1. gated[0] = start /\ \A n \in 0..N : gated[n] \in V
    BY <1>1, <1>11, <1>12
  <2> QED
    BY <2>1 DEF Ungated, start
<1>14. \A n \in 1..N : gated[n] = GateCall(gated[n - 1], b, n, planMode)
  BY <1>1, <1>11
<1> QED
  BY <1>10, <1>13, <1>14 DEF V, N

\* Gating a batch: the tail is held back, nothing is dispatched.
LEMMA GateFacts ==
    ASSUME NEW b \in Seq(Calls) \ {<<>>}, NEW planMode \in BOOLEAN,
           tracker \in Trackers, Vetoing(tracker, FALSE)
    PROVE  /\ Gate(b, planMode) \in GateStates(b)
           /\ HasTail(b) => Gate(b, planMode).slot[Len(b)] = "tail"
<1>1. PICK gated :
          /\ Gate(b, planMode) = gated[Len(b)]
          /\ gated[0] = Ungated(b)
          /\ \A n \in 0..Len(b) : gated[n] \in GateStates(b)
          /\ \A n \in 1..Len(b) : gated[n] = GateCall(gated[n - 1], b, n, planMode)
  BY GateUnfolds
<1> DEFINE N == Len(b)
<1>2. N \in 1..N /\ N \in 0..N /\ N - 1 \in 0..N
  OBVIOUS
<1>3. gated[N - 1] \in GateStates(b) /\ gated[N] = GateCall(gated[N - 1], b, N, planMode)
  BY <1>1, <1>2
<1> QED
  BY <1>1, <1>2, <1>3, GateCallStaysIn

-----------------------------------------------------------------------------
(* Waves: the calls of one wave are counted.                               *)

\* Division by the cap is monotonic, and equal quotients are less than a cap
\* apart.
LEMMA Quotients ==
    ASSUME NEW m \in Nat, NEW n \in Nat, m <= n
    PROVE  /\ m \div Cap \in Nat /\ n \div Cap \in Nat
           /\ m \div Cap <= n \div Cap
           /\ m \div Cap = n \div Cap => n - m < Cap
<1>1. Cap \in Nat \ {0}
  BY StepsAssumption
<1>2. \A a \in Nat : a \div Cap \in Nat /\ Cap * (a \div Cap) <= a /\ a < Cap * (a \div Cap) + Cap
  BY <1>1
<1>3. m \div Cap <= n \div Cap
  BY <1>1
<1>4. m \div Cap = n \div Cap => n - m < Cap
  <2> DEFINE p == Cap * (m \div Cap)
  <2>1. p \in Nat /\ p <= m
    BY <1>1, <1>2
  <2>2. m \div Cap = n \div Cap => n < p + Cap
    BY <1>2
  <2> HIDE DEF p
  <2> QED
    BY <1>1, <2>1, <2>2
<1> QED
  BY <1>2, <1>3, <1>4

Invoked(b, sl, i) == {j \in DOMAIN b : ClassOf(b[j]) = ClassOf(b[i]) /\ sl[j] \notin Unrun}
Rank(I, j) == Cardinality({k \in I : k <= j})

LEMMA WaitsForFacts ==
    ASSUME NEW b, NEW sl, NEW i
    PROVE  WaitsFor(b, sl, i) =
               IF ClassOf(b[i]) = "pure_read"
               THEN {j \in Invoked(b, sl, i) : j < i /\
                        (Rank(Invoked(b, sl, i), j) - 1) \div Cap < (Rank(Invoked(b, sl, i), i) - 1) \div Cap}
               ELSE {j \in Invoked(b, sl, i) : j < i}
BY DEF WaitsFor, Invoked, Rank

\* What a call waits for depends on what the gate let through, not on what has
\* settled since.
LEMMA SameInvokedSameWaits ==
    ASSUME NEW b, NEW sl, NEW tl, NEW i, \A j \in DOMAIN b : sl[j] \in Unrun <=> tl[j] \in Unrun
    PROVE  WaitsFor(b, sl, i) = WaitsFor(b, tl, i)
<1>1. Invoked(b, sl, i) = Invoked(b, tl, i)
  BY DEF Invoked
<1> QED
  BY <1>1, WaitsForFacts

LEMMA RankFacts ==
    ASSUME NEW n \in Nat, NEW I, I \subseteq 1..n
    PROVE  /\ \A j \in I : Rank(I, j) \in Nat \ {0}
           /\ \A i, j \in I : i < j => Rank(I, i) < Rank(I, j)
<1>0. \A j \in I : j \in Nat
  OBVIOUS
<1>1. IsFiniteSet(I)
  <2>1. IsFiniteSet(1..n)
    BY FS_Interval
  <2>2. I \in SUBSET (1..n)
    OBVIOUS
  <2> QED
    BY <2>1, <2>2, FS_Subset
<1>2. \A j \in I : IsFiniteSet({k \in I : k <= j}) /\ Rank(I, j) \in Nat
  <2> SUFFICES ASSUME NEW j \in I
               PROVE  IsFiniteSet({k \in I : k <= j}) /\ Rank(I, j) \in Nat
    OBVIOUS
  <2>1. {k \in I : k <= j} \in SUBSET I
    OBVIOUS
  <2> QED
    BY <1>1, <2>1, FS_Subset, FS_CardinalityType DEF Rank
<1>3. \A j \in I : Rank(I, j) # 0
  <2> SUFFICES ASSUME NEW j \in I PROVE Rank(I, j) # 0
    OBVIOUS
  <2>1. j \in {k \in I : k <= j}
    OBVIOUS
  <2> QED
    BY <1>2, <2>1, FS_EmptySet DEF Rank
<1>4. \A i, j \in I : i < j => Rank(I, i) < Rank(I, j)
  <2> SUFFICES ASSUME NEW i \in I, NEW j \in I, i < j PROVE Rank(I, i) < Rank(I, j)
    OBVIOUS
  <2> DEFINE A == {k \in I : k <= i}
             B == {k \in I : k <= j}
  <2>1. \A k \in A : k \in B
    BY <1>0
  <2>2. j \in B /\ j \notin A
    OBVIOUS
  <2>3. IsFiniteSet(B) /\ Rank(I, i) = Cardinality(A) /\ Rank(I, j) = Cardinality(B)
    BY <1>2 DEF Rank
  <2> HIDE DEF A, B
  <2>4. A \in SUBSET B
    BY <2>1
  <2>5. Cardinality(A) <= Cardinality(B) /\ Cardinality(A) # Cardinality(B)
    BY <2>2, <2>3, <2>4, FS_Subset
  <2>6. Cardinality(A) \in Nat /\ Cardinality(B) \in Nat
    BY <1>2, <2>3
  <2> QED
    BY <2>3, <2>5, <2>6
<1> QED
  BY <1>2, <1>3, <1>4

\* The reads that run are of one wave, and a wave is no wider than the cap.
LEMMA WaveWidth ==
    ASSUME NEW b \in Seq(Calls), NEW sl, Waves(b, sl)
    PROVE  Cardinality(RunningReads(b, sl)) <= Cap
<1> DEFINE R == RunningReads(b, sl)
           I == {j \in DOMAIN b : ClassOf(b[j]) = "pure_read" /\ sl[j] \notin Unrun}
           r(j) == Rank(I, j)
           wave(j) == (r(j) - 1) \div Cap
<1>1. Len(b) \in Nat /\ DOMAIN b = 1..Len(b) /\ I \subseteq 1..Len(b) /\ R \subseteq I
  BY DEF RunningReads, Unrun
<1>2. /\ \A j \in I : r(j) \in Nat \ {0}
      /\ \A i, j \in I : i < j => r(i) < r(j)
  <2> HIDE DEF I
  <2> QED
    BY <1>1, RankFacts
<1>3. \A j \in R : Invoked(b, sl, j) = I
  BY DEF Invoked, RunningReads
<1>4. \A i, j \in R : i < j => r(j) - r(i) < Cap
  <2> SUFFICES ASSUME NEW i \in R, NEW j \in R, i < j PROVE r(j) - r(i) < Cap
    OBVIOUS
  <2>1. ClassOf(b[j]) = "pure_read" /\ sl[i] \in Waiting /\ i \in I /\ j \in I
    BY <1>1 DEF RunningReads, Waiting
  <2>2. i \notin WaitsFor(b, sl, j)
    BY <2>1 DEF Waves
  <2> HIDE DEF I, R
  <2>3. ~(wave(i) < wave(j))
    BY <1>3, <2>1, <2>2, WaitsForFacts
  <2>4. r(i) - 1 \in Nat /\ r(j) - 1 \in Nat /\ r(i) - 1 <= r(j) - 1
    BY <1>2, <2>1
  <2> HIDE DEF r
  <2>5. /\ wave(i) \in Nat /\ wave(j) \in Nat /\ wave(i) <= wave(j)
        /\ wave(i) = wave(j) => (r(j) - 1) - (r(i) - 1) < Cap
    BY <2>4, Quotients
  <2>6. (r(j) - 1) - (r(i) - 1) < Cap
    <3> HIDE DEF wave
    <3> QED
      BY <2>3, <2>5
  <2>7. r(i) \in Nat /\ r(j) \in Nat
    BY <1>2, <2>1
  <2> QED
    BY <2>6, <2>7, StepsAssumption
<1> HIDE DEF I, R, r
<1>5. Cap \in Nat \ {0}
  BY StepsAssumption
<1>6. CASE R = {}
  BY <1>5, <1>6, FS_EmptySet DEF R
<1>7. CASE R # {}
  <2>1. R \subseteq Nat
    BY <1>1
  <2>2. PICK m \in R : \A j \in R : m <= j
    BY <1>7, <2>1, LeastNat
  <2> DEFINE f == [j \in R |-> r(j) - r(m)]
  <2>3. \A j \in R : j \in Nat /\ m \in Nat /\ r(j) \in Nat /\ r(m) \in Nat
    BY <1>1, <1>2, <2>1
  <2>4. \A j \in R : f[j] \in 0..(Cap - 1)
    <3> SUFFICES ASSUME NEW j \in R PROVE r(j) - r(m) \in 0..(Cap - 1)
      OBVIOUS
    <3>1. CASE j = m
      BY <1>5, <2>3, <3>1
    <3>2. CASE m < j
      BY <1>1, <1>2, <1>4, <1>5, <2>3, <3>2
    <3> QED
      BY <2>2, <2>3, <3>1, <3>2
  <2>5. \A i, j \in R : f[i] = f[j] => i = j
    <3> SUFFICES ASSUME NEW i \in R, NEW j \in R, r(i) - r(m) = r(j) - r(m) PROVE i = j
      OBVIOUS
    <3>1. ~(r(i) < r(j)) /\ ~(r(j) < r(i))
      BY <2>3
    <3>2. ~(i < j) /\ ~(j < i)
      BY <1>1, <1>2, <3>1
    <3> QED
      BY <2>3, <3>2
  <2>6. f \in [R -> 0..(Cap - 1)]
    BY <2>4
  <2> HIDE DEF f
  <2>7. f \in Injection(R, 0..(Cap - 1))
    BY <2>5, <2>6 DEF Injection, IsInjective
  <2>8. IsFiniteSet(0..(Cap - 1)) /\ Cardinality(0..(Cap - 1)) = Cap
    <3>1. Cap - 1 \in Int /\ 0 \in Int /\ ~(0 > Cap - 1) /\ (Cap - 1) - 0 + 1 = Cap
      BY <1>5
    <3> QED
      BY <3>1, FS_Interval
  <2> QED
    BY <2>7, <2>8, FS_Injection DEF R
<1> QED
  BY <1>6, <1>7

-----------------------------------------------------------------------------
(* The slots.                                                              *)

LEMMA SlotMarks ==
    /\ Waiting \subseteq Slots /\ Unrun \subseteq Slots /\ Results \subseteq Slots
    /\ GateMarks \subseteq Slots /\ {"tail", "thrown", "running"} \subseteq Slots
    /\ Results \cap ({"tail"} \cup Waiting \cup Unrun) = {}
    /\ "thrown" \notin {"tail"} \cup Waiting \cup Unrun
    /\ Waiting \cap Unrun = {}
BY StepsAssumption DEF Slots, Waiting, Unrun, GateMarks

\* The reads that run are finitely many, and fewer when fewer run.
LEMMA FewerReads ==
    ASSUME NEW b \in Seq(Calls), NEW sl, NEW tl,
           Cardinality(RunningReads(b, sl)) <= Cap,
           RunningReads(b, tl) \subseteq RunningReads(b, sl)
    PROVE  Cardinality(RunningReads(b, tl)) <= Cap
<1>1. IsFiniteSet(RunningReads(b, sl))
  <2>1. IsFiniteSet(1..Len(b)) /\ DOMAIN b = 1..Len(b)
    BY FS_Interval
  <2>2. RunningReads(b, sl) \in SUBSET (1..Len(b))
    BY <2>1 DEF RunningReads
  <2> QED
    BY <2>1, <2>2, FS_Subset
<1>2. /\ Cardinality(RunningReads(b, tl)) <= Cardinality(RunningReads(b, sl))
      /\ Cardinality(RunningReads(b, tl)) \in Nat /\ Cardinality(RunningReads(b, sl)) \in Nat
  BY <1>1, FS_Subset, FS_CardinalityType
<1> QED
  BY <1>2, StepsAssumption

\* Starting what has nothing left to wait for.
LEMMA LaunchKeepsSlots ==
    ASSUME NEW b \in Seq(Calls), NEW sl \in [1..Len(b) -> Slots],
           Serial(b, sl), Waves(b, sl), TailHeld(b, sl)
    PROVE  SlotsOK(b, Launch(b, sl), FALSE)
<1> DEFINE tl == Launch(b, sl)
           starts(i) == sl[i] = "queued" /\ \A j \in WaitsFor(b, sl, i) : sl[j] \notin Waiting
<1>1. DOMAIN b = 1..Len(b) /\ Len(b) \in Nat
  OBVIOUS
<1>2. \A i \in DOMAIN b : tl[i] = IF starts(i) THEN "running" ELSE sl[i]
  BY <1>1 DEF Launch
<1>3. tl \in [1..Len(b) -> Slots]
  BY SlotMarks DEF Launch
<1> HIDE DEF tl
<1>4. \A i \in DOMAIN b : /\ tl[i] \in Waiting <=> sl[i] \in Waiting
                          /\ tl[i] \in Unrun <=> sl[i] \in Unrun
                          /\ tl[i] = "tail" <=> sl[i] = "tail"
                          /\ tl[i] = "cancelled" <=> sl[i] = "cancelled"
  BY <1>2 DEF Waiting, Unrun
<1>5. \A i : WaitsFor(b, tl, i) = WaitsFor(b, sl, i)
  BY <1>4, SameInvokedSameWaits
<1>6. \A i : WaitsFor(b, sl, i) \subseteq DOMAIN b
  BY DEF WaitsFor
<1>7. Serial(b, tl)
  <2> SUFFICES ASSUME NEW i \in DOMAIN b, NEW j \in DOMAIN b,
                      i < j, tl[j] = "running", ClassOf(b[i]) = ClassOf(b[j]),
                      ClassOf(b[i]) # "pure_read"
               PROVE  sl[i] \notin Waiting
    BY <1>4 DEF Serial
  <2>1. CASE sl[j] = "running"
    BY <2>1 DEF Serial
  <2>2. CASE sl[j] # "running"
    <3>1. starts(j)
      BY <1>2, <2>2
    <3>2. sl[i] \notin Unrun => i \in WaitsFor(b, sl, j)
      BY DEF WaitsFor
    <3> QED
      BY <3>1, <3>2, SlotMarks
  <2> QED
    BY <2>1, <2>2
<1>8. Waves(b, tl)
  <2> SUFFICES ASSUME NEW j \in RunningReads(b, tl), NEW i \in WaitsFor(b, sl, j)
               PROVE  sl[i] \notin Waiting
    BY <1>4, <1>5, <1>6 DEF Waves
  <2>1. j \in DOMAIN b /\ tl[j] = "running" /\ ClassOf(b[j]) = "pure_read"
    BY DEF RunningReads
  <2>2. CASE sl[j] = "running"
    BY <2>1, <2>2 DEF Waves, RunningReads
  <2>3. CASE sl[j] # "running"
    BY <1>2, <2>1, <2>3
  <2> QED
    BY <2>2, <2>3
<1>9. TailHeld(b, tl)
  <2>1. HasTail(b) => Len(b) \in DOMAIN b
    BY <1>1 DEF HasTail
  <2> QED
    BY <1>4, <2>1 DEF TailHeld
<1>10. Cardinality(RunningReads(b, tl)) <= Cap
  BY <1>8, WaveWidth
<1> QED
  BY <1>3, <1>7, <1>8, <1>9, <1>10 DEF SlotsOK, tl

\* Skipping what comes up after the signal.
LEMMA SkipKeepsSlots ==
    ASSUME NEW b \in Seq(Calls), NEW sl, SlotsOK(b, sl, TRUE)
    PROVE  SlotsOK(b, Skip(b, sl), TRUE)
<1> DEFINE tl == Skip(b, sl)
<1>1. DOMAIN b = 1..Len(b) /\ Len(b) \in Nat /\ sl \in [1..Len(b) -> Slots]
  BY DEF SlotsOK
<1>2. \A i \in DOMAIN b : tl[i] = sl[i] \/ (sl[i] = "queued" /\ tl[i] = "cancelled")
  BY <1>1 DEF Skip
<1>3. tl \in [1..Len(b) -> Slots]
  BY <1>1, SlotMarks DEF Skip, Unrun
<1> HIDE DEF tl
<1>4. \A i \in DOMAIN b : /\ tl[i] = "running" <=> sl[i] = "running"
                          /\ tl[i] \in Waiting => sl[i] \in Waiting
                          /\ tl[i] = "tail" <=> sl[i] = "tail"
                          /\ sl[i] = "cancelled" => tl[i] = "cancelled"
  BY <1>2 DEF Waiting
<1>5. Serial(b, tl)
  BY <1>4 DEF SlotsOK, Serial
<1>6. RunningReads(b, tl) \subseteq RunningReads(b, sl)
  BY <1>4 DEF RunningReads
<1>7. Cardinality(RunningReads(b, tl)) <= Cap
  BY <1>6, FewerReads DEF SlotsOK
<1>8. TailHeld(b, tl)
  <2>1. HasTail(b) => Len(b) \in DOMAIN b
    BY <1>1 DEF HasTail
  <2> QED
    BY <1>4, <2>1 DEF SlotsOK, TailHeld
<1> QED
  BY <1>3, <1>5, <1>7, <1>8 DEF SlotsOK, tl

\* The end of a call.
LEMMA SettleKeepsSlots ==
    ASSUME NEW b \in Seq(Calls), NEW sl, NEW ab \in BOOLEAN, SlotsOK(b, sl, ab),
           NEW i \in 1..Len(b), sl[i] = "running", NEW r \in Results \cup {"thrown"}
    PROVE  SlotsOK(b, [sl EXCEPT ![i] = r], ab)
<1> DEFINE tl == [sl EXCEPT ![i] = r]
<1>1. DOMAIN b = 1..Len(b) /\ Len(b) \in Nat /\ sl \in [1..Len(b) -> Slots]
  BY DEF SlotsOK
<1>2. r \in Slots /\ r # "tail" /\ r \notin Waiting /\ r \notin Unrun
  BY SlotMarks
<1>3. \A j \in DOMAIN b : tl[j] = IF j = i THEN r ELSE sl[j]
  BY <1>1
<1>4. tl \in [1..Len(b) -> Slots]
  BY <1>1, <1>2
<1> HIDE DEF tl
<1>5. \A j \in DOMAIN b : /\ tl[j] \in Waiting => sl[j] \in Waiting
                          /\ tl[j] = "running" => sl[j] = "running"
                          /\ tl[j] \in Unrun <=> sl[j] \in Unrun
                          /\ tl[j] = "tail" <=> sl[j] = "tail"
                          /\ sl[j] = "cancelled" => tl[j] = "cancelled"
  BY <1>2, <1>3 DEF Waiting, Unrun
<1>6. Serial(b, tl)
  BY <1>5 DEF SlotsOK, Serial
<1>7. RunningReads(b, tl) \subseteq RunningReads(b, sl)
  BY <1>5 DEF RunningReads
<1>8. Cardinality(RunningReads(b, tl)) <= Cap
  BY <1>7, FewerReads DEF SlotsOK
<1>9. ~ab => Waves(b, tl)
  <2> SUFFICES ASSUME Waves(b, sl) PROVE Waves(b, tl)
    BY DEF SlotsOK
  <2>1. \A j : WaitsFor(b, tl, j) = WaitsFor(b, sl, j) /\ WaitsFor(b, sl, j) \subseteq DOMAIN b
    <3>1. \A j : WaitsFor(b, tl, j) = WaitsFor(b, sl, j)
      BY <1>5, SameInvokedSameWaits
    <3>2. \A j : WaitsFor(b, sl, j) \subseteq DOMAIN b
      BY DEF WaitsFor
    <3> QED
      BY <3>1, <3>2
  <2> QED
    BY <1>5, <1>7, <2>1 DEF Waves
<1>10. TailHeld(b, tl)
  <2>1. HasTail(b) => Len(b) \in DOMAIN b
    BY <1>1 DEF HasTail
  <2> QED
    BY <1>5, <2>1 DEF SlotsOK, TailHeld
<1> QED
  BY <1>4, <1>6, <1>8, <1>9, <1>10 DEF SlotsOK, tl

\* The batch as the gate leaves it waits for its first dispatch.
LEMMA GatedSlots ==
    ASSUME NEW b \in Seq(Calls), NEW g \in GateStates(b), HasTail(b) => g.slot[Len(b)] = "tail"
    PROVE  /\ g.slot \in [1..Len(b) -> Slots]
           /\ Serial(b, g.slot) /\ Waves(b, g.slot) /\ TailHeld(b, g.slot)
<1>1. /\ g.slot \in [1..Len(b) -> GateMarks]
      /\ \A i \in 1..Len(b) : g.slot[i] = "tail" => HasTail(b) /\ i = Len(b)
  BY DEF GateStates
<1>2. DOMAIN b = 1..Len(b)
  OBVIOUS
<1>3. \A i \in DOMAIN b : g.slot[i] # "running" /\ g.slot[i] \in Slots
  BY <1>1, <1>2, SlotMarks DEF GateMarks
<1>4. g.slot \in [1..Len(b) -> Slots]
  BY <1>1, <1>2, <1>3
<1>5. Serial(b, g.slot) /\ Waves(b, g.slot)
  BY <1>3 DEF Serial, Waves, RunningReads
<1>6. TailHeld(b, g.slot)
  BY <1>1, <1>2 DEF TailHeld
<1> QED
  BY <1>4, <1>5, <1>6

\* A batch whose signal fired before it was gated.
LEMMA CancelledSlots ==
    ASSUME NEW b \in Seq(Calls)
    PROVE  SlotsOK(b, [i \in DOMAIN b |-> "cancelled"], TRUE)
<1> DEFINE sl == [i \in DOMAIN b |-> "cancelled"]
<1>1. DOMAIN b = 1..Len(b) /\ Len(b) \in Nat
  OBVIOUS
<1>2. \A i \in DOMAIN b : sl[i] = "cancelled"
  OBVIOUS
<1>3. sl \in [1..Len(b) -> Slots]
  BY <1>1, SlotMarks DEF Unrun
<1> HIDE DEF sl
<1>4. RunningReads(b, sl) = {}
  BY <1>2 DEF RunningReads
<1>5. Cardinality(RunningReads(b, sl)) <= Cap
  BY <1>4, FS_EmptySet, StepsAssumption
<1>6. Serial(b, sl)
  BY <1>2 DEF Serial
<1>7. TailHeld(b, sl)
  <2>1. HasTail(b) => Len(b) \in DOMAIN b
    BY <1>1 DEF HasTail
  <2> QED
    BY <1>2, <2>1 DEF TailHeld
<1> QED
  BY <1>3, <1>5, <1>6, <1>7 DEF SlotsOK, sl

-----------------------------------------------------------------------------
(* The end of a step.                                                      *)

LEMMA SlotsAreSeq ==
    ASSUME NEW n \in Nat, NEW sl
    PROVE  sl \in [1..n -> Slots] <=> (sl \in Seq(Slots) /\ Len(sl) = n)
OBVIOUS

LEMMA BelowTop ==
    ASSUME NEW n \in Nat
    PROVE  \A j \in 1..n : j < n <=> j # n
OBVIOUS

\* Between batches there is no slot, in one there is one per call.
LEMMA BatchFacts ==
    ASSUME IInv
    PROVE  /\ batch \in Seq(Calls) /\ Len(batch) \in Nat /\ DOMAIN batch = 1..Len(batch)
           /\ slot \in [1..Len(batch) -> Slots] /\ DOMAIN slot = 1..Len(batch)
           /\ phase # "idle" => turns \in 1..MaxTurns
           /\ turns \in Nat /\ cancelled \subseteq 1..MaxTurns /\ ghosts \subseteq Ghosts
<1>1. batch \in Seq(Calls) /\ Len(batch) \in Nat /\ DOMAIN batch = 1..Len(batch)
  BY DEF IInv, TypeOK
<1>2. slot \in [1..Len(batch) -> Slots]
  BY <1>1, SlotsAreSeq DEF IInv, TypeOK
<1>3. turns \in 0..MaxTurns /\ cancelled \subseteq 1..MaxTurns /\ ghosts \subseteq Ghosts
  BY DEF IInv, TypeOK
<1>4. phase # "idle" => turns \in 1..MaxTurns
  BY <1>3, StepsAssumption DEF IInv, TurnInv
<1> QED
  BY <1>1, <1>2, <1>3, <1>4, StepsAssumption

\* The turn ends: nothing of its batch goes on unless it was cancelled.
LEMMA EndTurnKeeps ==
    ASSUME IInv, phase # "idle", NEW sl \in [1..Len(batch) -> Slots], EndTurn(sl),
           loaded' \subseteq Views,
           \/ cancelled' = cancelled \cup {turns}
           \/ cancelled' = cancelled /\ \A i \in 1..Len(batch) : sl[i] # "running"
    PROVE  IInv'
<1>1. /\ batch \in Seq(Calls) /\ Len(batch) \in Nat
      /\ turns \in 1..MaxTurns /\ cancelled \subseteq 1..MaxTurns /\ ghosts \subseteq Ghosts
  BY BatchFacts
<1> DEFINE left == {[turn |-> turns, call |-> batch[i], at |-> i] :
                        i \in {j \in DOMAIN sl : sl[j] = "running"}}
<1>2. left \subseteq Ghosts
  BY <1>1 DEF Ghosts
<1>3. (\A i \in 1..Len(batch) : sl[i] # "running") => left = {}
  OBVIOUS
<1>4. ghosts' = ghosts \cup left
  BY DEF EndTurn
<1> HIDE DEF left
<1>5. /\ phase' = "idle" /\ aborted' = FALSE /\ step' = 0 /\ tracker' = NewTracker
      /\ batch' = <<>> /\ slot' = <<>> /\ breaker' = FALSE /\ turns' = turns
  BY DEF EndTurn
<1>6. cancelled' \subseteq 1..MaxTurns
  BY <1>1
<1>7. NewTracker \in Trackers /\ Vetoing(NewTracker, FALSE)
  BY NewTrackerFacts
<1>8. TypeOK'
  <2>1. Len(NewTracker.history) <= HistorySize /\ NewTracker.vetoCall \in Calls \cup {NoCall}
        /\ NewTracker.vetoCount \in Nat
    BY <1>7 DEF Trackers, Rings
  <2>2. turns \in 0..MaxTurns /\ 0 \in 0..MaxSteps
    BY <1>1, StepsAssumption
  <2>3. <<>> \in Seq(Calls) /\ <<>> \in Seq(Slots)
    OBVIOUS
  <2> QED
    BY <1>1, <1>2, <1>4, <1>5, <1>6, <2>1, <2>2, <2>3 DEF TypeOK
<1>9. tracker' \in Trackers /\ Vetoing(tracker, breaker)'
  BY <1>5, <1>7 DEF Vetoing
<1>10. TurnInv'
  BY <1>5, <1>6 DEF TurnInv
<1>11. BatchInv'
  BY <1>5 DEF BatchInv
<1>12. GhostsCut'
  <2>1. CASE cancelled' = cancelled \cup {turns}
    <3>1. \A g \in left : g.turn = turns
      BY DEF left
    <3> QED
      BY <1>4, <2>1, <3>1 DEF IInv, GhostsCut
  <2>2. CASE cancelled' = cancelled /\ \A i \in 1..Len(batch) : sl[i] # "running"
    <3>1. ghosts' = ghosts
      BY <1>3, <1>4, <2>2
    <3> QED
      BY <2>2, <3>1 DEF IInv, GhostsCut
  <2> QED
    BY <2>1, <2>2
<1> QED
  BY <1>8, <1>9, <1>10, <1>11, <1>12 DEF IInv

\* The step is cancelled under what still runs of it.
LEMMA CancelKeeps ==
    ASSUME IInv, phase # "idle", NEW sl \in [1..Len(batch) -> Slots], CancelStep(sl)
    PROVE  IInv'
<1>1. EndTurn(sl) /\ cancelled' = cancelled \cup {turns} /\ loaded' = loaded
  BY DEF CancelStep
<1>2. loaded \subseteq Views
  BY DEF IInv, TypeOK
<1> QED
  BY <1>1, <1>2, EndTurnKeeps

\* The step is recorded when all of its calls have settled.
LEMMA RecordKeeps ==
    ASSUME IInv, phase \in {"groups", "tail"}, NEW sl \in [1..Len(batch) -> Slots], GroupsOver(sl),
           NEW tr \in Trackers, Vetoing(tr, breaker), RecordStep(sl, tr)
    PROVE  IInv'
<1>1. loaded' \subseteq Views
  BY DEF RecordStep, IInv, TypeOK
<1>2. cancelled' = cancelled
  BY DEF RecordStep
<1>3. \A i \in 1..Len(batch) : sl[i] # "running"
  BY DEF GroupsOver, Waiting
<1>4. CASE Terminal(Last(batch)) \/ breaker
  <2>1. EndTurn(sl)
    BY <1>4 DEF RecordStep
  <2> QED
    BY <1>1, <1>2, <1>3, <2>1, EndTurnKeeps
<1>5. CASE ~(Terminal(Last(batch)) \/ breaker)
  <2>1. /\ phase' = "think" /\ step' = step + 1
        /\ tracker' = IF Len(batch) > 1 THEN ObserveComposite(tr) ELSE tr
        /\ batch' = <<>> /\ slot' = <<>> /\ breaker' = FALSE
        /\ turns' = turns /\ aborted' = aborted /\ ghosts' = ghosts
    BY <1>5 DEF RecordStep
  <2>2. tracker' \in Trackers /\ tracker'.vetoCount = tr.vetoCount
    BY <2>1, RecordingKeepsTracker
  <2>3. Vetoing(tracker, breaker)'
    BY <1>5, <2>1, <2>2 DEF Vetoing
  <2>4. step \in 0..MaxSteps /\ step < MaxSteps
    BY DEF IInv, TypeOK, TurnInv
  <2>5. step' \in 0..MaxSteps
    BY <2>1, <2>4, StepsAssumption
  <2>6. TypeOK'
    <3>1. Len(tracker'.history) <= HistorySize /\ tracker'.vetoCall \in Calls \cup {NoCall}
          /\ tracker'.vetoCount \in Nat
      BY <2>2 DEF Trackers, Rings
    <3>2. <<>> \in Seq(Calls) /\ <<>> \in Seq(Slots)
      OBVIOUS
    <3>3. /\ turns' \in 0..MaxTurns /\ cancelled' \subseteq 1..MaxTurns
          /\ aborted' \in BOOLEAN /\ ghosts' \subseteq Ghosts
      BY <1>2, <2>1 DEF IInv, TypeOK
    <3> QED
      BY <1>1, <2>1, <2>5, <3>1, <3>2, <3>3 DEF TypeOK
  <2>7. TurnInv'
    BY <1>2, <2>1 DEF IInv, TurnInv
  <2>8. BatchInv'
    BY <2>1 DEF BatchInv
  <2>9. GhostsCut'
    BY <1>2, <2>1 DEF IInv, GhostsCut
  <2> QED
    BY <2>2, <2>3, <2>6, <2>7, <2>8, <2>9 DEF IInv
<1> QED
  BY <1>4, <1>5

\* The batch goes on from slots that are in order.
LEMMA ProceedKeeps ==
    ASSUME IInv, NEW sl \in [1..Len(batch) -> Slots], NEW tr \in Trackers, Vetoing(tr, breaker),
           \/ phase = "groups" /\ SlotsOK(batch, sl, aborted)
           \/ phase = "tail" /\ GroupsOver(sl) /\ sl[Len(batch)] # "tail",
           Proceed(sl, tr)
    PROVE  IInv'
<1>1. /\ batch \in Seq(Calls) \ {<<>>} /\ BatchOK(batch) /\ Len(batch) \in Nat \ {0}
      /\ DOMAIN batch = 1..Len(batch)
  BY DEF IInv, BatchInv, BatchOK
<1>2. sl \in Seq(Slots) /\ Len(sl) = Len(batch) /\ Last(sl) = sl[Len(batch)]
  BY <1>1, SlotsAreSeq DEF Last
<1>3. Len(tr.history) <= HistorySize /\ tr.vetoCall \in Calls \cup {NoCall} /\ tr.vetoCount \in Nat
  BY DEF Trackers, Rings
<1>4. CASE ~GroupsOver(sl)
  <2>1. /\ slot' = sl /\ tracker' = tr
        /\ UNCHANGED <<turns, phase, aborted, step, batch, breaker, loaded, ghosts, cancelled, rut>>
    BY <1>4 DEF Proceed
  <2>2. phase = "groups" /\ SlotsOK(batch, sl, aborted)
    BY <1>4
  <2>3. TypeOK'
    BY <1>2, <1>3, <2>1 DEF IInv, TypeOK
  <2>4. TurnInv' /\ GhostsCut'
    BY <2>1 DEF IInv, TurnInv, GhostsCut
  <2>5. BatchInv'
    BY <1>1, <2>1, <2>2 DEF BatchInv
  <2>6. Vetoing(tracker, breaker)' /\ tracker' \in Trackers
    BY <2>1 DEF Vetoing
  <2> QED
    BY <2>3, <2>4, <2>5, <2>6 DEF IInv
<1>5. CASE GroupsOver(sl) /\ aborted
  <2>1. CancelStep(sl)
    BY <1>5 DEF Proceed
  <2> QED
    BY <2>1, CancelKeeps
<1>6. CASE GroupsOver(sl) /\ ~aborted /\ Last(sl) = "tail"
  <2>1. /\ slot' = [sl EXCEPT ![Len(sl)] = "running"] /\ tracker' = tr /\ phase' = "tail"
        /\ UNCHANGED <<turns, aborted, step, batch, breaker, loaded, ghosts, cancelled, rut>>
    BY <1>6 DEF Proceed
  <2>2. phase = "groups" /\ SlotsOK(batch, sl, aborted)
    BY <1>2, <1>6
  <2>3. HasTail(batch)
    <3>1. Len(batch) \in DOMAIN batch /\ sl[Len(batch)] = "tail"
      BY <1>1, <1>2, <1>6
    <3>2. TailHeld(batch, sl)
      BY <2>2 DEF SlotsOK
    <3> QED
      BY <3>1, <3>2 DEF TailHeld
  <2>4. slot' \in [1..Len(batch) -> Slots]
    BY <1>1, <1>2, <2>1, SlotMarks
  <2>5. slot' \in Seq(Slots) /\ Len(slot') = Len(batch)
    BY <1>1, <2>4, SlotsAreSeq
  <2>6. OnlyTailRuns(batch, slot)'
    <3>1. \A i \in 1..Len(batch) : i < Len(batch) => slot'[i] = sl[i]
      <4>1. slot' = [sl EXCEPT ![Len(batch)] = "running"]
        BY <1>2, <2>1
      <4>2. \A i \in 1..Len(batch) : i < Len(batch) => i # Len(batch)
        BY <1>1, BelowTop
      <4> QED
        BY <4>1, <4>2
    <3> QED
      BY <1>1, <1>6, <2>1, <2>3, <2>4, <3>1 DEF OnlyTailRuns, GroupsOver
  <2>7. TypeOK'
    BY <1>3, <2>1, <2>5 DEF IInv, TypeOK
  <2>8. TurnInv' /\ GhostsCut'
    BY <2>1, <2>2 DEF IInv, TurnInv, GhostsCut
  <2>9. BatchInv'
    BY <1>1, <2>1, <2>6 DEF BatchInv
  <2>10. Vetoing(tracker, breaker)' /\ tracker' \in Trackers
    BY <2>1 DEF Vetoing
  <2> QED
    BY <2>7, <2>8, <2>9, <2>10 DEF IInv
<1>7. CASE GroupsOver(sl) /\ ~aborted /\ Last(sl) # "tail"
  <2>1. RecordStep(sl, tr)
    BY <1>7 DEF Proceed
  <2> QED
    BY <1>7, <2>1, RecordKeeps
<1> QED
  BY <1>4, <1>5, <1>6, <1>7

-----------------------------------------------------------------------------
(* The steps of the specification.                                         *)

LEMMA InitInv == Init => IInv
<1> SUFFICES ASSUME Init PROVE IInv
  OBVIOUS
<1>1. NewTracker \in Trackers /\ Vetoing(NewTracker, FALSE)
  BY NewTrackerFacts
<1>2. Len(NewTracker.history) <= HistorySize /\ NewTracker.vetoCall \in Calls \cup {NoCall}
      /\ NewTracker.vetoCount \in Nat
  BY <1>1 DEF Trackers, Rings
<1>3. <<>> \in Seq(Calls) /\ <<>> \in Seq(Slots)
  OBVIOUS
<1>4. TypeOK
  <2>1. 0 \in 0..MaxTurns /\ 0 \in 0..MaxSteps
    BY StepsAssumption
  <2>2. batch = slot
    BY DEF Init
  <2> QED
    BY <1>2, <1>3, <2>1, <2>2 DEF Init, TypeOK
<1>5. TurnInv /\ BatchInv /\ GhostsCut
  BY DEF Init, TurnInv, BatchInv, GhostsCut
<1>6. tracker \in Trackers /\ Vetoing(tracker, breaker)
  BY <1>1 DEF Init
<1> QED
  BY <1>4, <1>5, <1>6 DEF IInv

LEMMA StartTurnKeeps == ASSUME IInv, StartTurn PROVE IInv'
<1>1. turns \in Nat /\ turns < MaxTurns
  BY BatchFacts DEF IInv, TurnInv, StartTurn
<1>2. TypeOK'
  BY <1>1, StepsAssumption DEF IInv, TypeOK, StartTurn
<1>3. TurnInv'
  BY <1>1 DEF TurnInv, StartTurn
<1>4. BatchInv' /\ GhostsCut' /\ tracker' \in Trackers /\ Vetoing(tracker, breaker)'
  BY DEF IInv, BatchInv, GhostsCut, Vetoing, StartTurn
<1> QED
  BY <1>2, <1>3, <1>4 DEF IInv

LEMMA BeginStepKeeps == ASSUME IInv, BeginStep PROVE IInv'
<1>1. TypeOK'
  BY DEF IInv, TypeOK, BeginStep
<1>2. TurnInv'
  BY DEF IInv, TurnInv, BeginStep
<1>3. BatchInv' /\ GhostsCut' /\ tracker' \in Trackers /\ Vetoing(tracker, breaker)'
  BY DEF IInv, BatchInv, GhostsCut, Vetoing, BeginStep
<1> QED
  BY <1>1, <1>2, <1>3 DEF IInv

LEMMA LeaveLoopKeeps == ASSUME IInv, LeaveLoop PROVE IInv'
<1>1. phase \in {"think", "infer"} /\ EndTurn(slot) /\ loaded' = loaded /\ cancelled' = cancelled
  BY DEF LeaveLoop
<1>2. batch = <<>> /\ Len(batch) = 0
  BY <1>1 DEF IInv, BatchInv
<1>3. slot \in [1..Len(batch) -> Slots] /\ \A i \in 1..Len(batch) : slot[i] # "running"
  BY <1>2, BatchFacts
<1>4. loaded' \subseteq Views
  BY <1>1 DEF IInv, TypeOK
<1> QED
  BY <1>1, <1>3, <1>4, EndTurnKeeps

\* A batch arrives: its slots are in order from the start.
LEMMA EmitKeeps ==
    ASSUME IInv, NEW e \in Emissions, NEW planMode \in BOOLEAN, Emit(e, planMode)
    PROVE  IInv'
<1> DEFINE b == BatchOf(e)
           g == Gate(b, planMode)
<1>1. /\ phase = "infer" /\ phase' = "groups" /\ batch' = b
      /\ Valid(e) \/ Splits(e) \/ Trims(e)
      /\ UNCHANGED <<turns, aborted, step, loaded, ghosts, cancelled, rut>>
  BY DEF Emit
<1>2. BatchOK(b) /\ b \in Seq(Calls) \ {<<>>} /\ Len(b) \in Nat
  BY <1>1, BatchIsOK DEF BatchOK
<1>3. tracker \in Trackers /\ Vetoing(tracker, FALSE) /\ ~breaker /\ aborted \in BOOLEAN
  BY <1>1 DEF IInv, TypeOK, BatchInv, Vetoing
<1>4. /\ SlotsOK(b, slot', aborted)
      /\ tracker' \in Trackers /\ breaker' \in BOOLEAN
      /\ Vetoing(tracker', breaker')
  <2>1. CASE aborted
    <3>1. slot' = [i \in DOMAIN b |-> "cancelled"] /\ tracker' = tracker /\ breaker' = breaker
      BY <2>1 DEF Emit
    <3> HIDE DEF b
    <3>2. SlotsOK(b, slot', TRUE)
      BY <1>2, <3>1, CancelledSlots
    <3> QED
      BY <1>3, <2>1, <3>1, <3>2 DEF IInv, TypeOK, SlotsOK
  <2>2. CASE ~aborted
    <3>1. slot' = Launch(b, g.slot) /\ tracker' = g.tracker /\ breaker' = g.breaker
      BY <2>2 DEF Emit
    <3> HIDE DEF b
    <3>2. g \in GateStates(b) /\ (HasTail(b) => g.slot[Len(b)] = "tail")
      BY <1>2, <1>3, GateFacts
    <3> HIDE DEF g
    <3>3. SlotsOK(b, slot', FALSE)
      BY <1>2, <3>1, <3>2, GatedSlots, LaunchKeepsSlots
    <3> QED
      BY <2>2, <3>1, <3>2, <3>3 DEF GateStates, SlotsOK
  <2> QED
    BY <2>1, <2>2
<1> HIDE DEF b, g
<1>5. slot' \in Seq(Slots) /\ Len(slot') = Len(b)
  BY <1>2, <1>4, SlotsAreSeq DEF SlotsOK
<1>6. TypeOK'
  <2>1. Len(tracker'.history) <= HistorySize /\ tracker'.vetoCall \in Calls \cup {NoCall}
        /\ tracker'.vetoCount \in Nat
    BY <1>4 DEF Trackers, Rings
  <2> QED
    BY <1>1, <1>2, <1>4, <1>5, <2>1 DEF IInv, TypeOK
<1>7. TurnInv' /\ GhostsCut'
  BY <1>1 DEF IInv, TurnInv, GhostsCut
<1>8. BatchInv'
  BY <1>1, <1>2, <1>4 DEF BatchInv
<1>9. Vetoing(tracker, breaker)'
  BY <1>4 DEF Vetoing
<1> QED
  BY <1>4, <1>6, <1>7, <1>8, <1>9 DEF IInv

LEMMA NothingToWaitForKeeps == ASSUME IInv, NothingToWaitFor PROVE IInv'
<1>1. phase = "groups" /\ SlotsOK(batch, slot, aborted) /\ Proceed(slot, tracker)
  BY DEF IInv, BatchInv, NothingToWaitFor
<1>2. tracker \in Trackers /\ Vetoing(tracker, breaker) /\ slot \in [1..Len(batch) -> Slots]
  BY <1>1 DEF IInv, SlotsOK
<1> QED
  BY <1>1, <1>2, ProceedKeeps

\* Of the tail only the tail runs.
LEMMA TailFacts ==
    ASSUME IInv, phase = "tail", NEW i \in DOMAIN slot, slot[i] = "running"
    PROVE  i = Len(batch) /\ Terminal(batch[i]) /\ Len(batch) > 1
<1>1. OnlyTailRuns(batch, slot)
  BY DEF IInv, BatchInv
<1>2. i \in 1..Len(batch) /\ Len(batch) \in Nat /\ DOMAIN batch = 1..Len(batch)
  BY BatchFacts
<1>3. ~(i < Len(batch))
  BY <1>1, <1>2 DEF OnlyTailRuns, Waiting
<1>4. i = Len(batch)
  BY <1>2, <1>3
<1> QED
  BY <1>1, <1>4 DEF OnlyTailRuns, HasTail, Last

\* A call settles: what waited for it alone is dispatched, or the batch is over.
LEMMA CallReturnsKeeps ==
    ASSUME IInv, NEW i \in DOMAIN slot, NEW r \in Results, CallReturns(i, r)
    PROVE  IInv'
<1> DEFINE sl == [slot EXCEPT ![i] = r]
           tr == IF Terminal(batch[i]) THEN tracker ELSE RecordOutcome(tracker, batch[i], r)
<1>1. /\ phase \in {"groups", "tail"} /\ slot[i] = "running"
      /\ Proceed(IF phase = "groups" THEN Dispatched(sl) ELSE sl, tr)
  BY DEF CallReturns
<1>2. /\ batch \in Seq(Calls) /\ Len(batch) \in Nat /\ DOMAIN batch = 1..Len(batch)
      /\ slot \in [1..Len(batch) -> Slots] /\ i \in 1..Len(batch)
  BY BatchFacts
<1>3. batch[i] \in Calls /\ r \in Outs
  BY <1>2 DEF Outs
<1>4. tracker \in Trackers /\ Vetoing(tracker, breaker) /\ aborted \in BOOLEAN
  BY DEF IInv, TypeOK
<1>5. tr \in Trackers /\ Vetoing(tr, breaker)
  <2>1. /\ RecordOutcome(tracker, batch[i], r) \in Trackers
        /\ RecordOutcome(tracker, batch[i], r).vetoCount <= tracker.vetoCount
    BY <1>3, <1>4, OutcomeKeepsTracker
  <2>2. /\ RecordOutcome(tracker, batch[i], r).vetoCount \in Nat
        /\ tracker.vetoCount \in Nat /\ BreakerStreak \in Nat
    BY <1>4, <2>1, TrackerFacts, TrackerAssumption
  <2> QED
    BY <1>4, <2>1, <2>2 DEF Vetoing
<1> HIDE DEF tr
<1>6. sl \in [1..Len(batch) -> Slots]
  BY <1>2, SlotMarks
<1>7. CASE phase = "groups"
  <2>1. SlotsOK(batch, slot, aborted)
    BY <1>7 DEF IInv, BatchInv
  <2>2. SlotsOK(batch, sl, aborted)
    BY <1>1, <1>2, <1>4, <2>1, SettleKeepsSlots
  <2> HIDE DEF sl
  <2>3. SlotsOK(batch, Dispatched(sl), aborted)
    <3>1. CASE aborted
      <4>1. SlotsOK(batch, sl, TRUE)
        BY <2>2, <3>1
      <4>2. SlotsOK(batch, Skip(batch, sl), TRUE)
        BY <1>2, <4>1, SkipKeepsSlots
      <4> QED
        BY <3>1, <4>2 DEF Dispatched, SlotsOK
    <3>2. CASE ~aborted
      <4>1. SlotsOK(batch, Launch(batch, sl), FALSE)
        BY <1>2, <2>2, <3>2, LaunchKeepsSlots DEF SlotsOK
      <4> QED
        BY <3>2, <4>1 DEF Dispatched, SlotsOK
    <3> QED
      BY <3>1, <3>2
  <2>4. Dispatched(sl) \in [1..Len(batch) -> Slots]
    BY <2>3 DEF SlotsOK
  <2>5. Proceed(Dispatched(sl), tr)
    BY <1>1, <1>7
  <2> QED
    BY <1>5, <1>7, <2>3, <2>4, <2>5, ProceedKeeps
<1>8. CASE phase = "tail"
  <2>1. i = Len(batch)
    BY <1>1, <1>8, TailFacts
  <2>2. OnlyTailRuns(batch, slot)
    BY <1>8 DEF IInv, BatchInv
  <2>3. \A j \in 1..Len(batch) : sl[j] = IF j = i THEN r ELSE slot[j]
    BY <1>2
  <2> HIDE DEF sl
  <2>4. r \notin Waiting /\ r # "tail"
    BY SlotMarks
  <2>5. \A j \in 1..Len(batch) : sl[j] \notin Waiting
    <3>1. \A j \in 1..Len(batch) : j = i \/ j < Len(batch)
      BY <1>2, <2>1, BelowTop
    <3>2. \A j \in 1..Len(batch) : j < Len(batch) => slot[j] \notin Waiting
      BY <1>2, <2>2 DEF OnlyTailRuns
    <3> QED
      BY <2>3, <2>4, <3>1, <3>2
  <2>6. GroupsOver(sl) /\ sl[Len(batch)] # "tail"
    BY <1>2, <1>6, <2>1, <2>3, <2>4, <2>5 DEF GroupsOver
  <2>7. Proceed(sl, tr)
    BY <1>1, <1>8
  <2> QED
    BY <1>5, <1>6, <1>8, <2>6, <2>7, ProceedKeeps
<1> QED
  BY <1>1, <1>7, <1>8

\* A call honours the signal.
LEMMA CallThrowsKeeps ==
    ASSUME IInv, NEW i \in DOMAIN slot, CallThrows(i)
    PROVE  IInv'
<1> DEFINE sl == [slot EXCEPT ![i] = "thrown"]
<1>1. /\ phase \in {"groups", "tail"} /\ slot[i] = "running" /\ aborted
      /\ IF ClassOf(batch[i]) = "pure_read" THEN Proceed(Skip(batch, sl), tracker) ELSE CancelStep(sl)
  BY DEF CallThrows
<1>2. /\ batch \in Seq(Calls) /\ Len(batch) \in Nat /\ DOMAIN batch = 1..Len(batch)
      /\ slot \in [1..Len(batch) -> Slots] /\ i \in 1..Len(batch)
  BY BatchFacts
<1>3. tracker \in Trackers /\ Vetoing(tracker, breaker) /\ aborted = TRUE
  BY <1>1 DEF IInv, TypeOK
<1>4. sl \in [1..Len(batch) -> Slots]
  BY <1>2, SlotMarks
<1>5. CASE ClassOf(batch[i]) # "pure_read"
  <2>1. CancelStep(sl) /\ phase # "idle"
    BY <1>1, <1>5
  <2> HIDE DEF sl
  <2> QED
    BY <1>4, <2>1, CancelKeeps
<1>6. CASE ClassOf(batch[i]) = "pure_read"
  <2>1. phase = "groups"
    <3>1. phase = "tail" => Terminal(batch[i])
      BY <1>1, TailFacts
    <3> QED
      BY <1>1, <1>6, <3>1 DEF Terminal
  <2>2. SlotsOK(batch, slot, TRUE)
    BY <1>3, <2>1 DEF IInv, BatchInv
  <2>3. SlotsOK(batch, sl, TRUE)
    BY <1>1, <1>2, <2>2, SettleKeepsSlots
  <2>4. Proceed(Skip(batch, sl), tracker)
    BY <1>1, <1>6
  <2> HIDE DEF sl
  <2>5. SlotsOK(batch, Skip(batch, sl), TRUE)
    BY <1>2, <2>3, SkipKeepsSlots
  <2>6. Skip(batch, sl) \in [1..Len(batch) -> Slots]
    BY <2>5 DEF SlotsOK
  <2> QED
    BY <1>3, <2>1, <2>4, <2>5, <2>6, ProceedKeeps
<1> QED
  BY <1>5, <1>6

LEMMA AbortKeeps == ASSUME IInv, Abort PROVE IInv'
<1>1. TypeOK' /\ TurnInv' /\ GhostsCut' /\ tracker' \in Trackers /\ Vetoing(tracker, breaker)'
  BY DEF IInv, TypeOK, TurnInv, GhostsCut, Vetoing, Abort
<1>2. BatchInv'
  <2>1. \A b, sl : SlotsOK(b, sl, aborted) => SlotsOK(b, sl, aborted')
    BY DEF SlotsOK, Abort
  <2>2. /\ phase' = phase /\ batch' = batch /\ slot' = slot /\ breaker' = breaker
        /\ BatchInv
    BY DEF IInv, Abort
  <2> QED
    BY <2>1, <2>2 DEF BatchInv
<1> QED
  BY <1>1, <1>2 DEF IInv

LEMMA GhostSettlesKeeps == ASSUME IInv, GhostSettles PROVE IInv'
<1>1. TypeOK' /\ TurnInv' /\ GhostsCut' /\ tracker' \in Trackers /\ Vetoing(tracker, breaker)'
  BY DEF IInv, TypeOK, TurnInv, GhostsCut, Vetoing, GhostSettles
<1>2. BatchInv'
  BY DEF IInv, BatchInv, GhostSettles
<1> QED
  BY <1>1, <1>2 DEF IInv

LEMMA StutterKeeps == ASSUME IInv, UNCHANGED vars PROVE IInv'
BY DEF IInv, TypeOK, TurnInv, BatchInv, GhostsCut, Vetoing, vars

LEMMA StepInv == IInv /\ [Next]_vars => IInv'
<1> SUFFICES ASSUME IInv, [Next]_vars PROVE IInv'
  OBVIOUS
<1>1. CASE \E e \in Emissions, planMode \in BOOLEAN : Emit(e, planMode)
  BY <1>1, EmitKeeps
<1>2. CASE \E i \in DOMAIN slot : (\E r \in Results : CallReturns(i, r)) \/ CallThrows(i)
  BY <1>2, CallReturnsKeeps, CallThrowsKeeps
<1> QED
  BY <1>1, <1>2, StartTurnKeeps, BeginStepKeeps, LeaveLoopKeeps, NothingToWaitForKeeps, AbortKeeps,
     GhostSettlesKeeps, StutterKeeps DEF Next

-----------------------------------------------------------------------------
(* The results.                                                            *)

THEOREM Invariance == Spec => []IInv
BY InitInv, StepInv, PTL DEF Spec

\* The types.
THEOREM TypeCorrect == Spec => []TypeOK
<1>1. IInv => TypeOK
  BY DEF IInv
<1> QED
  BY <1>1, Invariance, PTL

LEMMA NoneIsNarrow == Cardinality({}) <= Cap
<1>1. Cardinality({}) = 0
  BY FS_EmptySet
<1> QED
  BY <1>1, StepsAssumption

LEMMA InvOrders == IInv => DispatchOrder
<1> SUFFICES ASSUME IInv PROVE DispatchOrder
  OBVIOUS
<1>1. /\ batch \in Seq(Calls) /\ Len(batch) \in Nat /\ DOMAIN batch = 1..Len(batch)
      /\ slot \in [1..Len(batch) -> Slots] /\ DOMAIN slot = 1..Len(batch)
  BY BatchFacts
<1>2. phase \in {"idle", "think", "infer"} \/ phase = "groups" \/ phase = "tail"
  BY DEF IInv, TypeOK
<1>3. Active("pure_read") = RunningReads(batch, slot)
  BY <1>1 DEF Active, RunningReads
<1>4. CASE phase \in {"idle", "think", "infer"}
  <2>1. batch = <<>>
    BY <1>4 DEF IInv, BatchInv
  <2>2. \A cls : Active(cls) = {}
    BY <1>1, <2>1 DEF Active
  <2>3. Cardinality(Active("pure_read")) <= Cap
    BY <2>2, NoneIsNarrow
  <2>4. DOMAIN slot = {}
    BY <1>1, <2>1
  <2> QED
    BY <2>2, <2>3, <2>4 DEF DispatchOrder
<1>5. CASE phase = "groups"
  <2>1. BatchOK(batch) /\ SlotsOK(batch, slot, aborted)
    BY <1>5 DEF IInv, BatchInv
  <2>2. \A i, j \in DOMAIN slot :
            i < j /\ slot[j] = "running" /\ ClassOf(batch[i]) = ClassOf(batch[j]) =>
                slot[i] \notin Waiting \/ ClassOf(batch[i]) = "pure_read"
    BY <1>1, <2>1 DEF SlotsOK, Serial
  <2>3. Cardinality(Active("pure_read")) <= Cap
    BY <1>3, <2>1 DEF SlotsOK
  <2>4. Active("approval_gated") # {} => Len(batch) = 1
    BY <1>1, <2>1 DEF BatchOK, Active, Gated
  <2>5. Active("terminal") # {} => Len(batch) <= 1
    <3> SUFFICES ASSUME NEW i \in Active("terminal") PROVE Len(batch) <= 1
      OBVIOUS
    <3>1. i \in 1..Len(batch) /\ Terminal(batch[i]) /\ slot[i] = "running"
      BY <1>1 DEF Active, Terminal
    <3>2. i = Len(batch)
      BY <1>1, <2>1, <3>1 DEF BatchOK, TerminalLast
    <3>3. ~HasTail(batch)
      BY <2>1, <3>1, <3>2 DEF SlotsOK, TailHeld
    <3> QED
      BY <1>1, <3>1, <3>2, <3>3 DEF HasTail, Last
  <2>6. Len(slot) = Len(batch)
    BY <1>1, SlotsAreSeq
  <2>7. Active("terminal") # {} => \A i \in DOMAIN slot : i < Len(slot) => slot[i] \notin Waiting
    BY <1>1, <2>5, <2>6
  <2> QED
    BY <2>2, <2>3, <2>4, <2>7 DEF DispatchOrder
<1>6. CASE phase = "tail"
  <2>1. OnlyTailRuns(batch, slot)
    BY <1>6 DEF IInv, BatchInv
  <2>2. \A i \in DOMAIN slot : slot[i] = "running" => i = Len(batch) /\ ClassOf(batch[i]) = "terminal"
    BY <1>6, TailFacts DEF Terminal
  <2>3. Active("pure_read") = {} /\ Active("approval_gated") = {}
    BY <2>2 DEF Active
  <2>4. Cardinality(Active("pure_read")) <= Cap
    BY <2>3, NoneIsNarrow
  <2>5. \A i \in DOMAIN slot : i < Len(batch) => slot[i] \notin Waiting
    BY <1>1, <2>1 DEF OnlyTailRuns
  <2>6. Len(slot) = Len(batch)
    BY <1>1, SlotsAreSeq
  <2>7. \A i, j \in DOMAIN slot :
            i < j /\ slot[j] = "running" /\ ClassOf(batch[i]) = ClassOf(batch[j]) =>
                slot[i] \notin Waiting \/ ClassOf(batch[i]) = "pure_read"
    BY <1>1, <2>2, <2>5
  <2> QED
    BY <2>3, <2>4, <2>5, <2>6, <2>7 DEF DispatchOrder
<1> QED
  BY <1>2, <1>4, <1>5, <1>6

\* Calls of one serial class run one after the other in the order of the
\* batch, reads in waves no wider than the cap, an approval prompt alone, and
\* the terminal call when all else has settled.
THEOREM BatchesInOrder == Spec => []DispatchOrder
BY Invariance, InvOrders, PTL

-----------------------------------------------------------------------------
(* The ring, seen from its newest entry.                                   *)

\* Entries are named by their distance from the newest one, which a push moves
\* by one whether or not it drops the oldest.
FromEnd(h, d) == h[Len(h) - d]
Within(h) == 0..(Len(h) - 1)

LEMMA FromEndFacts ==
    ASSUME NEW h \in Rings
    PROVE  /\ Len(h) \in Nat /\ Len(h) <= HistorySize /\ h \in Seq(Entries)
           /\ \A d \in Within(h) : d \in Nat /\ d < HistorySize /\ Len(h) - d \in DOMAIN h
                                    /\ FromEnd(h, d) \in Entries
           /\ \A i \in DOMAIN h : Len(h) - i \in Within(h) /\ FromEnd(h, Len(h) - i) = h[i]
<1>1. h \in Seq(Entries) /\ Len(h) \in Nat /\ Len(h) <= HistorySize /\ HistorySize \in Nat
      /\ DOMAIN h = 1..Len(h)
  BY TrackerAssumption DEF Rings
<1>2. ASSUME NEW d \in Within(h)
      PROVE  d \in Nat /\ d < HistorySize /\ Len(h) - d \in DOMAIN h /\ FromEnd(h, d) \in Entries
  <2>1. d \in Nat /\ d < HistorySize /\ Len(h) - d \in DOMAIN h
    BY <1>1, <1>2 DEF Within
  <2> QED
    BY <1>1, <2>1 DEF FromEnd
<1>3. ASSUME NEW i \in DOMAIN h
      PROVE  Len(h) - i \in Within(h) /\ FromEnd(h, Len(h) - i) = h[i]
  <2>1. i \in 1..Len(h) /\ Len(h) - (Len(h) - i) = i
    BY <1>1
  <2> QED
    BY <1>1, <2>1 DEF FromEnd, Within
<1> QED
  BY <1>1, <1>2, <1>3

\* A push puts the new entry at distance 0 and the others one further away,
\* as long as the ring reaches.
LEMMA PushFromEnd ==
    ASSUME NEW h \in Rings, NEW e \in Entries
    PROVE  /\ 0 \in Within(Push(h, e)) /\ FromEnd(Push(h, e), 0) = e
           /\ \A d \in Within(h) : d + 1 < HistorySize =>
                d + 1 \in Within(Push(h, e)) /\ FromEnd(Push(h, e), d + 1) = FromEnd(h, d)
           /\ \A d \in Within(Push(h, e)) : d # 0 => d - 1 \in Within(h)
<1>1. h \in Seq(Entries) /\ Len(h) \in Nat /\ Len(h) <= HistorySize /\ HistorySize \in Nat \ {0, 1}
  BY TrackerAssumption DEF Rings
<1> DEFINE a == Append(h, e)
<1>2. /\ a \in Seq(Entries) /\ Len(a) = Len(h) + 1 /\ a[Len(h) + 1] = e
      /\ \A i \in 1..Len(h) : a[i] = h[i]
  BY <1>1
<1> HIDE DEF a
<1>3. CASE Len(a) > HistorySize
  <2>1. Push(h, e) = Tail(a)
    BY <1>3 DEF Push, a
  <2>2. Len(h) = HistorySize
    BY <1>1, <1>2, <1>3
  <2>3. Len(Tail(a)) = Len(h) /\ \A i \in 1..Len(h) : Tail(a)[i] = a[i + 1]
    <3>1. a # <<>>
      BY <1>1, <1>2
    <3> QED
      BY <1>1, <1>2, <3>1
  <2>4. FromEnd(Tail(a), 0) = e
    <3>1. Len(h) \in 1..Len(h) /\ Len(Tail(a)) - 0 = Len(h)
      BY <1>1, <2>2, <2>3
    <3> QED
      BY <1>2, <2>3, <3>1 DEF FromEnd
  <2>5. ASSUME NEW d \in Within(h), d + 1 < HistorySize
        PROVE  d + 1 \in Within(Tail(a)) /\ FromEnd(Tail(a), d + 1) = FromEnd(h, d)
    <3>1. /\ Len(h) - (d + 1) \in 1..Len(h) /\ Len(h) - (d + 1) + 1 = Len(h) - d
          /\ Len(h) - d \in 1..Len(h)
      BY <1>1, <2>2, <2>5 DEF Within
    <3>2. Tail(a)[Len(h) - (d + 1)] = a[Len(h) - d]
      BY <2>3, <3>1
    <3> QED
      BY <1>1, <1>2, <2>2, <2>3, <2>5, <3>1, <3>2 DEF FromEnd, Within
  <2> QED
    BY <1>1, <2>1, <2>2, <2>3, <2>4, <2>5 DEF Within
<1>4. CASE ~(Len(a) > HistorySize)
  <2>1. Push(h, e) = a
    BY <1>4 DEF Push, a
  <2>2. FromEnd(a, 0) = e
    BY <1>1, <1>2 DEF FromEnd
  <2>3. ASSUME NEW d \in Within(h), d + 1 < HistorySize
        PROVE  d + 1 \in Within(a) /\ FromEnd(a, d + 1) = FromEnd(h, d)
    <3>1. Len(a) - (d + 1) = Len(h) - d /\ Len(h) - d \in 1..Len(h)
      BY <1>1, <1>2, <2>3 DEF Within
    <3> QED
      BY <1>1, <1>2, <2>3, <3>1 DEF FromEnd, Within
  <2> QED
    BY <1>1, <1>2, <2>1, <2>2, <2>3 DEF Within
<1> QED
  BY <1>3, <1>4

\* A non-empty set of positions has a greatest.
LEMMA GreatestExists ==
    ASSUME NEW n \in Nat, NEW S \in SUBSET (1..n), S # {}
    PROVE  Max(S) \in S /\ \A i \in S : Max(S) >= i
<1> DEFINE T == {n - i : i \in S}
<1>1. T \subseteq Nat /\ T # {}
  <2>1. \A i \in S : i \in 1..n
    OBVIOUS
  <2>2. \A i \in S : n - i \in Nat
    BY <2>1
  <2>3. T \subseteq Nat
    BY <2>2
  <2>4. PICK i \in S : TRUE
    OBVIOUS
  <2>5. n - i \in T
    BY <2>4
  <2> QED
    BY <2>3, <2>5
<1>2. PICK t \in T : \A u \in T : t <= u
  <2> HIDE DEF T
  <2> QED
    BY <1>1, LeastNat
<1>3. PICK m \in S : t = n - m
  BY <1>2
<1>4. \A i \in S : m >= i
  <2> SUFFICES ASSUME NEW i \in S PROVE m >= i
    OBVIOUS
  <2>1. n - i \in T
    OBVIOUS
  <2>2. t <= n - i
    BY <1>2, <2>1
  <2> QED
    BY <1>3, <2>2
<1> QED
  BY <1>4 DEF Max

\* An outcome finds the latest pending entry of its call, which is no further
\* away than any other, and changes that one alone.
LEMMA PatchFromEnd ==
    ASSUME NEW h \in Rings, NEW c \in Calls, NEW o \in Outs,
           NEW p \in Within(h), FromEnd(h, p) = [call |-> c, out |-> "pending"]
    PROVE  \E q \in Within(h) :
              /\ q <= p
              /\ FromEnd(h, q) = [call |-> c, out |-> "pending"]
              /\ Within(Patch(h, c, o)) = Within(h)
              /\ FromEnd(Patch(h, c, o), q) = [call |-> c, out |-> o]
              /\ \A d \in Within(h) : d # q => FromEnd(Patch(h, c, o), d) = FromEnd(h, d)
<1> DEFINE mark == [call |-> c, out |-> "pending"]
           P == {i \in DOMAIN h : h[i] = mark}
           top == Max(P)
<1>1. h \in Seq(Entries) /\ Len(h) \in Nat /\ DOMAIN h = 1..Len(h)
  BY FromEndFacts
<1>2. P \subseteq 1..Len(h) /\ Len(h) - p \in P
  BY <1>1, FromEndFacts DEF FromEnd
<1>3. top \in P /\ \A i \in P : top >= i
  <2>1. P \in SUBSET (1..Len(h)) /\ P # {}
    BY <1>2
  <2> HIDE DEF P
  <2> QED
    BY <1>1, <2>1, GreatestExists
<1> DEFINE q == Len(h) - top
           new == [h EXCEPT ![top].out = o]
<1>4. Patch(h, c, o) = new
  BY <1>2 DEF Patch
<1> HIDE DEF top
<1>5. q \in Within(h) /\ q <= p /\ FromEnd(h, q) = mark /\ top \in DOMAIN h /\ h[top] = mark
  <2>1. top \in DOMAIN h /\ h[top] = mark
    BY <1>3
  <2>2. q \in Within(h) /\ FromEnd(h, q) = mark
    BY <2>1, FromEndFacts
  <2>3. top >= Len(h) - p
    BY <1>2, <1>3
  <2>4. p \in Nat /\ top \in 1..Len(h)
    BY <1>1, <2>1, FromEndFacts
  <2> QED
    BY <1>1, <2>1, <2>2, <2>3, <2>4
<1>6. Len(new) = Len(h) /\ new[top] = [call |-> c, out |-> o]
      /\ \A i \in DOMAIN h : i # top => new[i] = h[i]
  <2>1. [h[top] EXCEPT !.out = o] = [call |-> c, out |-> o]
    BY <1>5
  <2>2. h[top] \in Entries /\ [h[top] EXCEPT !.out = o] \in Entries
    BY <1>1, <1>5 DEF Entries
  <2>3. new = [h EXCEPT ![top] = [h[top] EXCEPT !.out = o]]
    OBVIOUS
  <2>4. [h EXCEPT ![top] = [h[top] EXCEPT !.out = o]] \in Seq(Entries)
        /\ Len([h EXCEPT ![top] = [h[top] EXCEPT !.out = o]]) = Len(h)
    BY <1>1, <1>5, <2>2
  <2> QED
    BY <1>1, <1>5, <2>1, <2>3, <2>4
<1> HIDE DEF new
<1>7. FromEnd(new, q) = [call |-> c, out |-> o]
  <2>1. Len(new) - q = top
    BY <1>1, <1>5, <1>6
  <2> QED
    BY <1>6, <2>1 DEF FromEnd
<1>8. ASSUME NEW d \in Within(h), d # q PROVE FromEnd(new, d) = FromEnd(h, d)
  <2>1. Len(h) - d \in DOMAIN h /\ Len(h) - d # top
    BY <1>1, <1>5, <1>8, FromEndFacts DEF Within
  <2> QED
    BY <1>6, <2>1 DEF FromEnd
<1> QED
  BY <1>4, <1>5, <1>6, <1>7, <1>8 DEF Within

-----------------------------------------------------------------------------
(* The traces a rut leaves in the ring.                                    *)

\* A ring is wide enough for steps of W entries when it holds one step more
\* than the repeats a veto takes.
Wide(W) == W \in Nat /\ (Critical + 1) * W <= HistorySize

Answered(e) == e.out \notin {"pending", "vetoed"}

\* Behind the newest m entries the ring holds answers o of call c, one at least
\* from each of the last n steps, and down to them no other answer of c.
Traces(W, h, m, c, n, o) == \E D \in [1..n -> Within(h)] :
    /\ \A j \in 1..n : m <= D[j] /\ D[j] < m + j * W /\ FromEnd(h, D[j]) = [call |-> c, out |-> o]
    /\ \A j, k \in 1..n : j < k => D[j] < D[k]
    /\ \A j \in 1..n : \A d \in Within(h) :
        m <= d /\ d <= D[j] /\ FromEnd(h, d).call = c /\ Answered(FromEnd(h, d)) =>
            FromEnd(h, d).out = o

LEMMA Multiples ==
    ASSUME NEW W \in Nat, NEW n \in Nat
    PROVE  /\ n * W \in Nat /\ (n + 1) * W = n * W + W
           /\ \A j \in 0..n : j * W \in Nat /\ j * W <= n * W
<1>1. (n + 1) * W = n * W + W /\ n * W \in Nat
  OBVIOUS
<1>2. ASSUME NEW j \in 0..n PROVE j * W \in Nat /\ j * W <= n * W
  <2>1. PICK i \in Nat : n = j + i
    <3>1. n - j \in Nat /\ n = j + (n - j)
      OBVIOUS
    <3> QED
      BY <3>1
  <2>2. j * W \in Nat /\ i * W \in Nat
    OBVIOUS
  <2>3. n * W = j * W + i * W
    BY <2>1
  <2> QED
    BY <2>2, <2>3
<1> QED
  BY <1>1, <1>2

\* A call that never ran in a row leaves nothing to find.
LEMMA NoTraces ==
    ASSUME NEW W, NEW h, NEW m, NEW c, NEW o
    PROVE  Traces(W, h, m, c, 0, o)
<1> DEFINE D == [j \in 1..0 |-> 0]
<1>1. D \in [1..0 -> Within(h)] /\ \A j \in 1..0 : FALSE
  OBVIOUS
<1> QED
  BY <1>1 DEF Traces

\* What is entered during a step moves the traces of the steps before it.
LEMMA TracesPush ==
    ASSUME NEW W, Wide(W), NEW h \in Rings, NEW e \in Entries, NEW m \in Nat, m < W,
           NEW c, NEW n \in 0..Critical, NEW o, Traces(W, h, m, c, n, o)
    PROVE  Traces(W, Push(h, e), m + 1, c, n, o)
<1> DEFINE g == Push(h, e)
<1>1. PICK D \in [1..n -> Within(h)] :
        /\ \A j \in 1..n : m <= D[j] /\ D[j] < m + j * W /\ FromEnd(h, D[j]) = [call |-> c, out |-> o]
        /\ \A j, k \in 1..n : j < k => D[j] < D[k]
        /\ \A j \in 1..n : \A d \in Within(h) :
            m <= d /\ d <= D[j] /\ FromEnd(h, d).call = c /\ Answered(FromEnd(h, d)) =>
                FromEnd(h, d).out = o
  BY DEF Traces
<1>2. Critical \in Nat /\ W \in Nat /\ HistorySize \in Nat /\ n \in Nat
      /\ Critical * W + W <= HistorySize /\ Critical * W \in Nat
  <2>1. Critical \in Nat /\ W \in Nat /\ HistorySize \in Nat
    BY TrackerAssumption DEF Wide
  <2> QED
    BY <2>1, Multiples DEF Wide
<1>3. ASSUME NEW j \in 1..n
      PROVE  /\ D[j] \in Nat /\ j * W \in Nat /\ D[j] + 1 < HistorySize
             /\ D[j] + 1 \in Within(g) /\ FromEnd(g, D[j] + 1) = FromEnd(h, D[j])
  <2>1. j \in 0..Critical
    BY <1>2
  <2>2. j * W \in Nat /\ j * W <= Critical * W
    BY <1>2, <2>1, Multiples
  <2>3. D[j] \in Within(h) /\ D[j] \in Nat
    BY FromEndFacts
  <2>4. D[j] < m + j * W
    BY <1>1
  <2>5. D[j] + 1 < HistorySize
    BY <1>2, <2>2, <2>3, <2>4
  <2> QED
    BY <2>2, <2>3, <2>5, PushFromEnd
<1> HIDE DEF g
<1> DEFINE F == [j \in 1..n |-> D[j] + 1]
<1>4. F \in [1..n -> Within(g)] /\ \A j \in 1..n : F[j] = D[j] + 1
  BY <1>3
<1> HIDE DEF F
<1>5. \A j \in 1..n : m + 1 <= F[j] /\ F[j] < m + 1 + j * W /\ FromEnd(g, F[j]) = [call |-> c, out |-> o]
  <2> SUFFICES ASSUME NEW j \in 1..n
               PROVE  m + 1 <= F[j] /\ F[j] < m + 1 + j * W /\ FromEnd(g, F[j]) = [call |-> c, out |-> o]
    OBVIOUS
  <2>1. m <= D[j] /\ D[j] < m + j * W /\ FromEnd(h, D[j]) = [call |-> c, out |-> o]
    BY <1>1
  <2> QED
    BY <1>3, <1>4, <2>1
<1>6. \A j, k \in 1..n : j < k => F[j] < F[k]
  BY <1>1, <1>3, <1>4
<1>7. ASSUME NEW j \in 1..n, NEW d \in Within(g), m + 1 <= d, d <= F[j],
             FromEnd(g, d).call = c, Answered(FromEnd(g, d))
      PROVE  FromEnd(g, d).out = o
  <2>1. d \in Nat /\ d # 0
    BY <1>7 DEF Within
  <2>2. d - 1 \in Within(h)
    BY <2>1, PushFromEnd DEF g
  <2>3. F[j] = D[j] + 1 /\ F[j] < HistorySize /\ D[j] \in Nat
    BY <1>3, <1>4
  <2>4. FromEnd(g, d) = FromEnd(h, d - 1)
    <3>1. (d - 1) + 1 = d /\ (d - 1) + 1 < HistorySize
      BY <1>2, <1>7, <2>1, <2>3
    <3>2. FromEnd(g, (d - 1) + 1) = FromEnd(h, d - 1)
      BY <2>2, <3>1, PushFromEnd DEF g
    <3> QED
      BY <3>1, <3>2
  <2>5. m <= d - 1 /\ d - 1 <= D[j]
    BY <1>7, <2>1, <2>3
  <2> QED
    BY <1>1, <1>7, <2>2, <2>4, <2>5
<1>8. Traces(W, g, m + 1, c, n, o)
  BY <1>4, <1>5, <1>6, <1>7 DEF Traces
<1> QED
  BY <1>8 DEF g

\* A change among the newest m entries leaves the traces behind them.
LEMMA TracesKept ==
    ASSUME NEW W, NEW h, NEW g, NEW m, Within(g) = Within(h),
           \A d \in Within(h) : m <= d => FromEnd(g, d) = FromEnd(h, d),
           NEW c, NEW n, NEW o, Traces(W, h, m, c, n, o)
    PROVE  Traces(W, g, m, c, n, o)
<1>1. PICK D \in [1..n -> Within(h)] :
        /\ \A j \in 1..n : m <= D[j] /\ D[j] < m + j * W /\ FromEnd(h, D[j]) = [call |-> c, out |-> o]
        /\ \A j, k \in 1..n : j < k => D[j] < D[k]
        /\ \A j \in 1..n : \A d \in Within(h) :
            m <= d /\ d <= D[j] /\ FromEnd(h, d).call = c /\ Answered(FromEnd(h, d)) =>
                FromEnd(h, d).out = o
  BY DEF Traces
<1>2. \A j \in 1..n : D[j] \in Within(h) /\ m <= D[j]
  BY <1>1
<1>3. \A j \in 1..n : FromEnd(g, D[j]) = FromEnd(h, D[j])
  BY <1>2
<1>4. \A j \in 1..n : m <= D[j] /\ D[j] < m + j * W /\ FromEnd(g, D[j]) = [call |-> c, out |-> o]
  BY <1>1, <1>3
<1>5. \A j \in 1..n : \A d \in Within(g) :
        m <= d /\ d <= D[j] /\ FromEnd(g, d).call = c /\ Answered(FromEnd(g, d)) =>
            FromEnd(g, d).out = o
  BY <1>1
<1> QED
  BY <1>1, <1>4, <1>5 DEF Traces

\* Whoever has traces of n steps has a streak of n.
LEMMA StreakAtLeast ==
    ASSUME NEW W, NEW h \in Rings, NEW m \in Nat, NEW c, NEW n \in Nat \ {0}, NEW o,
           Traces(W, h, m, c, n, o), o \notin {"pending", "vetoed"},
           \A d \in Within(h) : d < m => ~(FromEnd(h, d).call = c /\ Answered(FromEnd(h, d)))
    PROVE  Streak(h, c) \in Nat /\ n <= Streak(h, c)
<1> DEFINE A == Answers(h, c)
<1>1. PICK D \in [1..n -> Within(h)] :
        /\ \A j \in 1..n : m <= D[j] /\ D[j] < m + j * W /\ FromEnd(h, D[j]) = [call |-> c, out |-> o]
        /\ \A j, k \in 1..n : j < k => D[j] < D[k]
        /\ \A j \in 1..n : \A d \in Within(h) :
            m <= d /\ d <= D[j] /\ FromEnd(h, d).call = c /\ Answered(FromEnd(h, d)) =>
                FromEnd(h, d).out = o
  BY DEF Traces
<1>2. Len(h) \in Nat /\ DOMAIN h = 1..Len(h) /\ \A d \in Within(h) : d \in Nat
  BY FromEndFacts
<1>3. \A i \in DOMAIN h : i \in A <=> h[i].call = c /\ Answered(h[i])
  BY DEF Answers, Answered
<1>4. A \in SUBSET (1..Len(h))
  BY <1>2 DEF Answers
<1> DEFINE pos(j) == Len(h) - D[j]
<1>5. \A j \in 1..n : pos(j) \in A
  <2> SUFFICES ASSUME NEW j \in 1..n PROVE pos(j) \in A
    OBVIOUS
  <2>1. D[j] \in Within(h) /\ FromEnd(h, D[j]) = [call |-> c, out |-> o]
    BY <1>1
  <2>2. pos(j) \in DOMAIN h /\ h[pos(j)] = [call |-> c, out |-> o]
    BY <2>1, FromEndFacts DEF FromEnd
  <2> QED
    BY <1>3, <2>2 DEF Answered
<1>6. ASSUME NEW j \in 1..n, NEW i \in A, i >= pos(j) PROVE h[i].out = o
  <2> DEFINE d == Len(h) - i
  <2>1. i \in DOMAIN h
    BY <1>2, <1>4
  <2>2. d \in Within(h) /\ FromEnd(h, d) = h[i] /\ d \in Nat
    BY <1>2, <2>1, FromEndFacts
  <2>3. FromEnd(h, d).call = c /\ Answered(FromEnd(h, d))
    BY <1>3, <2>1, <2>2
  <2>4. m <= d
    BY <2>2, <2>3
  <2>5. D[j] \in Nat
    BY <1>2
  <2>6. d <= D[j]
    BY <1>2, <1>6, <2>1, <2>5
  <2> HIDE DEF d
  <2>7. FromEnd(h, d).out = o
    BY <1>1, <2>2, <2>3, <2>4, <2>6
  <2> QED
    BY <2>2, <2>7
<1> HIDE DEF A
<1>7. A # {} /\ 1 \in 1..n
  BY <1>5
<1>8. Max(A) \in A /\ \A i \in A : Max(A) >= i
  BY <1>2, <1>4, <1>7, GreatestExists
<1>9. h[Max(A)].out = o
  BY <1>5, <1>6, <1>7, <1>8
<1> DEFINE S == {i \in A : \A j \in A : j >= i => h[j].out = o}
<1>10. Streak(h, c) = Cardinality(S)
  BY <1>7, <1>9 DEF Streak, A
<1> DEFINE f == [j \in 1..n |-> pos(j)]
<1>11. \A j \in 1..n : f[j] \in S
  BY <1>5, <1>6
<1>12. IsFiniteSet(S) /\ IsFiniteSet(1..n) /\ Cardinality(1..n) = n
  <2>1. IsFiniteSet(1..Len(h))
    BY <1>2, FS_Interval
  <2>2. S \in SUBSET (1..Len(h))
    BY <1>4
  <2>3. IsFiniteSet(S)
    BY <2>1, <2>2, FS_Subset
  <2>4. IsFiniteSet(1..n) /\ Cardinality(1..n) = n
    BY FS_Interval
  <2> QED
    BY <2>3, <2>4
<1>13. f \in Injection(1..n, S)
  <2> HIDE DEF S
  <2>1. f \in [1..n -> S]
    BY <1>11
  <2>2. ASSUME NEW j \in 1..n, NEW k \in 1..n, f[j] = f[k] PROVE j = k
    <3>1. D[j] \in Nat /\ D[k] \in Nat
      BY <1>2
    <3>2. D[j] = D[k]
      BY <1>2, <2>2, <3>1
    <3>3. ~(j < k) /\ ~(k < j)
      BY <1>1, <3>1, <3>2
    <3> QED
      BY <3>3
  <2> QED
    BY <2>1, <2>2 DEF Injection, IsInjective
<1> HIDE DEF S, f
<1>14. n <= Cardinality(S) /\ Cardinality(S) \in Nat
  BY <1>12, <1>13, FS_Injection, FS_CardinalityType
<1> QED
  BY <1>10, <1>14

-----------------------------------------------------------------------------
(* What a step enters in the ring while it runs.                           *)

\* The entries a step takes in the ring: one per call, and the composite.
Places(b) == IF Len(b) = 1 THEN 1 ELSE Len(b) + 1

\* The outcome the ring shows for a call in slot s.
Shown(s) == IF s \in Waiting THEN "pending" ELSE s

\* Of the first n calls, those the tracker heard of.
Heard(sl, n) == {i \in 1..n : sl[i] # "refused"}

\* The newest m entries are those of the first n calls, though not each call's
\* own: an outcome is entered at the latest pending entry of the same call.
Laid(h, b, sl, n, m) == \E f \in [Heard(sl, n) -> 0..(m - 1)] :
    /\ \A i, j \in Heard(sl, n) : f[i] = f[j] => i = j
    /\ \A d \in 0..(m - 1) : \E i \in Heard(sl, n) : f[i] = d
    /\ \A i \in Heard(sl, n) : FromEnd(h, f[i]) = [call |-> b[i], out |-> Shown(sl[i])]

\* The ruts the turn is in have left their traces behind the newest m entries.
Backed(W, h, m) == \A c \in Calls : Traces(W, h, m, c, rut[c].n, rut[c].out)

\* What the gate made of the first n calls: those it let through had not come
\* to Critical steps.
Sorted(b, sl, n) == \A i \in 1..n :
    /\ sl[i] \in Waiting \cup Results \cup {"vetoed", "refused", "answered"}
    /\ sl[i] = "answered" => b[i] \in Views \cap loaded
    /\ sl[i] \in Waiting \cup Results => b[i] \notin Views \cap loaded /\ rut[b[i]].n < Critical

\* The step's own entries are the newest of the ring, the traces behind them.
Seen(W, h, b, sl, n) ==
    /\ Sorted(b, sl, n)
    /\ \E m \in 0..n : m <= Len(h) /\ Laid(h, b, sl, n, m) /\ Backed(W, h, m)

Ruts == [n : 0..Critical, out : Results \cup {NoCall}]
RutsOK == rut \in [Calls -> Ruts] /\ \A c \in Calls : rut[c].n > 0 => rut[c].out \in Results

\* An outcome that is known at once is entered like a call of its own.
LEMMA PatchPushed ==
    ASSUME NEW h \in Rings, NEW c \in Calls, NEW o \in Outs
    PROVE  Patch(Push(h, [call |-> c, out |-> "pending"]), c, o) = Push(h, [call |-> c, out |-> o])
<1> DEFINE mark == [call |-> c, out |-> "pending"]
           done == [call |-> c, out |-> o]
           g == Push(h, mark)
           k == Push(h, done)
           p == Patch(g, c, o)
<1>1. mark \in Entries /\ done \in Entries
  BY DEF Entries, Outs
<1>2. g \in Rings /\ k \in Rings
  BY <1>1, PushKeepsRing
<1>3. p \in Rings
  BY <1>2, PatchKeepsRing
<1>4. /\ 0 \in Within(g) /\ FromEnd(g, 0) = mark
      /\ \A d \in Within(h) : d + 1 < HistorySize => FromEnd(g, d + 1) = FromEnd(h, d)
      /\ \A d \in Within(g) : d # 0 => d - 1 \in Within(h)
  BY <1>1, PushFromEnd
<1>5. /\ 0 \in Within(k) /\ FromEnd(k, 0) = done
      /\ \A d \in Within(h) : d + 1 < HistorySize => FromEnd(k, d + 1) = FromEnd(h, d)
  BY <1>1, PushFromEnd
<1>6. Len(g) = Len(k)
  <2>1. h \in Seq(Entries) /\ Len(h) \in Nat
    BY FromEndFacts
  <2>2. ASSUME NEW e \in Entries
        PROVE  Len(Push(h, e)) = IF Len(h) + 1 > HistorySize THEN Len(h) ELSE Len(h) + 1
    <3> DEFINE a == Append(h, e)
    <3>1. a \in Seq(Entries) /\ Len(a) = Len(h) + 1
      BY <2>1, <2>2
    <3> HIDE DEF a
    <3>2. a # <<>>
      BY <2>1, <3>1
    <3>3. Len(Tail(a)) = Len(h)
      BY <2>1, <3>1, <3>2
    <3> QED
      BY <3>1, <3>3 DEF Push, a
  <2> QED
    BY <1>1, <2>2
<1> HIDE DEF g, k, p, done
<1>7. PICK q \in Within(g) :
        /\ q <= 0
        /\ Within(p) = Within(g)
        /\ FromEnd(p, q) = done
        /\ \A d \in Within(g) : d # q => FromEnd(p, d) = FromEnd(g, d)
  BY <1>2, <1>4, PatchFromEnd DEF p, done
<1>8. q = 0
  <2>1. q \in Nat
    BY <1>2, FromEndFacts
  <2> QED
    BY <1>7, <2>1
<1>9. Len(p) = Len(g)
  <2>1. Len(p) \in Nat /\ Len(g) \in Nat
    BY <1>2, <1>3, FromEndFacts
  <2>2. Len(p) - 1 \in Int /\ Len(g) - 1 \in Int /\ 0 \in 0..(Len(g) - 1)
    BY <1>4, <2>1 DEF Within
  <2>3. 0..(Len(p) - 1) = 0..(Len(g) - 1)
    BY <1>7 DEF Within
  <2>4. Len(g) - 1 \in 0..(Len(p) - 1) /\ Len(p) - 1 \in 0..(Len(g) - 1)
    <3>1. Len(g) - 1 \in 0..(Len(g) - 1)
      BY <2>1, <2>2
    <3>2. 0 \in 0..(Len(p) - 1)
      BY <2>2, <2>3
    <3>3. Len(p) - 1 \in 0..(Len(p) - 1)
      BY <2>1, <3>2
    <3> QED
      BY <2>3, <3>1, <3>3
  <2> QED
    BY <2>1, <2>4
<1>10. ASSUME NEW d \in Within(g) PROVE FromEnd(p, d) = FromEnd(k, d)
  <2>1. CASE d = 0
    BY <1>5, <1>7, <1>8, <2>1
  <2>2. CASE d # 0
    <3>1. d - 1 \in Within(h) /\ d \in Nat /\ d < HistorySize
      BY <1>2, <1>4, <2>2, FromEndFacts
    <3>2. (d - 1) + 1 = d
      BY <3>1
    <3>3. FromEnd(g, d) = FromEnd(h, d - 1) /\ FromEnd(k, d) = FromEnd(h, d - 1)
      BY <1>4, <1>5, <3>1, <3>2
    <3> QED
      BY <1>7, <1>8, <2>2, <3>3
  <2> QED
    BY <2>1, <2>2
<1>11. ASSUME NEW i \in 1..Len(p) PROVE p[i] = k[i]
  <2>1. p \in Seq(Entries) /\ k \in Seq(Entries)
    BY <1>2, <1>3, FromEndFacts
  <2>2. i \in DOMAIN p /\ i \in DOMAIN k
    BY <1>6, <1>9, <2>1
  <2>3. Len(p) - i \in Within(p) /\ FromEnd(p, Len(p) - i) = p[i]
    BY <1>3, <2>2, FromEndFacts
  <2>4. FromEnd(k, Len(k) - i) = k[i]
    BY <1>2, <2>2, FromEndFacts
  <2> QED
    BY <1>6, <1>7, <1>9, <1>10, <2>3, <2>4
<1>12. p = k
  <2>1. p \in Seq(Entries) /\ k \in Seq(Entries)
    BY <1>2, <1>3, FromEndFacts
  <2> QED
    BY <1>6, <1>9, <1>11, <2>1
<1> QED
  BY <1>12 DEF p, g, k, done

\* What the gate makes of a call that is not terminal.
LEMMA GateCallEnters ==
    ASSUME NEW b \in Seq(Calls), NEW i \in 1..Len(b), NEW g \in GateStates(b),
           NEW planMode \in BOOLEAN, ~Terminal(b[i]), ~(HasTail(b) /\ i = Len(b)),
           g.slot[i] = "queued", NEW after, after = GateCall(g, b, i, planMode)
    PROVE  /\ \A j \in 1..Len(b) : j # i => after.slot[j] = g.slot[j]
           /\ after.slot[i] \in {"queued", "vetoed", "refused", "answered"}
           /\ after.slot[i] = "refused" => after.tracker.history = g.tracker.history
           /\ after.slot[i] # "refused" => after.tracker.history =
                  Push(g.tracker.history, [call |-> b[i], out |-> Shown(after.slot[i])])
           /\ after.slot[i] = "answered" => b[i] \in Views \cap loaded
           /\ after.slot[i] = "queued" => b[i] \notin Views \cap loaded /\ ~Vetoes(g.tracker, b[i])
<1> DEFINE c == b[i]
           h == g.tracker.history
           mark(o) == [call |-> c, out |-> o]
           seen == RecordCall(g.tracker, c)
<1>1. c \in Calls
  OBVIOUS
<1>2. /\ g \in [slot : [1..Len(b) -> GateMarks], tracker : Trackers, breaker : BOOLEAN]
      /\ g.slot \in [1..Len(b) -> GateMarks] /\ g.tracker \in Trackers /\ h \in Rings
  BY TrackerFacts DEF GateStates
<1>3. seen.history = Push(h, mark("pending")) /\ seen \in Trackers
  <2>1. g.tracker \in Trackers
    BY <1>2
  <2>2. [g.tracker EXCEPT !.history = Push(h, mark("pending"))].history = Push(h, mark("pending"))
    BY <2>1 DEF Trackers
  <2> QED
    BY <1>1, <2>1, <2>2, RecordingKeepsTracker DEF RecordCall
<1>4. Patch(seen.history, c, "vetoed") = Push(h, mark("vetoed"))
      /\ Patch(seen.history, c, "answered") = Push(h, mark("answered"))
  BY <1>1, <1>2, <1>3, PatchPushed DEF Outs
<1>5. RecordVeto(seen, c).history = Push(h, mark("vetoed"))
  BY <1>4 DEF RecordVeto
<1>6. RecordOutcome(seen, c, "answered").history = Push(h, mark("answered"))
  <2> DEFINE k == Patch(seen.history, c, "answered")
  <2>1. [seen EXCEPT !.history = k].history = k
    BY <1>3 DEF Trackers
  <2> HIDE DEF k, seen
  <2>2. RecordOutcome(seen, c, "answered").history = k
    BY <2>1 DEF RecordOutcome, k
  <2> QED
    BY <1>4, <2>2 DEF k
<1>7. Shown("queued") = "pending" /\ Shown("vetoed") = "vetoed" /\ Shown("answered") = "answered"
  BY DEF Shown, Waiting
<1>8. \A s : /\ [g.slot EXCEPT ![i] = s][i] = s
             /\ \A j \in 1..Len(b) : j # i => [g.slot EXCEPT ![i] = s][j] = g.slot[j]
  BY <1>2
<1> HIDE DEF seen, c, h
<1>9. CASE planMode /\ c \in Mutating
  <2>1. after = [g EXCEPT !.slot[i] = "refused"]
    BY <1>9 DEF GateCall, c
  <2> DEFINE sl == [g.slot EXCEPT ![i] = "refused"]
  <2>2. after = [g EXCEPT !.slot = sl]
    BY <1>2, <2>1
  <2> HIDE DEF sl
  <2>3. after.slot = sl /\ after.tracker = g.tracker
    BY <1>2, <2>2
  <2> QED
    BY <1>8, <2>3 DEF sl, h
<1>10. CASE ~(planMode /\ c \in Mutating) /\ Vetoes(g.tracker, c)
  <2>1. after = [slot |-> [g.slot EXCEPT ![i] = "vetoed"], tracker |-> RecordVeto(seen, c),
                 breaker |-> g.breaker \/ Forces(g.tracker, c)]
    BY <1>10 DEF GateCall, c, seen
  <2>2. after.slot = [g.slot EXCEPT ![i] = "vetoed"] /\ after.tracker.history = Push(h, mark("vetoed"))
    BY <1>5, <2>1
  <2>3. after.slot[i] = "vetoed" /\ \A j \in 1..Len(b) : j # i => after.slot[j] = g.slot[j]
    <3> DEFINE sl == [g.slot EXCEPT ![i] = "vetoed"]
    <3>1. sl[i] = "vetoed" /\ \A j \in 1..Len(b) : j # i => sl[j] = g.slot[j]
      BY <1>8
    <3> HIDE DEF sl
    <3> QED
      BY <2>2, <3>1 DEF sl
  <2>4. after.tracker.history = Push(h, [call |-> c, out |-> Shown(after.slot[i])])
    BY <1>7, <2>2, <2>3
  <2> QED
    BY <2>3, <2>4 DEF c, h
<1>11. CASE ~(planMode /\ c \in Mutating) /\ ~Vetoes(g.tracker, c) /\ c \in Views /\ c \in loaded
  <2> DEFINE tr == RecordOutcome(seen, c, "answered")
             sl == [g.slot EXCEPT ![i] = "answered"]
  <2>1. after = [g EXCEPT !.slot[i] = "answered", !.tracker = tr]
    BY <1>11 DEF GateCall, c, seen
  <2> HIDE DEF tr
  <2>2. after = [g EXCEPT !.slot = sl, !.tracker = tr]
    BY <1>2, <2>1
  <2>3. sl[i] = "answered" /\ \A j \in 1..Len(b) : j # i => sl[j] = g.slot[j]
    BY <1>8
  <2> HIDE DEF sl
  <2>4. after.slot = sl /\ after.tracker = tr
    BY <1>2, <2>2
  <2>5. after.slot[i] = "answered" /\ \A j \in 1..Len(b) : j # i => after.slot[j] = g.slot[j]
    BY <2>3, <2>4
  <2>6. after.tracker.history = Push(h, [call |-> c, out |-> Shown(after.slot[i])])
    BY <1>6, <1>7, <2>4, <2>5 DEF tr
  <2> QED
    BY <1>11, <2>5, <2>6 DEF c, h
<1>12. CASE ~(planMode /\ c \in Mutating) /\ ~Vetoes(g.tracker, c) /\ ~(c \in Views /\ c \in loaded)
  <2>1. after = [g EXCEPT !.tracker = seen]
    BY <1>12 DEF GateCall, c, seen
  <2>2. after.slot = g.slot /\ after.tracker = seen
    BY <1>2, <2>1
  <2> QED
    BY <1>3, <1>7, <1>12, <2>2 DEF c, h
<1> QED
  BY <1>9, <1>10, <1>11, <1>12

\* A ring that is wide enough has room for a step, and the entry before it.
LEMMA WideFacts ==
    ASSUME NEW W, Wide(W)
    PROVE  W \in Nat /\ W <= HistorySize /\ Critical \in Nat /\ HistorySize \in Nat
<1>1. W \in Nat /\ Critical \in Nat \ {0, 1} /\ HistorySize \in Nat
  BY TrackerAssumption DEF Wide
<1>2. (Critical + 1) * W = Critical * W + W /\ Critical * W \in Nat
  BY <1>1, Multiples
<1> QED
  BY <1>1, <1>2 DEF Wide

\* The entry of the next call joins those of its step.
LEMMA LaidPush ==
    ASSUME NEW h \in Rings, NEW b \in Seq(Calls), NEW sl, NEW tl, NEW n \in Nat, NEW m \in 0..n,
           m <= Len(h), m + 1 <= HistorySize, Laid(h, b, sl, n, m),
           \A i \in 1..n : tl[i] = sl[i], tl[n + 1] # "refused",
           NEW e \in Entries, e = [call |-> b[n + 1], out |-> Shown(tl[n + 1])]
    PROVE  m + 1 <= Len(Push(h, e)) /\ Laid(Push(h, e), b, tl, n + 1, m + 1)
<1> DEFINE g == Push(h, e)
           H == Heard(sl, n)
           K == Heard(tl, n + 1)
<1>1. PICK f \in [H -> 0..(m - 1)] :
        /\ \A i, j \in H : f[i] = f[j] => i = j
        /\ \A d \in 0..(m - 1) : \E i \in H : f[i] = d
        /\ \A i \in H : FromEnd(h, f[i]) = [call |-> b[i], out |-> Shown(sl[i])]
  BY DEF Laid
<1>2. Len(h) \in Nat /\ HistorySize \in Nat
  BY FromEndFacts, TrackerAssumption
<1>3. \A d \in 0..(m - 1) : d \in Within(h) /\ d \in Nat /\ d + 1 < HistorySize
  BY <1>2 DEF Within
<1>4. /\ 0 \in Within(g) /\ FromEnd(g, 0) = e
      /\ \A d \in 0..(m - 1) : d + 1 \in Within(g) /\ FromEnd(g, d + 1) = FromEnd(h, d)
  BY <1>3, PushFromEnd
<1>5. g \in Rings /\ Len(g) \in Nat
  BY PushKeepsRing, FromEndFacts
<1> HIDE DEF g
<1>6. m + 1 <= Len(g)
  <2>1. CASE m = 0
    BY <1>4, <1>5, <2>1 DEF Within
  <2>2. CASE m # 0
    <3>1. m - 1 \in 0..(m - 1) /\ (m - 1) + 1 = m
      BY <2>2
    <3>2. m \in Within(g)
      BY <1>4, <3>1
    <3> QED
      BY <1>5, <3>2 DEF Within
  <2> QED
    BY <2>1, <2>2
<1>7. K = H \cup {n + 1} /\ n + 1 \notin H /\ \A i \in H : i \in 1..n
  BY DEF Heard
<1> HIDE DEF H, K
<1> DEFINE F == [i \in K |-> IF i = n + 1 THEN 0 ELSE f[i] + 1]
<1>8. \A i \in H : i # n + 1 /\ i \in K /\ F[i] = f[i] + 1 /\ f[i] \in 0..(m - 1) /\ F[i] \in 1..m
  BY <1>7
<1>9. n + 1 \in K /\ F[n + 1] = 0
  BY <1>7
<1>10. F \in [K -> 0..((m + 1) - 1)]
  <2>1. \A i \in K : F[i] \in 0..((m + 1) - 1)
    BY <1>7, <1>8, <1>9
  <2> QED
    BY <2>1
<1> HIDE DEF F
<1>11. \A i, j \in K : F[i] = F[j] => i = j
  <2>1. \A i \in H : F[i] # 0
    BY <1>8
  <2>2. \A i, j \in H : F[i] = F[j] => i = j
    BY <1>1, <1>8
  <2> QED
    BY <1>7, <1>9, <2>1, <2>2
<1>12. \A d \in 0..((m + 1) - 1) : \E i \in K : F[i] = d
  <2> SUFFICES ASSUME NEW d \in 0..((m + 1) - 1), d # 0 PROVE \E i \in K : F[i] = d
    BY <1>9
  <2>1. d - 1 \in 0..(m - 1)
    OBVIOUS
  <2>2. PICK i \in H : f[i] = d - 1
    BY <1>1, <2>1
  <2> QED
    BY <1>8, <2>2
<1>13. \A i \in K : FromEnd(g, F[i]) = [call |-> b[i], out |-> Shown(tl[i])]
  <2>1. FromEnd(g, F[n + 1]) = [call |-> b[n + 1], out |-> Shown(tl[n + 1])]
    BY <1>4, <1>9
  <2>2. ASSUME NEW i \in H PROVE FromEnd(g, F[i]) = [call |-> b[i], out |-> Shown(tl[i])]
    <3>1. FromEnd(g, F[i]) = FromEnd(h, f[i])
      BY <1>4, <1>8
    <3>2. tl[i] = sl[i]
      BY <1>7
    <3> QED
      BY <1>1, <3>1, <3>2
  <2> QED
    BY <1>7, <2>1, <2>2
<1>14. Laid(g, b, tl, n + 1, m + 1)
  BY <1>10, <1>11, <1>12, <1>13 DEF Laid, K
<1> QED
  BY <1>6, <1>14 DEF g

\* The gate of one call goes on with what the step has seen: a call it lets
\* through has been in its rut for less than Critical steps.
LEMMA GateCallSees ==
    ASSUME NEW W, Wide(W), RutsOK,
           NEW b \in Seq(Calls), NEW i \in 1..Len(b), Len(b) <= W, NEW g \in GateStates(b),
           NEW planMode \in BOOLEAN, ~Terminal(b[i]), ~HasTail(b), g.slot[i] = "queued",
           Seen(W, g.tracker.history, b, g.slot, i - 1)
    PROVE  LET after == GateCall(g, b, i, planMode)
           IN  /\ Seen(W, after.tracker.history, b, after.slot, i)
               /\ \A j \in 1..Len(b) : j # i => after.slot[j] = g.slot[j]
<1> DEFINE c == b[i]
           h == g.tracker.history
           n == i - 1
<1>1. PICK after : after = GateCall(g, b, i, planMode)
  OBVIOUS
<1>2. /\ \A j \in 1..Len(b) : j # i => after.slot[j] = g.slot[j]
      /\ after.slot[i] \in {"queued", "vetoed", "refused", "answered"}
      /\ after.slot[i] = "refused" => after.tracker.history = h
      /\ after.slot[i] # "refused" =>
            after.tracker.history = Push(h, [call |-> c, out |-> Shown(after.slot[i])])
      /\ after.slot[i] = "answered" => c \in Views \cap loaded
      /\ after.slot[i] = "queued" => c \notin Views \cap loaded /\ ~Vetoes(g.tracker, c)
  BY <1>1, GateCallEnters
<1>3. /\ c \in Calls /\ n \in Nat /\ i = n + 1 /\ n + 1 <= W /\ W \in Nat /\ i \in Nat
      /\ W <= HistorySize /\ Critical \in Nat /\ HistorySize \in Nat /\ 1..n \subseteq 1..Len(b)
      /\ i \notin 1..n /\ 1..i = 1..n \cup {i}
  BY WideFacts
<1>4. h \in Rings /\ Len(h) \in Nat /\ g.slot \in [1..Len(b) -> GateMarks]
  BY TrackerFacts, FromEndFacts DEF GateStates
<1>5. /\ Sorted(b, g.slot, n)
      /\ \E m \in 0..n : m <= Len(h) /\ Laid(h, b, g.slot, n, m) /\ Backed(W, h, m)
  BY DEF Seen
<1>6. PICK m \in 0..n : m <= Len(h) /\ Laid(h, b, g.slot, n, m) /\ Backed(W, h, m)
  BY <1>5
<1>7. \A j \in 1..n : after.slot[j] = g.slot[j]
  BY <1>2, <1>3
<1> HIDE DEF c, h, n
<1>8. Sorted(b, after.slot, i)
  <2>1. ASSUME NEW j \in 1..n
        PROVE  /\ after.slot[j] \in Waiting \cup Results \cup {"vetoed", "refused", "answered"}
               /\ after.slot[j] = "answered" => b[j] \in Views \cap loaded
               /\ after.slot[j] \in Waiting \cup Results =>
                      b[j] \notin Views \cap loaded /\ rut[b[j]].n < Critical
    BY <1>5, <1>7 DEF Sorted
  <2>2. after.slot[i] \in Waiting \cup Results => after.slot[i] = "queued"
    BY <1>2, StepsAssumption DEF Waiting, Unrun
  <2>3. after.slot[i] = "queued" => rut[c].n < Critical
    <3> SUFFICES ASSUME after.slot[i] = "queued" PROVE rut[c].n < Critical
      OBVIOUS
    <3>1. c \notin Views \cap loaded /\ ~(Streak(h, c) >= Critical)
      BY <1>2 DEF Vetoes, h
    <3>2. rut[c].n \in Nat /\ (rut[c].n > 0 => rut[c].out \in Results)
      BY <1>3 DEF RutsOK, Ruts
    <3>3. CASE rut[c].n = 0
      BY <1>3, <3>3, TrackerAssumption
    <3>4. CASE rut[c].n # 0
      <4>1. Traces(W, h, m, c, rut[c].n, rut[c].out)
        BY <1>3, <1>6 DEF Backed
      <4>2. rut[c].out \notin {"pending", "vetoed"}
        BY <3>2, <3>4, StepsAssumption DEF Unrun
      <4>3. ASSUME NEW d \in Within(h), d < m
            PROVE  ~(FromEnd(h, d).call = c /\ Answered(FromEnd(h, d)))
        <5>1. d \in 0..(m - 1)
          BY <1>4, <4>3 DEF Within
        <5>2. PICK k \in Heard(g.slot, n) :
                FromEnd(h, d) = [call |-> b[k], out |-> Shown(g.slot[k])]
          BY <1>6, <5>1 DEF Laid
        <5>3. k \in 1..n /\ g.slot[k] # "refused"
          BY <5>2 DEF Heard
        <5>4. g.slot[k] \in GateMarks
          BY <1>3, <1>4, <5>3
        <5>5. /\ g.slot[k] \in Waiting \cup Results \cup {"vetoed", "refused", "answered"}
              /\ g.slot[k] = "answered" => b[k] \in Views \cap loaded
          BY <1>5, <5>3 DEF Sorted
        <5>6. g.slot[k] \notin Results
          BY <5>4, StepsAssumption DEF GateMarks, Waiting, Unrun
        <5>7. g.slot[k] \in Waiting \/ g.slot[k] = "vetoed" \/ g.slot[k] = "answered"
          BY <5>3, <5>5, <5>6
        <5>8. CASE g.slot[k] \in Waiting \/ g.slot[k] = "vetoed"
          <6>1. Shown(g.slot[k]) \in {"pending", "vetoed"}
            BY <5>8 DEF Shown
          <6>2. FromEnd(h, d).out = Shown(g.slot[k])
            BY <5>2
          <6> QED
            BY <6>1, <6>2 DEF Answered
        <5>9. CASE g.slot[k] = "answered"
          BY <3>1, <5>2, <5>5, <5>9
        <5> QED
          BY <5>7, <5>8, <5>9
      <4>4. rut[c].n \in Nat \ {0} /\ m \in Nat
        BY <1>3, <3>2, <3>4
      <4>5. Streak(h, c) \in Nat /\ rut[c].n <= Streak(h, c)
        BY <1>4, <4>1, <4>2, <4>3, <4>4, StreakAtLeast
      <4> QED
        BY <1>3, <3>1, <3>2, <4>5
    <3> QED
      BY <3>3, <3>4
  <2>4. /\ after.slot[i] \in Waiting \cup Results \cup {"vetoed", "refused", "answered"}
        /\ after.slot[i] = "answered" => b[i] \in Views \cap loaded
        /\ after.slot[i] \in Waiting \cup Results =>
               b[i] \notin Views \cap loaded /\ rut[b[i]].n < Critical
    BY <1>2, <2>2, <2>3 DEF Waiting, c
  <2> QED
    BY <1>3, <2>1, <2>4 DEF Sorted
<1>9. CASE after.slot[i] = "refused"
  <2>1. Heard(after.slot, i) = Heard(g.slot, n)
    BY <1>3, <1>7, <1>9 DEF Heard
  <2>2. \A j \in Heard(g.slot, n) : after.slot[j] = g.slot[j]
    BY <1>7 DEF Heard
  <2>3. Laid(h, b, after.slot, i, m)
    BY <1>6, <2>1, <2>2 DEF Laid
  <2>4. m \in 0..i /\ after.tracker.history = h
    BY <1>2, <1>3, <1>9 DEF h
  <2>5. Seen(W, after.tracker.history, b, after.slot, i)
    BY <1>6, <1>8, <2>3, <2>4 DEF Seen
  <2> QED
    BY <1>1, <1>2, <2>5
<1>10. CASE after.slot[i] # "refused"
  <2> DEFINE e == [call |-> c, out |-> Shown(after.slot[i])]
  <2>1. e \in Entries
    <3>1. Shown(after.slot[i]) \in Outs
      BY <1>2, <1>10 DEF Shown, Outs, Waiting
    <3> QED
      BY <1>3, <3>1 DEF Entries
  <2>2. m + 1 <= HistorySize /\ m < W /\ m \in Nat
    BY <1>3
  <2>3. e = [call |-> b[n + 1], out |-> Shown(after.slot[n + 1])] /\ after.slot[n + 1] # "refused"
    BY <1>3, <1>10 DEF c
  <2> HIDE DEF e
  <2>4. m + 1 <= Len(Push(h, e)) /\ Laid(Push(h, e), b, after.slot, n + 1, m + 1)
    BY <1>3, <1>4, <1>6, <1>7, <2>1, <2>2, <2>3, LaidPush
  <2>5. Backed(W, Push(h, e), m + 1)
    <3> SUFFICES ASSUME NEW d \in Calls PROVE Traces(W, Push(h, e), m + 1, d, rut[d].n, rut[d].out)
      BY DEF Backed
    <3>1. Traces(W, h, m, d, rut[d].n, rut[d].out) /\ rut[d].n \in 0..Critical
      BY <1>6 DEF Backed, RutsOK, Ruts
    <3> QED
      BY <1>4, <2>1, <2>2, <3>1, TracesPush
  <2>6. m + 1 \in 0..i /\ after.tracker.history = Push(h, e)
    BY <1>2, <1>3, <1>10 DEF h, e
  <2>7. Seen(W, after.tracker.history, b, after.slot, i)
    BY <1>3, <1>8, <2>4, <2>5, <2>6 DEF Seen
  <2> QED
    BY <1>1, <1>2, <2>7
<1> QED
  BY <1>9, <1>10

\* What the gate of a whole batch leaves behind.
LEMMA GateSees ==
    ASSUME NEW W, Wide(W), RutsOK, NEW b \in Seq(Calls) \ {<<>>}, Places(b) <= W, NEW planMode \in BOOLEAN,
           tracker \in Trackers, Vetoing(tracker, FALSE), Backed(W, tracker.history, 0),
           TerminalLast(b), ~Terminal(Last(b))
    PROVE  Seen(W, Gate(b, planMode).tracker.history, b, Gate(b, planMode).slot, Len(b))
<1> DEFINE N == Len(b)
<1>1. N \in Nat \ {0} /\ DOMAIN b = 1..N /\ W \in Nat /\ N <= W
  <2>1. N \in Nat \ {0} /\ DOMAIN b = 1..N /\ W \in Nat
    BY WideFacts
  <2> HIDE DEF N
  <2>2. N <= W
    BY <2>1 DEF Places, N
  <2> QED
    BY <2>1, <2>2 DEF N
<1>2. ~HasTail(b) /\ \A i \in 1..N : ~Terminal(b[i])
  BY <1>1 DEF HasTail, TerminalLast, Last
<1>3. PICK gated :
          /\ Gate(b, planMode) = gated[Len(b)]
          /\ gated[0] = Ungated(b)
          /\ \A n \in 0..Len(b) : gated[n] \in GateStates(b)
          /\ \A n \in 1..Len(b) : gated[n] = GateCall(gated[n - 1], b, n, planMode)
  BY GateUnfolds
<1> DEFINE Reached(n) ==
        /\ Seen(W, gated[n].tracker.history, b, gated[n].slot, n)
        /\ \A j \in (n + 1)..N : gated[n].slot[j] = "queued"
           S == {n \in Nat : n \in 0..N => Reached(n)}
<1>4. Reached(0)
  <2>1. gated[0].tracker = tracker /\ \A j \in 1..N : gated[0].slot[j] = "queued"
    BY <1>1, <1>3 DEF Ungated
  <2>2. Heard(gated[0].slot, 0) = {}
    BY DEF Heard
  <2>3. Laid(tracker.history, b, gated[0].slot, 0, 0)
    <3> DEFINE f == [i \in {} |-> 0]
    <3>1. f \in [{} -> 0..(0 - 1)] /\ \A d \in 0..(0 - 1) : FALSE
      OBVIOUS
    <3> HIDE DEF f
    <3> QED
      BY <2>2, <3>1 DEF Laid
  <2>4. Sorted(b, gated[0].slot, 0)
    BY DEF Sorted
  <2>5. 0 \in 0..0 /\ 0 <= Len(tracker.history)
    BY TrackerFacts, FromEndFacts
  <2>6. Seen(W, tracker.history, b, gated[0].slot, 0)
    BY <2>3, <2>4, <2>5 DEF Seen
  <2>7. (0 + 1)..N = 1..N
    BY <1>1
  <2> QED
    BY <2>1, <2>6, <2>7
<1>5. ASSUME NEW n \in Nat, n \in S PROVE n + 1 \in S
  <2> SUFFICES ASSUME n + 1 \in 0..N PROVE Reached(n + 1)
    OBVIOUS
  <2>1. n \in 0..N /\ n + 1 \in 1..N /\ (n + 1) - 1 = n /\ n + 1 \in (n + 1)..N
    BY <1>1
  <2>2. Reached(n)
    BY <1>5, <2>1
  <2>3. /\ gated[n] \in GateStates(b) /\ gated[n].slot[n + 1] = "queued"
        /\ Seen(W, gated[n].tracker.history, b, gated[n].slot, (n + 1) - 1)
    BY <1>3, <2>1, <2>2
  <2>4. gated[n + 1] = GateCall(gated[n], b, n + 1, planMode)
    BY <1>3, <2>1
  <2>5. /\ Seen(W, gated[n + 1].tracker.history, b, gated[n + 1].slot, n + 1)
        /\ \A j \in 1..N : j # n + 1 => gated[n + 1].slot[j] = gated[n].slot[j]
    BY <1>1, <1>2, <2>1, <2>3, <2>4, GateCallSees
  <2>6. \A j \in ((n + 1) + 1)..N : j \in (n + 1)..N /\ j \in 1..N /\ j # n + 1
    BY <1>1
  <2> QED
    BY <2>2, <2>5, <2>6
<1> HIDE DEF S
<1>6. N \in S
  <2>1. 0 \in S
    BY <1>4 DEF S
  <2> QED
    BY <1>1, <1>5, <2>1, NatSetInduction
<1>7. Reached(N)
  BY <1>1, <1>6 DEF S
<1> QED
  BY <1>3, <1>7

\* Starting calls enters nothing in the ring.
LEMMA LaunchSees ==
    ASSUME NEW W, NEW h, NEW b \in Seq(Calls), NEW sl, DOMAIN sl = 1..Len(b), Seen(W, h, b, sl, Len(b))
    PROVE  Seen(W, h, b, Launch(b, sl), Len(b))
<1> DEFINE tl == Launch(b, sl)
           N == Len(b)
<1>1. \A i \in 1..N : tl[i] = sl[i] \/ (sl[i] = "queued" /\ tl[i] = "running")
  BY DEF Launch
<1> HIDE DEF tl
<1>2. \A i \in 1..N : Shown(tl[i]) = Shown(sl[i])
  BY <1>1 DEF Shown, Waiting
<1>3. Heard(tl, N) = Heard(sl, N)
  BY <1>1 DEF Heard
<1>4. Sorted(b, tl, N)
  <2> SUFFICES ASSUME NEW i \in 1..N, sl[i] = "queued", tl[i] = "running"
               PROVE  b[i] \notin Views \cap loaded /\ rut[b[i]].n < Critical
    BY <1>1 DEF Seen, Sorted, Waiting
  <2> QED
    BY DEF Seen, Sorted, Waiting
<1>5. \A m : Laid(h, b, sl, N, m) => Laid(h, b, tl, N, m)
  <2> SUFFICES ASSUME NEW m, Laid(h, b, sl, N, m) PROVE Laid(h, b, tl, N, m)
    OBVIOUS
  <2>1. \A i \in Heard(sl, N) : Shown(tl[i]) = Shown(sl[i])
    BY <1>2 DEF Heard
  <2> QED
    BY <1>3, <2>1 DEF Laid
<1> QED
  BY <1>4, <1>5 DEF Seen, tl

\* The outcome of a call is entered among the entries of the step: at its own
\* entry, or at the one of a later call that is the same.
LEMMA OutcomeSees ==
    ASSUME NEW W, NEW h \in Rings, NEW b \in Seq(Calls), NEW sl, DOMAIN sl = 1..Len(b),
           Seen(W, h, b, sl, Len(b)),
           NEW i \in 1..Len(b), sl[i] = "running", NEW r \in Results
    PROVE  Seen(W, Patch(h, b[i], r), b, [sl EXCEPT ![i] = r], Len(b))
<1> DEFINE N == Len(b)
           c == b[i]
           g == Patch(h, c, r)
           tl == [sl EXCEPT ![i] = r]
           H == Heard(sl, N)
<1>1. c \in Calls /\ r \in Outs /\ N \in Nat
  BY DEF Outs
<1>2. r \notin Waiting /\ r \notin Unrun /\ "running" \in Waiting /\ "running" # "refused"
  BY StepsAssumption DEF Waiting
<1>3. tl[i] = r /\ \A j \in 1..N : j # i => tl[j] = sl[j]
  OBVIOUS
<1> HIDE DEF tl
<1>4. Heard(tl, N) = H /\ i \in H
  BY <1>2, <1>3 DEF Heard, Unrun
<1>5. /\ Sorted(b, sl, N)
      /\ \E m \in 0..N : m <= Len(h) /\ Laid(h, b, sl, N, m) /\ Backed(W, h, m)
  BY DEF Seen
<1>6. PICK m \in 0..N : m <= Len(h) /\ Laid(h, b, sl, N, m) /\ Backed(W, h, m)
  BY <1>5
<1>7. PICK f \in [H -> 0..(m - 1)] :
        /\ \A j, k \in H : f[j] = f[k] => j = k
        /\ \A d \in 0..(m - 1) : \E j \in H : f[j] = d
        /\ \A j \in H : FromEnd(h, f[j]) = [call |-> b[j], out |-> Shown(sl[j])]
  BY <1>6 DEF Laid
<1>8. \A d \in 0..(m - 1) : d \in Within(h) /\ d \in Nat
  <2>1. Len(h) \in Nat
    BY FromEndFacts
  <2> QED
    BY <1>6, <2>1 DEF Within
<1>9. FromEnd(h, f[i]) = [call |-> c, out |-> "pending"] /\ f[i] \in Within(h)
  BY <1>2, <1>4, <1>7, <1>8 DEF Shown
<1>10. PICK q \in Within(h) :
          /\ q <= f[i]
          /\ FromEnd(h, q) = [call |-> c, out |-> "pending"]
          /\ Within(g) = Within(h)
          /\ FromEnd(g, q) = [call |-> c, out |-> r]
          /\ \A d \in Within(h) : d # q => FromEnd(g, d) = FromEnd(h, d)
  BY <1>1, <1>9, PatchFromEnd
<1>11. q \in 0..(m - 1)
  <2>1. q \in Nat /\ f[i] \in 0..(m - 1)
    BY <1>4, FromEndFacts
  <2> QED
    BY <1>10, <2>1
<1>12. PICK k \in H : f[k] = q
  BY <1>7, <1>11
<1>13. Sorted(b, tl, N)
  <2>1. b[i] \notin Views \cap loaded /\ rut[b[i]].n < Critical
    BY <1>2, <1>5 DEF Sorted
  <2>2. r # "answered"
    BY <1>2 DEF Unrun
  <2> SUFFICES ASSUME NEW j \in 1..N
               PROVE  /\ tl[j] \in Waiting \cup Results \cup {"vetoed", "refused", "answered"}
                      /\ tl[j] = "answered" => b[j] \in Views \cap loaded
                      /\ tl[j] \in Waiting \cup Results =>
                             b[j] \notin Views \cap loaded /\ rut[b[j]].n < Critical
    BY DEF Sorted
  <2>3. CASE j = i
    BY <1>3, <2>1, <2>2, <2>3
  <2>4. CASE j # i
    BY <1>3, <1>5, <2>4 DEF Sorted
  <2> QED
    BY <2>3, <2>4
<1>14. Len(g) \in Nat /\ m <= Len(g)
  <2>1. g \in Rings
    BY <1>1, PatchKeepsRing
  <2>2. Len(g) \in Nat
    BY <2>1, FromEndFacts
  <2>3. m - 1 \in 0..(m - 1)
    BY <1>11
  <2>4. m - 1 \in Within(g)
    BY <1>8, <1>10, <2>3
  <2> QED
    BY <2>2, <2>4 DEF Within
<1> HIDE DEF g
<1>15. Laid(g, b, tl, N, m)
  <2> DEFINE p == f[i]
             F == [j \in H |-> IF j = i THEN q ELSE IF j = k THEN p ELSE f[j]]
  <2>1. p \in 0..(m - 1) /\ \A j \in H : f[j] \in 0..(m - 1)
    BY <1>4
  <2>2. F \in [H -> 0..(m - 1)]
    BY <1>11, <2>1
  <2>3. F[i] = q /\ \A j \in H : j # i => F[j] = IF j = k THEN p ELSE f[j]
    BY <1>4
  <2> HIDE DEF F
  <2>4. \A j, l \in H : F[j] = F[l] => j = l
    BY <1>4, <1>7, <1>12, <2>3
  <2>5. \A d \in 0..(m - 1) : \E j \in H : F[j] = d
    <3> SUFFICES ASSUME NEW d \in 0..(m - 1) PROVE \E j \in H : F[j] = d
      OBVIOUS
    <3>1. PICK j \in H : f[j] = d
      BY <1>7
    <3> QED
      BY <1>4, <1>12, <2>3, <3>1
  <2>6. \A j \in H : FromEnd(g, F[j]) = [call |-> b[j], out |-> Shown(tl[j])]
    <3> SUFFICES ASSUME NEW j \in H PROVE FromEnd(g, F[j]) = [call |-> b[j], out |-> Shown(tl[j])]
      OBVIOUS
    <3>1. j \in 1..N /\ (j # i => tl[j] = sl[j])
      BY <1>3 DEF Heard
    <3>2. CASE j = i
      <4>1. Shown(tl[j]) = r
        BY <1>2, <1>3, <3>2 DEF Shown
      <4> QED
        BY <1>10, <2>3, <3>2, <4>1
    <3>3. CASE j # i /\ j = k
      <4>1. F[j] = p /\ p # q
        BY <1>4, <1>7, <1>12, <2>3, <3>3
      <4>2. FromEnd(g, F[j]) = [call |-> c, out |-> "pending"]
        BY <1>9, <1>10, <4>1
      <4>3. [call |-> b[j], out |-> Shown(sl[j])] = [call |-> c, out |-> "pending"]
        BY <1>7, <1>10, <1>12, <3>3
      <4> QED
        BY <3>1, <3>3, <4>2, <4>3
    <3>4. CASE j # i /\ j # k
      <4>1. F[j] = f[j] /\ f[j] # q /\ f[j] \in Within(h)
        BY <1>7, <1>8, <1>12, <2>3, <3>4
      <4>2. FromEnd(g, F[j]) = FromEnd(h, f[j])
        BY <1>10, <4>1
      <4> QED
        BY <1>7, <3>1, <3>4, <4>2
    <3> QED
      BY <3>2, <3>3, <3>4
  <2> QED
    BY <1>4, <2>2, <2>4, <2>5, <2>6 DEF Laid
<1>16. Backed(W, g, m)
  <2>1. q < m /\ q \in Nat /\ m \in Nat
    BY <1>11
  <2>2. \A d \in Within(h) : m <= d => FromEnd(g, d) = FromEnd(h, d)
    <3>1. \A d \in Within(h) : d \in Nat
      BY FromEndFacts
    <3> QED
      BY <1>10, <2>1, <3>1
  <2> QED
    BY <1>6, <1>10, <2>2, TracesKept DEF Backed
<1> QED
  BY <1>13, <1>14, <1>15, <1>16 DEF Seen, g, tl

-----------------------------------------------------------------------------
(* A step that is recorded, and the steps of the specification.            *)

\* A step in which the call ran and returned the same joins the traces.
LEMMA TracesJoin ==
    ASSUME NEW W \in Nat, NEW h \in Rings, NEW m \in Nat, m <= W, NEW c, NEW n \in Nat, NEW o,
           Traces(W, h, m, c, n, o),
           NEW p \in Within(h), p < m, FromEnd(h, p) = [call |-> c, out |-> o],
           \A d \in Within(h) : d < m /\ FromEnd(h, d).call = c /\ Answered(FromEnd(h, d)) =>
               FromEnd(h, d).out = o
    PROVE  Traces(W, h, 0, c, n + 1, o)
<1>1. PICK D \in [1..n -> Within(h)] :
        /\ \A j \in 1..n : m <= D[j] /\ D[j] < m + j * W /\ FromEnd(h, D[j]) = [call |-> c, out |-> o]
        /\ \A j, k \in 1..n : j < k => D[j] < D[k]
        /\ \A j \in 1..n : \A d \in Within(h) :
            m <= d /\ d <= D[j] /\ FromEnd(h, d).call = c /\ Answered(FromEnd(h, d)) =>
                FromEnd(h, d).out = o
  BY DEF Traces
<1>2. \A d \in Within(h) : d \in Nat
  BY FromEndFacts
<1> DEFINE F == [j \in 1..(n + 1) |-> IF j = 1 THEN p ELSE D[j - 1]]
<1>3. \A j \in 1..(n + 1) : j # 1 => j - 1 \in 1..n /\ (j - 1) + 1 = j
  OBVIOUS
<1>4. F[1] = p /\ \A j \in 1..(n + 1) : j # 1 => F[j] = D[j - 1]
  OBVIOUS
<1>5. F \in [1..(n + 1) -> Within(h)]
  BY <1>3
<1> HIDE DEF F
<1>6. ASSUME NEW j \in 1..(n + 1)
      PROVE  0 <= F[j] /\ F[j] < 0 + j * W /\ FromEnd(h, F[j]) = [call |-> c, out |-> o]
  <2>1. CASE j = 1
    <3>1. 1 * W = W
      OBVIOUS
    <3> QED
      BY <1>2, <1>4, <2>1, <3>1
  <2>2. CASE j # 1
    <3>1. j - 1 \in 1..n /\ j - 1 \in Nat /\ (j - 1) + 1 = j
      BY <1>3, <2>2
    <3>2. (j - 1) * W \in Nat /\ j * W = (j - 1) * W + W
      BY <3>1, Multiples
    <3>3. D[j - 1] < m + (j - 1) * W /\ FromEnd(h, D[j - 1]) = [call |-> c, out |-> o]
          /\ D[j - 1] \in Nat
      BY <1>1, <1>2, <3>1
    <3> QED
      BY <1>4, <2>2, <3>2, <3>3
  <2> QED
    BY <2>1, <2>2
<1>7. \A j, k \in 1..(n + 1) : j < k => F[j] < F[k]
  <2> SUFFICES ASSUME NEW j \in 1..(n + 1), NEW k \in 1..(n + 1), j < k PROVE F[j] < F[k]
    OBVIOUS
  <2>1. k # 1 /\ k - 1 \in 1..n /\ F[k] = D[k - 1]
    BY <1>3, <1>4
  <2>2. CASE j = 1
    <3>1. m <= D[k - 1] /\ D[k - 1] \in Nat /\ p \in Nat
      BY <1>1, <1>2, <2>1
    <3> QED
      BY <1>4, <2>1, <2>2, <3>1
  <2>3. CASE j # 1
    <3>1. j - 1 \in 1..n /\ j - 1 < k - 1 /\ F[j] = D[j - 1]
      BY <1>3, <1>4, <2>3
    <3> QED
      BY <1>1, <2>1, <3>1
  <2> QED
    BY <2>2, <2>3
<1>8. ASSUME NEW j \in 1..(n + 1), NEW d \in Within(h), 0 <= d, d <= F[j],
             FromEnd(h, d).call = c, Answered(FromEnd(h, d))
      PROVE  FromEnd(h, d).out = o
  <2>1. CASE d < m
    BY <1>8, <2>1
  <2>2. CASE ~(d < m)
    <3>1. d \in Nat /\ p \in Nat /\ m <= d
      BY <1>2, <2>2
    <3>2. j # 1
      BY <1>4, <1>8, <3>1
    <3> QED
      BY <1>1, <1>3, <1>4, <1>8, <3>1, <3>2
  <2> QED
    BY <2>1, <2>2
<1> QED
  BY <1>5, <1>6, <1>7, <1>8 DEF Traces

\* A set of results with one element.
LEMMA OneRan ==
    ASSUME NEW b \in Seq(Calls), NEW sl, NEW c, Cardinality(Ran(b, sl, c)) = 1
    PROVE  \E r : Ran(b, sl, c) = {r}
<1> DEFINE I == {j \in DOMAIN b : b[j] = c /\ sl[j] \in Results}
           f == [i \in I |-> sl[i]]
<1>1. IsFiniteSet(I)
  <2>1. IsFiniteSet(1..Len(b)) /\ I \subseteq 1..Len(b)
    BY FS_Interval
  <2> HIDE DEF I
  <2> QED
    BY <2>1, FS_Subset
<1>2. Ran(b, sl, c) = {sl[i] : i \in I}
  BY DEF Ran
<1> HIDE DEF I
<1>3. f \in Surjection(I, Ran(b, sl, c))
  BY <1>2 DEF Surjection
<1>4. IsFiniteSet(Ran(b, sl, c))
  BY <1>1, <1>3, FS_Surjection
<1> QED
  BY <1>4, FS_Singleton

\* A step that is recorded has left the traces of the ruts it continues.
LEMMA RecordSees ==
    ASSUME NEW W, Wide(W), RutsOK, NEW h \in Rings, NEW b \in Seq(Calls) \ {<<>>}, Places(b) <= W,
           NEW sl, DOMAIN sl = 1..Len(b), Seen(W, h, b, sl, Len(b)), GroupsOver(sl),
           NEW g, g = IF Len(b) > 1 THEN Push(h, CompositeEntry) ELSE h
    PROVE  /\ InRut(b, sl) \in [Calls -> Ruts]
           /\ \A c \in Calls : InRut(b, sl)[c].n > 0 => InRut(b, sl)[c].out \in Results
           /\ \A c \in Calls : Traces(W, g, 0, c, InRut(b, sl)[c].n, InRut(b, sl)[c].out)
<1> DEFINE N == Len(b)
           k == IF N > 1 THEN 1 ELSE 0
           H == Heard(sl, N)
           shows(i) == [call |-> b[i], out |-> sl[i]]
<1>1. /\ N \in Nat \ {0} /\ DOMAIN b = 1..N /\ W \in Nat /\ Critical \in Nat /\ HistorySize \in Nat
      /\ W <= HistorySize /\ k \in {0, 1}
  BY WideFacts
<1>2. N + k <= W
  <2> HIDE DEF N
  <2> QED
    BY <1>1 DEF Places, N
<1>3. Sorted(b, sl, N) /\ \A i \in 1..N : sl[i] \notin Waiting
  BY DEF Seen, GroupsOver
<1>4. /\ \A i \in 1..N : Shown(sl[i]) = sl[i]
      /\ \A i \in H : i \in 1..N /\ sl[i] # "refused"
  BY <1>3 DEF Shown, Heard
<1>5. PICK m \in 0..N : m <= Len(h) /\ Laid(h, b, sl, N, m) /\ Backed(W, h, m)
  BY DEF Seen
<1>6. PICK f \in [H -> 0..(m - 1)] :
        /\ \A d \in 0..(m - 1) : \E i \in H : f[i] = d
        /\ \A i \in H : FromEnd(h, f[i]) = [call |-> b[i], out |-> Shown(sl[i])]
  BY <1>5 DEF Laid
<1> HIDE DEF H
<1>7. \A d \in 0..(m - 1) : d \in Within(h) /\ d \in Nat
  <2>1. Len(h) \in Nat
    BY FromEndFacts
  <2> QED
    BY <1>5, <2>1 DEF Within
<1>8. g \in Rings
  BY PushKeepsRing DEF CompositeEntry, Entries, Outs
<1>9. Backed(W, g, m + k)
  <2>1. CASE k = 0
    <3>1. g = h /\ m + k = m
      BY <1>1, <2>1
    <3> QED
      BY <1>5, <3>1
  <2>2. CASE k = 1
    <3>1. m < W /\ m \in Nat /\ CompositeEntry \in Entries /\ g = Push(h, CompositeEntry) /\ m + k = m + 1
      BY <1>1, <1>2, <2>2 DEF CompositeEntry, Entries, Outs
    <3> HIDE DEF k
    <3> SUFFICES ASSUME NEW c \in Calls PROVE Traces(W, g, m + 1, c, rut[c].n, rut[c].out)
      BY <3>1 DEF Backed
    <3>2. Traces(W, h, m, c, rut[c].n, rut[c].out) /\ rut[c].n \in 0..Critical
      BY <1>5 DEF Backed, RutsOK, Ruts
    <3> QED
      BY <3>1, <3>2, TracesPush
  <2> QED
    BY <1>1, <2>1, <2>2
<1>10. /\ \A i \in H : f[i] + k \in Within(g) /\ f[i] + k < m + k /\ FromEnd(g, f[i] + k) = shows(i)
       /\ \A d \in Within(g) : d < m + k =>
             FromEnd(g, d) = CompositeEntry \/ \E i \in H : FromEnd(g, d) = shows(i)
  <2>1. \A i \in H : f[i] \in 0..(m - 1) /\ f[i] < m /\ f[i] \in Nat /\ FromEnd(h, f[i]) = shows(i)
    BY <1>4, <1>6
  <2>2. CASE k = 0
    <3>1. g = h /\ m + k = m /\ \A d \in Nat : d + k = d
      BY <1>1, <2>2
    <3> HIDE DEF k
    <3>2. ASSUME NEW d \in Within(h), d < m PROVE \E i \in H : FromEnd(h, d) = shows(i)
      <4>1. d \in 0..(m - 1)
        BY <3>2, FromEndFacts
      <4> QED
        BY <1>6, <2>1, <4>1
    <3> QED
      BY <1>7, <2>1, <3>1, <3>2
  <2>3. CASE k = 1
    <3>1. g = Push(h, CompositeEntry) /\ CompositeEntry \in Entries /\ m + 1 <= W
      BY <1>1, <1>2, <2>3 DEF CompositeEntry, Entries, Outs
    <3>2. /\ FromEnd(g, 0) = CompositeEntry
          /\ \A d \in Within(h) : d + 1 < HistorySize =>
                d + 1 \in Within(g) /\ FromEnd(g, d + 1) = FromEnd(h, d)
          /\ \A d \in Within(g) : d \in Nat
      <4>1. \A d \in Within(g) : d \in Nat
        BY <1>8, FromEndFacts
      <4> QED
        BY <3>1, <4>1, PushFromEnd
    <3>3. \A d \in 0..(m - 1) : d + 1 \in Within(g) /\ FromEnd(g, d + 1) = FromEnd(h, d)
      <4>1. \A d \in 0..(m - 1) : d + 1 < HistorySize
        BY <1>1, <3>1
      <4> QED
        BY <1>7, <3>2, <4>1
    <3>4. ASSUME NEW i \in H
          PROVE  f[i] + 1 \in Within(g) /\ f[i] + 1 < m + 1 /\ FromEnd(g, f[i] + 1) = shows(i)
      BY <2>1, <3>3
    <3>5. ASSUME NEW d \in Within(g), d < m + 1
          PROVE  FromEnd(g, d) = CompositeEntry \/ \E i \in H : FromEnd(g, d) = shows(i)
      <4>1. CASE d = 0
        BY <3>2, <4>1
      <4>2. CASE d # 0
        <5>1. d - 1 \in 0..(m - 1) /\ (d - 1) + 1 = d
          BY <3>2, <3>5, <4>2
        <5>2. PICK i \in H : f[i] = d - 1
          BY <1>6, <5>1
        <5> QED
          BY <2>1, <3>3, <5>1, <5>2
      <4> QED
        BY <4>1, <4>2
    <3> HIDE DEF shows
    <3> QED
      BY <2>3, <3>4, <3>5
  <2> QED
    BY <1>1, <2>2, <2>3
<1> HIDE DEF k
<1>11. \A c \in Calls : Ran(b, sl, c) = {sl[i] : i \in {j \in 1..N : b[j] = c /\ sl[j] \in Results}}
  BY <1>1 DEF Ran
<1>12. ASSUME NEW c \in Calls, NEW r, Ran(b, sl, c) = {r}
       PROVE  /\ r \in Results /\ rut[c].n < Critical
              /\ \A n \in Nat : Traces(W, g, m + k, c, n, r) => Traces(W, g, 0, c, n + 1, r)
  <2>1. PICK i \in 1..N : b[i] = c /\ sl[i] = r /\ r \in Results
    <3>1. r \in {sl[i] : i \in {j \in 1..N : b[j] = c /\ sl[j] \in Results}}
      BY <1>11, <1>12
    <3> QED
      BY <3>1
  <2>2. c \notin Views \cap loaded /\ rut[c].n < Critical
    BY <1>3, <2>1 DEF Sorted
  <2>3. i \in H
    BY <2>1, StepsAssumption DEF H, Heard, Unrun
  <2> DEFINE p == f[i] + k
  <2>4. p \in Within(g) /\ p < m + k /\ FromEnd(g, p) = [call |-> c, out |-> r]
    BY <1>10, <2>1, <2>3
  <2> HIDE DEF p
  <2>5. ASSUME NEW d \in Within(g), d < m + k, FromEnd(g, d).call = c, Answered(FromEnd(g, d))
        PROVE  FromEnd(g, d).out = r
    <3>1. FromEnd(g, d) # CompositeEntry
      BY <2>5, StepsAssumption DEF CompositeEntry
    <3>2. PICK j \in H : FromEnd(g, d) = shows(j)
      BY <1>10, <2>5, <3>1
    <3>3. /\ j \in 1..N /\ sl[j] # "refused" /\ sl[j] \notin Waiting
          /\ sl[j] \in Waiting \cup Results \cup {"vetoed", "refused", "answered"}
          /\ sl[j] = "answered" => b[j] \in Views \cap loaded
      BY <1>3, <1>4, <3>2 DEF Sorted
    <3>4. b[j] = c /\ sl[j] \notin {"pending", "vetoed"} /\ FromEnd(g, d).out = sl[j]
      BY <2>5, <3>2 DEF Answered
    <3>5. sl[j] \in Results
      BY <2>2, <3>3, <3>4
    <3>6. sl[j] \in Ran(b, sl, c)
      BY <1>11, <3>3, <3>4, <3>5
    <3> QED
      BY <1>12, <3>4, <3>6
  <2>6. m + k \in Nat /\ m + k <= W
    BY <1>1, <1>2
  <2>7. \A n \in Nat : Traces(W, g, m + k, c, n, r) => Traces(W, g, 0, c, n + 1, r)
    BY <1>1, <1>8, <2>4, <2>5, <2>6, TracesJoin
  <2> QED
    BY <2>1, <2>2, <2>7
<1> DEFINE R == InRut(b, sl)
<1>13. ASSUME NEW c \in Calls
       PROVE  R[c] \in Ruts /\ (R[c].n > 0 => R[c].out \in Results)
              /\ Traces(W, g, 0, c, R[c].n, R[c].out)
  <2>1. rut[c] \in Ruts /\ rut[c].n \in 0..Critical
    BY DEF RutsOK, Ruts
  <2>2. R[c] = IF Ran(b, sl, c) = {rut[c].out} THEN [n |-> rut[c].n + 1, out |-> rut[c].out]
               ELSE IF Cardinality(Ran(b, sl, c)) = 1
                    THEN [n |-> 1, out |-> CHOOSE r \in Ran(b, sl, c) : TRUE]
               ELSE [n |-> 0, out |-> NoCall]
    BY DEF InRut
  <2> HIDE DEF R
  <2>3. CASE Ran(b, sl, c) = {rut[c].out}
    <3> DEFINE n == rut[c].n
               o == rut[c].out
    <3>1. R[c] = [n |-> n + 1, out |-> o]
      BY <2>2, <2>3
    <3>2. o \in Results /\ n < Critical /\ n \in Nat /\ n + 1 \in 0..Critical
      <4>1. rut[c].out \in Results /\ rut[c].n < Critical
        BY <1>12, <2>3
      <4> QED
        BY <1>1, <2>1, <4>1
    <3>3. Traces(W, g, m + k, c, n, o)
      BY <1>9 DEF Backed
    <3>4. Traces(W, g, 0, c, n + 1, o)
      BY <1>12, <2>3, <3>2, <3>3
    <3> HIDE DEF n, o
    <3> QED
      BY <3>1, <3>2, <3>4 DEF Ruts
  <2>4. CASE Ran(b, sl, c) # {rut[c].out} /\ Cardinality(Ran(b, sl, c)) = 1
    <3>1. PICK r : Ran(b, sl, c) = {r}
      BY <2>4, OneRan
    <3>2. R[c] = [n |-> 1, out |-> r]
      BY <2>2, <2>4, <3>1
    <3>3. r \in Results /\ 1 \in 0..Critical
      BY <1>1, <1>12, <3>1, TrackerAssumption
    <3>4. Traces(W, g, m + k, c, 0, r)
      BY NoTraces
    <3>5. Traces(W, g, 0, c, 0 + 1, r)
      BY <1>12, <3>1, <3>4
    <3> QED
      BY <3>2, <3>3, <3>5 DEF Ruts
  <2>5. CASE Ran(b, sl, c) # {rut[c].out} /\ Cardinality(Ran(b, sl, c)) # 1
    <3>1. R[c] = [n |-> 0, out |-> NoCall]
      BY <2>2, <2>5
    <3>2. 0 \in 0..Critical
      BY <1>1
    <3> QED
      BY <3>1, <3>2, NoTraces DEF Ruts
  <2> QED
    BY <2>3, <2>4, <2>5
<1>14. R \in [Calls -> Ruts]
  <2>1. R = [c \in Calls |-> R[c]]
    BY DEF InRut
  <2> HIDE DEF R
  <2> QED
    BY <1>13, <2>1
<1> QED
  BY <1>13, <1>14

\* No batch that is executed takes more than W places in the ring.
Fits(W) == \A e \in Emissions : Valid(e) \/ Splits(e) \/ Trims(e) => Places(BatchOf(e)) <= W

\* A rut of n steps has left n answers in the ring, where the gate looks for
\* them, at every moment of a turn that is not cancelled.
LoopInv(W) ==
    /\ RutsOK
    /\ phase = "idle" => rut = NoRut
    /\ phase \in {"think", "infer"} => Backed(W, tracker.history, 0)
    /\ phase = "groups" /\ ~aborted /\ ~Terminal(Last(batch)) =>
           Places(batch) <= W /\ Seen(W, tracker.history, batch, slot, Len(batch))

LEMMA NoRutFacts ==
    /\ NoRut \in [Calls -> Ruts]
    /\ \A c \in Calls : NoRut[c].n = 0
<1>1. 0 \in 0..Critical
  BY TrackerAssumption
<1> QED
  BY <1>1 DEF NoRut, Ruts

LEMMA InitLoop == ASSUME NEW W, Init PROVE LoopInv(W)
BY NoRutFacts DEF Init, LoopInv, RutsOK

\* A turn that is over leaves no rut to the next.
LEMMA EndTurnLoop == ASSUME NEW W, NEW sl, EndTurn(sl) PROVE LoopInv(W)'
<1>1. phase' = "idle" /\ rut' = NoRut
  BY DEF EndTurn
<1>2. RutsOK'
  BY <1>1, NoRutFacts DEF RutsOK
<1> QED
  BY <1>1, <1>2 DEF LoopInv

LEMMA StartTurnLoop == ASSUME NEW W, LoopInv(W), StartTurn PROVE LoopInv(W)'
<1>1. rut = NoRut /\ rut' = rut /\ phase' = "think" /\ tracker' = tracker
  BY DEF LoopInv, StartTurn
<1>2. RutsOK'
  BY <1>1 DEF LoopInv, RutsOK
<1>3. Backed(W, tracker.history, 0)'
  BY <1>1, NoRutFacts, NoTraces DEF Backed
<1> QED
  BY <1>1, <1>2, <1>3 DEF LoopInv

\* Nothing the invariant speaks of changes.
LEMMA SameLoop ==
    ASSUME NEW W, LoopInv(W), UNCHANGED <<tracker, batch, slot, loaded, rut>>, phase' = phase,
           aborted => aborted'
    PROVE  LoopInv(W)'
<1>1. RutsOK'
  BY DEF LoopInv, RutsOK
<1>2. phase' \in {"think", "infer"} => Backed(W, tracker.history, 0)'
  BY DEF LoopInv, Backed
<1>3. phase' = "groups" /\ ~aborted' /\ ~Terminal(Last(batch')) =>
          Places(batch') <= W /\ Seen(W, tracker.history, batch, slot, Len(batch))'
  BY DEF LoopInv, Seen, Sorted, Backed
<1> QED
  BY <1>1, <1>2, <1>3 DEF LoopInv

LEMMA BeginStepLoop == ASSUME NEW W, LoopInv(W), BeginStep PROVE LoopInv(W)'
<1>1. phase = "think" /\ phase' = "infer" /\ rut' = rut /\ tracker' = tracker
  BY DEF BeginStep
<1>2. RutsOK' /\ Backed(W, tracker.history, 0)'
  BY <1>1 DEF LoopInv, RutsOK, Backed
<1> QED
  BY <1>1, <1>2 DEF LoopInv

\* The batch arrives.
LEMMA EmitLoop ==
    ASSUME IInv, NEW W, Wide(W), Fits(W), LoopInv(W),
           NEW e \in Emissions, NEW planMode \in BOOLEAN, Emit(e, planMode)
    PROVE  LoopInv(W)'
<1> DEFINE b == BatchOf(e)
           g == Gate(b, planMode)
<1>1. /\ phase = "infer" /\ phase' = "groups" /\ batch' = b
      /\ Valid(e) \/ Splits(e) \/ Trims(e)
      /\ aborted' = aborted /\ loaded' = loaded /\ rut' = rut
      /\ ~aborted => slot' = Launch(b, g.slot) /\ tracker' = g.tracker
  BY DEF Emit
<1>2. BatchOK(b) /\ Places(b) <= W
  BY <1>1, BatchIsOK DEF Fits
<1> HIDE DEF b
<1>3. RutsOK /\ RutsOK' /\ Backed(W, tracker.history, 0)
  BY <1>1 DEF LoopInv, RutsOK
<1>4. ASSUME ~aborted, ~Terminal(Last(b))
      PROVE  Seen(W, tracker'.history, b, slot', Len(b))
  <2>1. /\ b \in Seq(Calls) \ {<<>>} /\ TerminalLast(b)
        /\ tracker \in Trackers /\ Vetoing(tracker, FALSE)
    BY <1>1, <1>2 DEF BatchOK, IInv, BatchInv, Vetoing
  <2>2. Seen(W, g.tracker.history, b, g.slot, Len(b))
    BY <1>2, <1>3, <1>4, <2>1, GateSees
  <2>3. DOMAIN g.slot = 1..Len(b)
    BY <2>1, GateFacts DEF GateStates
  <2> HIDE DEF g
  <2> QED
    BY <1>1, <1>4, <2>1, <2>2, <2>3, LaunchSees
<1>5. ~aborted /\ ~Terminal(Last(b)) => Seen(W, tracker.history, batch, slot, Len(batch))'
  BY <1>1, <1>4 DEF Seen, Sorted, Backed
<1> QED
  BY <1>1, <1>2, <1>3, <1>5 DEF LoopInv

\* The batch goes on, or its step is recorded.
LEMMA ProceedLoop ==
    ASSUME IInv, NEW W, Wide(W), LoopInv(W),
           NEW sl \in [1..Len(batch) -> Slots], NEW tr \in Trackers,
           phase \in {"groups", "tail"}, phase = "tail" => Terminal(Last(batch)),
           ~aborted /\ ~Terminal(Last(batch)) =>
               Places(batch) <= W /\ Seen(W, tr.history, batch, sl, Len(batch)),
           Proceed(sl, tr)
    PROVE  LoopInv(W)'
<1>1. CASE ~GroupsOver(sl)
  <2>1. slot' = sl /\ tracker' = tr /\ UNCHANGED <<phase, aborted, batch, loaded, rut>>
    BY <1>1 DEF Proceed
  <2>2. RutsOK'
    BY <2>1 DEF LoopInv, RutsOK
  <2>3. ~aborted' /\ ~Terminal(Last(batch')) =>
            Places(batch') <= W /\ Seen(W, tracker.history, batch, slot, Len(batch))'
    BY <2>1 DEF Seen, Sorted, Backed
  <2> QED
    BY <2>1, <2>2, <2>3 DEF LoopInv
<1>2. CASE GroupsOver(sl) /\ aborted
  <2>1. EndTurn(sl)
    BY <1>2 DEF Proceed, CancelStep
  <2> QED
    BY <2>1, EndTurnLoop
<1>3. CASE GroupsOver(sl) /\ ~aborted /\ Last(sl) = "tail"
  <2>1. phase' = "tail" /\ rut' = rut
    BY <1>3 DEF Proceed
  <2>2. RutsOK'
    BY <2>1 DEF LoopInv, RutsOK
  <2> QED
    BY <2>1, <2>2 DEF LoopInv
<1>4. CASE GroupsOver(sl) /\ ~aborted /\ Last(sl) # "tail"
  <2>1. RecordStep(sl, tr)
    BY <1>4 DEF Proceed
  <2>2. CASE Terminal(Last(batch)) \/ breaker
    <3>1. EndTurn(sl)
      BY <2>1, <2>2 DEF RecordStep
    <3> QED
      BY <3>1, EndTurnLoop
  <2>3. CASE ~(Terminal(Last(batch)) \/ breaker)
    <3>1. /\ phase' = "think" /\ rut' = InRut(batch, sl)
          /\ tracker' = IF Len(batch) > 1 THEN ObserveComposite(tr) ELSE tr
      BY <2>1, <2>3 DEF RecordStep
    <3>2. batch \in Seq(Calls) \ {<<>>}
      BY DEF IInv, BatchInv, BatchOK
    <3> DEFINE h == tr.history
               g == IF Len(batch) > 1 THEN Push(h, CompositeEntry) ELSE h
    <3>3. h \in Rings /\ ObserveComposite(tr).history = Push(h, CompositeEntry)
      BY TrackerFacts DEF ObserveComposite, Trackers
    <3>4. tracker'.history = g
      BY <3>1, <3>3
    <3>5. Places(batch) <= W /\ Seen(W, h, batch, sl, Len(batch)) /\ DOMAIN sl = 1..Len(batch)
      BY <1>4, <2>3
    <3>6. RutsOK
      BY DEF LoopInv
    <3> HIDE DEF g, h
    <3>7. /\ InRut(batch, sl) \in [Calls -> Ruts]
          /\ \A c \in Calls : InRut(batch, sl)[c].n > 0 => InRut(batch, sl)[c].out \in Results
          /\ \A c \in Calls : Traces(W, g, 0, c, InRut(batch, sl)[c].n, InRut(batch, sl)[c].out)
      BY <1>4, <3>2, <3>3, <3>5, <3>6, RecordSees DEF g
    <3>8. RutsOK'
      BY <3>1, <3>7 DEF RutsOK
    <3>9. Backed(W, tracker.history, 0)'
      BY <3>1, <3>4, <3>7 DEF Backed
    <3> QED
      BY <3>1, <3>8, <3>9 DEF LoopInv
  <2> QED
    BY <2>2, <2>3
<1> QED
  BY <1>1, <1>2, <1>3, <1>4

LEMMA TailIsTerminal == ASSUME IInv, phase = "tail" PROVE Terminal(Last(batch))
BY DEF IInv, BatchInv, OnlyTailRuns, HasTail

LEMMA NothingToWaitForLoop ==
    ASSUME IInv, NEW W, Wide(W), LoopInv(W), NothingToWaitFor
    PROVE  LoopInv(W)'
<1>1. phase = "groups" /\ Proceed(slot, tracker)
  BY DEF NothingToWaitFor
<1>2. slot \in [1..Len(batch) -> Slots] /\ tracker \in Trackers
  BY BatchFacts DEF IInv
<1>3. ~aborted /\ ~Terminal(Last(batch)) =>
          Places(batch) <= W /\ Seen(W, tracker.history, batch, slot, Len(batch))
  BY <1>1 DEF LoopInv
<1> QED
  BY <1>1, <1>2, <1>3, ProceedLoop

\* A call settles.
LEMMA CallReturnsLoop ==
    ASSUME IInv, NEW W, Wide(W), LoopInv(W), NEW i \in DOMAIN slot, NEW r \in Results, CallReturns(i, r)
    PROVE  LoopInv(W)'
<1> DEFINE sl == [slot EXCEPT ![i] = r]
           tl == IF phase = "groups" THEN Dispatched(sl) ELSE sl
           tr == IF Terminal(batch[i]) THEN tracker ELSE RecordOutcome(tracker, batch[i], r)
<1>1. /\ phase \in {"groups", "tail"} /\ slot[i] = "running" /\ Proceed(tl, tr)
  BY DEF CallReturns
<1>2. /\ batch \in Seq(Calls) /\ Len(batch) \in Nat /\ DOMAIN batch = 1..Len(batch)
      /\ slot \in [1..Len(batch) -> Slots] /\ i \in 1..Len(batch)
      /\ batch[i] \in Calls /\ r \in Outs /\ tracker \in Trackers
  BY BatchFacts DEF IInv, Outs
<1>3. tr \in Trackers
  BY <1>2, OutcomeKeepsTracker
<1>4. sl \in [1..Len(batch) -> Slots]
  BY <1>2, SlotMarks
<1>5. tl \in [1..Len(batch) -> Slots]
  <2> HIDE DEF sl
  <2>1. Dispatched(sl) \in [1..Len(batch) -> Slots]
    BY <1>4, SlotMarks DEF Dispatched, Launch, Skip, Unrun
  <2> QED
    BY <1>4, <2>1
<1>6. ASSUME ~aborted, ~Terminal(Last(batch))
      PROVE  Places(batch) <= W /\ Seen(W, tr.history, batch, tl, Len(batch))
  <2>1. phase = "groups"
    BY <1>1, <1>6, TailIsTerminal
  <2>2. Places(batch) <= W /\ Seen(W, tracker.history, batch, slot, Len(batch))
    BY <1>6, <2>1 DEF LoopInv
  <2>3. ~Terminal(batch[i])
    <3>1. TerminalLast(batch)
      BY <2>1 DEF IInv, BatchInv, BatchOK
    <3> QED
      BY <1>2, <1>6, <3>1 DEF TerminalLast, Last
  <2>4. tr.history = Patch(tracker.history, batch[i], r)
    <3> DEFINE h == Patch(tracker.history, batch[i], r)
    <3>1. [tracker EXCEPT !.history = h].history = h
      BY <1>2 DEF Trackers
    <3> HIDE DEF h
    <3>2. RecordOutcome(tracker, batch[i], r).history = h
      BY <3>1 DEF RecordOutcome, h
    <3> QED
      BY <2>3, <3>2 DEF h
  <2>5. tracker.history \in Rings /\ DOMAIN slot = 1..Len(batch) /\ DOMAIN sl = 1..Len(batch)
    BY <1>2, <1>4, TrackerFacts
  <2>6. Seen(W, tr.history, batch, sl, Len(batch))
    <3>1. Seen(W, Patch(tracker.history, batch[i], r), batch, sl, Len(batch))
      BY <1>1, <1>2, <2>2, <2>5, OutcomeSees
    <3> HIDE DEF tr, sl
    <3> QED
      BY <2>4, <3>1
  <2>7. tl = Launch(batch, sl)
    BY <1>6, <2>1 DEF Dispatched
  <2> HIDE DEF sl, tl, tr
  <2> QED
    BY <1>2, <2>2, <2>5, <2>6, <2>7, LaunchSees
<1> HIDE DEF sl, tl, tr
<1> QED
  BY <1>1, <1>3, <1>5, <1>6, TailIsTerminal, ProceedLoop

\* A call honours the signal.
LEMMA CallThrowsLoop ==
    ASSUME IInv, NEW W, Wide(W), LoopInv(W), NEW i \in DOMAIN slot, CallThrows(i)
    PROVE  LoopInv(W)'
<1> DEFINE sl == [slot EXCEPT ![i] = "thrown"]
<1>1. /\ phase \in {"groups", "tail"} /\ aborted
      /\ IF ClassOf(batch[i]) = "pure_read" THEN Proceed(Skip(batch, sl), tracker) ELSE CancelStep(sl)
  BY DEF CallThrows
<1>2. slot \in [1..Len(batch) -> Slots] /\ tracker \in Trackers
  BY BatchFacts DEF IInv
<1>3. Skip(batch, sl) \in [1..Len(batch) -> Slots]
  <2>1. sl \in [1..Len(batch) -> Slots]
    BY <1>2, SlotMarks
  <2> HIDE DEF sl
  <2> QED
    BY <2>1, SlotMarks DEF Skip, Unrun
<1> HIDE DEF sl
<1>4. CASE ClassOf(batch[i]) = "pure_read"
  BY <1>1, <1>2, <1>3, <1>4, TailIsTerminal, ProceedLoop
<1>5. CASE ClassOf(batch[i]) # "pure_read"
  BY <1>1, <1>5, EndTurnLoop DEF CancelStep
<1> QED
  BY <1>4, <1>5

LEMMA StepLoop ==
    ASSUME NEW W, Wide(W), Fits(W)
    PROVE  IInv /\ LoopInv(W) /\ [Next]_vars => LoopInv(W)'
<1> SUFFICES ASSUME IInv, LoopInv(W), [Next]_vars PROVE LoopInv(W)'
  OBVIOUS
<1>1. CASE StartTurn
  BY <1>1, StartTurnLoop
<1>2. CASE BeginStep
  BY <1>2, BeginStepLoop
<1>3. CASE LeaveLoop
  BY <1>3, EndTurnLoop DEF LeaveLoop
<1>4. CASE \E e \in Emissions, planMode \in BOOLEAN : Emit(e, planMode)
  BY <1>4, EmitLoop
<1>5. CASE NothingToWaitFor
  BY <1>5, NothingToWaitForLoop
<1>6. CASE \E i \in DOMAIN slot : (\E r \in Results : CallReturns(i, r)) \/ CallThrows(i)
  BY <1>6, CallReturnsLoop, CallThrowsLoop
<1>7. CASE Abort
  <2>1. aborted' = TRUE /\ UNCHANGED <<tracker, batch, slot, loaded, rut, phase>>
    BY <1>7 DEF Abort
  <2> QED
    BY <2>1, SameLoop
<1>8. CASE GhostSettles \/ UNCHANGED vars
  <2>1. UNCHANGED <<tracker, batch, slot, loaded, rut, phase, aborted>>
    BY <1>8 DEF GhostSettles, vars
  <2> QED
    BY <2>1, SameLoop
<1> QED
  BY <1>1, <1>2, <1>3, <1>4, <1>5, <1>6, <1>7, <1>8 DEF Next

\* Where the ring holds one step more than the repeats a veto takes, a call
\* that returned the same in Critical steps in a row does not run again.
THEOREM LoopsAreCut ==
    ASSUME NEW W \in Nat, (Critical + 1) * W <= HistorySize,
           \A e \in Emissions : Valid(e) \/ Splits(e) \/ Trims(e) => Places(BatchOf(e)) <= W
    PROVE  Spec => []RutIsCut
<1>1. Wide(W) /\ Fits(W)
  BY DEF Wide, Fits
<1>2. Init => LoopInv(W)
  BY InitLoop
<1>3. IInv /\ LoopInv(W) /\ [Next]_vars => LoopInv(W)'
  BY <1>1, StepLoop
<1>4. LoopInv(W) => RutIsCut
  BY TrackerAssumption DEF LoopInv, RutsOK, Ruts, RutIsCut
<1> QED
  BY <1>2, <1>3, <1>4, Invariance, PTL DEF Spec

-----------------------------------------------------------------------------
(* Calls without an outcome: their entries in the ring and their slots.    *)

Mark(c) == [call |-> c, out |-> "pending"]
Pending(h, c) == {d \in Within(h) : FromEnd(h, d) = Mark(c)}

\* Of the first n calls those the ring may still show as pending.
Unsettled(b, sl, n, c) == {i \in 1..n : b[i] = c /\ sl[i] \in Waiting /\ ~Terminal(c)}

\* No call has more pending entries than unsettled places in the batch.
Matched(h, b, sl, n) ==
    \A c \in Calls \cup {NoCall} : Cardinality(Pending(h, c)) <= Cardinality(Unsettled(b, sl, n, c))

LEMMA PendingFinite ==
    ASSUME NEW h \in Rings, NEW c
    PROVE  IsFiniteSet(Pending(h, c)) /\ Cardinality(Pending(h, c)) \in Nat
<1>1. Len(h) \in Nat /\ 0 \in Int /\ Len(h) - 1 \in Int
  BY FromEndFacts
<1>2. IsFiniteSet(Within(h))
  BY <1>1, FS_Interval DEF Within
<1>3. Pending(h, c) \in SUBSET Within(h)
  BY DEF Pending
<1> QED
  BY <1>2, <1>3, FS_Subset, FS_CardinalityType

LEMMA UnsettledFinite ==
    ASSUME NEW b, NEW sl, NEW n \in Nat, NEW c
    PROVE  IsFiniteSet(Unsettled(b, sl, n, c)) /\ Cardinality(Unsettled(b, sl, n, c)) \in Nat
<1>1. IsFiniteSet(1..n)
  BY FS_Interval
<1>2. Unsettled(b, sl, n, c) \in SUBSET (1..n)
  BY DEF Unsettled
<1> QED
  BY <1>1, <1>2, FS_Subset, FS_CardinalityType

\* A push adds no pending entry but its own.
LEMMA PendingPush ==
    ASSUME NEW h \in Rings, NEW e \in Entries, NEW c
    PROVE  /\ e # Mark(c) => Cardinality(Pending(Push(h, e), c)) <= Cardinality(Pending(h, c))
           /\ Cardinality(Pending(Push(h, e), c)) <= Cardinality(Pending(h, c)) + 1
<1> DEFINE g == Push(h, e)
           P == Pending(h, c)
           Q == Pending(g, c)
           R == Q \ {0}
           f == [d \in R |-> d - 1]
<1>1. g \in Rings
  BY PushKeepsRing
<1>2. /\ 0 \in Within(g) /\ FromEnd(g, 0) = e
      /\ \A d \in Within(h) : d + 1 < HistorySize =>
            d + 1 \in Within(g) /\ FromEnd(g, d + 1) = FromEnd(h, d)
      /\ \A d \in Within(g) : d # 0 => d - 1 \in Within(h)
  BY PushFromEnd
<1>3. \A d \in Within(g) : d \in Nat /\ d < HistorySize
  BY <1>1, FromEndFacts
<1>4. /\ IsFiniteSet(P) /\ Cardinality(P) \in Nat
      /\ IsFiniteSet(Q) /\ Cardinality(Q) \in Nat
  BY <1>1, PendingFinite
<1> HIDE DEF g
<1>5. ASSUME NEW d \in R PROVE d \in Nat /\ d - 1 \in P
  <2>1. d \in Within(g) /\ d # 0 /\ FromEnd(g, d) = Mark(c)
    BY DEF Pending
  <2>2. d \in Nat /\ d < HistorySize /\ d - 1 \in Within(h) /\ (d - 1) + 1 = d
    BY <1>2, <1>3, <2>1
  <2>3. FromEnd(g, (d - 1) + 1) = FromEnd(h, d - 1)
    BY <1>2, <2>2
  <2> QED
    BY <2>1, <2>2, <2>3 DEF Pending
<1> HIDE DEF P, Q
<1>6. f \in Injection(R, P)
  <2>1. f \in [R -> P]
    BY <1>5
  <2>2. \A d, k \in R : f[d] = f[k] => d = k
    BY <1>5
  <2> QED
    BY <2>1, <2>2 DEF Injection, IsInjective
<1> HIDE DEF R, f
<1>7. Cardinality(R) <= Cardinality(P)
  BY <1>4, <1>6, FS_Injection
<1>8. Cardinality(R) = IF 0 \in Q THEN Cardinality(Q) - 1 ELSE Cardinality(Q)
  BY <1>4, FS_RemoveElement DEF R
<1>9. e # Mark(c) => 0 \notin Q
  BY <1>2 DEF Q, Pending
<1> QED
  BY <1>4, <1>7, <1>8, <1>9 DEF P, Q, g

\* An outcome takes a pending entry of its call, if there is one, and adds none.
LEMMA PendingPatch ==
    ASSUME NEW h \in Rings, NEW c \in Calls, NEW o \in Outs, o # "pending"
    PROVE  /\ \A x : Cardinality(Pending(Patch(h, c, o), x)) <= Cardinality(Pending(h, x))
           /\ \/ Cardinality(Pending(Patch(h, c, o), c)) = 0
              \/ Cardinality(Pending(Patch(h, c, o), c)) + 1 <= Cardinality(Pending(h, c))
<1> DEFINE k == Patch(h, c, o)
           done == [call |-> c, out |-> o]
<1>1. done \in Entries /\ \A x : done # Mark(x)
  BY DEF Entries, Mark
<1>2. CASE Pending(h, c) = {}
  <2>1. {i \in DOMAIN h : h[i] = Mark(c)} = {}
    <3> SUFFICES ASSUME NEW i \in DOMAIN h, h[i] = Mark(c) PROVE FALSE
      OBVIOUS
    <3>1. Len(h) - i \in Pending(h, c)
      BY FromEndFacts DEF Pending
    <3> QED
      BY <1>2, <3>1
  <2>2. k = Push(h, done)
    BY <2>1 DEF Patch, Mark
  <2> HIDE DEF k, done
  <2>3. \A x : Cardinality(Pending(k, x)) <= Cardinality(Pending(h, x))
    BY <1>1, <2>2, PendingPush
  <2>4. Cardinality(Pending(h, c)) = 0
    BY <1>2, FS_EmptySet
  <2>5. k \in Rings
    BY <1>1, <2>2, PushKeepsRing
  <2>6. Cardinality(Pending(k, c)) \in Nat
    BY <2>5, PendingFinite
  <2>7. Cardinality(Pending(k, c)) = 0
    <3>1. Cardinality(Pending(k, c)) <= 0
      BY <2>3, <2>4
    <3> QED
      BY <2>6, <3>1
  <2> QED
    BY <2>3, <2>7 DEF k
<1>3. CASE Pending(h, c) # {}
  <2>1. PICK p \in Within(h) : FromEnd(h, p) = Mark(c)
    BY <1>3 DEF Pending
  <2>2. PICK q \in Within(h) :
            /\ FromEnd(h, q) = Mark(c)
            /\ Within(k) = Within(h)
            /\ FromEnd(k, q) = done
            /\ \A d \in Within(h) : d # q => FromEnd(k, d) = FromEnd(h, d)
    BY <2>1, PatchFromEnd DEF Mark
  <2> HIDE DEF k, done
  <2>3. ASSUME NEW x PROVE Pending(k, x) = Pending(h, x) \ {q}
    BY <1>1, <2>2 DEF Pending
  <2>4. q \in Pending(h, c)
    BY <2>2 DEF Pending
  <2>5. \A x : Cardinality(Pending(k, x)) =
            IF q \in Pending(h, x) THEN Cardinality(Pending(h, x)) - 1 ELSE Cardinality(Pending(h, x))
    BY <2>3, PendingFinite, FS_RemoveElement
  <2>6. \A x : Cardinality(Pending(h, x)) \in Nat
    BY PendingFinite
  <2> QED
    BY <2>4, <2>5, <2>6 DEF k
<1> QED
  BY <1>2, <1>3

\* The batch is worked on where the ring does not look.
LEMMA MatchedKept ==
    ASSUME NEW h, NEW b, NEW n \in Nat, NEW sl, NEW tl, Matched(h, b, sl, n),
           h \in Rings,
           \A i \in 1..n : sl[i] \in Waiting /\ ~Terminal(b[i]) => tl[i] \in Waiting
    PROVE  Matched(h, b, tl, n)
<1> SUFFICES ASSUME NEW c \in Calls \cup {NoCall}
             PROVE  Cardinality(Pending(h, c)) <= Cardinality(Unsettled(b, tl, n, c))
  BY DEF Matched
<1>1. Cardinality(Pending(h, c)) <= Cardinality(Unsettled(b, sl, n, c))
  BY DEF Matched
<1>2. Unsettled(b, sl, n, c) \in SUBSET Unsettled(b, tl, n, c)
  BY DEF Unsettled
<1>3. Cardinality(Unsettled(b, sl, n, c)) <= Cardinality(Unsettled(b, tl, n, c))
  BY <1>2, UnsettledFinite, FS_Subset
<1> QED
  BY <1>1, <1>3, UnsettledFinite, PendingFinite

\* A call settles, and its outcome finds an entry.
LEMMA MatchedSettles ==
    ASSUME NEW h \in Rings, NEW b, NEW n \in Nat, NEW sl, NEW tl, Matched(h, b, sl, n),
           NEW i \in 1..n, b[i] \in Calls, NEW o \in Outs, o # "pending",
           \A j \in 1..n : j # i => tl[j] = sl[j]
    PROVE  Matched(Patch(h, b[i], o), b, tl, n)
<1> SUFFICES ASSUME NEW c \in Calls \cup {NoCall}
             PROVE  Cardinality(Pending(Patch(h, b[i], o), c)) <= Cardinality(Unsettled(b, tl, n, c))
  BY DEF Matched
<1> DEFINE k == Patch(h, b[i], o)
           U == Unsettled(b, sl, n, c)
           V == Unsettled(b, tl, n, c)
<1>1. k \in Rings
  BY PatchKeepsRing
<1>2. /\ Cardinality(Pending(k, c)) <= Cardinality(Pending(h, c))
      /\ c = b[i] => \/ Cardinality(Pending(k, c)) = 0
                     \/ Cardinality(Pending(k, c)) + 1 <= Cardinality(Pending(h, c))
  BY PendingPatch
<1>3. Cardinality(Pending(h, c)) <= Cardinality(U)
  BY DEF Matched
<1>4. /\ IsFiniteSet(U) /\ Cardinality(U) \in Nat
      /\ IsFiniteSet(V) /\ Cardinality(V) \in Nat
      /\ Cardinality(Pending(h, c)) \in Nat /\ Cardinality(Pending(k, c)) \in Nat
  BY <1>1, UnsettledFinite, PendingFinite
<1>5. c = b[i] => Cardinality(Pending(k, c)) <= Cardinality(V)
  <2> SUFFICES ASSUME c = b[i] PROVE Cardinality(Pending(k, c)) <= Cardinality(V)
    OBVIOUS
  <2>1. U \ {i} \in SUBSET V
    BY DEF Unsettled
  <2>2. Cardinality(U \ {i}) <= Cardinality(V)
    BY <1>4, <2>1, FS_Subset
  <2>3. Cardinality(U \ {i}) = IF i \in U THEN Cardinality(U) - 1 ELSE Cardinality(U)
    BY <1>4, FS_RemoveElement
  <2> HIDE DEF U, V, k
  <2> QED
    BY <1>2, <1>3, <1>4, <2>2, <2>3
<1>6. c # b[i] => Cardinality(Pending(k, c)) <= Cardinality(V)
  <2> SUFFICES ASSUME c # b[i] PROVE Cardinality(Pending(k, c)) <= Cardinality(V)
    OBVIOUS
  <2>1. U \in SUBSET V
    BY DEF Unsettled
  <2>2. Cardinality(U) <= Cardinality(V)
    BY <1>4, <2>1, FS_Subset
  <2> HIDE DEF U, V, k
  <2> QED
    BY <1>2, <1>3, <1>4, <2>2
<1> QED
  BY <1>5, <1>6

\* The gate enters a call in the ring, pending only if it lets it through.
LEMMA MatchedEnters ==
    ASSUME NEW h \in Rings, NEW b \in Seq(Calls), NEW i \in 1..Len(b), NEW sl, NEW tl,
           Matched(h, b, sl, i - 1), \A j \in 1..Len(b) : j # i => tl[j] = sl[j],
           NEW o \in Outs, o = "pending" => tl[i] \in Waiting /\ ~Terminal(b[i])
    PROVE  Matched(Push(h, [call |-> b[i], out |-> o]), b, tl, i)
<1> DEFINE e == [call |-> b[i], out |-> o]
           g == Push(h, e)
           n == i - 1
<1>1. e \in Entries /\ g \in Rings /\ \A x : e = Mark(x) => x = b[i] /\ o = "pending"
  BY PushKeepsRing DEF Entries, Mark
<1>2. n \in Nat /\ i \in Nat /\ 1..i = 1..n \cup {i} /\ i \notin 1..n /\ \A j \in 1..n : j \in 1..Len(b)
  OBVIOUS
<1>3. ASSUME NEW c \in Calls \cup {NoCall}
      PROVE  Cardinality(Pending(g, c)) <= Cardinality(Unsettled(b, tl, i, c))
  <2> DEFINE U == Unsettled(b, sl, n, c)
             V == Unsettled(b, tl, i, c)
  <2>1. /\ e # Mark(c) => Cardinality(Pending(g, c)) <= Cardinality(Pending(h, c))
        /\ Cardinality(Pending(g, c)) <= Cardinality(Pending(h, c)) + 1
    BY <1>1, PendingPush
  <2>2. Cardinality(Pending(h, c)) <= Cardinality(U)
    BY DEF Matched
  <2>3. /\ IsFiniteSet(U) /\ Cardinality(U) \in Nat
        /\ IsFiniteSet(V) /\ Cardinality(V) \in Nat
        /\ Cardinality(Pending(h, c)) \in Nat /\ Cardinality(Pending(g, c)) \in Nat
    BY <1>1, <1>2, UnsettledFinite, PendingFinite
  <2>4. U \in SUBSET V /\ i \notin U
    BY <1>2 DEF Unsettled
  <2>5. Cardinality(U) <= Cardinality(V)
    BY <2>3, <2>4, FS_Subset
  <2>6. ASSUME e = Mark(c) PROVE Cardinality(U) + 1 <= Cardinality(V)
    <3>1. i \in V
      BY <1>1, <1>2, <2>6 DEF Unsettled
    <3> HIDE DEF U, V
    <3>2. U \cup {i} \in SUBSET V
      BY <2>4, <3>1
    <3>3. Cardinality(U \cup {i}) = Cardinality(U) + 1
      BY <2>3, <2>4, FS_AddElement
    <3>4. Cardinality(U \cup {i}) <= Cardinality(V)
      BY <2>3, <3>2, FS_Subset
    <3> QED
      BY <3>3, <3>4
  <2> HIDE DEF U, e, g, n
  <2> QED
    BY <2>1, <2>2, <2>3, <2>5, <2>6
<1> QED
  BY <1>3 DEF Matched

\* One more place in the batch, none in the ring.
LEMMA MatchedLonger ==
    ASSUME NEW h \in Rings, NEW b \in Seq(Calls), NEW i \in 1..Len(b), NEW sl, NEW tl,
           Matched(h, b, sl, i - 1), \A j \in 1..Len(b) : j # i => tl[j] = sl[j]
    PROVE  Matched(h, b, tl, i)
<1>1. /\ i - 1 \in Nat /\ i \in Nat /\ 1..(i - 1) \subseteq 1..i
      /\ \A j \in 1..(i - 1) : j \in 1..Len(b) /\ j # i
  OBVIOUS
<1> SUFFICES ASSUME NEW c \in Calls \cup {NoCall}
             PROVE  Cardinality(Pending(h, c)) <= Cardinality(Unsettled(b, tl, i, c))
  BY DEF Matched
<1>2. Cardinality(Pending(h, c)) <= Cardinality(Unsettled(b, sl, i - 1, c))
  BY DEF Matched
<1>3. Unsettled(b, sl, i - 1, c) \in SUBSET Unsettled(b, tl, i, c)
  BY <1>1 DEF Unsettled
<1>4. Cardinality(Unsettled(b, sl, i - 1, c)) <= Cardinality(Unsettled(b, tl, i, c))
  BY <1>1, <1>3, UnsettledFinite, FS_Subset
<1> QED
  BY <1>1, <1>2, <1>4, UnsettledFinite, PendingFinite

LEMMA GateCallMatched ==
    ASSUME NEW b \in Seq(Calls), NEW i \in 1..Len(b), NEW g \in GateStates(b),
           NEW planMode \in BOOLEAN, g.slot[i] = "queued",
           Matched(g.tracker.history, b, g.slot, i - 1)
    PROVE  LET after == GateCall(g, b, i, planMode)
           IN  /\ Matched(after.tracker.history, b, after.slot, i)
               /\ \A j \in 1..Len(b) : j # i => after.slot[j] = g.slot[j]
<1> DEFINE h == g.tracker.history
<1>1. PICK after : after = GateCall(g, b, i, planMode)
  OBVIOUS
<1>2. h \in Rings /\ g.slot \in [1..Len(b) -> GateMarks]
  BY TrackerFacts DEF GateStates
<1> HIDE DEF h
<1>3. ASSUME Terminal(b[i]) \/ (HasTail(b) /\ i = Len(b))
      PROVE  after.tracker.history = h /\ \A j \in 1..Len(b) : j # i => after.slot[j] = g.slot[j]
  <2>1. \A s : /\ [g EXCEPT !.slot[i] = s].tracker = g.tracker
               /\ \A j \in 1..Len(b) : j # i => [g EXCEPT !.slot[i] = s].slot[j] = g.slot[j]
    <3> SUFFICES ASSUME NEW s
                 PROVE  /\ [g EXCEPT !.slot[i] = s].tracker = g.tracker
                        /\ \A j \in 1..Len(b) : j # i => [g EXCEPT !.slot[i] = s].slot[j] = g.slot[j]
      OBVIOUS
    <3> DEFINE sl == [g.slot EXCEPT ![i] = s]
    <3>1. \A j \in 1..Len(b) : j # i => sl[j] = g.slot[j]
      BY <1>2
    <3>2. [g EXCEPT !.slot[i] = s] = [g EXCEPT !.slot = sl]
      OBVIOUS
    <3> HIDE DEF sl
    <3>3. [g EXCEPT !.slot = sl].slot = sl /\ [g EXCEPT !.slot = sl].tracker = g.tracker
      BY DEF GateStates
    <3> QED
      BY <3>1, <3>2, <3>3
  <2>2. \/ \E s : after = [g EXCEPT !.slot[i] = s]
        \/ after = g
    BY <1>1, <1>3 DEF GateCall
  <2>3. CASE after = g
    BY <2>3 DEF h
  <2>4. ASSUME NEW s, after = [g EXCEPT !.slot[i] = s]
        PROVE  after.tracker.history = h /\ \A j \in 1..Len(b) : j # i => after.slot[j] = g.slot[j]
    <3>1. /\ [g EXCEPT !.slot[i] = s].tracker = g.tracker
          /\ \A j \in 1..Len(b) : j # i => [g EXCEPT !.slot[i] = s].slot[j] = g.slot[j]
      BY <2>1
    <3> QED
      BY <2>4, <3>1 DEF h
  <2> QED
    BY <2>2, <2>3, <2>4
<1>4. CASE Terminal(b[i]) \/ (HasTail(b) /\ i = Len(b))
  BY <1>1, <1>2, <1>3, <1>4, MatchedLonger DEF h
<1>5. CASE ~(Terminal(b[i]) \/ (HasTail(b) /\ i = Len(b)))
  <2>1. /\ \A j \in 1..Len(b) : j # i => after.slot[j] = g.slot[j]
        /\ after.slot[i] \in {"queued", "vetoed", "refused", "answered"}
        /\ after.slot[i] = "refused" => after.tracker.history = h
        /\ after.slot[i] # "refused" =>
               after.tracker.history = Push(h, [call |-> b[i], out |-> Shown(after.slot[i])])
    BY <1>1, <1>5, GateCallEnters DEF h
  <2>2. CASE after.slot[i] = "refused"
    BY <1>1, <1>2, <2>1, <2>2, MatchedLonger DEF h
  <2>3. CASE after.slot[i] # "refused"
    <3>1. Shown(after.slot[i]) \in Outs
      BY <2>1, <2>3 DEF Shown, Waiting, Outs
    <3>2. Shown(after.slot[i]) = "pending" => after.slot[i] \in Waiting
      BY <2>1 DEF Shown, Waiting
    <3>3. Matched(Push(h, [call |-> b[i], out |-> Shown(after.slot[i])]), b, after.slot, i)
      BY <1>2, <1>5, <2>1, <3>1, <3>2, MatchedEnters DEF h
    <3> QED
      BY <1>1, <2>1, <2>3, <3>3
  <2> QED
    BY <2>2, <2>3
<1> QED
  BY <1>4, <1>5

LEMMA GateMatched ==
    ASSUME NEW b \in Seq(Calls) \ {<<>>}, NEW planMode \in BOOLEAN,
           tracker \in Trackers, Vetoing(tracker, FALSE), NEW sl, Matched(tracker.history, <<>>, sl, 0)
    PROVE  Matched(Gate(b, planMode).tracker.history, b, Gate(b, planMode).slot, Len(b))
<1> DEFINE N == Len(b)
<1>1. N \in Nat \ {0} /\ DOMAIN b = 1..N
  OBVIOUS
<1>2. PICK gated :
          /\ Gate(b, planMode) = gated[Len(b)]
          /\ gated[0] = Ungated(b)
          /\ \A n \in 0..Len(b) : gated[n] \in GateStates(b)
          /\ \A n \in 1..Len(b) : gated[n] = GateCall(gated[n - 1], b, n, planMode)
  BY GateUnfolds
<1> DEFINE Reached(n) ==
        /\ Matched(gated[n].tracker.history, b, gated[n].slot, n)
        /\ \A j \in (n + 1)..N : gated[n].slot[j] = "queued"
           S == {n \in Nat : n \in 0..N => Reached(n)}
<1>3. Reached(0)
  <2>1. gated[0].tracker = tracker /\ \A j \in 1..N : gated[0].slot[j] = "queued"
    BY <1>1, <1>2 DEF Ungated
  <2>2. \A c : Unsettled(b, gated[0].slot, 0, c) = Unsettled(<<>>, sl, 0, c)
    BY DEF Unsettled
  <2>3. Matched(tracker.history, b, gated[0].slot, 0)
    BY <2>2 DEF Matched
  <2>4. (0 + 1)..N = 1..N
    BY <1>1
  <2> QED
    BY <2>1, <2>3, <2>4
<1>4. ASSUME NEW n \in Nat, n \in S PROVE n + 1 \in S
  <2> SUFFICES ASSUME n + 1 \in 0..N PROVE Reached(n + 1)
    OBVIOUS
  <2>1. n \in 0..N /\ n + 1 \in 1..N /\ (n + 1) - 1 = n /\ n + 1 \in (n + 1)..N
    BY <1>1
  <2>2. Reached(n)
    BY <1>4, <2>1
  <2>3. /\ gated[n] \in GateStates(b) /\ gated[n].slot[n + 1] = "queued"
        /\ Matched(gated[n].tracker.history, b, gated[n].slot, (n + 1) - 1)
    BY <1>2, <2>1, <2>2
  <2>4. gated[n + 1] = GateCall(gated[n], b, n + 1, planMode)
    BY <1>2, <2>1
  <2>5. /\ Matched(gated[n + 1].tracker.history, b, gated[n + 1].slot, n + 1)
        /\ \A j \in 1..N : j # n + 1 => gated[n + 1].slot[j] = gated[n].slot[j]
    BY <2>1, <2>3, <2>4, GateCallMatched
  <2>6. \A j \in ((n + 1) + 1)..N : j \in (n + 1)..N /\ j \in 1..N /\ j # n + 1
    BY <1>1
  <2> QED
    BY <2>2, <2>5, <2>6
<1> HIDE DEF S
<1>5. N \in S
  <2>1. 0 \in S
    BY <1>3 DEF S
  <2> QED
    BY <1>1, <1>4, <2>1, NatSetInduction
<1>6. Reached(N)
  BY <1>1, <1>5 DEF S
<1> QED
  BY <1>2, <1>6

\* With no place left unsettled no entry is pending.
LEMMA NothingPending ==
    ASSUME NEW h \in Rings, NEW b, NEW sl, NEW n \in Nat, Matched(h, b, sl, n),
           \A i \in 1..n : sl[i] \notin Waiting
    PROVE  \A c \in Calls \cup {NoCall} : Cardinality(Pending(h, c)) = 0 /\ Pending(h, c) = {}
<1> SUFFICES ASSUME NEW c \in Calls \cup {NoCall}
             PROVE  Cardinality(Pending(h, c)) = 0 /\ Pending(h, c) = {}
  OBVIOUS
<1>1. Unsettled(b, sl, n, c) = {}
  BY DEF Unsettled
<1>2. Cardinality(Pending(h, c)) <= 0
  BY <1>1, FS_EmptySet DEF Matched
<1>3. Cardinality(Pending(h, c)) = 0
  BY <1>2, PendingFinite
<1> QED
  BY <1>3, PendingFinite, FS_EmptySet

\* A ring without pending entries belongs to no batch.
LEMMA MatchedEmpty ==
    ASSUME NEW h \in Rings, \A c \in Calls \cup {NoCall} : Cardinality(Pending(h, c)) = 0
    PROVE  Matched(h, <<>>, <<>>, 0)
<1>1. \A c : Cardinality(Unsettled(<<>>, <<>>, 0, c)) \in Nat
  BY UnsettledFinite
<1> QED
  BY <1>1 DEF Matched

LEMMA MatchedNew == Matched(NewTracker.history, <<>>, <<>>, 0)
<1>1. NewTracker.history = <<>> /\ NewTracker.history \in Rings
  BY NewTrackerFacts, TrackerFacts DEF NewTracker
<1>2. \A c : Pending(<<>>, c) = {}
  BY DEF Pending, Within
<1> QED
  BY <1>1, <1>2, MatchedEmpty, FS_EmptySet

\* Until the signal fires the pending entries belong to calls of the batch that
\* have not settled; between steps there are none.
PendingInv ==
    \/ phase \in {"groups", "tail"} /\ aborted
    \/ Matched(tracker.history, batch, slot, Len(batch))

LEMMA EndTurnPending == ASSUME NEW sl, EndTurn(sl) PROVE PendingInv'
<1>1. tracker' = NewTracker /\ batch' = <<>> /\ slot' = <<>> /\ Len(<<>>) = 0
  BY DEF EndTurn
<1>2. Matched(tracker'.history, batch', slot', Len(batch'))
  BY <1>1, MatchedNew
<1> QED
  BY <1>2 DEF PendingInv, Matched

LEMMA InitPending == Init => PendingInv
BY MatchedNew DEF Init, PendingInv

\* Nothing the invariant speaks of changes.
LEMMA SamePending ==
    ASSUME PendingInv, UNCHANGED <<tracker, batch, slot>>, aborted => aborted',
           phase \in {"groups", "tail"} => phase' = phase
    PROVE  PendingInv'
BY DEF PendingInv, Matched

LEMMA EmitPending ==
    ASSUME IInv, PendingInv, NEW e \in Emissions, NEW planMode \in BOOLEAN, Emit(e, planMode)
    PROVE  PendingInv'
<1> DEFINE b == BatchOf(e)
           g == Gate(b, planMode)
<1>1. /\ phase = "infer" /\ phase' = "groups" /\ batch' = b /\ aborted' = aborted
      /\ Valid(e) \/ Splits(e) \/ Trims(e)
      /\ ~aborted => slot' = Launch(b, g.slot) /\ tracker' = g.tracker
  BY DEF Emit
<1>2. b \in Seq(Calls) \ {<<>>} /\ Len(b) \in Nat
  BY <1>1, BatchIsOK DEF BatchOK
<1>3. batch = <<>> /\ tracker \in Trackers /\ Vetoing(tracker, FALSE)
  BY <1>1 DEF IInv, BatchInv, Vetoing
<1>4. Matched(tracker.history, <<>>, slot, 0)
  BY <1>1, <1>3 DEF PendingInv
<1> HIDE DEF b
<1>5. Matched(g.tracker.history, b, g.slot, Len(b)) /\ g \in GateStates(b)
  BY <1>2, <1>3, <1>4, GateMatched, GateFacts
<1> HIDE DEF g
<1>6. g.tracker.history \in Rings /\ DOMAIN g.slot = 1..Len(b)
  BY <1>5, TrackerFacts DEF GateStates
<1>7. Matched(g.tracker.history, b, Launch(b, g.slot), Len(b))
  <2>1. \A i \in 1..Len(b) : g.slot[i] \in Waiting => Launch(b, g.slot)[i] \in Waiting
    BY <1>6 DEF Launch, Waiting
  <2> QED
    BY <1>2, <1>5, <1>6, <2>1, MatchedKept
<1>8. ~aborted => Matched(tracker'.history, batch', slot', Len(batch'))
  BY <1>1, <1>7
<1> QED
  BY <1>1, <1>8 DEF PendingInv, Matched

\* The batch goes on, or its step is over with nothing pending.
LEMMA ProceedPending ==
    ASSUME IInv, NEW sl \in [1..Len(batch) -> Slots], NEW tr \in Trackers,
           phase \in {"groups", "tail"},
           aborted \/ Matched(tr.history, batch, sl, Len(batch)),
           Proceed(sl, tr)
    PROVE  PendingInv'
<1>1. Len(batch) \in Nat /\ batch \in Seq(Calls) /\ sl \in Seq(Slots) /\ Len(sl) = Len(batch)
      /\ DOMAIN sl = 1..Len(batch) /\ tr.history \in Rings
  BY BatchFacts, SlotsAreSeq, TrackerFacts
<1>2. CASE ~GroupsOver(sl)
  <2>1. slot' = sl /\ tracker' = tr /\ UNCHANGED <<phase, aborted, batch>>
    BY <1>2 DEF Proceed
  <2> QED
    BY <2>1 DEF PendingInv, Matched
<1>3. CASE GroupsOver(sl) /\ aborted
  <2>1. EndTurn(sl)
    BY <1>3 DEF Proceed, CancelStep
  <2> QED
    BY <2>1, EndTurnPending
<1>4. CASE GroupsOver(sl) /\ ~aborted /\ Last(sl) = "tail"
  <2>1. /\ slot' = [sl EXCEPT ![Len(sl)] = "running"] /\ tracker' = tr /\ batch' = batch
    BY <1>4 DEF Proceed
  <2>2. \A i \in 1..Len(batch) : sl[i] \in Waiting => slot'[i] \in Waiting
    BY <1>1, <2>1 DEF Waiting
  <2>3. Matched(tr.history, batch, slot', Len(batch))
    BY <1>1, <1>4, <2>2, MatchedKept
  <2> QED
    BY <2>1, <2>3 DEF PendingInv, Matched
<1>5. CASE GroupsOver(sl) /\ ~aborted /\ Last(sl) # "tail"
  <2>1. RecordStep(sl, tr)
    BY <1>5 DEF Proceed
  <2>2. CASE Terminal(Last(batch)) \/ breaker
    <3>1. EndTurn(sl)
      BY <2>1, <2>2 DEF RecordStep
    <3> QED
      BY <3>1, EndTurnPending
  <2>3. CASE ~(Terminal(Last(batch)) \/ breaker)
    <3>1. /\ tracker' = IF Len(batch) > 1 THEN ObserveComposite(tr) ELSE tr
          /\ batch' = <<>> /\ slot' = <<>>
      BY <2>1, <2>3 DEF RecordStep
    <3>2. \A i \in 1..Len(batch) : sl[i] \notin Waiting
      BY <1>1, <1>5 DEF GroupsOver
    <3>3. \A c \in Calls \cup {NoCall} : Cardinality(Pending(tr.history, c)) = 0
      BY <1>1, <1>5, <3>2, NothingPending
    <3> DEFINE g == Push(tr.history, CompositeEntry)
    <3>4. ObserveComposite(tr).history = g
      BY DEF ObserveComposite, Trackers
    <3>5. CompositeEntry \in Entries /\ \A c : CompositeEntry # Mark(c)
      BY DEF CompositeEntry, Entries, Outs, Mark
    <3>6. g \in Rings
      BY <1>1, <3>5, PushKeepsRing
    <3>7. \A c \in Calls \cup {NoCall} : Cardinality(Pending(g, c)) = 0
      <4> SUFFICES ASSUME NEW c \in Calls \cup {NoCall} PROVE Cardinality(Pending(g, c)) = 0
        OBVIOUS
      <4>1. Cardinality(Pending(g, c)) <= Cardinality(Pending(tr.history, c))
        BY <1>1, <3>5, PendingPush
      <4>2. Cardinality(Pending(g, c)) \in Nat
        BY <3>6, PendingFinite
      <4> QED
        BY <3>3, <4>1, <4>2
    <3> HIDE DEF g
    <3>8. /\ tracker'.history \in Rings
          /\ \A c \in Calls \cup {NoCall} : Cardinality(Pending(tracker'.history, c)) = 0
      BY <1>1, <3>1, <3>3, <3>4, <3>6, <3>7
    <3>9. Matched(tracker'.history, batch', slot', Len(batch'))
      BY <3>1, <3>8, MatchedEmpty
    <3> QED
      BY <3>9 DEF PendingInv, Matched
  <2> QED
    BY <2>2, <2>3
<1> QED
  BY <1>2, <1>3, <1>4, <1>5

LEMMA NothingToWaitForPending == ASSUME IInv, PendingInv, NothingToWaitFor PROVE PendingInv'
<1>1. phase = "groups" /\ Proceed(slot, tracker)
  BY DEF NothingToWaitFor
<1>2. slot \in [1..Len(batch) -> Slots] /\ tracker \in Trackers
  BY BatchFacts DEF IInv
<1> QED
  BY <1>1, <1>2, ProceedPending DEF PendingInv

\* A call settles: its outcome goes where the ring had it pending.
LEMMA CallReturnsPending ==
    ASSUME IInv, PendingInv, NEW i \in DOMAIN slot, NEW r \in Results, CallReturns(i, r)
    PROVE  PendingInv'
<1> DEFINE sl == [slot EXCEPT ![i] = r]
           tl == IF phase = "groups" THEN Dispatched(sl) ELSE sl
           tr == IF Terminal(batch[i]) THEN tracker ELSE RecordOutcome(tracker, batch[i], r)
<1>1. /\ phase \in {"groups", "tail"} /\ slot[i] = "running" /\ Proceed(tl, tr)
  BY DEF CallReturns
<1>2. /\ batch \in Seq(Calls) /\ Len(batch) \in Nat /\ DOMAIN batch = 1..Len(batch)
      /\ slot \in [1..Len(batch) -> Slots] /\ i \in 1..Len(batch)
      /\ batch[i] \in Calls /\ r \in Outs /\ tracker \in Trackers /\ tracker.history \in Rings
  BY BatchFacts, TrackerFacts DEF IInv, Outs
<1>3. tr \in Trackers
  BY <1>2, OutcomeKeepsTracker
<1>4. sl \in [1..Len(batch) -> Slots] /\ \A j \in 1..Len(batch) : j # i => sl[j] = slot[j]
  BY <1>2, SlotMarks
<1>5. tl \in [1..Len(batch) -> Slots]
  <2> HIDE DEF sl
  <2>1. Dispatched(sl) \in [1..Len(batch) -> Slots]
    BY <1>4, SlotMarks DEF Dispatched, Launch, Skip, Unrun
  <2> QED
    BY <1>4, <2>1
<1>6. ASSUME ~aborted PROVE Matched(tr.history, batch, tl, Len(batch))
  <2>1. Matched(tracker.history, batch, slot, Len(batch))
    BY <1>6 DEF PendingInv
  <2> HIDE DEF sl
  <2>2. Matched(tr.history, batch, sl, Len(batch))
    <3>1. CASE Terminal(batch[i])
      <4>1. \A j \in 1..Len(batch) : slot[j] \in Waiting /\ ~Terminal(batch[j]) => sl[j] \in Waiting
        BY <1>4, <3>1
      <4> QED
        BY <1>2, <2>1, <3>1, <4>1, MatchedKept
    <3>2. CASE ~Terminal(batch[i])
      <4> DEFINE h == Patch(tracker.history, batch[i], r)
      <4>1. [tracker EXCEPT !.history = h].history = h
        BY <1>2 DEF Trackers
      <4>2. r # "pending"
        BY StepsAssumption
      <4>3. Matched(h, batch, sl, Len(batch))
        BY <1>2, <1>4, <2>1, <4>2, MatchedSettles
      <4> HIDE DEF h
      <4>4. RecordOutcome(tracker, batch[i], r).history = h
        BY <4>1 DEF RecordOutcome, h
      <4> QED
        BY <3>2, <4>3, <4>4
    <3> QED
      BY <3>1, <3>2
  <2>3. \A j \in 1..Len(batch) : sl[j] \in Waiting => tl[j] \in Waiting
    BY <1>4, <1>6 DEF Dispatched, Launch, Waiting
  <2> HIDE DEF tl, tr
  <2> QED
    BY <1>2, <1>3, <2>2, <2>3, MatchedKept, TrackerFacts
<1> HIDE DEF sl, tl, tr
<1> QED
  BY <1>1, <1>3, <1>5, <1>6, ProceedPending

LEMMA CallThrowsPending ==
    ASSUME IInv, NEW i \in DOMAIN slot, CallThrows(i)
    PROVE  PendingInv'
<1> DEFINE sl == [slot EXCEPT ![i] = "thrown"]
<1>1. /\ phase \in {"groups", "tail"} /\ aborted
      /\ IF ClassOf(batch[i]) = "pure_read" THEN Proceed(Skip(batch, sl), tracker) ELSE CancelStep(sl)
  BY DEF CallThrows
<1>2. slot \in [1..Len(batch) -> Slots] /\ tracker \in Trackers
  BY BatchFacts DEF IInv
<1>3. Skip(batch, sl) \in [1..Len(batch) -> Slots]
  <2>1. sl \in [1..Len(batch) -> Slots]
    BY <1>2, SlotMarks
  <2> HIDE DEF sl
  <2> QED
    BY <2>1, SlotMarks DEF Skip, Unrun
<1> HIDE DEF sl
<1>4. CASE ClassOf(batch[i]) = "pure_read"
  BY <1>1, <1>2, <1>3, <1>4, ProceedPending
<1>5. CASE ClassOf(batch[i]) # "pure_read"
  BY <1>1, <1>5, EndTurnPending DEF CancelStep
<1> QED
  BY <1>4, <1>5

LEMMA StepPending == IInv /\ PendingInv /\ [Next]_vars => PendingInv'
<1> SUFFICES ASSUME IInv, PendingInv, [Next]_vars PROVE PendingInv'
  OBVIOUS
<1>1. CASE StartTurn \/ BeginStep
  BY <1>1, SamePending DEF StartTurn, BeginStep
<1>2. CASE LeaveLoop
  BY <1>2, EndTurnPending DEF LeaveLoop
<1>3. CASE \E e \in Emissions, planMode \in BOOLEAN : Emit(e, planMode)
  BY <1>3, EmitPending
<1>4. CASE \E i \in DOMAIN slot : (\E r \in Results : CallReturns(i, r)) \/ CallThrows(i)
  BY <1>4, CallReturnsPending, CallThrowsPending
<1>5. CASE Abort \/ GhostSettles \/ UNCHANGED vars
  BY <1>5, SamePending DEF Abort, GhostSettles, vars
<1> QED
  BY <1>1, <1>2, <1>3, <1>4, <1>5, NothingToWaitForPending DEF Next

\* Between steps the ring holds an outcome of every call it shows.
LEMMA PendingsAreWhole == IInv /\ PendingInv => StepsAreWhole
<1> SUFFICES ASSUME IInv, PendingInv, phase \in {"think", "infer"}, NEW i \in DOMAIN tracker.history,
                    tracker.history[i].out = "pending"
             PROVE  FALSE
  BY DEF IInv, GhostsCut, StepsAreWhole
<1> DEFINE h == tracker.history
<1>1. h \in Rings /\ batch = <<>> /\ Matched(h, batch, slot, 0)
  BY TrackerFacts DEF IInv, BatchInv, PendingInv
<1> HIDE DEF h
<1>2. \A c \in Calls \cup {NoCall} : Pending(h, c) = {}
  BY <1>1, NothingPending
<1>3. Len(h) - i \in Within(h) /\ FromEnd(h, Len(h) - i) = h[i] /\ FromEnd(h, Len(h) - i) \in Entries
  BY <1>1, FromEndFacts DEF h
<1>4. h[i].call \in Calls \cup {NoCall} /\ h[i] = Mark(h[i].call)
  BY <1>3 DEF Entries, Mark, h
<1>5. Len(h) - i \in Pending(h, h[i].call)
  BY <1>3, <1>4 DEF Pending
<1> QED
  BY <1>2, <1>4, <1>5

\* A step that is recorded is whole.
THEOREM StepsWhole == Spec => []StepsAreWhole
BY InitPending, StepPending, PendingsAreWhole, Invariance, PTL DEF Spec

-----------------------------------------------------------------------------
(* Steps of one call, the same in each.                                    *)

Lulls == [batch : Seq(Calls), slot : Seq(Slots), runs : Nat, vetoes : Nat]

\* The newest n + v entries of the ring are of call c, vetoed or answered with
\* o, which n of them are.
Repeated(h, c, n, v, o) ==
    /\ \A d \in Nat : d < n + v =>
        d \in Within(h) /\ FromEnd(h, d).call = c /\ FromEnd(h, d).out \in {o, "vetoed"}
    /\ \E D \in [1..n -> Nat] :
        /\ \A j \in 1..n : D[j] < n + v /\ FromEnd(h, D[j]) = [call |-> c, out |-> o]
        /\ \A j, k \in 1..n : j < k => D[j] < D[k]

\* What a lull of a single call comes to, and what the tracker has of it.
Lone(tr, L) == Len(L.batch) = 1 =>
    /\ L.runs <= Critical /\ L.vetoes <= BreakerStreak
    /\ L.slot[1] \in Outs \ {"pending"} /\ (L.runs > 0 => L.slot[1] # "vetoed")
    /\ L.vetoes > 0 => tr.vetoCall = L.batch[1] /\ tr.vetoCount >= L.vetoes
    /\ Repeated(tr.history, L.batch[1], L.runs, L.vetoes, L.slot[1])

\* The ring has room for all the repeats of one call and their vetoes.
Roomy == Critical + BreakerStreak <= HistorySize

\* Nothing repeated, nothing to find.
LEMMA NeverRepeated == ASSUME NEW h, NEW c, NEW o PROVE Repeated(h, c, 0, 0, o)
<1> DEFINE D == [j \in 1..0 |-> 0]
<1>1. D \in [1..0 -> Nat] /\ \A j \in 1..0 : FALSE
  OBVIOUS
<1>2. \A d \in Nat : ~(d < 0 + 0)
  OBVIOUS
<1> QED
  BY <1>1, <1>2 DEF Repeated

\* One more step with an answer, or with a veto.
LEMMA RepeatedPush ==
    ASSUME NEW h \in Rings, NEW c \in Calls, NEW n \in Nat, NEW v \in Nat, NEW o \in Outs,
           n + v < HistorySize, Repeated(h, c, n, v, o)
    PROVE  /\ Repeated(Push(h, [call |-> c, out |-> o]), c, n + 1, v, o)
           /\ Repeated(Push(h, [call |-> c, out |-> "vetoed"]), c, n, v + 1, o)
<1> DEFINE k == n + v
<1>1. PICK D \in [1..n -> Nat] :
        /\ \A j \in 1..n : D[j] < k /\ FromEnd(h, D[j]) = [call |-> c, out |-> o]
        /\ \A i, j \in 1..n : i < j => D[i] < D[j]
  BY DEF Repeated
<1>2. \A d \in Nat : d < k =>
        d \in Within(h) /\ FromEnd(h, d).call = c /\ FromEnd(h, d).out \in {o, "vetoed"}
  BY DEF Repeated
<1>3. k \in Nat /\ k < HistorySize /\ HistorySize \in Nat /\ (n + 1) + v = k + 1 /\ n + (v + 1) = k + 1
  BY TrackerAssumption
<1> HIDE DEF k
<1>4. ASSUME NEW x \in {o, "vetoed"}, NEW g, g = Push(h, [call |-> c, out |-> x])
      PROVE  /\ FromEnd(g, 0) = [call |-> c, out |-> x]
             /\ \A d \in Nat : d < k => FromEnd(g, d + 1) = FromEnd(h, d)
             /\ \A d \in Nat : d < k + 1 =>
                   d \in Within(g) /\ FromEnd(g, d).call = c /\ FromEnd(g, d).out \in {o, "vetoed"}
  <2>1. [call |-> c, out |-> x] \in Entries
    BY DEF Entries, Outs
  <2>2. /\ 0 \in Within(g) /\ FromEnd(g, 0) = [call |-> c, out |-> x]
        /\ \A d \in Within(h) : d + 1 < HistorySize =>
              d + 1 \in Within(g) /\ FromEnd(g, d + 1) = FromEnd(h, d)
    BY <1>4, <2>1, PushFromEnd
  <2>3. ASSUME NEW d \in Nat, d < k
        PROVE  d + 1 \in Within(g) /\ FromEnd(g, d + 1) = FromEnd(h, d)
    <3>1. d \in Within(h) /\ d + 1 < HistorySize
      BY <1>2, <1>3, <2>3
    <3> QED
      BY <2>2, <3>1
  <2>4. ASSUME NEW d \in Nat, d < k + 1
        PROVE  d \in Within(g) /\ FromEnd(g, d).call = c /\ FromEnd(g, d).out \in {o, "vetoed"}
    <3>1. CASE d = 0
      BY <2>2, <3>1
    <3>2. CASE d # 0
      <4>1. d - 1 \in Nat /\ d - 1 < k /\ (d - 1) + 1 = d
        BY <1>3, <2>4, <3>2
      <4>2. d \in Within(g) /\ FromEnd(g, d) = FromEnd(h, d - 1)
        BY <2>3, <4>1
      <4> QED
        BY <1>2, <4>1, <4>2
    <3> QED
      BY <3>1, <3>2
  <2> QED
    BY <2>2, <2>3, <2>4
<1>5. ASSUME NEW g, g = Push(h, [call |-> c, out |-> o])
      PROVE  Repeated(g, c, n + 1, v, o)
  <2>1. /\ FromEnd(g, 0) = [call |-> c, out |-> o]
        /\ \A d \in Nat : d < k => FromEnd(g, d + 1) = FromEnd(h, d)
        /\ \A d \in Nat : d < k + 1 =>
              d \in Within(g) /\ FromEnd(g, d).call = c /\ FromEnd(g, d).out \in {o, "vetoed"}
    BY <1>4, <1>5
  <2> DEFINE F == [j \in 1..(n + 1) |-> IF j = 1 THEN 0 ELSE D[j - 1] + 1]
  <2>2. \A j \in 1..(n + 1) : j # 1 => j - 1 \in 1..n /\ D[j - 1] \in Nat
    OBVIOUS
  <2>3. F \in [1..(n + 1) -> Nat] /\ \A j \in 1..(n + 1) : F[j] = IF j = 1 THEN 0 ELSE D[j - 1] + 1
    BY <2>2
  <2> HIDE DEF F
  <2>4. ASSUME NEW j \in 1..(n + 1)
        PROVE  F[j] < k + 1 /\ FromEnd(g, F[j]) = [call |-> c, out |-> o]
    <3>1. CASE j = 1
      BY <1>3, <2>1, <2>3, <3>1
    <3>2. CASE j # 1
      <4>1. j - 1 \in 1..n /\ D[j - 1] \in Nat /\ F[j] = D[j - 1] + 1
        BY <2>2, <2>3, <3>2
      <4>2. D[j - 1] < k /\ FromEnd(h, D[j - 1]) = [call |-> c, out |-> o]
        BY <1>1, <4>1
      <4> QED
        BY <1>3, <2>1, <4>1, <4>2
    <3> QED
      BY <3>1, <3>2
  <2>5. ASSUME NEW i \in 1..(n + 1), NEW j \in 1..(n + 1), i < j PROVE F[i] < F[j]
    <3>1. j # 1 /\ j - 1 \in 1..n /\ D[j - 1] \in Nat /\ F[j] = D[j - 1] + 1
      BY <2>2, <2>3, <2>5
    <3>2. CASE i = 1
      BY <2>3, <3>1, <3>2
    <3>3. CASE i # 1
      <4>1. i - 1 \in 1..n /\ D[i - 1] \in Nat /\ F[i] = D[i - 1] + 1 /\ i - 1 < j - 1
        BY <2>2, <2>3, <2>5, <3>3
      <4>2. D[i - 1] < D[j - 1]
        BY <1>1, <3>1, <4>1
      <4> QED
        BY <3>1, <4>1, <4>2
    <3> QED
      BY <3>2, <3>3
  <2> QED
    BY <1>3, <2>1, <2>3, <2>4, <2>5 DEF Repeated
<1>6. ASSUME NEW g, g = Push(h, [call |-> c, out |-> "vetoed"])
      PROVE  Repeated(g, c, n, v + 1, o)
  <2>1. /\ \A d \in Nat : d < k => FromEnd(g, d + 1) = FromEnd(h, d)
        /\ \A d \in Nat : d < k + 1 =>
              d \in Within(g) /\ FromEnd(g, d).call = c /\ FromEnd(g, d).out \in {o, "vetoed"}
    BY <1>4, <1>6
  <2> DEFINE F == [j \in 1..n |-> D[j] + 1]
  <2>2. F \in [1..n -> Nat] /\ \A j \in 1..n : F[j] = D[j] + 1 /\ D[j] \in Nat
    OBVIOUS
  <2> HIDE DEF F
  <2>3. ASSUME NEW j \in 1..n
        PROVE  F[j] < k + 1 /\ FromEnd(g, F[j]) = [call |-> c, out |-> o]
    <3>1. D[j] < k /\ FromEnd(h, D[j]) = [call |-> c, out |-> o]
      BY <1>1
    <3> QED
      BY <1>3, <2>1, <2>2, <3>1
  <2>4. \A i, j \in 1..n : i < j => F[i] < F[j]
    BY <1>1, <2>2
  <2> QED
    BY <1>3, <2>1, <2>2, <2>3, <2>4 DEF Repeated
<1> QED
  BY <1>5, <1>6

\* A call that ran that often has a streak of as much.
LEMMA RepeatedStreak ==
    ASSUME NEW h \in Rings, NEW c \in Calls, NEW n \in Nat \ {0}, NEW v \in Nat,
           NEW o \in Outs \ {"pending", "vetoed"}, Repeated(h, c, n, v, o)
    PROVE  Streak(h, c) \in Nat /\ n <= Streak(h, c)
<1> DEFINE W == n + v
<1>1. PICK D \in [1..n -> Nat] :
        /\ \A j \in 1..n : D[j] < W /\ FromEnd(h, D[j]) = [call |-> c, out |-> o]
        /\ \A i, j \in 1..n : i < j => D[i] < D[j]
  BY DEF Repeated
<1>2. \A d \in Nat : d < W =>
        d \in Within(h) /\ FromEnd(h, d).call = c /\ FromEnd(h, d).out \in {o, "vetoed"}
  BY DEF Repeated
<1>3. W \in Nat /\ \A d \in Within(h) : d \in Nat
  BY FromEndFacts
<1> HIDE DEF W
<1>4. D \in [1..n -> Within(h)]
  BY <1>1, <1>2
<1>5. ASSUME NEW j \in 1..n
      PROVE  0 <= D[j] /\ D[j] < 0 + j * W /\ FromEnd(h, D[j]) = [call |-> c, out |-> o]
  <2>1. 1 \in 0..j /\ j \in Nat /\ 1 * W = W
    BY <1>3
  <2> DEFINE p == j * W
  <2>2. W <= p /\ p \in Nat
    BY <1>3, <2>1, Multiples
  <2>3. D[j] \in Nat /\ D[j] < W /\ FromEnd(h, D[j]) = [call |-> c, out |-> o]
    BY <1>1
  <2> HIDE DEF p
  <2>4. 0 <= D[j] /\ D[j] < 0 + p
    BY <1>3, <2>2, <2>3
  <2> QED
    BY <2>3, <2>4 DEF p
<1>6. ASSUME NEW j \in 1..n, NEW d \in Within(h), d <= D[j], Answered(FromEnd(h, d))
      PROVE  FromEnd(h, d).out = o
  <2>1. d \in Nat /\ D[j] \in Nat /\ D[j] < W
    BY <1>1, <1>3
  <2>2. d < W
    BY <1>3, <1>6, <2>1
  <2> QED
    BY <1>2, <1>6, <2>1, <2>2 DEF Answered
<1>7. Traces(W, h, 0, c, n, o)
  BY <1>1, <1>4, <1>5, <1>6 DEF Traces
<1>8. \A d \in Within(h) : ~(d < 0)
  BY <1>3
<1> QED
  BY <1>7, <1>8, StreakAtLeast

LEMMA LullFacts ==
    ASSUME NEW L \in Lulls
    PROVE  /\ L.runs \in Nat /\ L.vetoes \in Nat
           /\ L.batch \in Seq(Calls) /\ L.slot \in Seq(Slots)
           /\ [L EXCEPT !.runs = @ + 1] = [L EXCEPT !.runs = L.runs + 1]
           /\ [L EXCEPT !.vetoes = @ + 1] = [L EXCEPT !.vetoes = L.vetoes + 1]
           /\ \A n : /\ [L EXCEPT !.runs = n].runs = n
                     /\ [L EXCEPT !.runs = n].vetoes = L.vetoes
                     /\ [L EXCEPT !.runs = n].batch = L.batch
                     /\ [L EXCEPT !.runs = n].slot = L.slot
                     /\ [L EXCEPT !.vetoes = n].vetoes = n
                     /\ [L EXCEPT !.vetoes = n].runs = L.runs
                     /\ [L EXCEPT !.vetoes = n].batch = L.batch
                     /\ [L EXCEPT !.vetoes = n].slot = L.slot
           /\ \A n \in Nat : [L EXCEPT !.runs = n] \in Lulls /\ [L EXCEPT !.vetoes = n] \in Lulls
BY DEF Lulls

\* The call is vetoed once more, and the turn goes on.
LEMMA LoneVetoed ==
    ASSUME Roomy, NEW tr \in Trackers, NEW L \in Lulls, NEW c \in Calls,
           Len(L.batch) = 1, L.batch[1] = c,
           Lone(tr, L), ~Forces(tr, c)
    PROVE  Lone(RecordVeto(RecordCall(tr, c), c), [L EXCEPT !.vetoes = @ + 1])
<1> DEFINE h == tr.history
           mark == [call |-> c, out |-> "pending"]
           seen == RecordCall(tr, c)
           after == RecordVeto(seen, c)
           M == [L EXCEPT !.vetoes = L.vetoes + 1]
           o == L.slot[1]
<1>1. /\ L.runs \in Nat /\ L.vetoes \in Nat
      /\ M.runs = L.runs /\ M.vetoes = L.vetoes + 1 /\ M.batch = L.batch /\ M.slot = L.slot
      /\ [L EXCEPT !.vetoes = @ + 1] = M
  BY LullFacts
<1> HIDE DEF M
<1>2. /\ L.runs <= Critical /\ L.vetoes <= BreakerStreak
      /\ o \in Outs \ {"pending"} /\ (L.runs > 0 => o # "vetoed")
      /\ L.vetoes > 0 => tr.vetoCall = c /\ tr.vetoCount >= L.vetoes
      /\ Repeated(h, c, L.runs, L.vetoes, o)
  BY DEF Lone
<1>3. tr.vetoCount \in Nat /\ h \in Rings /\ BreakerStreak \in Nat \ {0} /\ Critical \in Nat
      /\ HistorySize \in Nat
  BY TrackerFacts, TrackerAssumption
<1>4. L.vetoes < BreakerStreak
  <2>1. ~BreakerTripped(tr, c)
    BY DEF Forces
  <2> QED
    BY <1>1, <1>2, <1>3, <2>1 DEF BreakerTripped
<1>5. seen.history = Push(h, mark) /\ seen.vetoCall = tr.vetoCall /\ seen.vetoCount = tr.vetoCount
  <2>1. [tr EXCEPT !.history = Push(h, mark)].history = Push(h, mark)
    BY DEF Trackers
  <2> QED
    BY <2>1, RecordingKeepsTracker DEF RecordCall
<1>6. o \in Outs
  BY <1>2
<1> HIDE DEF seen, o
<1>7. after.history = Push(h, [call |-> c, out |-> "vetoed"])
  BY <1>3, <1>5, PatchPushed DEF RecordVeto, Outs
<1>8. after.vetoCall = c /\ after.vetoCount = IF tr.vetoCall = c THEN tr.vetoCount + 1 ELSE 1
  BY <1>5 DEF RecordVeto
<1> HIDE DEF after, h
<1>9. L.runs + L.vetoes < HistorySize
  BY <1>1, <1>2, <1>3, <1>4 DEF Roomy
<1>10. Repeated(after.history, c, L.runs, L.vetoes + 1, o)
  BY <1>1, <1>2, <1>3, <1>6, <1>7, <1>9, RepeatedPush
<1>11. after.vetoCount >= L.vetoes + 1
  BY <1>1, <1>2, <1>3, <1>8
<1>12. L.vetoes + 1 <= BreakerStreak
  BY <1>1, <1>3, <1>4
<1>13. Lone(after, M)
  BY <1>1, <1>2, <1>8, <1>10, <1>11, <1>12 DEF Lone, o
<1> QED
  BY <1>1, <1>13 DEF after, seen

\* The call runs once more, or is answered at once.
LEMMA LoneRan ==
    ASSUME Roomy, NEW tr \in Trackers, NEW L \in Lulls, NEW c \in Calls,
           Len(L.batch) = 1, L.batch[1] = c, L.slot[1] \in Outs \ {"pending", "vetoed"},
           Lone(tr, L), ~Vetoes(tr, c)
    PROVE  Lone(RecordOutcome(RecordCall(tr, c), c, L.slot[1]), [L EXCEPT !.runs = @ + 1])
<1> DEFINE h == tr.history
           mark == [call |-> c, out |-> "pending"]
           seen == RecordCall(tr, c)
           o == L.slot[1]
           after == RecordOutcome(seen, c, o)
           M == [L EXCEPT !.runs = L.runs + 1]
<1>1. /\ L.runs \in Nat /\ L.vetoes \in Nat
      /\ M.runs = L.runs + 1 /\ M.vetoes = L.vetoes /\ M.batch = L.batch /\ M.slot = L.slot
      /\ [L EXCEPT !.runs = @ + 1] = M
  BY LullFacts
<1> HIDE DEF M
<1>2. /\ L.runs <= Critical /\ L.vetoes <= BreakerStreak
      /\ L.vetoes > 0 => tr.vetoCall = c /\ tr.vetoCount >= L.vetoes
      /\ Repeated(h, c, L.runs, L.vetoes, o)
  BY DEF Lone
<1>3. tr.vetoCount \in Nat /\ h \in Rings /\ BreakerStreak \in Nat \ {0} /\ Critical \in Nat \ {0, 1}
      /\ HistorySize \in Nat
  BY TrackerFacts, TrackerAssumption
<1>4. o \in Outs \ {"pending", "vetoed"}
  OBVIOUS
<1> HIDE DEF o, h
<1>5. L.runs < Critical
  <2> SUFFICES ASSUME L.runs = Critical PROVE FALSE
    BY <1>1, <1>2, <1>3
  <2>1. Streak(h, c) \in Nat /\ L.runs <= Streak(h, c)
    BY <1>1, <1>2, <1>3, <1>4, RepeatedStreak
  <2> QED
    BY <1>3, <2>1 DEF Vetoes, h
<1>6. seen.history = Push(h, mark) /\ seen.vetoCall = tr.vetoCall /\ seen.vetoCount = tr.vetoCount
      /\ seen \in Trackers
  <2>1. [tr EXCEPT !.history = Push(h, mark)].history = Push(h, mark)
    BY DEF Trackers
  <2> QED
    BY <2>1, RecordingKeepsTracker DEF RecordCall, h
<1> HIDE DEF seen
<1>7. Patch(seen.history, c, o) = Push(h, [call |-> c, out |-> o])
  BY <1>3, <1>4, <1>6, PatchPushed
<1>8. /\ after.history = Push(h, [call |-> c, out |-> o])
      /\ tr.vetoCall = c => after.vetoCall = c /\ after.vetoCount = tr.vetoCount
  <2> DEFINE k == Push(h, [call |-> c, out |-> o])
  <2>1. /\ [seen EXCEPT !.history = k].history = k
        /\ [seen EXCEPT !.history = k].vetoCall = tr.vetoCall
        /\ [seen EXCEPT !.history = k].vetoCount = tr.vetoCount
    BY <1>6 DEF Trackers
  <2> HIDE DEF k
  <2>2. after = IF tr.vetoCall \in {NoCall, c} THEN [seen EXCEPT !.history = k]
                ELSE [history |-> k, vetoCall |-> NoCall, vetoCount |-> 0]
    BY <1>6, <1>7 DEF RecordOutcome, k
  <2>3. after.history = k /\ (tr.vetoCall = c => after.vetoCall = c /\ after.vetoCount = tr.vetoCount)
    BY <2>1, <2>2
  <2> QED
    BY <2>3 DEF k
<1> HIDE DEF after
<1>9. L.runs + L.vetoes < HistorySize
  BY <1>1, <1>2, <1>3, <1>5 DEF Roomy
<1>10. Repeated(after.history, c, L.runs + 1, L.vetoes, o)
  <2>1. o \in Outs
    BY <1>4
  <2>2. Repeated(Push(h, [call |-> c, out |-> o]), c, L.runs + 1, L.vetoes, o)
    BY <1>1, <1>2, <1>3, <1>9, <2>1, RepeatedPush
  <2> QED
    BY <1>8, <2>2
<1>11. L.runs + 1 <= Critical
  BY <1>1, <1>3, <1>5
<1>12. Lone(after, M)
  BY <1>1, <1>2, <1>4, <1>8, <1>10, <1>11 DEF Lone, o
<1> QED
  BY <1>1, <1>12 DEF after, seen, o

\* The empty lull says nothing of any tracker.
LEMMA NoLullIsLone == NoLull \in Lulls /\ Len(NoLull.batch) = 0 /\ \A tr : Lone(tr, NoLull)
<1>1. NoLull \in Lulls /\ NoLull.batch = <<>>
  BY DEF NoLull, Lulls
<1> QED
  BY <1>1 DEF Lone

\* The lull a step is counted in, before it is.
Before(b, sl) == IF GoesOn(b, sl) THEN lull ELSE [NoLull EXCEPT !.batch = b, !.slot = sl]

LEMMA BeforeFacts ==
    ASSUME lull \in Lulls, Lone(tracker, lull), NEW b \in Seq(Calls), Len(b) = 1,
           NEW sl \in [1..1 -> Slots], sl[1] \in Outs \ {"pending"}
    PROVE  /\ Before(b, sl) \in Lulls /\ Before(b, sl).batch = b /\ Lone(tracker, Before(b, sl))
           /\ Before(b, sl).slot[1] = sl[1] \/ sl[1] = "vetoed"
<1> DEFINE fresh == [batch |-> b, slot |-> sl, runs |-> 0, vetoes |-> 0]
<1>1. DOMAIN b = {1} /\ b = <<b[1]>>
  OBVIOUS
<1>2. CASE GoesOn(b, sl)
  <2>1. Before(b, sl) = lull /\ lull.batch = b /\ sl[1] \in {"vetoed", lull.slot[1]}
    BY <1>1, <1>2 DEF Before, GoesOn
  <2> QED
    BY <1>2, <2>1
<1>3. CASE ~GoesOn(b, sl)
  <2>1. Before(b, sl) = fresh
    BY <1>3 DEF Before, NoLull
  <2>2. sl \in Seq(Slots)
    BY SlotsAreSeq
  <2>3. fresh \in Lulls
    BY <2>2 DEF Lulls
  <2>4. Lone(tracker, fresh)
    BY NeverRepeated, TrackerAssumption DEF Lone
  <2> QED
    BY <2>1, <2>3, <2>4
<1> QED
  BY <1>2, <1>3

\* The slot of a lull is an outcome the ring can show, where it has counted.
LEMMA CountedSlot ==
    ASSUME lull \in Lulls, NEW b \in Seq(Calls), Len(b) = 1, NEW sl \in [1..1 -> Slots]
    PROVE  InLull(b, sl) \in Lulls
           /\ (sl[1] = "refused" => InLull(b, sl) = NoLull)
           /\ (sl[1] = "vetoed" => InLull(b, sl) = [Before(b, sl) EXCEPT !.vetoes = @ + 1])
           /\ (sl[1] \notin {"refused", "vetoed"} => InLull(b, sl) = [Before(b, sl) EXCEPT !.runs = @ + 1])
<1>1. DOMAIN b = {1} /\ DOMAIN sl = {1}
  OBVIOUS
<1>2. AllVetoed(sl) <=> sl[1] = "vetoed"
  BY <1>1 DEF AllVetoed
<1>3. (\E i \in DOMAIN b : sl[i] = "refused") <=> sl[1] = "refused"
  BY <1>1
<1>4. Before(b, sl) \in Lulls
  <2>1. sl \in Seq(Slots)
    BY SlotsAreSeq
  <2> QED
    BY <2>1 DEF Before, NoLull, Lulls
<1>5. /\ [Before(b, sl) EXCEPT !.vetoes = @ + 1] \in Lulls
      /\ [Before(b, sl) EXCEPT !.runs = @ + 1] \in Lulls
  <2> DEFINE L == Before(b, sl)
  <2> HIDE DEF L
  <2>1. L \in Lulls
    BY <1>4 DEF L
  <2>2. L.runs + 1 \in Nat /\ L.vetoes + 1 \in Nat
    BY <2>1, LullFacts
  <2>3. [L EXCEPT !.vetoes = @ + 1] \in Lulls /\ [L EXCEPT !.runs = @ + 1] \in Lulls
    BY <2>1, <2>2, LullFacts
  <2> QED
    BY <2>3 DEF L
<1> QED
  BY <1>2, <1>3, <1>5, NoLullIsLone DEF InLull, Before

\* The step of a veto and the step of an answer, counted.
LEMMA StepCounted ==
    ASSUME Roomy, tracker \in Trackers, lull \in Lulls, Lone(tracker, lull),
           NEW b \in Seq(Calls), Len(b) = 1, NEW sl \in [1..1 -> Slots]
    PROVE  /\ sl[1] = "refused" => \A tr : Lone(tr, InLull(b, sl))
           /\ sl[1] = "vetoed" /\ ~Forces(tracker, b[1]) =>
                Lone(RecordVeto(RecordCall(tracker, b[1]), b[1]), InLull(b, sl))
           /\ sl[1] \in Results \cup {"answered"} /\ ~Vetoes(tracker, b[1]) =>
                Lone(RecordOutcome(RecordCall(tracker, b[1]), b[1], sl[1]), InLull(b, sl))
<1> DEFINE L == Before(b, sl)
           c == b[1]
<1>1. c \in Calls
  OBVIOUS
<1> HIDE DEF L, c
<1>2. CASE sl[1] = "refused"
  BY <1>2, CountedSlot, NoLullIsLone
<1>3. ASSUME sl[1] = "vetoed", ~Forces(tracker, c)
      PROVE  Lone(RecordVeto(RecordCall(tracker, c), c), InLull(b, sl))
  <2>1. sl[1] \in Outs \ {"pending"}
    BY <1>3 DEF Outs
  <2>2. L \in Lulls /\ L.batch = b /\ Lone(tracker, L)
    BY <2>1, BeforeFacts DEF L
  <2>3. InLull(b, sl) = [L EXCEPT !.vetoes = @ + 1]
    BY <1>3, CountedSlot DEF L
  <2>4. Lone(RecordVeto(RecordCall(tracker, c), c), [L EXCEPT !.vetoes = @ + 1])
    BY <1>1, <1>3, <2>2, LoneVetoed DEF c
  <2> QED
    BY <2>3, <2>4
<1>4. ASSUME sl[1] \in Results \cup {"answered"}, ~Vetoes(tracker, c)
      PROVE  Lone(RecordOutcome(RecordCall(tracker, c), c, sl[1]), InLull(b, sl))
  <2>1. sl[1] \in Outs \ {"pending", "vetoed"} /\ sl[1] \notin {"refused", "vetoed"}
    BY <1>4, StepsAssumption DEF Outs, Unrun
  <2>2. L \in Lulls /\ L.batch = b /\ Lone(tracker, L) /\ L.slot[1] = sl[1]
    BY <2>1, BeforeFacts DEF L
  <2>3. InLull(b, sl) = [L EXCEPT !.runs = @ + 1]
    BY <2>1, CountedSlot DEF L
  <2>4. Lone(RecordOutcome(RecordCall(tracker, c), c, L.slot[1]), [L EXCEPT !.runs = @ + 1])
    BY <1>1, <1>4, <2>1, <2>2, LoneRan DEF c
  <2> QED
    BY <2>2, <2>3, <2>4
<1> QED
  BY <1>2, <1>3, <1>4, StepsAssumption DEF c, Unrun

\* What the step of a single call comes to, when it settles as its slot shows
\* or will.
Settles(tr, b, sl) ==
    /\ sl[1] \notin Waiting => Lone(tr, InLull(b, sl))
    /\ sl[1] \in Waiting => \A r \in Results, tl \in [1..1 -> Slots] :
           tl[1] = r => Lone(RecordOutcome(tr, b[1], r), InLull(b, tl))

\* The gate leaves a single call counted, or let through to be counted.
LEMMA GateSettles ==
    ASSUME Roomy, tracker \in Trackers, Vetoing(tracker, FALSE), lull \in Lulls, Lone(tracker, lull),
           NEW b \in Seq(Calls) \ {<<>>}, Len(b) = 1, ~Terminal(b[1]), NEW planMode \in BOOLEAN,
           ~Gate(b, planMode).breaker
    PROVE  Settles(Gate(b, planMode).tracker, b, Gate(b, planMode).slot)
<1> DEFINE c == b[1]
           g == Ungated(b)
           after == Gate(b, planMode)
           seen == RecordCall(tracker, c)
<1>1. PICK gated :
          /\ Gate(b, planMode) = gated[Len(b)]
          /\ gated[0] = Ungated(b)
          /\ \A n \in 0..Len(b) : gated[n] \in GateStates(b)
          /\ \A n \in 1..Len(b) : gated[n] = GateCall(gated[n - 1], b, n, planMode)
  BY GateUnfolds
<1>2. 1 \in 1..Len(b) /\ 1 - 1 = 0 /\ 0 \in 0..Len(b) /\ DOMAIN b = 1..1 /\ ~HasTail(b)
  BY DEF HasTail
<1>3. after = GateCall(g, b, 1, planMode) /\ after \in GateStates(b)
  BY <1>1, <1>2, GateFacts
<1>4. g = [slot |-> [i \in 1..1 |-> "queued"], tracker |-> tracker, breaker |-> FALSE]
  BY <1>2 DEF Ungated
<1>5. g.tracker = tracker /\ g.breaker = FALSE /\ g.slot[1] = "queued" /\ DOMAIN g.slot = 1..1
  BY <1>4
<1>6. c \in Calls /\ after.slot \in [1..1 -> Slots]
  BY <1>3, SlotMarks DEF GateStates
<1> HIDE DEF after, g, seen
<1>7. ASSUME NEW sl \in [1..1 -> Slots]
      PROVE  /\ sl[1] = "refused" => \A tr : Lone(tr, InLull(b, sl))
             /\ sl[1] = "vetoed" /\ ~Forces(tracker, c) => Lone(RecordVeto(seen, c), InLull(b, sl))
             /\ sl[1] \in Results \cup {"answered"} /\ ~Vetoes(tracker, c) =>
                  Lone(RecordOutcome(seen, c, sl[1]), InLull(b, sl))
  BY StepCounted DEF seen
<1> HIDE DEF c
<1>8. CASE planMode /\ c \in Mutating
  <2>1. after = [g EXCEPT !.slot[1] = "refused"]
    BY <1>2, <1>3, <1>8 DEF GateCall, c
  <2>2. after.slot[1] = "refused"
    BY <1>4, <2>1
  <2> QED
    BY <1>6, <1>7, <2>2 DEF Settles, after, Waiting
<1>9. CASE ~(planMode /\ c \in Mutating) /\ Vetoes(tracker, c)
  <2>1. after = [slot |-> [g.slot EXCEPT ![1] = "vetoed"], tracker |-> RecordVeto(seen, c),
                 breaker |-> g.breaker \/ Forces(tracker, c)]
    BY <1>2, <1>3, <1>5, <1>9 DEF GateCall, c, seen
  <2>2. after.slot[1] = "vetoed" /\ after.tracker = RecordVeto(seen, c) /\ ~Forces(tracker, c)
    <3>1. after.slot = [g.slot EXCEPT ![1] = "vetoed"] /\ after.tracker = RecordVeto(seen, c)
      BY <2>1
    <3>2. after.breaker = (g.breaker \/ Forces(tracker, c))
      BY <2>1
    <3>3. ~after.breaker
      BY DEF after
    <3>4. ~Forces(tracker, c)
      BY <3>2, <3>3, Zenon
    <3>5. after.slot[1] = "vetoed"
      BY <1>5, <3>1
    <3> QED
      BY <3>1, <3>4, <3>5
  <2> QED
    BY <1>6, <1>7, <2>2 DEF Settles, after, Waiting
<1>10. CASE ~(planMode /\ c \in Mutating) /\ ~Vetoes(tracker, c) /\ c \in Views /\ c \in loaded
  <2> DEFINE k == RecordOutcome(seen, c, "answered")
  <2>1. after = [g EXCEPT !.slot[1] = "answered", !.tracker = k]
    BY <1>2, <1>3, <1>5, <1>10 DEF GateCall, c, seen
  <2> HIDE DEF k
  <2>2. after.slot[1] = "answered" /\ after.tracker = k
    BY <1>4, <2>1
  <2>3. Lone(k, InLull(b, after.slot))
    BY <1>6, <1>7, <1>10, <2>2 DEF k
  <2> QED
    BY <2>2, <2>3 DEF Settles, after, Waiting
<1>11. CASE ~(planMode /\ c \in Mutating) /\ ~Vetoes(tracker, c) /\ ~(c \in Views /\ c \in loaded)
  <2>1. after = [g EXCEPT !.tracker = seen]
    BY <1>2, <1>3, <1>5, <1>11 DEF GateCall, c, seen
  <2>2. after.slot[1] = "queued" /\ after.tracker = seen
    BY <1>4, <2>1
  <2>3. \A r \in Results, tl \in [1..1 -> Slots] : tl[1] = r => Lone(RecordOutcome(seen, c, r), InLull(b, tl))
    BY <1>7, <1>11
  <2> QED
    BY <2>2, <2>3 DEF Settles, after, Waiting, c
<1> QED
  BY <1>8, <1>9, <1>10, <1>11 DEF after

\* The latest lull counts what the tracker has in its ring and its vetoes; a
\* single call that is out will count when it settles.
LullInv ==
    /\ lull \in Lulls
    /\ phase = "idle" => lull = NoLull
    /\ phase \in {"think", "infer"} => Lone(tracker, lull)
    /\ phase = "groups" /\ ~aborted /\ Len(batch) = 1 /\ ~Terminal(batch[1]) /\ ~breaker =>
           Settles(tracker, batch, slot)

LEMMA InitLull == Init => LullInv
BY NoLullIsLone DEF Init, LullInv

LEMMA EndTurnLull == ASSUME NEW sl, EndTurn(sl) PROVE LullInv'
<1>1. phase' = "idle" /\ lull' = NoLull
  BY DEF EndTurn
<1> QED
  BY <1>1, NoLullIsLone DEF LullInv

LEMMA StartTurnLull == ASSUME LullInv, StartTurn PROVE LullInv'
<1>1. lull = NoLull /\ lull' = lull /\ phase' = "think" /\ tracker' = tracker
  BY DEF LullInv, StartTurn
<1>2. Lone(tracker, lull)'
  BY <1>1, NoLullIsLone DEF Lone
<1> QED
  BY <1>1, <1>2, NoLullIsLone DEF LullInv

\* Nothing the invariant speaks of changes.
LEMMA SameLull ==
    ASSUME LullInv, UNCHANGED <<tracker, batch, slot, breaker, lull>>, aborted => aborted',
           phase' = phase \/ (phase = "think" /\ phase' = "infer")
    PROVE  LullInv'
<1>1. Lone(tracker, lull) => Lone(tracker, lull)'
  BY DEF Lone
<1>2. Settles(tracker, batch, slot) => Settles(tracker, batch, slot)'
  BY DEF Settles, InLull, GoesOn, AllVetoed
<1> QED
  BY <1>1, <1>2 DEF LullInv

\* The batch arrives.
LEMMA EmitLull ==
    ASSUME Roomy, IInv, LullInv, NEW e \in Emissions, NEW planMode \in BOOLEAN, Emit(e, planMode)
    PROVE  LullInv'
<1> DEFINE b == BatchOf(e)
           g == Gate(b, planMode)
<1>1. /\ phase = "infer" /\ phase' = "groups" /\ batch' = b /\ aborted' = aborted /\ lull' = lull
      /\ Valid(e) \/ Splits(e) \/ Trims(e)
      /\ ~aborted => slot' = Launch(b, g.slot) /\ tracker' = g.tracker /\ breaker' = g.breaker
  BY DEF Emit
<1>2. b \in Seq(Calls) \ {<<>>}
  BY <1>1, BatchIsOK DEF BatchOK
<1>3. tracker \in Trackers /\ Vetoing(tracker, FALSE) /\ lull \in Lulls /\ Lone(tracker, lull)
  BY <1>1 DEF IInv, BatchInv, Vetoing, LullInv
<1> HIDE DEF b
<1>4. ASSUME ~aborted, Len(b) = 1, ~Terminal(b[1]), ~breaker'
      PROVE  Settles(tracker', b, slot')
  <2>1. Settles(g.tracker, b, g.slot) /\ g \in GateStates(b)
    BY <1>1, <1>2, <1>3, <1>4, GateSettles, GateFacts
  <2> HIDE DEF g
  <2>2. g.slot \in [1..1 -> GateMarks]
    BY <1>4, <2>1 DEF GateStates
  <2>3. CASE g.slot[1] \in Waiting
    <3>1. Launch(b, g.slot)[1] \in Waiting
      BY <2>2, <2>3 DEF Launch, Waiting
    <3> QED
      BY <1>1, <1>4, <2>1, <2>3, <3>1 DEF Settles
  <2>4. CASE g.slot[1] \notin Waiting
    <3>1. \A i \in 1..1 : Launch(b, g.slot)[i] = g.slot[i]
      BY <2>2, <2>4 DEF Launch, Waiting
    <3>2. Launch(b, g.slot) = [i \in 1..1 |-> Launch(b, g.slot)[i]]
      BY <2>2 DEF Launch
    <3>3. Launch(b, g.slot) = g.slot
      BY <2>2, <3>1, <3>2
    <3> QED
      BY <1>1, <1>4, <2>1, <3>3
  <2> QED
    BY <2>3, <2>4
<1>5. ~aborted /\ Len(b) = 1 /\ ~Terminal(b[1]) /\ ~breaker' => Settles(tracker, batch, slot)'
  BY <1>1, <1>4 DEF Settles, InLull, GoesOn, AllVetoed
<1> QED
  BY <1>1, <1>3, <1>5 DEF LullInv

LEMMA InLullIsLull ==
    ASSUME lull \in Lulls, NEW b \in Seq(Calls), NEW sl \in Seq(Slots)
    PROVE  InLull(b, sl) \in Lulls /\ (Len(b) # 1 => Len(InLull(b, sl).batch) # 1)
<1>1. PICK L : L = IF GoesOn(b, sl) THEN lull ELSE [NoLull EXCEPT !.batch = b, !.slot = sl]
  OBVIOUS
<1>2. L \in Lulls /\ L.batch = b
  <2>1. CASE GoesOn(b, sl)
    BY <1>1, <2>1 DEF GoesOn
  <2>2. CASE ~GoesOn(b, sl)
    <3>1. L = [batch |-> b, slot |-> sl, runs |-> 0, vetoes |-> 0]
      BY <1>1, <2>2 DEF NoLull
    <3> QED
      BY <3>1 DEF Lulls
  <2> QED
    BY <2>1, <2>2
<1>3. L.runs + 1 \in Nat /\ L.vetoes + 1 \in Nat
  BY <1>2, LullFacts
<1>4. /\ [L EXCEPT !.vetoes = @ + 1] \in Lulls /\ [L EXCEPT !.vetoes = @ + 1].batch = b
      /\ [L EXCEPT !.runs = @ + 1] \in Lulls /\ [L EXCEPT !.runs = @ + 1].batch = b
  BY <1>2, <1>3, LullFacts
<1>5. InLull(b, sl) \in {NoLull, [L EXCEPT !.vetoes = @ + 1], [L EXCEPT !.runs = @ + 1]}
  BY <1>1 DEF InLull
<1>6. NoLull \in Lulls /\ Len(NoLull.batch) # 1
  BY NoLullIsLone
<1>7. CASE InLull(b, sl) = NoLull
  BY <1>6, <1>7
<1>8. CASE InLull(b, sl) # NoLull
  BY <1>4, <1>5, <1>8
<1> QED
  BY <1>7, <1>8

\* The batch goes on, or its step is recorded and counted.
LEMMA ProceedLull ==
    ASSUME IInv, LullInv, NEW sl \in [1..Len(batch) -> Slots], NEW tr \in Trackers,
           phase \in {"groups", "tail"},
           ~aborted /\ Len(batch) = 1 /\ ~Terminal(batch[1]) /\ ~breaker =>
               GroupsOver(sl) /\ Lone(tr, InLull(batch, sl)),
           Proceed(sl, tr)
    PROVE  LullInv'
<1>1. batch \in Seq(Calls) /\ Len(batch) \in Nat /\ sl \in Seq(Slots) /\ lull \in Lulls
  BY BatchFacts, SlotsAreSeq DEF LullInv
<1>2. CASE ~GroupsOver(sl)
  <2>1. UNCHANGED <<phase, aborted, batch, breaker, lull>>
    BY <1>2 DEF Proceed
  <2> QED
    BY <1>1, <1>2, <2>1 DEF LullInv
<1>3. CASE GroupsOver(sl) /\ aborted
  <2>1. EndTurn(sl)
    BY <1>3 DEF Proceed, CancelStep
  <2> QED
    BY <2>1, EndTurnLull
<1>4. CASE GroupsOver(sl) /\ ~aborted /\ Last(sl) = "tail"
  <2>1. phase' = "tail" /\ lull' = lull
    BY <1>4 DEF Proceed
  <2> QED
    BY <1>1, <2>1 DEF LullInv
<1>5. CASE GroupsOver(sl) /\ ~aborted /\ Last(sl) # "tail"
  <2>1. RecordStep(sl, tr)
    BY <1>5 DEF Proceed
  <2>2. CASE Terminal(Last(batch)) \/ breaker
    <3>1. EndTurn(sl)
      BY <2>1, <2>2 DEF RecordStep
    <3> QED
      BY <3>1, EndTurnLull
  <2>3. CASE ~(Terminal(Last(batch)) \/ breaker)
    <3>1. /\ phase' = "think" /\ lull' = InLull(batch, sl)
          /\ tracker' = IF Len(batch) > 1 THEN ObserveComposite(tr) ELSE tr
      BY <2>1, <2>3 DEF RecordStep
    <3>2. lull' \in Lulls /\ (Len(batch) # 1 => Len(lull'.batch) # 1)
      BY <1>1, <3>1, InLullIsLull
    <3>3. CASE Len(batch) = 1
      <4>1. Terminal(Last(batch)) = Terminal(batch[1]) /\ tracker' = tr
        BY <3>1, <3>3 DEF Last
      <4>2. Lone(tr, InLull(batch, sl))
        BY <1>5, <2>3, <3>3, <4>1
      <4>3. Lone(tracker, lull)'
        BY <3>1, <4>1, <4>2 DEF Lone
      <4> QED
        BY <3>1, <3>2, <4>3 DEF LullInv
    <3>4. CASE Len(batch) # 1
      <4>1. Lone(tracker, lull)'
        BY <3>2, <3>4 DEF Lone
      <4> QED
        BY <3>1, <3>2, <4>1 DEF LullInv
    <3> QED
      BY <3>3, <3>4
  <2> QED
    BY <2>2, <2>3
<1> QED
  BY <1>2, <1>3, <1>4, <1>5

LEMMA NothingToWaitForLull == ASSUME IInv, LullInv, NothingToWaitFor PROVE LullInv'
<1>1. phase = "groups" /\ GroupsOver(slot) /\ Proceed(slot, tracker)
  BY DEF NothingToWaitFor
<1>2. slot \in [1..Len(batch) -> Slots] /\ tracker \in Trackers
  BY BatchFacts DEF IInv
<1>3. ASSUME ~aborted, Len(batch) = 1, ~Terminal(batch[1]), ~breaker
      PROVE  Lone(tracker, InLull(batch, slot))
  <2>1. slot[1] \notin Waiting
    BY <1>1, <1>2, <1>3 DEF GroupsOver
  <2> QED
    BY <1>1, <1>3, <2>1 DEF LullInv, Settles
<1> QED
  BY <1>1, <1>2, <1>3, ProceedLull

\* The call settles.
LEMMA CallReturnsLull ==
    ASSUME IInv, LullInv, NEW i \in DOMAIN slot, NEW r \in Results, CallReturns(i, r)
    PROVE  LullInv'
<1> DEFINE sl == [slot EXCEPT ![i] = r]
           tl == IF phase = "groups" THEN Dispatched(sl) ELSE sl
           tr == IF Terminal(batch[i]) THEN tracker ELSE RecordOutcome(tracker, batch[i], r)
<1>1. /\ phase \in {"groups", "tail"} /\ slot[i] = "running" /\ Proceed(tl, tr)
  BY DEF CallReturns
<1>2. /\ batch \in Seq(Calls) /\ Len(batch) \in Nat /\ DOMAIN batch = 1..Len(batch)
      /\ slot \in [1..Len(batch) -> Slots] /\ i \in 1..Len(batch)
      /\ batch[i] \in Calls /\ r \in Outs /\ tracker \in Trackers
  BY BatchFacts DEF IInv, Outs
<1>3. tr \in Trackers
  BY <1>2, OutcomeKeepsTracker
<1>4. sl \in [1..Len(batch) -> Slots] /\ sl[i] = r
  BY <1>2, SlotMarks
<1>5. tl \in [1..Len(batch) -> Slots] /\ tl[i] = r
  <2> HIDE DEF sl
  <2>1. Dispatched(sl) \in [1..Len(batch) -> Slots]
    BY <1>4, SlotMarks DEF Dispatched, Launch, Skip, Unrun
  <2>2. Dispatched(sl)[i] = r
    BY <1>2, <1>4, SlotMarks DEF Dispatched, Launch, Skip, Waiting
  <2> QED
    BY <1>4, <2>1, <2>2
<1>6. ASSUME ~aborted, Len(batch) = 1, ~Terminal(batch[1]), ~breaker
      PROVE  GroupsOver(tl) /\ Lone(tr, InLull(batch, tl))
  <2>1. i = 1 /\ Last(batch) = batch[1]
    BY <1>2, <1>6 DEF Last
  <2>2. phase = "groups"
    BY <1>1, <1>6, <2>1, TailIsTerminal
  <2>3. slot[1] \in Waiting /\ Settles(tracker, batch, slot)
    BY <1>1, <1>6, <2>1, <2>2 DEF LullInv, Waiting
  <2>4. tr = RecordOutcome(tracker, batch[1], r)
    BY <1>6, <2>1
  <2> HIDE DEF tl, tr
  <2>5. Lone(tr, InLull(batch, tl))
    BY <1>5, <1>6, <2>1, <2>3, <2>4 DEF Settles
  <2>6. GroupsOver(tl)
    <3>1. DOMAIN tl = {1} /\ tl[1] = r
      BY <1>5, <1>6, <2>1
    <3> QED
      BY <3>1, SlotMarks DEF GroupsOver
  <2> QED
    BY <2>5, <2>6
<1> HIDE DEF sl, tl, tr
<1> QED
  BY <1>1, <1>3, <1>5, <1>6, ProceedLull

LEMMA CallThrowsLull ==
    ASSUME IInv, LullInv, NEW i \in DOMAIN slot, CallThrows(i)
    PROVE  LullInv'
<1> DEFINE sl == [slot EXCEPT ![i] = "thrown"]
<1>1. /\ phase \in {"groups", "tail"} /\ aborted
      /\ IF ClassOf(batch[i]) = "pure_read" THEN Proceed(Skip(batch, sl), tracker) ELSE CancelStep(sl)
  BY DEF CallThrows
<1>2. slot \in [1..Len(batch) -> Slots] /\ tracker \in Trackers
  BY BatchFacts DEF IInv
<1>3. Skip(batch, sl) \in [1..Len(batch) -> Slots]
  <2>1. sl \in [1..Len(batch) -> Slots]
    BY <1>2, SlotMarks
  <2> HIDE DEF sl
  <2> QED
    BY <2>1, SlotMarks DEF Skip, Unrun
<1> HIDE DEF sl
<1>4. CASE ClassOf(batch[i]) = "pure_read"
  BY <1>1, <1>2, <1>3, <1>4, ProceedLull
<1>5. CASE ClassOf(batch[i]) # "pure_read"
  BY <1>1, <1>5, EndTurnLull DEF CancelStep
<1> QED
  BY <1>4, <1>5

LEMMA StepLull ==
    ASSUME Roomy
    PROVE  IInv /\ LullInv /\ [Next]_vars => LullInv'
<1> SUFFICES ASSUME IInv, LullInv, [Next]_vars PROVE LullInv'
  OBVIOUS
<1>1. CASE StartTurn
  BY <1>1, StartTurnLull
<1>2. CASE BeginStep \/ Abort \/ GhostSettles \/ UNCHANGED vars
  <2>1. /\ UNCHANGED <<tracker, batch, slot, breaker, lull>> /\ (aborted => aborted')
        /\ phase' = phase \/ (phase = "think" /\ phase' = "infer")
    BY <1>2 DEF BeginStep, Abort, GhostSettles, vars
  <2> QED
    BY <2>1, SameLull
<1>3. CASE LeaveLoop
  BY <1>3, EndTurnLull DEF LeaveLoop
<1>4. CASE \E e \in Emissions, planMode \in BOOLEAN : Emit(e, planMode)
  BY <1>4, EmitLull
<1>5. CASE NothingToWaitFor
  BY <1>5, NothingToWaitForLull
<1>6. CASE \E i \in DOMAIN slot : (\E r \in Results : CallReturns(i, r)) \/ CallThrows(i)
  BY <1>6, CallReturnsLull, CallThrowsLull
<1> QED
  BY <1>1, <1>2, <1>3, <1>4, <1>5, <1>6 DEF Next

\* Where the ring holds all the repeats of a call and their vetoes, a turn whose
\* steps are this one call with this one answer runs it at most Critical times
\* and is vetoed at most BreakerStreak times before it has to reply.
THEOREM RepeatsOfOneEnd ==
    ASSUME Critical + BreakerStreak <= HistorySize
    PROVE  Spec => []VetoesEndTurn
<1>1. Roomy
  BY DEF Roomy
<1>2. Init => LullInv
  BY InitLull
<1>3. IInv /\ LullInv /\ [Next]_vars => LullInv'
  BY <1>1, StepLull
<1>4. LullInv => VetoesEndTurn
  BY DEF LullInv, Lone, VetoesEndTurn
<1> QED
  BY <1>2, <1>3, <1>4, Invariance, PTL DEF Spec

=============================================================================
