--------------------------- MODULE TaskRunnerProofs ---------------------------
(***************************************************************************)
(* Theorems about TaskRunner for every set of tasks, processes and drains: *)
(* what a listing returns, that a task has one turn at a time but for      *)
(* recoveries, that attempts are bounded, that rows and turns agree, that  *)
(* what was settled is final, that a tick's drain is watched, and that the *)
(* whole is a lifecycle of tasks.                                          *)
(***************************************************************************)
EXTENDS TaskRunner, FiniteSetTheorems, TLAPS

\* A free slot is idle, a drain runs in a living process, and a group at work
\* has a task to work on.
DrainInv ==
    /\ \A d \in Drains : kind[d] = "free" => \A k \in Sessions : at[d][k] = "idle"
    /\ \A d \in Drains : kind[d] # "free" => owner[d] \in up
    /\ \A d \in Drains, k \in Sessions :
        at[d][k] \in {"ready", "turn", "sleep"} => todo[d][k] # <<>>

\* Recoveries of a live row, which only another process can cause.
Extra(t) == IF Cardinality(Procs) > 1 THEN recovered[t] ELSE 0

\* The turns of a task: none beyond the recoveries while the row could be
\* claimed, and one more while it could not.
Open(t) == row[t].status \in {"absent", "pending"}
TurnsBound == \A t \in Tasks :
    /\ IsFiniteSet(TurnsOf(t))
    /\ Cardinality(TurnsOf(t)) <= Extra(t) + (IF Open(t) THEN 0 ELSE 1)

\* The turns that would still send their row back for another attempt.
LowTurns(t) == {g \in TurnsOf(t) : ~Exhausted(tries[g[1]][g[2]])}

\* Once the budget of a row is spent, what its attempts may still become is
\* paid for by recoveries: each turn that does not know it yet, and a claim
\* that is due, count for one.
AttemptInv == \A t \in Tasks : Exhausted(row[t].attempts) =>
    row[t].attempts + Cardinality(LowTurns(t))
        + (IF row[t].status = "pending" THEN 1 ELSE 0) <= MaxAttempts + recovered[t]

\* The inductive invariant.
IInv ==
    /\ TypeOK
    /\ DrainInv
    /\ TurnsBound
    /\ RowsMatchTurns
    /\ AttemptInv
    /\ TickIsWatched

-----------------------------------------------------------------------------
(* What a listing returns.                                                 *)

\* The elements of S that the relation R has before t.
BeforeIn(S, R, t) == {u \in S : <<u, t>> \in R}

\* A finite strict order ranks its elements: as many ranks as elements.
LEMMA EveryRankIsTaken ==
    ASSUME NEW S, IsFiniteSet(S), NEW R,
           \A a \in S : <<a, a>> \notin R,
           \A a, b, c \in S : <<a, b>> \in R /\ <<b, c>> \in R => <<a, c>> \in R,
           \A a, b \in S : a = b \/ <<a, b>> \in R \/ <<b, a>> \in R,
           NEW n \in 1..Cardinality(S)
    PROVE  \E t \in S : Cardinality(BeforeIn(S, R, t)) = n - 1
<1> DEFINE Before(t) == BeforeIn(S, R, t)
           rank == [t \in S |-> Cardinality(Before(t)) + 1]
<1>1. Cardinality(S) \in Nat
  BY FS_CardinalityType
<1>2. \A t \in S : /\ IsFiniteSet(Before(t))
                   /\ Cardinality(Before(t)) \in Nat
                   /\ Cardinality(Before(t)) < Cardinality(S)
  <2> SUFFICES ASSUME NEW t \in S
               PROVE  /\ IsFiniteSet(Before(t))
                      /\ Cardinality(Before(t)) \in Nat
                      /\ Cardinality(Before(t)) < Cardinality(S)
    OBVIOUS
  <2>1. Before(t) \in SUBSET S /\ Before(t) # S
    BY DEF BeforeIn
  <2> HIDE DEF Before
  <2>2. /\ IsFiniteSet(Before(t))
        /\ Cardinality(Before(t)) <= Cardinality(S)
        /\ Cardinality(S) # Cardinality(Before(t))
    BY <2>1, FS_Subset
  <2> QED
    BY <1>1, <2>2, FS_CardinalityType
<1>3. \A a, b \in S : <<a, b>> \in R => Cardinality(Before(a)) < Cardinality(Before(b))
  <2> SUFFICES ASSUME NEW a \in S, NEW b \in S, <<a, b>> \in R
               PROVE  Cardinality(Before(a)) < Cardinality(Before(b))
    OBVIOUS
  <2>1. Before(a) \in SUBSET Before(b) /\ Before(a) # Before(b)
    BY DEF BeforeIn
  <2>2. IsFiniteSet(Before(b))
    BY <1>2
  <2> HIDE DEF Before
  <2>3. /\ Cardinality(Before(a)) <= Cardinality(Before(b))
        /\ Cardinality(Before(b)) # Cardinality(Before(a))
    BY <2>1, <2>2, FS_Subset
  <2> QED
    BY <1>2, <2>3
<1> HIDE DEF Before
<1>4. rank \in Injection(S, 1..Cardinality(S))
  <2>1. rank \in [S -> 1..Cardinality(S)]
    BY <1>1, <1>2
  <2>2. ASSUME NEW a \in S, NEW b \in S, rank[a] = rank[b] PROVE a = b
    <3>1. Cardinality(Before(a)) = Cardinality(Before(b))
      BY <1>2, <2>2
    <3>2. <<a, b>> \notin R /\ <<b, a>> \notin R
      BY <1>2, <1>3, <3>1
    <3> QED
      BY <3>2
  <2> QED
    BY <2>1, <2>2 DEF Injection, IsInjective
<1>5. IsFiniteSet(1..Cardinality(S)) /\ Cardinality(1..Cardinality(S)) = Cardinality(S)
  BY <1>1, FS_Interval
<1>6. rank \in Surjection(S, 1..Cardinality(S))
  BY <1>4, <1>5, FS_Injection
<1>7. PICK t \in S : rank[t] = n
  BY <1>6 DEF Surjection
<1>8. Cardinality(Before(t)) = n - 1
  BY <1>1, <1>2, <1>7
<1> QED
  BY <1>8 DEF Before

\* listPending and listDue return pending rows of the session, as many as there
\* are.
LEMMA PendingOfLists ==
    ASSUME NEW r, NEW k
    PROVE  /\ DOMAIN PendingOf(r, k) = 1..Cardinality(PendingRows(r, k))
           /\ \A n \in DOMAIN PendingOf(r, k) : PendingOf(r, k)[n] \in PendingRows(r, k)
<1> DEFINE S == PendingRows(r, k)
           R == {p \in S \X S : p[1] < p[2]}
<1>1. S \subseteq Tasks /\ Tasks \subseteq Nat /\ IsFiniteSet(S)
  <2>1. IsFiniteSet(Tasks)
    BY FS_Interval, StoreAssumption DEF Tasks
  <2> QED
    BY <2>1, FS_Subset, StoreAssumption DEF PendingRows, Tasks
<1> HIDE DEF S
<1>2. ASSUME NEW n \in 1..Cardinality(S)
      PROVE  \E t \in S : Cardinality({u \in S : u < t}) = n - 1
  <2>1. \A a \in S : <<a, a>> \notin R
    BY <1>1
  <2>2. \A a, b, c \in S : <<a, b>> \in R /\ <<b, c>> \in R => <<a, c>> \in R
    BY <1>1
  <2>3. \A a, b \in S : a = b \/ <<a, b>> \in R \/ <<b, a>> \in R
    BY <1>1
  <2>4. \A t \in S : BeforeIn(S, R, t) = {u \in S : u < t}
    BY DEF BeforeIn
  <2> HIDE DEF R
  <2>5. \E t \in S : Cardinality(BeforeIn(S, R, t)) = n - 1
    BY <1>1, <1>2, <2>1, <2>2, <2>3, EveryRankIsTaken
  <2> QED
    BY <2>4, <2>5
<1>3. PendingOf(r, k) = [n \in 1..Cardinality(S) |->
                            CHOOSE t \in S : Cardinality({u \in S : u < t}) = n - 1]
  BY DEF PendingOf, Listing, S
<1>4. ASSUME NEW n \in 1..Cardinality(S) PROVE PendingOf(r, k)[n] \in S
  BY <1>2, <1>3, <1>4
<1> QED
  BY <1>3, <1>4 DEF S

LEMMA DueOfLists ==
    ASSUME NEW r \in [Tasks -> Rows], NEW k, NEW n \in Nat
    PROVE  /\ DOMAIN DueOf(r, k, n) = 1..Cardinality(DueRows(r, k, n))
           /\ \A m \in DOMAIN DueOf(r, k, n) : DueOf(r, k, n)[m] \in PendingRows(r, k)
<1> DEFINE S == DueRows(r, k, n)
           R == {p \in S \X S : \/ r[p[1]].due < r[p[2]].due
                               \/ (r[p[1]].due = r[p[2]].due /\ p[1] < p[2])}
<1>1. S \subseteq Tasks /\ Tasks \subseteq Nat /\ IsFiniteSet(S)
  <2>1. IsFiniteSet(Tasks)
    BY FS_Interval, StoreAssumption DEF Tasks
  <2> QED
    BY <2>1, FS_Subset, StoreAssumption DEF DueRows, PendingRows, Tasks
<1>2. S \subseteq PendingRows(r, k)
  BY DEF DueRows
<1>3. \A t \in S : r[t].due \in Nat
  BY <1>1 DEF Rows
<1> HIDE DEF S
<1>4. ASSUME NEW m \in 1..Cardinality(S)
      PROVE  \E t \in S : Cardinality({u \in S :
                 r[u].due < r[t].due \/ (r[u].due = r[t].due /\ u < t)}) = m - 1
  <2>1. \A a \in S : <<a, a>> \notin R
    BY <1>1, <1>3
  <2>2. \A a, b, c \in S : <<a, b>> \in R /\ <<b, c>> \in R => <<a, c>> \in R
    BY <1>1, <1>3
  <2>3. \A a, b \in S : a = b \/ <<a, b>> \in R \/ <<b, a>> \in R
    BY <1>1, <1>3
  <2>4. \A t \in S : BeforeIn(S, R, t) = {u \in S :
                 r[u].due < r[t].due \/ (r[u].due = r[t].due /\ u < t)}
    BY DEF BeforeIn
  <2> HIDE DEF R
  <2>5. \E t \in S : Cardinality(BeforeIn(S, R, t)) = m - 1
    BY <1>1, <1>4, <2>1, <2>2, <2>3, EveryRankIsTaken
  <2> QED
    BY <2>4, <2>5
<1>5. DueOf(r, k, n) = [m \in 1..Cardinality(S) |->
                 CHOOSE t \in S : Cardinality({u \in S :
                     r[u].due < r[t].due \/ (r[u].due = r[t].due /\ u < t)}) = m - 1]
  BY DEF DueOf, Listing, S
<1>6. ASSUME NEW m \in 1..Cardinality(S) PROVE DueOf(r, k, n)[m] \in S
  BY <1>4, <1>5, <1>6
<1> QED
  BY <1>2, <1>5, <1>6 DEF S

\* So a listing is a sequence of tasks, and its first is a pending row.
LEMMA ListingFacts ==
    ASSUME NEW r \in [Tasks -> Rows], NEW k \in Sessions, NEW n \in Nat,
           NEW s \in {PendingOf(r, k), DueOf(r, k, n)}
    PROVE  /\ s \in Seq(Tasks)
           /\ s # <<>> => Head(s) \in Tasks /\ r[Head(s)].status = "pending"
                                           /\ SessionOf[Head(s)] = k
<1>1. PICK S \in {PendingRows(r, k), DueRows(r, k, n)} :
        /\ DOMAIN s = 1..Cardinality(S)
        /\ \A m \in DOMAIN s : s[m] \in PendingRows(r, k)
  BY PendingOfLists, DueOfLists
<1>2. Cardinality(S) \in Nat
  <2>1. IsFiniteSet(Tasks)
    BY FS_Interval, StoreAssumption DEF Tasks
  <2>2. IsFiniteSet(S)
    BY <2>1, FS_Subset DEF PendingRows, DueRows
  <2> QED
    BY <2>2, FS_CardinalityType
<1>3. s = [m \in 1..Cardinality(S) |-> s[m]]
  BY <1>1 DEF PendingOf, DueOf, Listing
<1>4. s \in Seq(Tasks) /\ Len(s) = Cardinality(S)
  <2>1. \A m \in 1..Cardinality(S) : s[m] \in Tasks
    BY <1>1 DEF PendingRows
  <2> QED
    BY <1>2, <1>3, <2>1
<1>5. ASSUME s # <<>> PROVE Head(s) \in PendingRows(r, k)
  BY <1>1, <1>2, <1>4, <1>5
<1> QED
  BY <1>4, <1>5 DEF PendingRows

-----------------------------------------------------------------------------
(* Rows and groups.                                                        *)

LEMMA RowFacts ==
    ASSUME NEW r \in Rows, NEW n \in Nat
    PROVE  /\ Claimed(r, n) \in Rows
           /\ Claimed(r, n).status = "running"
           /\ Claimed(r, n).attempts = r.attempts + 1
           /\ \A s \in Terminal : /\ Settled(r, s) \in Rows
                                  /\ Settled(r, s).status = s
                                  /\ Settled(r, s).attempts = r.attempts
           /\ Retried(r) \in Rows
           /\ Retried(r).status = "pending"
           /\ Retried(r).attempts = r.attempts
           /\ Requeued(r, n) \in Rows
           /\ Requeued(r, n).status = "pending"
           /\ Requeued(r, n).attempts = 0
           /\ Created(n) \in Rows
           /\ Created(n).status = "pending"
           /\ Created(n).attempts = 0
<1>1. Period \in Nat /\ NoTime \in Int /\ r.attempts + 1 \in Nat
  BY StoreAssumption DEF NoTime, Rows
<1>2. \A q \in Rows, s \in Statuses : [q EXCEPT !.status = s] \in Rows
  BY DEF Rows
<1>3. \A q \in Rows, a \in Nat : [q EXCEPT !.attempts = a] \in Rows
  BY DEF Rows
<1>4. \A q \in Rows, i \in Int : [q EXCEPT !.started = i] \in Rows
  BY DEF Rows
<1>5. \A q \in Rows, a \in Nat : [q EXCEPT !.due = a] \in Rows
  BY DEF Rows
<1>6. {"pending", "running"} \subseteq Statuses /\ Terminal \subseteq Statuses
  BY DEF Statuses, Terminal
<1>7. /\ Claimed(r, n) \in Rows
      /\ Claimed(r, n).status = "running"
      /\ Claimed(r, n).attempts = r.attempts + 1
  <2>1. Claimed(r, n) = [[[r EXCEPT !.status = "running"]
                             EXCEPT !.attempts = r.attempts + 1] EXCEPT !.started = n]
    BY DEF Claimed, Rows
  <2> DEFINE r1 == [r EXCEPT !.status = "running"]
             r2 == [r1 EXCEPT !.attempts = r.attempts + 1]
  <2>3. r1 \in Rows
    BY <1>2, <1>6
  <2> HIDE DEF r1
  <2>4. r2 \in Rows
    BY <1>1, <1>3, <2>3
  <2> HIDE DEF r2
  <2>5. [r2 EXCEPT !.started = n] \in Rows
    BY <1>4, <2>4
  <2>2. Claimed(r, n) \in Rows
    BY <2>1, <2>5 DEF r1, r2
  <2> QED
    BY <2>2 DEF Claimed, Rows
<1>8. ASSUME NEW s \in Terminal
      PROVE  /\ Settled(r, s) \in Rows
             /\ Settled(r, s).status = s
             /\ Settled(r, s).attempts = r.attempts
  BY <1>1, <1>6 DEF Settled, Rows
<1>9. /\ Retried(r) \in Rows
      /\ Retried(r).status = "pending"
      /\ Retried(r).attempts = r.attempts
  BY <1>1, <1>6 DEF Retried, Rows
<1>10. /\ Requeued(r, n) \in Rows
       /\ Requeued(r, n).status = "pending"
       /\ Requeued(r, n).attempts = 0
  <2>1. Requeued(r, n) = [[[[r EXCEPT !.status = "pending"] EXCEPT !.attempts = 0]
                              EXCEPT !.started = NoTime] EXCEPT !.due = n + Period]
    BY DEF Requeued, Rows
  <2> DEFINE r1 == [r EXCEPT !.status = "pending"]
             r2 == [r1 EXCEPT !.attempts = 0]
             r3 == [r2 EXCEPT !.started = NoTime]
  <2>2. n + Period \in Nat
    BY <1>1
  <2>4. r1 \in Rows
    BY <1>2, <1>6
  <2> HIDE DEF r1
  <2>5. r2 \in Rows
    BY <1>3, <2>4
  <2> HIDE DEF r2
  <2>6. r3 \in Rows
    BY <1>1, <1>4, <2>5
  <2> HIDE DEF r3
  <2>7. [r3 EXCEPT !.due = n + Period] \in Rows
    BY <1>5, <2>2, <2>6
  <2>3. Requeued(r, n) \in Rows
    BY <2>1, <2>7 DEF r1, r2, r3
  <2> QED
    BY <2>3 DEF Requeued, Rows
<1>11. /\ Created(n) \in Rows
       /\ Created(n).status = "pending"
       /\ Created(n).attempts = 0
  BY <1>1, <1>6 DEF Created, Rows
<1> QED
  BY <1>7, <1>8, <1>9, <1>10, <1>11

\* A group that is at a task.
AtWork(d, k) == at[d][k] \in {"ready", "turn", "sleep"}

\* The part of TypeOK about the drains.
DrainTypes ==
    /\ kind \in [Drains -> Kinds]
    /\ owner \in [Drains -> Procs \cup {NoProc}]
    /\ todo \in [Drains -> [Sessions -> Seq(Tasks)]]
    /\ at \in [Drains -> [Sessions -> {"idle", "ready", "turn", "sleep", "stuck"}]]
    /\ tries \in [Drains -> [Sessions -> Nat]]
    /\ wake \in [Drains -> [Sessions -> Nat]]
    /\ inFlight \in [Procs -> Drains \cup {NoDrain}]

LEMMA GroupFacts ==
    ASSUME TypeOK, DrainInv, NEW d \in Drains, NEW k \in Sessions, AtWork(d, k)
    PROVE  /\ kind[d] # "free"
           /\ owner[d] \in up /\ owner[d] \in Procs
           /\ todo[d][k] \in Seq(Tasks) /\ todo[d][k] # <<>>
           /\ Current(d, k) \in Tasks
           /\ Tail(todo[d][k]) \in Seq(Tasks)
<1>1. todo[d][k] \in Seq(Tasks) /\ todo[d][k] # <<>>
  BY DEF TypeOK, DrainInv, AtWork
<1>2. kind[d] # "free" /\ owner[d] \in up /\ owner[d] \in Procs
  BY DEF TypeOK, DrainInv, AtWork
<1> QED
  BY <1>1, <1>2 DEF Current

\* A drain leaves a group of its own, to go on or rejecting.
Leaves(d, k) == NextTask(d, k) \/ Reject(d, k)

\* A drain d leaves its group k with the tasks left to do, in a new state, and
\* the drain is over or not.
LeaveTo(d, k, left, state, over) ==
    /\ (state # "idle") => left # <<>>
    /\ at' = [at EXCEPT ![d] = [j \in Sessions |->
           IF over THEN "idle" ELSE IF j = k THEN state ELSE at[d][j]]]
    /\ todo' = [todo EXCEPT ![d] = [j \in Sessions |->
           IF over THEN <<>> ELSE IF j = k THEN left ELSE todo[d][j]]]
    /\ over => \A j \in Sessions \ {k} : at[d][j] \in {"idle", "stuck"}
    /\ kind' = IF over THEN [kind EXCEPT ![d] = "free"] ELSE kind
    /\ owner' = IF over THEN [owner EXCEPT ![d] = NoProc] ELSE owner
    /\ tries' = [tries EXCEPT ![d][k] = 0]
    /\ wake' = [wake EXCEPT ![d][k] = 0]
    /\ inFlight' = IF inFlight[owner[d]] = d /\ (over \/ state = "stuck")
                   THEN [inFlight EXCEPT ![owner[d]] = NoDrain] ELSE inFlight

\* What a group is left with, and whether its drain is over.
LEMMA LeaveEffect ==
    ASSUME TypeOK, DrainInv, NEW d \in Drains, NEW k \in Sessions,
           AtWork(d, k), Leaves(d, k)
    PROVE  \E left \in Seq(Tasks), state \in {"idle", "ready", "stuck"}, over \in BOOLEAN :
             LeaveTo(d, k, left, state, over)
<1>1. PICK left \in Seq(Tasks), sd \in {"ready", "stuck"} :
         Leave(d, k, left, sd) /\ (sd = "stuck" => left # <<>>)
  BY GroupFacts DEF Leaves, NextTask, Reject
<1> DEFINE state == IF left = <<>> THEN "idle" ELSE sd
           states == [at[d] EXCEPT ![k] = state]
           over == \A j \in Sessions : states[j] \in {"idle", "stuck"}
<1>2. at[d] \in [Sessions -> {"idle", "ready", "turn", "sleep", "stuck"}]
  BY DEF TypeOK
<1>3. todo[d] \in [Sessions -> Seq(Tasks)]
  BY DEF TypeOK
<1>4. states = [j \in Sessions |-> IF j = k THEN state ELSE at[d][j]]
  BY <1>2
<1>5. over => \A j \in Sessions \ {k} : at[d][j] \in {"idle", "stuck"}
  BY <1>4
<1>6. at' = [at EXCEPT ![d] = [j \in Sessions |->
                IF over THEN "idle" ELSE IF j = k THEN state ELSE at[d][j]]]
  <2>1. at' = [at EXCEPT ![d] = IF over THEN [j \in Sessions |-> "idle"] ELSE states]
    BY <1>1 DEF Leave
  <2> QED
    BY <1>4, <2>1
<1>7. todo' = [todo EXCEPT ![d] = [j \in Sessions |->
                IF over THEN <<>> ELSE IF j = k THEN left ELSE todo[d][j]]]
  <2>1. todo' = [todo EXCEPT ![d] = IF over THEN [j \in Sessions |-> <<>>]
                                    ELSE [todo[d] EXCEPT ![k] = left]]
    BY <1>1 DEF Leave
  <2>2. [todo[d] EXCEPT ![k] = left] = [j \in Sessions |-> IF j = k THEN left ELSE todo[d][j]]
    BY <1>3
  <2> QED
    BY <2>1, <2>2
<1>8. states[k] = state /\ state \in {"idle", "ready", "stuck"}
  BY <1>4
<1>9. /\ kind' = IF over THEN [kind EXCEPT ![d] = "free"] ELSE kind
      /\ owner' = IF over THEN [owner EXCEPT ![d] = NoProc] ELSE owner
      /\ tries' = [tries EXCEPT ![d][k] = 0]
      /\ wake' = [wake EXCEPT ![d][k] = 0]
      /\ inFlight' = IF inFlight[owner[d]] = d /\ (over \/ states[k] = "stuck")
                     THEN [inFlight EXCEPT ![owner[d]] = NoDrain] ELSE inFlight
  BY <1>1 DEF Leave
<1>10. over \in BOOLEAN /\ ((state # "idle") => left # <<>>)
  BY <1>1
<1> HIDE DEF over, state, states
<1> QED
  BY <1>5, <1>6, <1>7, <1>8, <1>9, <1>10 DEF LeaveTo

LEMMA LeaveTypes ==
    ASSUME TypeOK, DrainInv, NEW d \in Drains, NEW k \in Sessions,
           AtWork(d, k), Leaves(d, k)
    PROVE  DrainTypes'
<1>0. PICK left \in Seq(Tasks), state \in {"idle", "ready", "stuck"}, over \in BOOLEAN :
        LeaveTo(d, k, left, state, over)
  BY LeaveEffect
<1>1. kind' \in [Drains -> Kinds]
  BY <1>0 DEF LeaveTo, TypeOK, Kinds
<1>2. owner' \in [Drains -> Procs \cup {NoProc}]
  BY <1>0 DEF LeaveTo, TypeOK
<1>3. todo' \in [Drains -> [Sessions -> Seq(Tasks)]]
  <2>1. [j \in Sessions |-> IF over THEN <<>> ELSE IF j = k THEN left ELSE todo[d][j]]
            \in [Sessions -> Seq(Tasks)]
    BY DEF TypeOK
  <2> QED
    BY <1>0, <2>1 DEF LeaveTo, TypeOK
<1>4. at' \in [Drains -> [Sessions -> {"idle", "ready", "turn", "sleep", "stuck"}]]
  <2>1. [j \in Sessions |-> IF over THEN "idle" ELSE IF j = k THEN state ELSE at[d][j]]
            \in [Sessions -> {"idle", "ready", "turn", "sleep", "stuck"}]
    BY DEF TypeOK
  <2> QED
    BY <1>0, <2>1 DEF LeaveTo, TypeOK
<1>5. tries' \in [Drains -> [Sessions -> Nat]] /\ wake' \in [Drains -> [Sessions -> Nat]]
  BY <1>0 DEF LeaveTo, TypeOK
<1>6. inFlight' \in [Procs -> Drains \cup {NoDrain}]
  BY <1>0 DEF LeaveTo, TypeOK
<1> QED
  BY <1>1, <1>2, <1>3, <1>4, <1>5, <1>6 DEF DrainTypes

LEMMA LeaveDrainInv ==
    ASSUME TypeOK, DrainInv, up' = up, NEW d \in Drains, NEW k \in Sessions,
           AtWork(d, k), Leaves(d, k)
    PROVE  DrainInv'
<1>0. PICK left \in Seq(Tasks), state \in {"idle", "ready", "stuck"}, over \in BOOLEAN :
        LeaveTo(d, k, left, state, over)
  BY LeaveEffect
<1>1. \A e \in Drains, j \in Sessions :
        /\ e # d => at'[e][j] = at[e][j] /\ todo'[e][j] = todo[e][j]
        /\ e = d => at'[e][j] = IF over THEN "idle" ELSE IF j = k THEN state ELSE at[d][j]
        /\ e = d => todo'[e][j] = IF over THEN <<>> ELSE IF j = k THEN left ELSE todo[d][j]
  BY <1>0 DEF LeaveTo, TypeOK
<1>2. \A e \in Drains :
        /\ kind'[e] = IF e = d /\ over THEN "free" ELSE kind[e]
        /\ (e = d /\ over) \/ owner'[e] = owner[e]
  BY <1>0 DEF LeaveTo, TypeOK
<1>3. kind[d] # "free"
  BY GroupFacts
<1>4. ASSUME NEW e \in Drains, kind'[e] = "free", NEW j \in Sessions PROVE at'[e][j] = "idle"
  BY <1>1, <1>2, <1>3, <1>4 DEF DrainInv
<1>5. ASSUME NEW e \in Drains, kind'[e] # "free" PROVE owner'[e] \in up'
  BY <1>2, <1>5 DEF DrainInv
<1>6. ASSUME NEW e \in Drains, NEW j \in Sessions, at'[e][j] \in {"ready", "turn", "sleep"}
      PROVE todo'[e][j] # <<>>
  BY <1>0, <1>1, <1>6 DEF DrainInv, LeaveTo
<1> QED
  BY <1>4, <1>5, <1>6 DEF DrainInv

\* Leaving a group ends its turn and no other.
LEMMA LeaveTurns ==
    ASSUME TypeOK, DrainInv, NEW d \in Drains, NEW k \in Sessions,
           AtWork(d, k), Leaves(d, k), NEW t \in Tasks
    PROVE  /\ TurnsOf(t)' = TurnsOf(t) \ {<<d, k>>}
           /\ LowTurns(t)' = LowTurns(t) \ {<<d, k>>}
<1>0. PICK left \in Seq(Tasks), state \in {"idle", "ready", "stuck"}, over \in BOOLEAN :
        LeaveTo(d, k, left, state, over)
  BY LeaveEffect
<1>1. at'[d][k] # "turn"
  BY <1>0 DEF LeaveTo, TypeOK
<1>2. \A e \in Drains, j \in Sessions : <<e, j>> # <<d, k>> =>
        /\ at'[e][j] = "turn" <=> at[e][j] = "turn"
        /\ at[e][j] = "turn" => todo'[e][j] = todo[e][j]
        /\ tries'[e][j] = tries[e][j]
  BY <1>0 DEF LeaveTo, TypeOK
<1>3. TurnsOf(t)' = TurnsOf(t) \ {<<d, k>>}
  BY <1>1, <1>2 DEF TurnsOf, Current
<1>4. \A g \in TurnsOf(t) \ {<<d, k>>} : tries'[g[1]][g[2]] = tries[g[1]][g[2]]
  BY <1>2 DEF TurnsOf
<1> QED
  BY <1>3, <1>4 DEF LowTurns, Exhausted

\* Leaving a group gives up the watch of a tick's drain only where it rejects.
LEMMA LeaveWatched ==
    ASSUME TypeOK, DrainInv, TickIsWatched, NEW d \in Drains, NEW k \in Sessions,
           AtWork(d, k), Leaves(d, k)
    PROVE  TickIsWatched'
<1>0. PICK left \in Seq(Tasks), state \in {"idle", "ready", "stuck"}, over \in BOOLEAN :
        LeaveTo(d, k, left, state, over)
  BY LeaveEffect
<1>1. \A e \in Drains, j \in Sessions :
        at'[e][j] = IF e # d THEN at[e][j]
                    ELSE IF over THEN "idle" ELSE IF j = k THEN state ELSE at[d][j]
  BY <1>0 DEF LeaveTo, TypeOK
<1>2. \A e \in Drains :
        /\ kind'[e] = IF e = d /\ over THEN "free" ELSE kind[e]
        /\ (e = d /\ over) \/ owner'[e] = owner[e]
  BY <1>0 DEF LeaveTo, TypeOK
<1>3. owner[d] \in Procs
  BY GroupFacts
<1>4. \A p \in Procs :
        inFlight'[p] = IF p = owner[d] /\ inFlight[p] = d /\ (over \/ state = "stuck")
                       THEN NoDrain ELSE inFlight[p]
  BY <1>0, <1>3 DEF LeaveTo, TypeOK
<1> SUFFICES ASSUME NEW p \in Procs, NEW e \in Drains,
                    kind'[e] = "tick", owner'[e] = p, inFlight'[p] # e
             PROVE  \E j \in Sessions : at'[e][j] = "stuck"
  BY DEF TickIsWatched, TickDrains
<1>5. kind[e] = "tick" /\ owner[e] = p /\ ~(e = d /\ over)
  BY <1>2
<1>6. CASE inFlight[p] # e
  <2>1. PICK j \in Sessions : at[e][j] = "stuck"
    BY <1>5, <1>6 DEF TickIsWatched, TickDrains
  <2>2. ~(e = d /\ j = k)
    BY <2>1 DEF AtWork
  <2> QED
    BY <1>1, <1>5, <2>1, <2>2
<1>7. CASE inFlight[p] = e
  <2>1. p = owner[d] /\ e = d /\ state = "stuck"
    BY <1>4, <1>5, <1>7
  <2> QED
    BY <1>1, <1>5, <2>1
<1> QED
  BY <1>6, <1>7

-----------------------------------------------------------------------------
(* The start of a drain.                                                   *)

\* Groups of tasks by session, each with a pending row at its head.
Groups(r) == {groups \in [Sessions -> Seq(Tasks)] :
    \A k \in Sessions : groups[k] # <<>> =>
        /\ r[Head(groups[k])].status = "pending"
        /\ SessionOf[Head(groups[k])] = k}

\* Drain d of process p begins: the rows of gone are blocked, those of started
\* are claimed for the turns of the groups runs, and the groups have left to do.
BeginWith(d, p, kd, r, gone, started, runs, left) ==
    /\ kind[d] = "free"
    /\ gone \cap started = {}
    /\ \A t \in gone \cup started : r[t].status = "pending"
    /\ \A k \in runs : left[k] # <<>> /\ Head(left[k]) \in started
    /\ \A t \in started : SessionOf[t] \in runs /\ Head(left[SessionOf[t]]) = t
    /\ \A k \in runs : SessionOf[Head(left[k])] = k
    /\ row' = [t \in Tasks |-> IF t \in gone THEN Settled(Claimed(r[t], now), "blocked")
                               ELSE IF t \in started THEN Claimed(r[t], now) ELSE r[t]]
    /\ \/ runs = {} /\ UNCHANGED <<drainVars, inFlight>>
       \/ /\ kind' = [kind EXCEPT ![d] = kd]
          /\ owner' = [owner EXCEPT ![d] = p]
          /\ todo' = [todo EXCEPT ![d] = left]
          /\ at' = [at EXCEPT ![d] = [k \in Sessions |->
                IF left[k] = <<>> THEN "idle" ELSE IF k \in runs THEN "turn" ELSE "ready"]]
          /\ tries' = [tries EXCEPT ![d] = [k \in Sessions |->
                IF k \in runs THEN r[Head(left[k])].attempts + 1 ELSE 0]]
          /\ inFlight' = IF kd = "tick" THEN [inFlight EXCEPT ![p] = d] ELSE inFlight
          /\ wake' = wake

LEMMA BeginEffect ==
    ASSUME NEW d \in Drains, NEW p \in Procs, NEW kd, NEW r \in [Tasks -> Rows],
           NEW groups \in Groups(r), Begin(d, p, kd, groups, r)
    PROVE  \E gone \in SUBSET Tasks, started \in SUBSET Tasks, runs \in SUBSET Sessions,
              left \in [Sessions -> Seq(Tasks)] :
              BeginWith(d, p, kd, r, gone, started, runs, left)
<1> DEFINE heads == {Head(groups[k]) : k \in {j \in Sessions : groups[j] # <<>>}}
           Left(gone) == [k \in Sessions |->
                IF groups[k] # <<>> /\ Head(groups[k]) \in gone
                THEN Tail(groups[k]) ELSE groups[k]]
           Runs(left, k) == left[k] # <<>> /\ left[k] = groups[k]
<1>1. PICK gone \in SUBSET (heads \ Recurring) :
        /\ kind[d] = "free"
        /\ row' = [t \in Tasks |->
                CASE t \in gone -> Settled(Claimed(r[t], now), "blocked")
                  [] t \in heads \ gone -> Claimed(r[t], now)
                  [] OTHER -> r[t]]
        /\ IF \A k \in Sessions : Left(gone)[k] = <<>>
           THEN UNCHANGED <<drainVars, inFlight>>
           ELSE /\ kind' = [kind EXCEPT ![d] = kd]
                /\ owner' = [owner EXCEPT ![d] = p]
                /\ todo' = [todo EXCEPT ![d] = Left(gone)]
                /\ at' = [at EXCEPT ![d] = [k \in Sessions |->
                     IF Left(gone)[k] = <<>> THEN "idle"
                     ELSE IF Runs(Left(gone), k) THEN "turn" ELSE "ready"]]
                /\ tries' = [tries EXCEPT ![d] = [k \in Sessions |->
                     IF Runs(Left(gone), k) THEN r[Head(Left(gone)[k])].attempts + 1 ELSE 0]]
                /\ inFlight' = IF kd = "tick" THEN [inFlight EXCEPT ![p] = d] ELSE inFlight
                /\ UNCHANGED wake
  BY DEF Begin
<1> DEFINE left == Left(gone)
           runs == {k \in Sessions : Runs(left, k)}
           started == heads \ gone
<1>2. \A k \in Sessions :
        /\ groups[k] \in Seq(Tasks)
        /\ groups[k] # <<>> => /\ r[Head(groups[k])].status = "pending"
                               /\ SessionOf[Head(groups[k])] = k
  BY DEF Groups
<1>3. heads \subseteq Tasks /\ \A t \in heads : r[t].status = "pending"
  BY <1>2
<1>4. left \in [Sessions -> Seq(Tasks)]
  BY <1>2
<1>5. \A k \in Sessions : (groups[k] # <<>> /\ Head(groups[k]) \in gone) <=> left[k] # groups[k]
  <2> SUFFICES ASSUME NEW k \in Sessions, groups[k] # <<>>
               PROVE  Tail(groups[k]) # groups[k]
    OBVIOUS
  <2>1. Len(Tail(groups[k])) # Len(groups[k])
    BY <1>2
  <2> QED
    BY <2>1
<1>6. \A k \in runs : left[k] # <<>> /\ Head(left[k]) \in started /\ SessionOf[Head(left[k])] = k
  BY <1>2, <1>5
<1>7. ASSUME NEW t \in started
      PROVE  SessionOf[t] \in runs /\ Head(left[SessionOf[t]]) = t
  <2>1. PICK k \in Sessions : groups[k] # <<>> /\ t = Head(groups[k])
    OBVIOUS
  <2>2. SessionOf[t] = k /\ left[k] = groups[k]
    BY <1>2, <1>5, <2>1
  <2> QED
    BY <2>1, <2>2
<1>8. row' = [t \in Tasks |-> IF t \in gone THEN Settled(Claimed(r[t], now), "blocked")
                              ELSE IF t \in started THEN Claimed(r[t], now) ELSE r[t]]
  BY <1>1
<1>9. CASE \A k \in Sessions : left[k] = <<>>
  <2>1. runs = {}
    BY <1>9
  <2>2. UNCHANGED <<drainVars, inFlight>>
    BY <1>1, <1>9
  <2> HIDE DEF left, runs, started
  <2>3. BeginWith(d, p, kd, r, gone, started, runs, left)
    BY <1>1, <1>3, <1>6, <1>7, <1>8, <2>1, <2>2 DEF BeginWith, started
  <2> QED
    BY <1>3, <1>4, <2>3 DEF runs, started
<1>10. CASE \E k \in Sessions : left[k] # <<>>
  <2>1. /\ kind' = [kind EXCEPT ![d] = kd]
        /\ owner' = [owner EXCEPT ![d] = p]
        /\ todo' = [todo EXCEPT ![d] = left]
        /\ inFlight' = IF kd = "tick" THEN [inFlight EXCEPT ![p] = d] ELSE inFlight
        /\ wake' = wake
    BY <1>1, <1>10
  <2>2. at' = [at EXCEPT ![d] = [k \in Sessions |->
                IF left[k] = <<>> THEN "idle" ELSE IF k \in runs THEN "turn" ELSE "ready"]]
    <3>1. [k \in Sessions |-> IF left[k] = <<>> THEN "idle"
                              ELSE IF Runs(left, k) THEN "turn" ELSE "ready"]
          = [k \in Sessions |-> IF left[k] = <<>> THEN "idle"
                                ELSE IF k \in runs THEN "turn" ELSE "ready"]
      OBVIOUS
    <3> QED
      BY <1>1, <1>10, <3>1
  <2>3. tries' = [tries EXCEPT ![d] = [k \in Sessions |->
                IF k \in runs THEN r[Head(left[k])].attempts + 1 ELSE 0]]
    <3>1. [k \in Sessions |-> IF Runs(left, k) THEN r[Head(left[k])].attempts + 1 ELSE 0]
          = [k \in Sessions |-> IF k \in runs THEN r[Head(left[k])].attempts + 1 ELSE 0]
      OBVIOUS
    <3> QED
      BY <1>1, <1>10, <3>1
  <2> HIDE DEF left, runs, started
  <2>4. BeginWith(d, p, kd, r, gone, started, runs, left)
    BY <1>1, <1>3, <1>6, <1>7, <1>8, <2>1, <2>2, <2>3 DEF BeginWith, started
  <2> QED
    BY <1>3, <1>4, <2>4 DEF runs, started
<1> QED
  BY <1>9, <1>10

\* What follows from the beginning of a drain.
LEMMA BeginFacts ==
    ASSUME TypeOK, DrainInv, up' = up, NEW d \in Drains, NEW p \in up, NEW kd \in Kinds \ {"free"},
           NEW r \in [Tasks -> Rows], NEW gone \in SUBSET Tasks, NEW started \in SUBSET Tasks,
           NEW runs \in SUBSET Sessions, NEW left \in [Sessions -> Seq(Tasks)],
           BeginWith(d, p, kd, r, gone, started, runs, left)
    PROVE  /\ row' \in [Tasks -> Rows]
           /\ DrainTypes'
           /\ DrainInv'
           /\ \A t \in Tasks : TurnsOf(t)' = IF t \in started
                  THEN TurnsOf(t) \cup {<<d, SessionOf[t]>>} ELSE TurnsOf(t)
           /\ \A t \in Tasks : (t \in started => Exhausted(row'[t].attempts)) =>
                  LowTurns(t)' = LowTurns(t)
           /\ (kd = "tick" => inFlight[p] = NoDrain) /\ TickIsWatched => TickIsWatched'
<1>1. row' \in [Tasks -> Rows]
  <2>1. \A t \in Tasks : row'[t] = IF t \in gone THEN Settled(Claimed(r[t], now), "blocked")
                               ELSE IF t \in started THEN Claimed(r[t], now) ELSE r[t]
    BY DEF BeginWith
  <2>2. now \in Nat /\ "blocked" \in Terminal
    BY StoreAssumption DEF TypeOK, Terminal
  <2>3. \A t \in Tasks : row'[t] \in Rows
    BY <2>1, <2>2, RowFacts
  <2>4. row' = [t \in Tasks |-> row'[t]]
    BY DEF BeginWith
  <2> QED
    BY <2>3, <2>4
<1>2. kind[d] = "free" /\ p \in Procs /\ \A k \in Sessions : at[d][k] = "idle"
  BY DEF BeginWith, DrainInv, TypeOK
<1>3. \A k \in runs : left[k] # <<>> /\ Head(left[k]) \in started /\ SessionOf[Head(left[k])] = k
  BY DEF BeginWith
<1>4. \A t \in started : SessionOf[t] \in runs /\ Head(left[SessionOf[t]]) = t
  BY DEF BeginWith
<1>5. CASE runs = {} /\ UNCHANGED <<drainVars, inFlight>>
  <2>1. /\ kind' = kind /\ owner' = owner /\ todo' = todo /\ at' = at
        /\ tries' = tries /\ wake' = wake /\ inFlight' = inFlight
    BY <1>5 DEF drainVars
  <2>2. started = {}
    BY <1>4, <1>5
  <2>3. DrainTypes'
    BY <2>1 DEF TypeOK, DrainTypes
  <2>4. DrainInv'
    BY <2>1 DEF DrainInv
  <2>5. \A t \in Tasks : TurnsOf(t)' = TurnsOf(t)
    BY <2>1 DEF TurnsOf, Current
  <2>6. \A t \in Tasks : LowTurns(t)' = LowTurns(t)
    BY <2>1, <2>5 DEF LowTurns
  <2>7. TickIsWatched => TickIsWatched'
    BY <2>1 DEF TickIsWatched, TickDrains
  <2> QED
    BY <1>1, <2>2, <2>3, <2>4, <2>5, <2>6, <2>7
<1>6. CASE /\ kind' = [kind EXCEPT ![d] = kd]
           /\ owner' = [owner EXCEPT ![d] = p]
           /\ todo' = [todo EXCEPT ![d] = left]
           /\ at' = [at EXCEPT ![d] = [k \in Sessions |->
                IF left[k] = <<>> THEN "idle" ELSE IF k \in runs THEN "turn" ELSE "ready"]]
           /\ tries' = [tries EXCEPT ![d] = [k \in Sessions |->
                IF k \in runs THEN r[Head(left[k])].attempts + 1 ELSE 0]]
           /\ inFlight' = IF kd = "tick" THEN [inFlight EXCEPT ![p] = d] ELSE inFlight
           /\ wake' = wake
  <2>1. \A e \in Drains, k \in Sessions :
          /\ at'[e][k] = IF e # d THEN at[e][k] ELSE IF left[k] = <<>> THEN "idle"
                         ELSE IF k \in runs THEN "turn" ELSE "ready"
          /\ todo'[e][k] = IF e # d THEN todo[e][k] ELSE left[k]
          /\ e # d => tries'[e][k] = tries[e][k]
          /\ (e = d /\ k \in runs) => tries'[e][k] = r[Head(left[k])].attempts + 1
    BY <1>6 DEF TypeOK
  <2>2. \A e \in Drains : /\ kind'[e] = IF e = d THEN kd ELSE kind[e]
                          /\ owner'[e] = IF e = d THEN p ELSE owner[e]
    BY <1>6 DEF TypeOK
  <2>3. DrainTypes'
    <3>1. kind' \in [Drains -> Kinds] /\ owner' \in [Drains -> Procs \cup {NoProc}]
      BY <1>2, <1>6 DEF TypeOK
    <3>2. todo' \in [Drains -> [Sessions -> Seq(Tasks)]]
      BY <1>6 DEF TypeOK
    <3>3. at' \in [Drains -> [Sessions -> {"idle", "ready", "turn", "sleep", "stuck"}]]
      BY <1>6 DEF TypeOK
    <3>4. \A k \in runs : r[Head(left[k])].attempts + 1 \in Nat
      BY <1>3 DEF Rows
    <3>5. tries' \in [Drains -> [Sessions -> Nat]]
      BY <1>6, <3>4 DEF TypeOK
    <3>6. wake' \in [Drains -> [Sessions -> Nat]]
      BY <1>6 DEF TypeOK
    <3>7. inFlight' \in [Procs -> Drains \cup {NoDrain}]
      BY <1>2, <1>6 DEF TypeOK
    <3> QED
      BY <3>1, <3>2, <3>3, <3>5, <3>6, <3>7 DEF DrainTypes
  <2>4. DrainInv'
    <3>1. ASSUME NEW e \in Drains, kind'[e] = "free", NEW k \in Sessions PROVE at'[e][k] = "idle"
      BY <2>1, <2>2, <3>1 DEF DrainInv
    <3>2. ASSUME NEW e \in Drains, kind'[e] # "free" PROVE owner'[e] \in up'
      BY <2>2, <3>2 DEF DrainInv
    <3>3. ASSUME NEW e \in Drains, NEW k \in Sessions, at'[e][k] \in {"ready", "turn", "sleep"}
          PROVE todo'[e][k] # <<>>
      BY <2>1, <3>3 DEF DrainInv
    <3> QED
      BY <3>1, <3>2, <3>3 DEF DrainInv
  <2>5. ASSUME NEW t \in Tasks
        PROVE  TurnsOf(t)' = IF t \in started
                   THEN TurnsOf(t) \cup {<<d, SessionOf[t]>>} ELSE TurnsOf(t)
    <3>1. \A e \in Drains, k \in Sessions : e # d =>
            (<<e, k>> \in TurnsOf(t)' <=> <<e, k>> \in TurnsOf(t))
      BY <2>1 DEF TurnsOf, Current
    <3>2. \A k \in Sessions : <<d, k>> \notin TurnsOf(t)
      BY <1>2 DEF TurnsOf
    <3>3. \A k \in Sessions : <<d, k>> \in TurnsOf(t)' <=> k \in runs /\ Head(left[k]) = t
      BY <1>3, <2>1 DEF TurnsOf, Current
    <3>4. \A k \in Sessions : <<d, k>> \in TurnsOf(t)' <=> t \in started /\ k = SessionOf[t]
      BY <1>3, <1>4, <3>3
    <3>5. SessionOf[t] \in Sessions
      BY StoreAssumption
    <3>6. TurnsOf(t) \subseteq Drains \X Sessions /\ TurnsOf(t)' \subseteq Drains \X Sessions
      BY DEF TurnsOf
    <3>7. \A g \in Drains \X Sessions : g \in TurnsOf(t)' <=>
            (g \in TurnsOf(t) \/ (t \in started /\ g = <<d, SessionOf[t]>>))
      BY <3>1, <3>2, <3>4
    <3>8. <<d, SessionOf[t]>> \in Drains \X Sessions
      BY <3>5
    <3> QED
      BY <3>6, <3>7, <3>8, Zenon
  <2>6. ASSUME NEW t \in Tasks, t \in started => Exhausted(row'[t].attempts)
        PROVE  LowTurns(t)' = LowTurns(t)
    <3>1. \A g \in TurnsOf(t) : g[1] # d /\ tries'[g[1]][g[2]] = tries[g[1]][g[2]]
      BY <1>2, <2>1 DEF TurnsOf
    <3>2. ASSUME t \in started PROVE ~(<<d, SessionOf[t]>> \in LowTurns(t)')
      <4>1. row'[t] = Claimed(r[t], now)
        BY <3>2 DEF BeginWith
      <4>2. row'[t].attempts = r[t].attempts + 1
        BY <4>1, RowFacts, StoreAssumption DEF TypeOK
      <4>3. tries'[d][SessionOf[t]] = r[t].attempts + 1
        BY <1>4, <2>1, <3>2
      <4> QED
        BY <2>6, <3>2, <4>2, <4>3 DEF LowTurns, Exhausted
    <3>3. LowTurns(t)' = {g \in TurnsOf(t)' : ~Exhausted(tries'[g[1]][g[2]])}
      BY DEF LowTurns, Exhausted
    <3> QED
      BY <2>5, <3>1, <3>2, <3>3 DEF LowTurns, Exhausted
  <2>7. ASSUME TickIsWatched, kd = "tick" => inFlight[p] = NoDrain
        PROVE  TickIsWatched'
    <3>1. \A q \in Procs : inFlight'[q] = IF q = p /\ kd = "tick" THEN d ELSE inFlight[q]
      BY <1>2, <1>6 DEF TypeOK
    <3> SUFFICES ASSUME NEW q \in Procs, NEW e \in Drains,
                        kind'[e] = "tick", owner'[e] = q, inFlight'[q] # e
                 PROVE  \E j \in Sessions : at'[e][j] = "stuck"
      BY DEF TickIsWatched, TickDrains
    <3>2. e # d
      BY <2>2, <3>1
    <3>3. kind[e] = "tick" /\ owner[e] = q
      BY <2>2, <3>2
    <3>4. inFlight[q] # e
      BY <2>7, <3>1, RunnerAssumption
    <3>5. \E j \in Sessions : at[e][j] = "stuck"
      BY <2>7, <3>3, <3>4 DEF TickIsWatched, TickDrains
    <3> QED
      BY <2>1, <3>2, <3>5
  <2> QED
    BY <1>1, <2>3, <2>4, <2>5, <2>6, <2>7
<1> QED
  BY <1>5, <1>6 DEF BeginWith

-----------------------------------------------------------------------------
(* What a step does to a task.                                             *)

SameTurns(t) == TurnsOf(t)' = TurnsOf(t) /\ LowTurns(t)' = LowTurns(t)

\* The row is claimed, or inserted and claimed, for one more attempt.
Spends(t) ==
    \/ row[t].status = "pending" /\ row'[t].attempts = row[t].attempts + 1
    \/ row[t].status = "absent" /\ row'[t].attempts = 1

Unmoved(t) == row'[t] = row[t] /\ SameTurns(t)

Starts(t) ==
    /\ Spends(t)
    /\ row'[t].status = "running"
    /\ \E g \in (Drains \X Sessions) \ TurnsOf(t) : TurnsOf(t)' = TurnsOf(t) \cup {g}
    /\ Exhausted(row'[t].attempts) => LowTurns(t)' = LowTurns(t)

Blocks(t) == Spends(t) /\ row'[t].status = "blocked" /\ SameTurns(t)

Inserted(t) ==
    /\ row[t].status = "absent"
    /\ row'[t].status = "pending" /\ row'[t].attempts = 0
    /\ SameTurns(t)

\* The row r of a turn for task t that ends becomes v; low when the turn may
\* retry.
EndsAs(t, r, v, low) ==
    \/ v = r /\ r.status # "running"
    \/ /\ v.status \in Terminal /\ v.attempts = r.attempts /\ r.status \notin Terminal
       /\ r.status = "running" \/ v.status \in {"blocked", "cancelled"}
    \/ /\ r.status = "running" /\ v.status = "pending"
       /\ (v.attempts = 0 /\ t \in Recurring) \/ (v.attempts = r.attempts /\ low)

Ends(t) == \E g \in TurnsOf(t) :
    /\ TurnsOf(t)' = TurnsOf(t) \ {g}
    /\ LowTurns(t)' = LowTurns(t) \ {g}
    /\ EndsAs(t, row[t], row'[t], g \in LowTurns(t))

CancelsRow(t) ==
    /\ row[t].status \in {"pending", "running"}
    /\ row'[t].status = "cancelled" /\ row'[t].attempts = row[t].attempts
    /\ SameTurns(t)

Recovers(t) ==
    /\ row[t].status = "running"
    /\ row'[t].status = "pending" /\ row'[t].attempts = row[t].attempts
    /\ SameTurns(t)
    /\ Cardinality(Procs) <= 1 => TurnsOf(t) = {}
    /\ recovered'[t] = recovered[t] + 1

Dies(t) ==
    /\ row'[t] = row[t]
    /\ TurnsOf(t)' \subseteq TurnsOf(t)
    /\ LowTurns(t)' \subseteq LowTurns(t)
    /\ recovered'[t] = recovered[t]

TaskStep(t) ==
    \/ /\ crashes' = crashes /\ recovered'[t] = recovered[t]
       /\ \/ Unmoved(t) \/ Starts(t) \/ Blocks(t) \/ Inserted(t) \/ Ends(t) \/ CancelsRow(t)
    \/ crashes' = crashes /\ Recovers(t)
    \/ crashes' = crashes + 1 /\ Dies(t)

\* The base of the induction, and what each action is shown to do.
Base == TypeOK /\ DrainInv /\ TickIsWatched

Lawful == Base' /\ \A t \in Tasks : TaskStep(t)

\* Group k of drain d has no turn any more, and the drains are otherwise lawful.
Vacated(d, k) ==
    /\ DrainTypes'
    /\ DrainInv'
    /\ TickIsWatched'
    /\ \A t \in Tasks : /\ TurnsOf(t)' = TurnsOf(t) \ {<<d, k>>}
                        /\ LowTurns(t)' = LowTurns(t) \ {<<d, k>>}

\* Everything but the table and the drains stays.
Rest == UNCHANGED <<now, up, stopping, crashes, recovered>>

LEMMA RestTypes ==
    ASSUME TypeOK, Rest, DrainTypes', row' \in [Tasks -> Rows]
    PROVE  TypeOK'
BY DEF TypeOK, Rest, DrainTypes

LEMMA LeaveVacates ==
    ASSUME Base, Rest, NEW d \in Drains, NEW k \in Sessions, AtWork(d, k), Leaves(d, k)
    PROVE  Vacated(d, k)
<1>1. up' = up
  BY DEF Rest
<1> QED
  BY <1>1, LeaveTypes, LeaveDrainInv, LeaveTurns, LeaveWatched DEF Base, Vacated

LEMMA SleepVacates ==
    ASSUME Base, Rest, NEW d \in Drains, NEW k \in Sessions, at[d][k] = "turn",
           at' = [at EXCEPT ![d][k] = "sleep"],
           wake' = [wake EXCEPT ![d][k] = Later],
           tries' = [tries EXCEPT ![d][k] = 0],
           UNCHANGED <<kind, owner, todo, inFlight>>
    PROVE  Vacated(d, k)
<1>1. Later \in Nat
  BY StoreAssumption, RunnerAssumption DEF Base, TypeOK, Later
<1>2. \A e \in Drains, j \in Sessions :
        /\ at'[e][j] = IF e = d /\ j = k THEN "sleep" ELSE at[e][j]
        /\ <<e, j>> # <<d, k>> => tries'[e][j] = tries[e][j]
  BY DEF Base, TypeOK
<1>3. DrainTypes'
  BY <1>1 DEF Base, TypeOK, DrainTypes
<1>4. DrainInv'
  <2>1. ASSUME NEW e \in Drains, kind[e] = "free", NEW j \in Sessions PROVE at'[e][j] = "idle"
    BY <1>2, <2>1 DEF Base, DrainInv
  <2>2. ASSUME NEW e \in Drains, kind[e] # "free" PROVE owner[e] \in up'
    BY <2>2 DEF Base, DrainInv, Rest
  <2>3. ASSUME NEW e \in Drains, NEW j \in Sessions, at'[e][j] \in {"ready", "turn", "sleep"}
        PROVE todo[e][j] # <<>>
    BY <1>2, <2>3 DEF Base, DrainInv
  <2> QED
    BY <2>1, <2>2, <2>3 DEF DrainInv
<1>5. TickIsWatched'
  BY <1>2 DEF Base, TickIsWatched, TickDrains
<1>6. ASSUME NEW t \in Tasks
      PROVE  /\ TurnsOf(t)' = TurnsOf(t) \ {<<d, k>>}
             /\ LowTurns(t)' = LowTurns(t) \ {<<d, k>>}
  <2>1. TurnsOf(t)' = TurnsOf(t) \ {<<d, k>>}
    BY <1>2 DEF TurnsOf, Current
  <2>2. \A g \in TurnsOf(t) \ {<<d, k>>} : tries'[g[1]][g[2]] = tries[g[1]][g[2]]
    BY <1>2 DEF TurnsOf
  <2> QED
    BY <2>1, <2>2 DEF LowTurns, Exhausted
<1> QED
  BY <1>3, <1>4, <1>5, <1>6 DEF Vacated

\* A turn ends, or a group without a turn moves on and its row is spent or stays.
LEMMA EndLawful ==
    ASSUME Base, Rest, NEW d \in Drains, NEW k \in Sessions, AtWork(d, k),
           Vacated(d, k), NEW v \in Rows, row' = [row EXCEPT ![Current(d, k)] = v],
           IF at[d][k] = "turn"
           THEN EndsAs(Current(d, k), row[Current(d, k)], v, ~Exhausted(tries[d][k]))
           ELSE v = row[Current(d, k)]
                \/ (Spends(Current(d, k)) /\ v.status = "blocked")
    PROVE  Lawful
<1> DEFINE c == Current(d, k)
<1>1. c \in Tasks
  BY GroupFacts DEF Base
<1>2. \A t \in Tasks : row'[t] = IF t = c THEN v ELSE row[t]
  BY DEF Base, TypeOK
<1>3. row' \in [Tasks -> Rows]
  BY DEF Base, TypeOK
<1>4. TypeOK'
  BY <1>3, RestTypes DEF Vacated, Base
<1>5. Base'
  BY <1>4 DEF Vacated, Base
<1>6. crashes' = crashes /\ recovered' = recovered
  BY DEF Rest
<1> SUFFICES ASSUME NEW t \in Tasks PROVE TaskStep(t)
  BY <1>5 DEF Lawful
<1>7. TurnsOf(t)' = TurnsOf(t) \ {<<d, k>>} /\ LowTurns(t)' = LowTurns(t) \ {<<d, k>>}
  BY DEF Vacated
<1>8. <<d, k>> \in TurnsOf(t) <=> at[d][k] = "turn" /\ t = c
  BY DEF TurnsOf
<1>9. LowTurns(t) = {g \in TurnsOf(t) : ~Exhausted(tries[g[1]][g[2]])}
  BY DEF LowTurns
<1>10. CASE <<d, k>> \in TurnsOf(t)
  <2>1. <<d, k>> \in LowTurns(t) <=> ~Exhausted(tries[d][k])
    BY <1>9, <1>10
  <2>2. EndsAs(t, row[t], row'[t], <<d, k>> \in LowTurns(t))
    BY <1>2, <1>8, <1>10, <2>1 DEF EndsAs
  <2>3. Ends(t)
    BY <1>7, <1>10, <2>2 DEF Ends
  <2> QED
    BY <1>6, <2>3 DEF TaskStep
<1>11. CASE <<d, k>> \notin TurnsOf(t)
  <2>1. SameTurns(t)
    BY <1>7, <1>9, <1>11 DEF SameTurns
  <2>2. Unmoved(t) \/ Blocks(t)
    BY <1>2, <1>8, <1>11, <2>1 DEF Unmoved, Blocks
  <2> QED
    BY <1>6, <2>2 DEF TaskStep
<1> QED
  BY <1>10, <1>11

LEMMA CurrentRow ==
    ASSUME Base, NEW d \in Drains, NEW k \in Sessions, AtWork(d, k)
    PROVE  /\ row[Current(d, k)] \in Rows
           /\ Current(d, k) \in Tasks
           /\ now \in Nat
           /\ row = [row EXCEPT ![Current(d, k)] = row[Current(d, k)]]
<1>1. Current(d, k) \in Tasks
  BY GroupFacts DEF Base
<1> QED
  BY <1>1, StoreAssumption DEF Base, TypeOK

LEMMA StatusFacts ==
    /\ {"failed", "blocked", "cancelled", "completed"} = Terminal
    /\ "running" \notin Terminal /\ "pending" \notin Terminal /\ "absent" \notin Terminal
BY DEF Terminal

LEMMA BlockLawful ==
    ASSUME Base, Rest, NEW d \in Drains, NEW k \in Sessions, at[d][k] = "turn",
           BlockOrReject(d, k)
    PROVE  Lawful
<1> DEFINE c == Current(d, k)
<1>1. AtWork(d, k)
  BY DEF AtWork
<1>2. Leaves(d, k)
  BY DEF BlockOrReject, Leaves
<1>3. Vacated(d, k)
  BY <1>1, <1>2, LeaveVacates
<1>4. CASE row[c].status \in {"running", "pending"} /\ row' = [row EXCEPT ![c] = Settled(@, "blocked")]
  <2> DEFINE v == Settled(row[c], "blocked")
  <2>1. row' = [row EXCEPT ![c] = v]
    BY <1>1, <1>4, CurrentRow
  <2>2. v \in Rows /\ v.status = "blocked" /\ v.attempts = row[c].attempts
    BY <1>1, CurrentRow, RowFacts, StatusFacts
  <2> HIDE DEF v
  <2>3. EndsAs(c, row[c], v, ~Exhausted(tries[d][k]))
    BY <1>4, <2>2, StatusFacts DEF EndsAs
  <2> QED
    BY <1>1, <1>3, <2>1, <2>2, <2>3, EndLawful
<1>5. CASE row[c].status \in Terminal /\ UNCHANGED row
  <2>1. row' = [row EXCEPT ![c] = row[c]]
    BY <1>1, <1>5, CurrentRow
  <2>2. row[c] \in Rows
    BY <1>1, CurrentRow
  <2>3. EndsAs(c, row[c], row[c], ~Exhausted(tries[d][k]))
    BY <1>5, StatusFacts DEF EndsAs
  <2> QED
    BY <1>1, <1>3, <2>1, <2>2, <2>3, EndLawful
<1> QED
  BY <1>4, <1>5 DEF BlockOrReject

LEMMA CompletesLawful ==
    ASSUME Base, NEW d \in Drains, NEW k \in Sessions, TurnCompletes(d, k)
    PROVE  Lawful
<1> DEFINE c == Current(d, k)
<1>1. at[d][k] = "turn" /\ AtWork(d, k) /\ Rest
  BY DEF AtWork, TurnCompletes, Rest
<1>2. CASE row[c].status = "running"
  <2> DEFINE v == IF c \in Recurring THEN Requeued(row[c], now) ELSE Settled(row[c], "completed")
  <2>1. row' = [row EXCEPT ![c] = v] /\ NextTask(d, k)
    BY <1>1, <1>2, CurrentRow DEF TurnCompletes
  <2>2. Vacated(d, k)
    BY <1>1, <2>1, LeaveVacates DEF Leaves
  <2>3. v \in Rows /\ EndsAs(c, row[c], v, ~Exhausted(tries[d][k]))
    BY <1>1, <1>2, CurrentRow, RowFacts, StatusFacts DEF EndsAs
  <2> QED
    BY <1>1, <2>1, <2>2, <2>3, EndLawful
<1>3. CASE row[c].status # "running"
  <2>1. BlockOrReject(d, k)
    BY <1>3 DEF TurnCompletes
  <2> QED
    BY <1>1, <2>1, BlockLawful
<1> QED
  BY <1>2, <1>3

LEMMA FailsLawful ==
    ASSUME Base, NEW d \in Drains, NEW k \in Sessions, TurnFails(d, k)
    PROVE  Lawful
<1> DEFINE c == Current(d, k)
<1>1. at[d][k] = "turn" /\ AtWork(d, k) /\ Rest
  BY DEF AtWork, TurnFails, Rest
<1>2. CASE row[c].status # "running" /\ BlockOrReject(d, k)
  BY <1>1, <1>2, BlockLawful
<1>3. CASE row[c].status # "running" /\ Reject(d, k) /\ UNCHANGED row
  <2>1. Vacated(d, k)
    BY <1>1, <1>3, LeaveVacates DEF Leaves
  <2>2. row' = [row EXCEPT ![c] = row[c]] /\ row[c] \in Rows
    BY <1>1, <1>3, CurrentRow
  <2>3. EndsAs(c, row[c], row[c], ~Exhausted(tries[d][k]))
    BY <1>3 DEF EndsAs
  <2> QED
    BY <1>1, <2>1, <2>2, <2>3, EndLawful
<1>4. CASE /\ row[c].status = "running" /\ Exhausted(tries[d][k])
           /\ row' = [row EXCEPT ![c] = Settled(@, "failed")]
           /\ NextTask(d, k)
  <2> DEFINE v == Settled(row[c], "failed")
  <2>1. row' = [row EXCEPT ![c] = v]
    BY <1>1, <1>4, CurrentRow
  <2>2. Vacated(d, k)
    BY <1>1, <1>4, LeaveVacates DEF Leaves
  <2>3. v \in Rows /\ EndsAs(c, row[c], v, ~Exhausted(tries[d][k]))
    BY <1>1, <1>4, CurrentRow, RowFacts, StatusFacts DEF EndsAs
  <2> QED
    BY <1>1, <2>1, <2>2, <2>3, EndLawful
<1>5. CASE /\ row[c].status = "running" /\ ~Exhausted(tries[d][k])
           /\ row' = [row EXCEPT ![c] = Retried(@)]
           /\ IF kind[d] = "one"
              THEN NextTask(d, k)
              ELSE /\ at' = [at EXCEPT ![d][k] = "sleep"]
                   /\ wake' = [wake EXCEPT ![d][k] = Later]
                   /\ tries' = [tries EXCEPT ![d][k] = 0]
                   /\ UNCHANGED <<kind, owner, todo, inFlight>>
  <2> DEFINE v == Retried(row[c])
  <2>1. row' = [row EXCEPT ![c] = v]
    BY <1>1, <1>5, CurrentRow
  <2>2. Vacated(d, k)
    <3>1. CASE NextTask(d, k)
      BY <1>1, <3>1, LeaveVacates DEF Leaves
    <3>2. CASE /\ at' = [at EXCEPT ![d][k] = "sleep"]
               /\ wake' = [wake EXCEPT ![d][k] = Later]
               /\ tries' = [tries EXCEPT ![d][k] = 0]
               /\ UNCHANGED <<kind, owner, todo, inFlight>>
      BY <1>1, <3>2, SleepVacates
    <3> QED
      BY <1>5, <3>1, <3>2
  <2>3. v \in Rows /\ EndsAs(c, row[c], v, ~Exhausted(tries[d][k]))
    BY <1>1, <1>5, CurrentRow, RowFacts, StatusFacts DEF EndsAs
  <2> QED
    BY <1>1, <2>1, <2>2, <2>3, EndLawful
<1> QED
  BY <1>2, <1>3, <1>4, <1>5 DEF TurnFails

LEMMA EndTurnLawful ==
    ASSUME Base, NEW d \in Drains, NEW k \in Sessions, EndTurn(d, k)
    PROVE  Lawful
<1> DEFINE c == Current(d, k)
<1>1. CASE TurnCompletes(d, k)
  BY <1>1, CompletesLawful
<1>2. CASE TurnFails(d, k)
  BY <1>2, FailsLawful
<1>3. CASE TurnThrows(d, k)
  BY <1>3, BlockLawful DEF TurnThrows, Rest
<1>4. CASE TurnCancelled(d, k)
  <2>1. at[d][k] = "turn" /\ AtWork(d, k) /\ Rest /\ NextTask(d, k)
    BY <1>4 DEF AtWork, TurnCancelled, Rest
  <2>2. Vacated(d, k)
    BY <2>1, LeaveVacates DEF Leaves
  <2> DEFINE v == IF row[c].status \in Terminal THEN row[c] ELSE Settled(row[c], "cancelled")
  <2>3. row' = [row EXCEPT ![c] = v]
    BY <1>4, <2>1, CurrentRow DEF TurnCancelled
  <2>4. CASE row[c].status \in Terminal
    <3>1. v \in Rows /\ EndsAs(c, row[c], v, ~Exhausted(tries[d][k]))
      BY <2>1, <2>4, CurrentRow, StatusFacts DEF EndsAs
    <3> QED
      BY <2>1, <2>2, <2>3, <3>1, EndLawful
  <2>5. CASE row[c].status \notin Terminal
    <3>1. v \in Rows /\ EndsAs(c, row[c], v, ~Exhausted(tries[d][k]))
      BY <2>1, <2>5, CurrentRow, RowFacts, StatusFacts DEF EndsAs
    <3> QED
      BY <2>1, <2>2, <2>3, <3>1, EndLawful
  <2> QED
    BY <2>4, <2>5
<1> QED
  BY <1>1, <1>2, <1>3, <1>4 DEF EndTurn

LEMMA ClaimLawful ==
    ASSUME Base, NEW d \in Drains, NEW k \in Sessions, Claim(d, k)
    PROVE  Lawful
<1> DEFINE c == Current(d, k)
<1>1. AtWork(d, k) /\ at[d][k] # "turn" /\ Rest
  BY DEF AtWork, Claim, Rest
<1>2. CASE /\ row[c].status = "pending"
           /\ row' = [row EXCEPT ![c] = Claimed(@, now)]
           /\ at' = [at EXCEPT ![d][k] = "turn"]
           /\ tries' = [tries EXCEPT ![d][k] = row[c].attempts + 1]
           /\ wake' = [wake EXCEPT ![d][k] = 0]
           /\ UNCHANGED <<kind, owner, todo, inFlight>>
  <2> DEFINE v == Claimed(row[c], now)
  <2>1. row' = [row EXCEPT ![c] = v]
    BY <1>1, <1>2, CurrentRow
  <2>2. v \in Rows /\ v.status = "running" /\ v.attempts = row[c].attempts + 1 /\ c \in Tasks
    BY <1>1, CurrentRow, RowFacts
  <2> HIDE DEF v
  <2>3. \A t \in Tasks : row'[t] = IF t = c THEN v ELSE row[t]
    BY <2>1 DEF Base, TypeOK
  <2>4. \A e \in Drains, j \in Sessions :
          /\ at'[e][j] = IF e = d /\ j = k THEN "turn" ELSE at[e][j]
          /\ tries'[e][j] = IF e = d /\ j = k THEN v.attempts ELSE tries[e][j]
    BY <1>2, <2>2 DEF Base, TypeOK
  <2>5. DrainTypes'
    <3>1. row[c].attempts + 1 \in Nat
      BY <1>1, CurrentRow DEF Rows
    <3> QED
      BY <1>2, <3>1 DEF Base, TypeOK, DrainTypes
  <2>6. DrainInv'
    <3>1. ASSUME NEW e \in Drains, kind[e] = "free", NEW j \in Sessions PROVE at'[e][j] = "idle"
      BY <1>1, <2>4, <3>1, GroupFacts DEF Base, DrainInv
    <3>2. ASSUME NEW e \in Drains, kind[e] # "free" PROVE owner[e] \in up'
      BY <1>1, <3>2 DEF Base, DrainInv, Rest
    <3>3. ASSUME NEW e \in Drains, NEW j \in Sessions, at'[e][j] \in {"ready", "turn", "sleep"}
          PROVE todo[e][j] # <<>>
      BY <1>1, <2>4, <3>3 DEF Base, DrainInv, AtWork
    <3> QED
      BY <1>2, <3>1, <3>2, <3>3 DEF DrainInv
  <2>7. TickIsWatched'
    BY <1>1, <1>2, <2>4 DEF Base, TickIsWatched, TickDrains, AtWork
  <2>8. Base'
    <3>1. row' \in [Tasks -> Rows]
      BY <2>1, <2>2 DEF Base, TypeOK
    <3> QED
      BY <1>1, <2>5, <2>6, <2>7, <3>1, RestTypes DEF Base
  <2>9. ASSUME NEW t \in Tasks PROVE TaskStep(t)
    <3>1. TurnsOf(t)' = IF t = c THEN TurnsOf(t) \cup {<<d, k>>} ELSE TurnsOf(t)
      <4>1. \A g \in Drains \X Sessions :
              g \in TurnsOf(t)' <=> (g \in TurnsOf(t) \/ (t = c /\ g = <<d, k>>))
        BY <1>1, <1>2, <2>4 DEF TurnsOf, Current
      <4>2. TurnsOf(t) \subseteq Drains \X Sessions /\ TurnsOf(t)' \subseteq Drains \X Sessions
        BY DEF TurnsOf
      <4> QED
        BY <4>1, <4>2
    <3>2. <<d, k>> \notin TurnsOf(t)
      BY <1>1 DEF TurnsOf
    <3>3. \A g \in TurnsOf(t) : tries'[g[1]][g[2]] = tries[g[1]][g[2]]
      BY <2>4, <3>2 DEF TurnsOf
    <3>4. t # c \/ Exhausted(v.attempts) => LowTurns(t)' = LowTurns(t)
      BY <2>4, <3>1, <3>3 DEF LowTurns, Exhausted
    <3>5. CASE t = c
      <4>1. Starts(t)
        BY <1>2, <2>2, <2>3, <3>1, <3>2, <3>4, <3>5 DEF Starts, Spends
      <4> QED
        BY <1>1, <4>1 DEF TaskStep, Rest
    <3>6. CASE t # c
      <4>1. Unmoved(t)
        BY <2>3, <3>1, <3>4, <3>6 DEF Unmoved, SameTurns
      <4> QED
        BY <1>1, <4>1 DEF TaskStep, Rest
    <3> QED
      BY <3>5, <3>6
  <2> QED
    BY <2>8, <2>9 DEF Lawful
<1>3. CASE /\ row[c].status = "pending"
           /\ row' = [row EXCEPT ![c] = Settled(Claimed(@, now), "blocked")]
           /\ NextTask(d, k)
  <2> DEFINE v == Settled(Claimed(row[c], now), "blocked")
  <2>1. row' = [row EXCEPT ![c] = v]
    BY <1>1, <1>3, CurrentRow
  <2>2. Claimed(row[c], now) \in Rows /\ Claimed(row[c], now).attempts = row[c].attempts + 1
    BY <1>1, CurrentRow, RowFacts
  <2>3. v \in Rows /\ v.status = "blocked" /\ v.attempts = row[c].attempts + 1
    BY <1>1, <2>2, CurrentRow, RowFacts, StatusFacts
  <2>4. Vacated(d, k)
    BY <1>1, <1>3, LeaveVacates DEF Leaves
  <2> HIDE DEF v
  <2>5. row'[c] = v
    BY <1>1, <2>1, CurrentRow DEF Base, TypeOK
  <2>6. Spends(c)
    BY <1>3, <2>3, <2>5 DEF Spends
  <2> QED
    BY <1>1, <2>1, <2>3, <2>4, <2>6, EndLawful
<1>4. CASE NextTask(d, k) /\ UNCHANGED row
  <2>1. Vacated(d, k)
    BY <1>1, <1>4, LeaveVacates DEF Leaves
  <2>2. row' = [row EXCEPT ![c] = row[c]] /\ row[c] \in Rows
    BY <1>1, <1>4, CurrentRow
  <2> QED
    BY <1>1, <2>1, <2>2, EndLawful
<1> QED
  BY <1>2, <1>3, <1>4 DEF Claim

\* The table as a drain finds it: as it is, but for a row just inserted.
LEMMA BeginLawful ==
    ASSUME Base, Rest, NEW d \in Drains, NEW p \in up, NEW kd \in Kinds \ {"free"},
           NEW r \in [Tasks -> Rows], NEW groups \in Groups(r),
           \A t \in Tasks : r[t] = row[t] \/ (/\ row[t].status = "absent"
                                              /\ r[t].status = "pending" /\ r[t].attempts = 0),
           (kd = "tick") => inFlight[p] = NoDrain,
           Begin(d, p, kd, groups, r)
    PROVE  Lawful
<1>1. p \in Procs
  BY DEF Base, TypeOK
<1>2. PICK gone \in SUBSET Tasks, started \in SUBSET Tasks, runs \in SUBSET Sessions,
           left \in [Sessions -> Seq(Tasks)] :
        BeginWith(d, p, kd, r, gone, started, runs, left)
  BY <1>1, BeginEffect
<1>3. /\ row' \in [Tasks -> Rows]
      /\ DrainTypes'
      /\ DrainInv'
      /\ \A t \in Tasks : TurnsOf(t)' = IF t \in started
             THEN TurnsOf(t) \cup {<<d, SessionOf[t]>>} ELSE TurnsOf(t)
      /\ \A t \in Tasks : (t \in started => Exhausted(row'[t].attempts)) =>
             LowTurns(t)' = LowTurns(t)
      /\ TickIsWatched'
  BY <1>2, BeginFacts DEF Base, Rest
<1>4. Base'
  BY <1>3, RestTypes DEF Base
<1> SUFFICES ASSUME NEW t \in Tasks PROVE TaskStep(t)
  BY <1>4 DEF Lawful
<1>5. crashes' = crashes /\ recovered'[t] = recovered[t]
  BY DEF Rest
<1>6. /\ row'[t] = IF t \in gone THEN Settled(Claimed(r[t], now), "blocked")
                   ELSE IF t \in started THEN Claimed(r[t], now) ELSE r[t]
      /\ t \in gone \cup started => r[t].status = "pending"
      /\ ~(t \in gone /\ t \in started)
  BY <1>2 DEF BeginWith
<1>7. r[t] \in Rows /\ now \in Nat
  BY StoreAssumption DEF Base, TypeOK
<1>8. /\ Claimed(r[t], now) \in Rows
      /\ Claimed(r[t], now).status = "running"
      /\ Claimed(r[t], now).attempts = r[t].attempts + 1
  BY <1>7, RowFacts
<1>9. /\ Settled(Claimed(r[t], now), "blocked").status = "blocked"
      /\ Settled(Claimed(r[t], now), "blocked").attempts = r[t].attempts + 1
  BY <1>7, <1>8, RowFacts, StatusFacts
<1>10. CASE t \in gone
  <2>1. Spends(t) /\ row'[t].status = "blocked"
    BY <1>6, <1>9, <1>10 DEF Spends
  <2>2. SameTurns(t)
    BY <1>3, <1>6, <1>10 DEF SameTurns
  <2> QED
    BY <1>5, <2>1, <2>2 DEF TaskStep, Blocks
<1>11. CASE t \in started
  <2>1. Spends(t) /\ row'[t].status = "running"
    BY <1>6, <1>8, <1>11 DEF Spends
  <2>2. <<d, SessionOf[t]>> \in (Drains \X Sessions) \ TurnsOf(t)
    <3>1. SessionOf[t] \in Sessions
      BY StoreAssumption
    <3>2. at[d][SessionOf[t]] = "idle"
      BY <1>2, <3>1 DEF BeginWith, Base, DrainInv
    <3> QED
      BY <3>1, <3>2 DEF TurnsOf
  <2>3. TurnsOf(t)' = TurnsOf(t) \cup {<<d, SessionOf[t]>>}
    BY <1>3, <1>11
  <2>4. Exhausted(row'[t].attempts) => LowTurns(t)' = LowTurns(t)
    BY <1>3
  <2>5. Starts(t)
    BY <2>1, <2>2, <2>3, <2>4 DEF Starts
  <2> QED
    BY <1>5, <2>5 DEF TaskStep
<1>12. CASE t \notin gone /\ t \notin started
  <2>1. SameTurns(t) /\ row'[t] = r[t]
    BY <1>3, <1>6, <1>12 DEF SameTurns
  <2>2. Unmoved(t) \/ Inserted(t)
    BY <2>1 DEF Unmoved, Inserted
  <2> QED
    BY <1>5, <2>2 DEF TaskStep
<1> QED
  BY <1>10, <1>11, <1>12

\* What leaves the drains alone leaves the turns alone.
LEMMA SameDrains ==
    ASSUME Base, UNCHANGED <<drainVars, inFlight>>, up \subseteq up'
    PROVE  DrainTypes' /\ DrainInv' /\ TickIsWatched' /\ \A t \in Tasks : SameTurns(t)
<1>1. /\ kind' = kind /\ owner' = owner /\ todo' = todo /\ at' = at
      /\ tries' = tries /\ wake' = wake /\ inFlight' = inFlight
  BY DEF drainVars
<1>2. DrainTypes'
  BY <1>1 DEF Base, TypeOK, DrainTypes
<1>3. DrainInv'
  BY <1>1 DEF Base, DrainInv
<1>4. TickIsWatched'
  BY <1>1 DEF Base, TickIsWatched, TickDrains
<1>5. \A t \in Tasks : TurnsOf(t)' = TurnsOf(t)
  BY <1>1 DEF TurnsOf, Current
<1>6. \A t \in Tasks : LowTurns(t)' = LowTurns(t)
  BY <1>1, <1>5 DEF LowTurns
<1> QED
  BY <1>2, <1>3, <1>4, <1>5, <1>6 DEF SameTurns

LEMMA CreateLawful ==
    ASSUME Base, NEW p \in Procs, Create(p)
    PROVE  Lawful
<1>0. PICK c \in Tasks, d \in Drains : Create(p)!(c, d)
  BY DEF Create
<1>1. PICK due \in IF c \in Recurring THEN {now + Period} ELSE {0} \cup {now + x : x \in Delays} :
        Create(p)!(c, d)!(due)
  BY <1>0
<1> DEFINE inserted == [row EXCEPT ![c] = Created(due)]
<1>2. due \in Nat /\ now \in Nat
  BY StoreAssumption, RunnerAssumption DEF Base, TypeOK
<1>3. p \in up /\ row[c].status = "absent" /\ Rest
  BY <1>1 DEF Rest
<1>4. Created(due) \in Rows /\ Created(due).status = "pending" /\ Created(due).attempts = 0
  <2>1. row[c] \in Rows
    BY DEF Base, TypeOK
  <2> QED
    BY <1>2, <2>1, RowFacts
<1>5. inserted \in [Tasks -> Rows]
  BY <1>4 DEF Base, TypeOK
<1>6. \A t \in Tasks : inserted[t] = row[t] \/ (/\ row[t].status = "absent"
                              /\ inserted[t].status = "pending" /\ inserted[t].attempts = 0)
  BY <1>3, <1>4 DEF Base, TypeOK
<1>7. CASE due <= now
  <2> DEFINE groups == [k \in Sessions |->
                IF k = SessionOf[c] THEN PendingOf(inserted, k) ELSE <<>>]
  <2>1. Begin(d, p, "eager", groups, inserted)
    BY <1>1, <1>7
  <2> HIDE DEF inserted
  <2>2. groups \in Groups(inserted)
    BY <1>2, <1>5, ListingFacts DEF Groups
  <2>3. "eager" \in Kinds \ {"free"} /\ "eager" # "tick"
    BY DEF Kinds
  <2> HIDE DEF groups
  <2> QED
    BY <1>3, <1>5, <1>6, <2>1, <2>2, <2>3, BeginLawful
<1>8. CASE due > now
  <2>1. row' = inserted /\ UNCHANGED <<drainVars, inFlight>>
    BY <1>1, <1>2, <1>8
  <2>2. DrainTypes' /\ DrainInv' /\ TickIsWatched' /\ \A t \in Tasks : SameTurns(t)
    BY <1>3, <2>1, SameDrains DEF Rest
  <2>3. Base'
    BY <1>3, <1>5, <2>1, <2>2, RestTypes DEF Base
  <2>4. \A t \in Tasks : Unmoved(t) \/ Inserted(t)
    BY <1>6, <2>1, <2>2 DEF Unmoved, Inserted
  <2> QED
    BY <1>3, <2>3, <2>4 DEF Lawful, TaskStep, Rest
<1> QED
  BY <1>2, <1>7, <1>8

LEMMA TickLawful ==
    ASSUME Base, NEW p \in Procs, SchedulerTick(p) \/ DrainAll(p) \/ RunOne(p)
    PROVE  Lawful
<1>1. row \in [Tasks -> Rows] /\ now \in Nat
  BY StoreAssumption DEF Base, TypeOK
<1>2. p \in up /\ Rest
  BY DEF SchedulerTick, DrainAll, RunOne, Rest
<1>3. PICK d \in Drains, kd \in Kinds \ {"free"}, groups \in Groups(row) :
        Begin(d, p, kd, groups, row) /\ (kd = "tick" => inFlight[p] = NoDrain)
  <2>1. CASE SchedulerTick(p)
    <3> DEFINE groups == [k \in Sessions |-> DueOf(row, k, now)]
    <3>1. PICK d \in Drains : Begin(d, p, "tick", groups, row) /\ inFlight[p] = NoDrain
      BY <2>1 DEF SchedulerTick
    <3>2. groups \in Groups(row)
      BY <1>1, ListingFacts DEF Groups
    <3>3. "tick" \in Kinds \ {"free"}
      BY DEF Kinds
    <3> HIDE DEF groups
    <3> QED
      BY <3>1, <3>2, <3>3
  <2>2. CASE DrainAll(p)
    <3> DEFINE groups == [k \in Sessions |-> PendingOf(row, k)]
    <3>1. PICK d \in Drains : Begin(d, p, "pending", groups, row)
      BY <2>2 DEF DrainAll
    <3>2. groups \in Groups(row)
      BY <1>1, ListingFacts DEF Groups
    <3>3. "pending" \in Kinds \ {"free"} /\ "pending" # "tick"
      BY DEF Kinds
    <3> HIDE DEF groups
    <3> QED
      BY <3>1, <3>2, <3>3
  <2>3. CASE RunOne(p)
    <3>1. PICK t \in Tasks, d \in Drains :
            /\ row[t].status = "pending"
            /\ Begin(d, p, "one", [k \in Sessions |-> IF k = SessionOf[t] THEN <<t>> ELSE <<>>], row)
      BY <2>3 DEF RunOne
    <3> DEFINE groups == [k \in Sessions |-> IF k = SessionOf[t] THEN <<t>> ELSE <<>>]
    <3>2. groups \in Groups(row)
      BY <3>1 DEF Groups
    <3>3. "one" \in Kinds \ {"free"} /\ "one" # "tick"
      BY DEF Kinds
    <3> HIDE DEF groups
    <3> QED
      BY <3>1, <3>2, <3>3 DEF groups
  <2> QED
    BY <2>1, <2>2, <2>3
<1> QED
  BY <1>1, <1>2, <1>3, BeginLawful

LEMMA CancelLawful ==
    ASSUME Base, NEW c \in Tasks, Cancel(c)
    PROVE  Lawful
<1> DEFINE v == Settled(row[c], "cancelled")
<1>1. row[c].status \in {"pending", "running"} /\ row' = [row EXCEPT ![c] = v]
  BY DEF Cancel, Base, TypeOK
<1>2. UNCHANGED <<drainVars, inFlight>> /\ Rest
  BY DEF Cancel, procVars, Rest
<1>3. v \in Rows /\ v.status = "cancelled" /\ v.attempts = row[c].attempts
  <2>1. row[c] \in Rows /\ now \in Nat
    BY StoreAssumption DEF Base, TypeOK
  <2> QED
    BY <2>1, RowFacts, StatusFacts
<1> HIDE DEF v
<1>4. row' \in [Tasks -> Rows] /\ \A t \in Tasks : row'[t] = IF t = c THEN v ELSE row[t]
  BY <1>1, <1>3 DEF Base, TypeOK
<1>5. DrainTypes' /\ DrainInv' /\ TickIsWatched' /\ \A t \in Tasks : SameTurns(t)
  BY <1>2, SameDrains DEF Rest
<1>6. Base'
  BY <1>2, <1>4, <1>5, RestTypes DEF Base
<1>7. \A t \in Tasks : Unmoved(t) \/ CancelsRow(t)
  BY <1>1, <1>3, <1>4, <1>5 DEF Unmoved, CancelsRow
<1> QED
  BY <1>2, <1>6, <1>7 DEF Lawful, TaskStep, Rest

\* The steps that touch neither rows nor drains.
LEMMA QuietLawful ==
    ASSUME Base, \/ \E p \in Procs : StopScheduler(p)
                 \/ ClockTick
                 \/ UNCHANGED vars
    PROVE  Lawful
<1>1. /\ row' = row /\ UNCHANGED <<drainVars, inFlight>>
      /\ up' = up /\ crashes' = crashes /\ recovered' = recovered
  BY DEF StopScheduler, ClockTick, vars, storeVars, procVars
<1>2. now' \in 0..MaxTime
  <2>1. MaxTime \in Nat
    BY StoreAssumption
  <2> QED
    BY <2>1 DEF StopScheduler, ClockTick, vars, storeVars, Base, TypeOK
<1>3. stopping' \subseteq Procs
  BY DEF StopScheduler, ClockTick, vars, procVars, Base, TypeOK
<1>4. DrainTypes' /\ DrainInv' /\ TickIsWatched' /\ \A t \in Tasks : SameTurns(t)
  BY <1>1, SameDrains
<1>5. TypeOK'
  BY <1>1, <1>2, <1>3, <1>4 DEF Base, TypeOK, DrainTypes
<1>6. \A t \in Tasks : Unmoved(t)
  BY <1>1, <1>4 DEF Unmoved
<1> QED
  BY <1>1, <1>4, <1>5, <1>6 DEF Lawful, Base, TaskStep

LEMMA CrashLawful ==
    ASSUME Base, NEW p \in Procs, Crash(p)
    PROVE  Lawful
<1>1. /\ kind' = [d \in Drains |-> IF owner[d] = p THEN "free" ELSE kind[d]]
      /\ owner' = [d \in Drains |-> IF owner[d] = p THEN NoProc ELSE owner[d]]
      /\ todo' = [d \in Drains |-> IF owner[d] = p THEN [k \in Sessions |-> <<>>] ELSE todo[d]]
      /\ at' = [d \in Drains |-> IF owner[d] = p THEN [k \in Sessions |-> "idle"] ELSE at[d]]
      /\ tries' = [d \in Drains |-> IF owner[d] = p THEN [k \in Sessions |-> 0] ELSE tries[d]]
      /\ wake' = [d \in Drains |-> IF owner[d] = p THEN [k \in Sessions |-> 0] ELSE wake[d]]
      /\ inFlight' = [inFlight EXCEPT ![p] = NoDrain]
  BY DEF Crash
<1>2. /\ up' = up \ {p} /\ stopping' = stopping \ {p}
      /\ row' = row /\ now' = now /\ recovered' = recovered
      /\ crashes' = crashes + 1 /\ crashes < MaxCrashes
  BY DEF Crash, storeVars
<1>3. DrainTypes'
  <2>1. "free" \in Kinds
    BY DEF Kinds
  <2>2. kind' \in [Drains -> Kinds] /\ owner' \in [Drains -> Procs \cup {NoProc}]
    BY <1>1, <2>1 DEF Base, TypeOK
  <2>3. todo' \in [Drains -> [Sessions -> Seq(Tasks)]]
    BY <1>1 DEF Base, TypeOK
  <2>4. at' \in [Drains -> [Sessions -> {"idle", "ready", "turn", "sleep", "stuck"}]]
    BY <1>1 DEF Base, TypeOK
  <2>5. tries' \in [Drains -> [Sessions -> Nat]] /\ wake' \in [Drains -> [Sessions -> Nat]]
    BY <1>1 DEF Base, TypeOK
  <2>6. inFlight' \in [Procs -> Drains \cup {NoDrain}]
    BY <1>1 DEF Base, TypeOK
  <2> QED
    BY <2>2, <2>3, <2>4, <2>5, <2>6 DEF DrainTypes
<1>4. TypeOK'
  <2>1. crashes' \in 0..MaxCrashes
    BY <1>2, RunnerAssumption DEF Base, TypeOK
  <2> QED
    BY <1>2, <1>3, <2>1 DEF Base, TypeOK, DrainTypes
<1>5. DrainInv'
  <2>1. ASSUME NEW d \in Drains, kind'[d] = "free", NEW k \in Sessions PROVE at'[d][k] = "idle"
    BY <1>1, <2>1 DEF Base, DrainInv
  <2>2. ASSUME NEW d \in Drains, kind'[d] # "free" PROVE owner'[d] \in up'
    BY <1>1, <1>2, <2>2 DEF Base, DrainInv
  <2>3. ASSUME NEW d \in Drains, NEW k \in Sessions, at'[d][k] \in {"ready", "turn", "sleep"}
        PROVE todo'[d][k] # <<>>
    BY <1>1, <2>3 DEF Base, DrainInv
  <2> QED
    BY <2>1, <2>2, <2>3 DEF DrainInv
<1>6. TickIsWatched'
  <2> SUFFICES ASSUME NEW q \in Procs, NEW d \in Drains,
                      kind'[d] = "tick", owner'[d] = q, inFlight'[q] # d
               PROVE  \E j \in Sessions : at'[d][j] = "stuck"
    BY DEF TickIsWatched, TickDrains
  <2>1. owner[d] # p /\ kind[d] = "tick" /\ owner[d] = q /\ at'[d] = at[d]
    BY <1>1
  <2>2. inFlight[q] # d
    BY <1>1, <2>1 DEF Base, TypeOK
  <2> QED
    BY <2>1, <2>2 DEF Base, TickIsWatched, TickDrains
<1>7. ASSUME NEW t \in Tasks PROVE Dies(t)
  <2>1. \A e \in Drains, j \in Sessions : at'[e][j] = "turn" =>
          at[e][j] = "turn" /\ todo'[e][j] = todo[e][j] /\ tries'[e][j] = tries[e][j]
    BY <1>1
  <2>2. TurnsOf(t)' \subseteq TurnsOf(t)
    BY <2>1 DEF TurnsOf, Current
  <2>3. LowTurns(t)' \subseteq LowTurns(t)
    BY <2>1, <2>2 DEF LowTurns, TurnsOf, Exhausted
  <2> QED
    BY <1>2, <2>2, <2>3 DEF Dies
<1> QED
  BY <1>2, <1>4, <1>5, <1>6, <1>7 DEF Lawful, Base, TaskStep

\* A row that is recovered has no turn where only the one process exists.
LEMMA RestartLawful ==
    ASSUME Base, NEW p \in Procs, Restart(p)
    PROVE  Lawful
<1> DEFINE stale == {t \in Tasks : IsStale(row[t], now, StaleAfter)}
<1>1. /\ p \notin up /\ up' = up \cup {p} /\ UNCHANGED <<drainVars, inFlight>>
      /\ now' = now /\ stopping' = stopping /\ crashes' = crashes
  BY DEF Restart
<1>2. /\ row' = [t \in Tasks |-> IF t \in stale THEN Retried(row[t]) ELSE row[t]]
      /\ recovered' = [t \in Tasks |-> IF t \in stale THEN recovered[t] + 1 ELSE recovered[t]]
  BY DEF Restart
<1>3. DrainTypes' /\ DrainInv' /\ TickIsWatched' /\ \A t \in Tasks : SameTurns(t)
  BY <1>1, SameDrains
<1>4. \A t \in Tasks : row[t] \in Rows /\ Retried(row[t]) \in Rows
        /\ Retried(row[t]).status = "pending" /\ Retried(row[t]).attempts = row[t].attempts
  <2>1. now \in Nat
    BY StoreAssumption DEF Base, TypeOK
  <2> QED
    BY <2>1, RowFacts DEF Base, TypeOK
<1>5. TypeOK'
  <2>1. row' \in [Tasks -> Rows] /\ recovered' \in [Tasks -> Nat]
    BY <1>2, <1>4 DEF Base, TypeOK
  <2> QED
    BY <1>1, <1>3, <2>1 DEF Base, TypeOK, DrainTypes
<1>6. Cardinality(Procs) <= 1 => \A t \in Tasks : TurnsOf(t) = {}
  <2> SUFFICES ASSUME Cardinality(Procs) <= 1, NEW t \in Tasks, NEW g \in TurnsOf(t)
               PROVE  FALSE
    OBVIOUS
  <2>1. g[1] \in Drains /\ g[2] \in Sessions /\ at[g[1]][g[2]] = "turn"
    BY DEF TurnsOf
  <2>2. owner[g[1]] \in up /\ owner[g[1]] \in Procs
    BY <2>1, GroupFacts DEF Base, AtWork
  <2> DEFINE q == owner[g[1]]
  <2>3. q # p /\ {p, q} \subseteq Procs
    BY <1>1, <2>2
  <2> HIDE DEF q
  <2>4. Cardinality({p, q}) <= Cardinality(Procs) /\ Cardinality(Procs) \in Nat
    BY <2>3, RunnerAssumption, FS_Subset, FS_CardinalityType
  <2>5. Cardinality({p, q}) = 2
    <3>1. Cardinality({p}) = 1 /\ IsFiniteSet({p})
      BY FS_Singleton
    <3>2. {p, q} = {p} \cup {q} /\ q \notin {p}
      BY <2>3
    <3>3. Cardinality({p} \cup {q}) = Cardinality({p}) + 1
      BY <3>1, <3>2, FS_AddElement
    <3> QED
      BY <3>1, <3>2, <3>3
  <2> QED
    BY <2>4, <2>5
<1>7. ASSUME NEW t \in Tasks PROVE TaskStep(t)
  <2>1. CASE t \in stale
    <3>1. Recovers(t)
      BY <1>2, <1>3, <1>4, <1>6, <2>1 DEF Recovers, IsStale
    <3> QED
      BY <1>1, <3>1 DEF TaskStep
  <2>2. CASE t \notin stale
    <3>1. Unmoved(t) /\ recovered'[t] = recovered[t]
      BY <1>2, <1>3, <2>2 DEF Unmoved
    <3> QED
      BY <1>1, <3>1 DEF TaskStep
  <2> QED
    BY <2>1, <2>2
<1> QED
  BY <1>3, <1>5, <1>7 DEF Lawful, Base

\* Every step is lawful.
LEMMA StepLawful ==
    ASSUME Base, [Next]_vars
    PROVE  Lawful
<1>1. ASSUME NEW d \in Drains, NEW k \in Sessions, Claim(d, k) PROVE Lawful
  BY <1>1, ClaimLawful
<1>2. ASSUME NEW d \in Drains, NEW k \in Sessions, EndTurn(d, k) PROVE Lawful
  BY <1>2, EndTurnLawful
<1>3. ASSUME NEW p \in Procs, Create(p) PROVE Lawful
  BY <1>3, CreateLawful
<1>4. ASSUME NEW p \in Procs, SchedulerTick(p) \/ DrainAll(p) \/ RunOne(p) PROVE Lawful
  BY <1>4, TickLawful
<1>5. ASSUME NEW p \in Procs, Crash(p) PROVE Lawful
  BY <1>5, CrashLawful
<1>6. ASSUME NEW p \in Procs, Restart(p) PROVE Lawful
  BY <1>6, RestartLawful
<1>7. ASSUME NEW t \in Tasks, Cancel(t) PROVE Lawful
  BY <1>7, CancelLawful
<1>8. CASE (\E p \in Procs : StopScheduler(p)) \/ ClockTick \/ UNCHANGED vars
  BY <1>8, QuietLawful
<1> QED
  BY <1>1, <1>2, <1>3, <1>4, <1>5, <1>6, <1>7, <1>8 DEF Next, EndTurn

-----------------------------------------------------------------------------
(* The invariants.                                                         *)

\* How the number of turns changes.
LEMMA CountFacts ==
    ASSUME NEW S, IsFiniteSet(S), NEW g
    PROVE  /\ Cardinality(S) \in Nat
           /\ IsFiniteSet(S \cup {g})
           /\ Cardinality(S \cup {g}) \in Nat
           /\ Cardinality(S \cup {g}) <= Cardinality(S) + 1
           /\ \A T \in SUBSET S : IsFiniteSet(T) /\ Cardinality(T) \in Nat
                                                /\ Cardinality(T) <= Cardinality(S)
           /\ IsFiniteSet(S \ {g})
           /\ Cardinality(S \ {g}) \in Nat
           /\ g \in S => Cardinality(S \ {g}) = Cardinality(S) - 1
<1>1. Cardinality(S) \in Nat
  BY FS_CardinalityType
<1>2. /\ IsFiniteSet(S \cup {g})
      /\ Cardinality(S \cup {g}) = IF g \in S THEN Cardinality(S) ELSE Cardinality(S) + 1
  BY FS_AddElement
<1>3. /\ IsFiniteSet(S \ {g})
      /\ Cardinality(S \ {g}) = IF g \in S THEN Cardinality(S) - 1 ELSE Cardinality(S)
  BY FS_RemoveElement
<1>4. \A T \in SUBSET S : IsFiniteSet(T) /\ Cardinality(T) <= Cardinality(S)
  BY FS_Subset
<1>5. \A T \in SUBSET S : Cardinality(T) \in Nat
  BY <1>4, FS_CardinalityType
<1>6. Cardinality(S \ {g}) \in Nat
  BY <1>3, FS_CardinalityType
<1>7. Cardinality(S \cup {g}) \in Nat
  BY <1>2, FS_CardinalityType
<1> QED
  BY <1>1, <1>2, <1>3, <1>4, <1>5, <1>6, <1>7

\* What holds of a task's numbers.
LEMMA TaskFacts ==
    ASSUME IInv, NEW t \in Tasks
    PROVE  /\ row[t] \in Rows /\ row[t].attempts \in Nat
           /\ recovered[t] \in Nat /\ crashes \in Nat /\ MaxAttempts \in Nat \ {0}
           /\ IsFiniteSet(TurnsOf(t)) /\ Cardinality(TurnsOf(t)) \in Nat
           /\ LowTurns(t) \subseteq TurnsOf(t)
           /\ IsFiniteSet(LowTurns(t)) /\ Cardinality(LowTurns(t)) \in Nat
           /\ Cardinality(LowTurns(t)) <= Cardinality(TurnsOf(t))
           /\ Extra(t) \in Nat /\ Extra(t) <= recovered[t]
           /\ Cardinality(TurnsOf(t)) <= Extra(t) + (IF Open(t) THEN 0 ELSE 1)
<1>1. /\ row[t] \in Rows /\ row[t].attempts \in Nat
      /\ recovered[t] \in Nat /\ crashes \in Nat /\ MaxAttempts \in Nat \ {0}
  BY StoreAssumption, RunnerAssumption DEF IInv, TypeOK, Rows
<1>2. /\ IsFiniteSet(TurnsOf(t))
      /\ Cardinality(TurnsOf(t)) <= Extra(t) + (IF Open(t) THEN 0 ELSE 1)
  BY DEF IInv, TurnsBound
<1>3. LowTurns(t) \subseteq TurnsOf(t)
  BY DEF LowTurns
<1>4. /\ Cardinality(TurnsOf(t)) \in Nat
      /\ IsFiniteSet(LowTurns(t)) /\ Cardinality(LowTurns(t)) \in Nat
      /\ Cardinality(LowTurns(t)) <= Cardinality(TurnsOf(t))
  BY <1>2, <1>3, CountFacts
<1>5. Extra(t) \in Nat /\ Extra(t) <= recovered[t]
  BY <1>1 DEF Extra
<1> QED
  BY <1>1, <1>2, <1>3, <1>4, <1>5

\* The status of a row after a step of each kind.
LEMMA StatusAfter ==
    ASSUME TypeOK, NEW t \in Tasks
    PROVE  /\ Spends(t) => Open(t)
           /\ \A v, low : EndsAs(t, row[t], v, low) =>
                /\ v.status # "running"
                /\ v.status = "pending" => row[t].status \in {"pending", "running"}
BY StatusFacts DEF Spends, Open, EndsAs

LEMMA BoundStep ==
    ASSUME IInv, NEW t \in Tasks, TaskStep(t)
    PROVE  /\ IsFiniteSet(TurnsOf(t)')
           /\ Cardinality(TurnsOf(t)') <= Extra(t)' + (IF Open(t)' THEN 0 ELSE 1)
<1> DEFINE T == TurnsOf(t)
           U == TurnsOf(t)'
           E == Extra(t)
           F == Extra(t)'
<1>1. IsFiniteSet(T) /\ Cardinality(T) \in Nat /\ E \in Nat /\ recovered[t] \in Nat
  BY TaskFacts
<1>2. Cardinality(T) <= E + (IF Open(t) THEN 0 ELSE 1)
  BY TaskFacts
<1>3. recovered'[t] = recovered[t] => F = E
  BY DEF Extra
<1> HIDE DEF T, U, E, F
<1>4. CASE U = T /\ F = E /\ (Open(t)' => Open(t))
  BY <1>1, <1>2, <1>4 DEF T, U, E, F
<1>5. CASE recovered'[t] = recovered[t] /\ (Unmoved(t) \/ Blocks(t) \/ Inserted(t) \/ CancelsRow(t))
  <2>1. U = T
    BY <1>5 DEF Unmoved, Blocks, Inserted, CancelsRow, SameTurns, T, U
  <2>2. Open(t)' => Open(t)
    BY <1>5 DEF Unmoved, Blocks, Inserted, CancelsRow, Open
  <2> QED
    BY <1>3, <1>4, <1>5, <2>1, <2>2
<1>6. CASE recovered'[t] = recovered[t] /\ Starts(t)
  <2>1. PICK g \in Drains \X Sessions : U = T \cup {g}
    BY <1>6 DEF Starts, T, U
  <2>2. Open(t) /\ ~Open(t)'
    BY <1>6 DEF Starts, Spends, Open
  <2>3. IsFiniteSet(U) /\ Cardinality(U) <= Cardinality(T) + 1 /\ Cardinality(U) \in Nat
    BY <1>1, <2>1, CountFacts
  <2> QED
    BY <1>1, <1>2, <1>3, <1>6, <2>2, <2>3 DEF U, F
<1>7. CASE recovered'[t] = recovered[t] /\ Ends(t)
  <2>1. PICK g \in T : U = T \ {g}
    BY <1>7 DEF Ends, T, U
  <2>2. IsFiniteSet(U) /\ Cardinality(U) = Cardinality(T) - 1 /\ Cardinality(U) \in Nat
    BY <1>1, <2>1, CountFacts
  <2> QED
    BY <1>1, <1>2, <1>3, <1>7, <2>2 DEF U, F
<1>8. CASE Recovers(t)
  <2>1. U = T
    BY <1>8 DEF Recovers, SameTurns, T, U
  <2>2. CASE Cardinality(Procs) <= 1
    <3>1. T = {}
      BY <1>8, <2>2 DEF Recovers, T
    <3>2. Cardinality(U) = 0
      BY <2>1, <3>1, FS_EmptySet
    <3>3. F \in Nat
      BY <1>1, <1>8 DEF F, Extra, Recovers
    <3> QED
      BY <1>1, <2>1, <3>2, <3>3 DEF U, F
  <2>3. CASE ~(Cardinality(Procs) <= 1)
    <3>1. Cardinality(Procs) \in Nat
      BY RunnerAssumption, FS_CardinalityType
    <3>2. F = E + 1
      BY <1>8, <2>3, <3>1 DEF E, F, Extra, Recovers
    <3> QED
      BY <1>1, <1>2, <2>1, <3>2 DEF U, F
  <2> QED
    BY <2>2, <2>3
<1>9. CASE Dies(t)
  <2>1. U \in SUBSET T /\ recovered'[t] = recovered[t] /\ (Open(t)' <=> Open(t))
    BY <1>9 DEF Dies, T, U, Open
  <2>2. IsFiniteSet(U) /\ Cardinality(U) <= Cardinality(T) /\ Cardinality(U) \in Nat
    BY <1>1, <2>1, CountFacts
  <2> QED
    BY <1>1, <1>2, <1>3, <2>1, <2>2 DEF U, F
<1> QED
  BY <1>5, <1>6, <1>7, <1>8, <1>9 DEF TaskStep

LEMMA MatchStep ==
    ASSUME IInv, NEW t \in Tasks, TaskStep(t), recovered'[t] = 0
    PROVE  /\ TurnsOf(t)' # {} => row'[t].status \in {"running", "cancelled"}
           /\ (row'[t].status = "running" /\ crashes' = 0) => TurnsOf(t)' # {}
<1>1. /\ recovered[t] \in Nat /\ crashes \in Nat /\ IsFiniteSet(TurnsOf(t))
      /\ Cardinality(TurnsOf(t)) \in Nat
      /\ Cardinality(TurnsOf(t)) <= Extra(t) + 1
  BY TaskFacts
<1>2. recovered[t] = 0 /\ ~Recovers(t)
  BY <1>1 DEF TaskStep, Recovers, Dies
<1>3. /\ TurnsOf(t) # {} => row[t].status \in {"running", "cancelled"}
      /\ (row[t].status = "running" /\ crashes = 0) => TurnsOf(t) # {}
  BY <1>2 DEF IInv, RowsMatchTurns
<1>4. Cardinality(TurnsOf(t)) <= 1
  BY <1>1, <1>2 DEF Extra
<1>5. CASE Unmoved(t) /\ crashes' = crashes
  BY <1>3, <1>5 DEF Unmoved, SameTurns
<1>6. CASE Starts(t)
  BY <1>6 DEF Starts
<1>7. CASE Blocks(t) \/ Inserted(t)
  BY <1>3, <1>7 DEF Blocks, Inserted, Spends, SameTurns
<1>8. CASE Ends(t)
  <2>1. PICK g \in TurnsOf(t) : /\ TurnsOf(t)' = TurnsOf(t) \ {g}
                                /\ EndsAs(t, row[t], row'[t], g \in LowTurns(t))
    BY <1>8 DEF Ends
  <2>2. Cardinality(TurnsOf(t) \ {g}) = 0 /\ IsFiniteSet(TurnsOf(t) \ {g})
    <3>1. Cardinality(TurnsOf(t) \ {g}) = Cardinality(TurnsOf(t)) - 1
          /\ Cardinality(TurnsOf(t) \ {g}) \in Nat /\ IsFiniteSet(TurnsOf(t) \ {g})
      BY <1>1, CountFacts
    <3> QED
      BY <1>1, <1>4, <3>1
  <2>3. TurnsOf(t) \ {g} = {}
    BY <2>2, FS_EmptySet
  <2>4. row'[t].status # "running"
    BY <2>1, StatusAfter DEF IInv
  <2> QED
    BY <2>1, <2>3, <2>4
<1>9. CASE CancelsRow(t)
  BY <1>9 DEF CancelsRow
<1>10. CASE Dies(t) /\ crashes' = crashes + 1
  BY <1>1, <1>3, <1>10 DEF Dies
<1> QED
  BY <1>2, <1>5, <1>6, <1>7, <1>8, <1>9, <1>10 DEF TaskStep

LEMMA AttemptStep ==
    ASSUME IInv, NEW t \in Tasks, TaskStep(t), Exhausted(row'[t].attempts)
    PROVE  row'[t].attempts + Cardinality(LowTurns(t)')
             + (IF row'[t].status = "pending" THEN 1 ELSE 0) <= MaxAttempts + recovered'[t]
<1> DEFINE a == row[t].attempts
           L == LowTurns(t)
           r == recovered[t]
<1>1. /\ a \in Nat /\ r \in Nat /\ MaxAttempts \in Nat \ {0}
      /\ IsFiniteSet(L) /\ Cardinality(L) \in Nat
  BY TaskFacts
<1>2. Open(t) => Cardinality(L) <= r
  BY TaskFacts
<1>3. a >= MaxAttempts =>
        a + Cardinality(L) + (IF row[t].status = "pending" THEN 1 ELSE 0) <= MaxAttempts + r
  BY DEF IInv, AttemptInv, Exhausted
<1>4. row'[t].attempts >= MaxAttempts
  BY DEF Exhausted
<1> HIDE DEF L, a, r
<1>5. CASE recovered'[t] = recovered[t] /\ Unmoved(t)
  BY <1>1, <1>3, <1>4, <1>5 DEF Unmoved, SameTurns, L, a, r
<1>6. CASE recovered'[t] = recovered[t] /\ (Starts(t) \/ Blocks(t))
  <2>1. /\ LowTurns(t)' = L /\ row'[t].status # "pending" /\ Open(t)
        /\ \/ row[t].status = "pending" /\ row'[t].attempts = a + 1
           \/ row'[t].attempts = 1
    BY <1>6 DEF Starts, Blocks, SameTurns, Spends, Open, L, a
  <2>2. CASE row'[t].attempts = MaxAttempts
    BY <1>1, <1>2, <1>6, <2>1, <2>2 DEF r
  <2>3. CASE row'[t].attempts # MaxAttempts
    <3>1. row[t].status = "pending" /\ row'[t].attempts = a + 1 /\ a >= MaxAttempts
      BY <1>1, <1>4, <2>1, <2>3
    <3> QED
      BY <1>1, <1>3, <1>6, <2>1, <3>1 DEF r
  <2> QED
    BY <2>2, <2>3
<1>7. CASE Inserted(t)
  BY <1>1, <1>4, <1>7 DEF Inserted
<1>8. CASE recovered'[t] = recovered[t] /\ Ends(t)
  <2>1. PICK g \in TurnsOf(t) : /\ LowTurns(t)' = L \ {g}
                                /\ EndsAs(t, row[t], row'[t], g \in L)
    BY <1>8 DEF Ends, L
  <2>2. /\ Cardinality(L \ {g}) \in Nat
        /\ Cardinality(L \ {g}) <= Cardinality(L)
        /\ g \in L => Cardinality(L \ {g}) = Cardinality(L) - 1
    BY <1>1, CountFacts
  <2>3. CASE row'[t] = row[t]
    BY <1>1, <1>3, <1>4, <1>8, <2>1, <2>2, <2>3 DEF a, r
  <2>4. CASE row'[t].status \in Terminal /\ row'[t].attempts = row[t].attempts
    <3>1. row'[t].status # "pending"
      BY <2>4, StatusFacts
    <3> QED
      BY <1>1, <1>3, <1>4, <1>8, <2>1, <2>2, <2>4, <3>1 DEF a, r
  <2>5. CASE row'[t].attempts = 0
    BY <1>1, <1>4, <2>5
  <2>6. CASE row[t].status = "running" /\ row'[t].attempts = row[t].attempts /\ g \in L
    BY <1>1, <1>3, <1>4, <1>8, <2>1, <2>2, <2>6 DEF a, r
  <2> QED
    BY <2>1, <2>3, <2>4, <2>5, <2>6 DEF EndsAs
<1>9. CASE recovered'[t] = recovered[t] /\ CancelsRow(t)
  BY <1>1, <1>3, <1>4, <1>9 DEF CancelsRow, SameTurns, L, a, r
<1>10. CASE Recovers(t)
  BY <1>1, <1>3, <1>4, <1>10 DEF Recovers, SameTurns, L, a, r
<1>11. CASE Dies(t)
  <2>1. LowTurns(t)' \in SUBSET L /\ row'[t] = row[t] /\ recovered'[t] = recovered[t]
    BY <1>11 DEF Dies, L
  <2>2. Cardinality(LowTurns(t)') <= Cardinality(L) /\ Cardinality(LowTurns(t)') \in Nat
    BY <1>1, <2>1, CountFacts
  <2> QED
    BY <1>1, <1>3, <1>4, <2>1, <2>2 DEF a, r
<1> QED
  BY <1>5, <1>6, <1>7, <1>8, <1>9, <1>10, <1>11 DEF TaskStep

\* Task by task, then for all.
LEMMA StepInv ==
    ASSUME IInv, [Next]_vars
    PROVE  IInv'
<1>1. Lawful
  BY StepLawful DEF IInv, Base
<1>2. Base' /\ \A t \in Tasks : TaskStep(t)
  BY <1>1 DEF Lawful
<1>3. TurnsBound'
  BY <1>2, BoundStep DEF TurnsBound
<1>4. RowsMatchTurns'
  BY <1>2, MatchStep DEF RowsMatchTurns
<1>5. AttemptInv'
  <2> SUFFICES ASSUME NEW t \in Tasks, Exhausted(row'[t].attempts)
               PROVE  row'[t].attempts + Cardinality(LowTurns(t)')
                        + (IF row'[t].status = "pending" THEN 1 ELSE 0)
                      <= MaxAttempts + recovered'[t]
    BY DEF AttemptInv, Exhausted
  <2> QED
    BY <1>2, AttemptStep
<1> QED
  BY <1>2, <1>3, <1>4, <1>5 DEF IInv, Base

LEMMA InitInv ==
    ASSUME Init
    PROVE  IInv
<1>1. TypeOK
  <2>1. NoRow \in Rows /\ <<>> \in Seq(Tasks) /\ 0 \in 0..MaxTime /\ 0 \in 0..MaxCrashes
    BY StoreAssumption, RunnerAssumption DEF NoRow, Rows, Statuses, NoTime
  <2> QED
    BY <2>1 DEF Init, TypeOK, ByDrain, Kinds
<1>2. DrainInv
  BY DEF Init, DrainInv, ByDrain
<1>3. \A t \in Tasks : TurnsOf(t) = {} /\ LowTurns(t) = {}
  BY DEF Init, TurnsOf, LowTurns, ByDrain
<1>4. \A t \in Tasks : row[t].status = "absent" /\ row[t].attempts = 0 /\ recovered[t] = 0
  BY DEF Init, NoRow
<1>5. TurnsBound
  BY <1>3, <1>4, FS_EmptySet DEF TurnsBound, Open, Extra
<1>6. RowsMatchTurns
  BY <1>3, <1>4 DEF RowsMatchTurns
<1>7. AttemptInv
  BY <1>4, StoreAssumption DEF AttemptInv, Exhausted
<1>8. TickIsWatched
  BY DEF Init, TickIsWatched, TickDrains
<1> QED
  BY <1>1, <1>2, <1>5, <1>6, <1>7, <1>8 DEF IInv

-----------------------------------------------------------------------------

\* IInv holds of every reachable state, whatever drains, crashes and recoveries
\* there are.
THEOREM Invariance == Spec => []IInv
<1>1. Init => IInv
  BY InitInv
<1>2. IInv /\ [Next]_vars => IInv'
  BY StepInv
<1> QED
  BY <1>1, <1>2, PTL DEF Spec

\* Rows, drains, schedulers and counters have their types.
THEOREM TypeCorrect == Spec => []TypeOK
<1>1. IInv => TypeOK
  BY DEF IInv
<1> QED
  BY <1>1, Invariance, PTL

\* A task has one turn at a time, and with a second process one more for each
\* recovery of its row.
THEOREM TurnsExclude == Spec => []OneTurnPerTask
<1>1. IInv => OneTurnPerTask
  <2> SUFFICES ASSUME IInv, NEW t \in Tasks
               PROVE  Cardinality(TurnsOf(t)) <= 1 + Extra(t)
    BY DEF OneTurnPerTask, Extra
  <2> QED
    BY TaskFacts
<1> QED
  BY <1>1, Invariance, PTL

\* The row of a turn in flight is running or cancelled, and a running row has a
\* turn, until a crash and its recovery.
THEOREM RowsAndTurnsMatch == Spec => []RowsMatchTurns
<1>1. IInv => RowsMatchTurns
  BY DEF IInv
<1> QED
  BY <1>1, Invariance, PTL

\* No task is attempted more than MaxAttempts times but for its recoveries.
THEOREM AttemptsBounded == Spec => []AttemptsBoundedByRecoveries
<1>1. IInv => AttemptsBoundedByRecoveries
  <2> SUFFICES ASSUME IInv, NEW t \in Tasks
               PROVE  row[t].attempts <= MaxAttempts + recovered[t]
    BY DEF AttemptsBoundedByRecoveries
  <2>1. Exhausted(row[t].attempts) =>
          row[t].attempts + Cardinality(LowTurns(t))
            + (IF row[t].status = "pending" THEN 1 ELSE 0) <= MaxAttempts + recovered[t]
    BY DEF IInv, AttemptInv
  <2> QED
    BY <2>1, TaskFacts DEF Exhausted
<1> QED
  BY <1>1, Invariance, PTL

\* A tick's drain is watched until one of its groups rejects.
THEOREM TicksAreWatched == Spec => []TickIsWatched
<1>1. IInv => TickIsWatched
  BY DEF IInv
<1> QED
  BY <1>1, Invariance, PTL

\* What was settled is never revived.
THEOREM SettledRowsStay == Spec => TerminalIsFinal
<1> DEFINE Final == \A t \in Tasks : row[t].status \in Terminal => row'[t] = row[t]
<1>1. IInv /\ [Next]_vars => [Final]_vars
  <2> SUFFICES ASSUME IInv, [Next]_vars, NEW t \in Tasks, row[t].status \in Terminal
               PROVE  row'[t] = row[t]
    OBVIOUS
  <2>1. TaskStep(t)
    BY StepLawful DEF IInv, Base, Lawful
  <2>2. ~Spends(t) /\ row[t].status \notin {"absent", "pending", "running"}
    BY StatusFacts DEF Spends
  <2> QED
    BY <2>1, <2>2 DEF TaskStep, Unmoved, Starts, Blocks, Inserted, Ends, EndsAs,
                      CancelsRow, Recovers, Dies
<1> QED
  BY <1>1, Invariance, PTL DEF Spec, TerminalIsFinal

-----------------------------------------------------------------------------
(* The runner as a lifecycle of tasks.                                     *)

\* A task that was not submitted yet has no attempts and no turns.
Fresh == \A t \in Tasks :
    row[t].status = "absent" => row[t].attempts = 0 /\ TurnsOf(t) = {}

LEMMA FreshStep ==
    ASSUME Fresh, \A t \in Tasks : TaskStep(t)
    PROVE  Fresh'
<1> SUFFICES ASSUME NEW t \in Tasks, row'[t].status = "absent"
             PROVE  row'[t].attempts = 0 /\ TurnsOf(t)' = {}
  BY DEF Fresh
<1>1. row'[t].status \notin Terminal
  BY StatusFacts
<1>2. row'[t] = row[t] /\ TurnsOf(t)' \subseteq TurnsOf(t)
  BY <1>1 DEF TaskStep, Unmoved, Starts, Blocks, Inserted, Ends, EndsAs, CancelsRow,
              Recovers, Dies, SameTurns
<1> QED
  BY <1>2 DEF Fresh

\* The lifecycle's budget for a task that is claimed, and for one that is sent
\* back for another attempt.
LEMMA WithinBudget ==
    ASSUME IInv, NEW t \in Tasks
    PROVE  /\ row[t].attempts <= MaxAttempts + recovered[t]
           /\ row[t].status = "pending" => row[t].attempts < MaxAttempts + recovered[t]
<1>1. /\ row[t].attempts \in Nat /\ recovered[t] \in Nat /\ MaxAttempts \in Nat
      /\ Cardinality(LowTurns(t)) \in Nat
  BY TaskFacts
<1>2. Exhausted(row[t].attempts) =>
        row[t].attempts + Cardinality(LowTurns(t))
          + (IF row[t].status = "pending" THEN 1 ELSE 0) <= MaxAttempts + recovered[t]
  BY DEF IInv, AttemptInv
<1> QED
  BY <1>1, <1>2 DEF Exhausted

\* The variables of the lifecycle, task by task.
LEMMA Mapped ==
    ASSUME NEW t \in Tasks
    PROVE  /\ \A F, G : Lifecycle!Moves(t, F, G) <=> row[t].status \in F /\ row'[t].status \in G
           /\ Lifecycle!SameWork(t) <=> TurnsOf(t)' = TurnsOf(t)
           /\ Lifecycle!SameAttempts(t) <=> row'[t].attempts = row[t].attempts
BY DEF Lifecycle!Moves, Lifecycle!SameWork, Lifecycle!SameAttempts

\* A claim, for a turn or only to block the row, begins an attempt.
LEMMA SpendBegins ==
    ASSUME IInv, IInv', Fresh, NEW t \in Tasks, Starts(t) \/ Blocks(t),
           recovered'[t] = recovered[t]
    PROVE  Lifecycle!Begin(t)
<1>1. row'[t].attempts = row[t].attempts + 1 /\ row[t].status \in {"absent", "pending"}
  BY DEF Starts, Blocks, Spends, Fresh
<1>2. row'[t].attempts <= MaxAttempts + recovered[t]
  <2>1. (row[t].attempts <= MaxAttempts + recovered[t])'
    BY WithinBudget, PTL
  <2> QED
    BY <2>1
<1>3. CASE Starts(t)
  <2>1. PICK g \in (Drains \X Sessions) \ TurnsOf(t) : TurnsOf(t)' = TurnsOf(t) \cup {g}
    BY <1>3 DEF Starts
  <2>2. row'[t].status = "running"
    BY <1>3 DEF Starts
  <2> QED
    BY <1>1, <1>2, <2>1, <2>2, Mapped DEF Lifecycle!Begin, Lifecycle!Budget
<1>4. CASE Blocks(t)
  BY <1>1, <1>2, <1>4, Mapped DEF Blocks, SameTurns, Lifecycle!Begin, Lifecycle!Budget
<1> QED
  BY <1>3, <1>4

\* The end of a turn ends the attempt its row is in, or comes late.
LEMMA TurnEnds ==
    ASSUME IInv, IInv', Fresh, NEW t \in Tasks, Ends(t), recovered'[t] = recovered[t]
    PROVE  Lifecycle!End(t) \/ Lifecycle!EndLate(t)
<1>1. PICK g \in TurnsOf(t) : /\ TurnsOf(t)' = TurnsOf(t) \ {g}
                              /\ EndsAs(t, row[t], row'[t], g \in LowTurns(t))
  BY DEF Ends
<1>2. row[t].status \in {"pending", "running"} \cup Terminal
  <2>1. row[t].status \in Statuses
    BY DEF IInv, TypeOK, Rows
  <2> QED
    BY <1>1, <2>1 DEF Fresh, Statuses, Terminal
<1>3. Lifecycle!Settled = Terminal
  BY DEF Lifecycle!Settled, Terminal
<1>4. CASE row'[t] = row[t] /\ row[t].status # "running"
  BY <1>1, <1>2, <1>3, <1>4, Mapped DEF Lifecycle!EndLate
<1>5. CASE /\ row'[t].status \in Terminal /\ row'[t].attempts = row[t].attempts
           /\ row[t].status = "running"
  BY <1>1, <1>3, <1>5, Mapped DEF Lifecycle!End
<1>6. CASE /\ row'[t].status \in {"blocked", "cancelled"} /\ row'[t].attempts = row[t].attempts
           /\ row[t].status \notin Terminal \cup {"running"}
  <2>1. row[t].status = "pending"
    BY <1>2, <1>6
  <2> QED
    BY <1>1, <1>6, <2>1, Mapped DEF Lifecycle!EndLate
<1>7. CASE /\ row[t].status = "running" /\ row'[t].status = "pending"
           /\ row'[t].attempts = 0 /\ t \in Recurring
  BY <1>1, <1>7, Mapped DEF Lifecycle!End
<1>8. CASE /\ row[t].status = "running" /\ row'[t].status = "pending"
           /\ row'[t].attempts = row[t].attempts
  <2>1. (row[t].status = "pending" => row[t].attempts < MaxAttempts + recovered[t])'
    BY WithinBudget, PTL
  <2>2. row[t].attempts < MaxAttempts + recovered[t]
    BY <1>8, <2>1
  <2> QED
    BY <1>1, <1>8, <2>2, Mapped DEF Lifecycle!End, Lifecycle!Budget
<1> QED
  BY <1>1, <1>4, <1>5, <1>6, <1>7, <1>8 DEF EndsAs

\* A step of the runner is, for every task, a step of its life.
LEMMA TaskLives ==
    ASSUME IInv, IInv', Fresh, NEW t \in Tasks, TaskStep(t)
    PROVE  \/ Lifecycle!Live(t) /\ recovered'[t] = recovered[t]
           \/ Lifecycle!Recover(t)
<1>1. CASE recovered'[t] = recovered[t] /\ (Unmoved(t) \/ Dies(t))
  BY <1>1, Mapped DEF Unmoved, SameTurns, Dies, Lifecycle!Live, Lifecycle!Die
<1>2. CASE recovered'[t] = recovered[t] /\ (Starts(t) \/ Blocks(t))
  BY <1>2, SpendBegins DEF Lifecycle!Live
<1>3. CASE recovered'[t] = recovered[t] /\ Inserted(t)
  BY <1>3, Mapped DEF Inserted, SameTurns, Fresh, Lifecycle!Live, Lifecycle!Submit
<1>4. CASE recovered'[t] = recovered[t] /\ Ends(t)
  BY <1>4, TurnEnds DEF Lifecycle!Live
<1>5. CASE recovered'[t] = recovered[t] /\ CancelsRow(t)
  BY <1>5, Mapped DEF CancelsRow, SameTurns, Lifecycle!Live, Lifecycle!Cancel
<1>6. CASE Recovers(t)
  BY <1>6, Mapped DEF Recovers, SameTurns, Lifecycle!Recover
<1> QED
  BY <1>1, <1>2, <1>3, <1>4, <1>5, <1>6 DEF TaskStep, Dies

\* Rows and turns live as TaskLifecycle says, whatever drains, operators,
\* crashes and recoveries interleave: no attempt goes uncounted or over the
\* budget, a turn begins only for a row that waits, a turn that ends settles its
\* row or sends it back, and nothing moves a row that was settled.
THEOREM RunnerIsLifecycle == Spec => ImplementsLifecycle
<1>1. Init => Lifecycle!Init /\ Fresh
  <2> SUFFICES ASSUME Init PROVE Lifecycle!Init /\ Fresh
    OBVIOUS
  <2>1. \A t \in Tasks : TurnsOf(t) = {} /\ row[t].status = "absent" /\ row[t].attempts = 0
    BY DEF Init, NoRow, TurnsOf, ByDrain
  <2>2. recovered = [t \in Tasks |-> 0]
    BY DEF Init
  <2> QED
    BY <2>1, <2>2 DEF Lifecycle!Init, Fresh
<1>2. IInv /\ Fresh /\ [Next]_vars => Fresh'
  <2>1. IInv /\ [Next]_vars => Lawful
    BY StepLawful DEF IInv, Base
  <2> QED
    BY <2>1, FreshStep DEF Lawful
<1>3. IInv /\ IInv' /\ Fresh /\ [Next]_vars => [Lifecycle!Next]_(Lifecycle!vars)
  <2> SUFFICES ASSUME IInv, IInv', Fresh, [Next]_vars
               PROVE  Lifecycle!Next
    OBVIOUS
  <2>1. \A t \in Tasks : TaskStep(t)
    BY StepLawful DEF IInv, Base, Lawful
  <2> QED
    BY <2>1, TaskLives DEF Lifecycle!Next
<1> QED
  BY <1>1, <1>2, <1>3, Invariance, PTL DEF Spec, ImplementsLifecycle, Lifecycle!Spec

=============================================================================
