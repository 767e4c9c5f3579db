--------------------------- MODULE ChatQueueProofs ---------------------------
(***************************************************************************)
(* Theorems about ChatQueue for every set of sessions and any number of    *)
(* messages: every turn of the terminal keeps one handle, a deleted thread *)
(* stays deleted, grants end with the visit, parked messages wait behind a *)
(* turn of their thread with the steers in front, every accepted message   *)
(* is where its fate says and none vanishes without a word, and messages   *)
(* are heard in the thread they were typed for.                            *)
(***************************************************************************)
EXTENDS ChatQueue, SequenceTheorems, TLAPS

Distinct(q) == \A i, j \in 1..Len(q) : q[i] = q[j] => i = j

\* Where the turns run and where their handles are.  A turn saves its session
\* at the end, so no thread may be deleted under it.
ThreadInv ==
    /\ \A t \in Msgs : Running(t) => t <= typed /\ home[t] \in stored
    /\ ~quitting => \A t \in Msgs : Running(t) => t \in {current, detached[home[t]]}
    /\ quitting => /\ \A t \in Msgs : Running(t) => t \in aborted
                   /\ \A s \in Sessions : detached[s] = NoTurn
    /\ current # NoTurn => Running(current) /\ home[current] = session
    /\ \A s \in Sessions : detached[s] # NoTurn => Running(detached[s]) /\ home[detached[s]] = s
    /\ \A t, u \in Msgs : Running(t) /\ Running(u) /\ home[t] = home[u] => t = u
    /\ session # NoSession => session \in stored /\ detached[session] = NoTurn
    /\ foreign \subseteq stored

\* A message that waits, in the queue or in the inbox of a turn, waits there
\* once and has not run; an inbox belongs to a turn of the thread its messages
\* were typed for.
WaitInv ==
    /\ Distinct(queue)
    /\ \A m \in Range(queue) : m <= typed /\ ~Running(m)
    /\ \A t \in Msgs :
        /\ ~Running(t) => inbox[t] = <<>>
        /\ Distinct(inbox[t])
        /\ \A m \in Range(inbox[t]) :
            m <= typed /\ ~Running(m) /\ m \notin Range(queue) /\ aimed[m] = home[t]

\* The watermark counts the re-routed steers of the turn in view, which stand at
\* the front in typing order.
WatermarkInv ==
    /\ steeredAhead <= typed
    /\ \A m \in ahead : m <= typed
    /\ current # NoTurn /\ current \notin aborted /\ ~stale =>
        /\ steeredAhead <= Len(queue)
        /\ \A i \in 1..Len(queue) : queue[i] \in ahead <=> i <= steeredAhead
        /\ \A i, j \in 1..steeredAhead : i < j => queue[i] < queue[j]

\* The inductive invariant.
IInv ==
    /\ TypeOK
    /\ ThreadInv
    /\ DeletedStaysDeleted
    /\ GrantsEndWithTheVisit
    /\ WaitInv
    /\ WatermarkInv
    /\ ParkedBehindTurn

-----------------------------------------------------------------------------

\* What the operations on the queue do to its elements.
LEMMA RangeOf ==
    ASSUME NEW S, NEW q \in Seq(S)
    PROVE  /\ Range(q) \subseteq S
           /\ \A i \in 1..Len(q) : q[i] \in Range(q)
           /\ \A x \in Range(q) : \E i \in 1..Len(q) : q[i] = x
           /\ q = <<>> <=> Range(q) = {}
           /\ Len(q) = 0 <=> q = <<>>
<1>1. DOMAIN q = 1..Len(q) /\ Len(q) \in Nat /\ \A i \in 1..Len(q) : q[i] \in S
  OBVIOUS
<1>2. Len(q) = 0 <=> q = <<>>
  BY EmptySeq
<1>3. Range(q) = {q[i] : i \in 1..Len(q)}
  BY <1>1 DEF Range
<1>4. Len(q) # 0 => q[1] \in Range(q)
  BY <1>1, <1>3
<1> QED
  BY <1>1, <1>2, <1>3, <1>4

LEMMA NoneIn == Range(<<>>) = {} /\ Distinct(<<>>) /\ Len(<<>>) = 0
  BY DEF Range, Distinct

LEMMA AppendAdds ==
    ASSUME NEW S, NEW q \in Seq(S), NEW e \in S
    PROVE  /\ Append(q, e) \in Seq(S)
           /\ Len(Append(q, e)) = Len(q) + 1
           /\ \A i \in 1..Len(q) : Append(q, e)[i] = q[i]
           /\ Append(q, e)[Len(q) + 1] = e
           /\ Range(Append(q, e)) = Range(q) \cup {e}
           /\ Distinct(q) /\ e \notin Range(q) => Distinct(Append(q, e))
<1>1. /\ DOMAIN q = 1..Len(q) /\ Len(q) \in Nat
      /\ DOMAIN Append(q, e) = 1..(Len(q) + 1)
      /\ Append(q, e) \in Seq(S)
      /\ Len(Append(q, e)) = Len(q) + 1
      /\ Append(q, e)[Len(q) + 1] = e
      /\ \A i \in 1..Len(q) : Append(q, e)[i] = q[i]
  OBVIOUS
<1>2. Range(Append(q, e)) = Range(q) \cup {e}
  BY <1>1 DEF Range
<1>3. Distinct(q) /\ e \notin Range(q) => Distinct(Append(q, e))
  BY <1>1 DEF Range, Distinct
<1> QED
  BY <1>1, <1>2, <1>3

LEMMA InsertAdds ==
    ASSUME NEW S, NEW q \in Seq(S), NEW e \in S, NEW k \in 1..(Len(q) + 1)
    PROVE  /\ InsertAt(q, k, e) \in Seq(S)
           /\ Len(InsertAt(q, k, e)) = Len(q) + 1
           /\ \A i \in 1..(Len(q) + 1) : InsertAt(q, k, e)[i] =
                IF i < k THEN q[i] ELSE IF i = k THEN e ELSE q[i - 1]
           /\ Range(InsertAt(q, k, e)) = Range(q) \cup {e}
           /\ Distinct(q) /\ e \notin Range(q) => Distinct(InsertAt(q, k, e))
<1> DEFINE a == SubSeq(q, 1, k - 1)
           b == SubSeq(q, k, Len(q))
           r == InsertAt(q, k, e)
<1>1. DOMAIN q = 1..Len(q) /\ Len(q) \in Nat /\ \A i \in 1..Len(q) : q[i] \in S
  OBVIOUS
<1>2. /\ a \in Seq(S) /\ Len(a) = k - 1
      /\ \A i \in 1..(k - 1) : a[i] = q[i]
  <2>1. \A i \in 1..(k - 1) : q[i] \in S
    BY <1>1
  <2> QED
    BY <2>1, SubSeqProperties, <1>1
<1>3. /\ b \in Seq(S) /\ Len(b) = Len(q) - k + 1
      /\ \A i \in 1..(Len(q) - k + 1) : b[i] = q[k + i - 1]
  <2>1. \A i \in k..Len(q) : q[i] \in S
    BY <1>1
  <2> QED
    BY <2>1, SubSeqProperties, <1>1
<1>4. /\ a \o <<e>> \in Seq(S) /\ Len(a \o <<e>>) = k
      /\ \A i \in 1..k : (a \o <<e>>)[i] = IF i < k THEN q[i] ELSE e
  <2>1. <<e>> \in Seq(S) /\ Len(<<e>>) = 1 /\ <<e>>[1] = e
    OBVIOUS
  <2> HIDE DEF a
  <2> QED
    BY <2>1, <1>2, ConcatProperties
<1>5. r = (a \o <<e>>) \o b
  BY DEF InsertAt
<1>6. /\ r \in Seq(S) /\ Len(r) = Len(q) + 1
      /\ \A i \in 1..(Len(q) + 1) : r[i] = IF i < k THEN q[i] ELSE IF i = k THEN e ELSE q[i - 1]
  <2> DEFINE c == a \o <<e>>
  <2>1. c \in Seq(S) /\ Len(c) = k /\ \A i \in 1..k : c[i] = IF i < k THEN q[i] ELSE e
    BY <1>4
  <2>2. r = c \o b
    BY <1>5
  <2> HIDE DEF r, c, b
  <2>3. /\ r \in Seq(S) /\ Len(r) = Len(q) + 1
        /\ \A i \in 1..(Len(q) + 1) : r[i] = IF i <= k THEN c[i] ELSE b[i - k]
    BY <2>1, <2>2, <1>1, <1>3, ConcatProperties
  <2>4. ASSUME NEW i \in 1..(Len(q) + 1)
        PROVE  r[i] = IF i < k THEN q[i] ELSE IF i = k THEN e ELSE q[i - 1]
    <3>1. CASE i > k
      <4>1. i - k \in 1..(Len(q) - k + 1) /\ k + (i - k) - 1 = i - 1
        BY <1>1, <3>1
      <4> QED
        BY <2>3, <1>3, <3>1, <4>1
    <3> QED
      BY <2>1, <2>3, <3>1
  <2> QED
    BY <2>3, <2>4
<1> HIDE DEF r
<1>7. DOMAIN r = 1..(Len(q) + 1)
  BY <1>6
<1>8. Range(r) = Range(q) \cup {e}
  <2>1. ASSUME NEW i \in 1..(Len(q) + 1)
        PROVE  r[i] \in Range(q) \cup {e}
    <3>1. CASE i < k
      BY <1>1, <1>6, <3>1 DEF Range
    <3>2. CASE i > k
      <4>1. i - 1 \in 1..Len(q) /\ r[i] = q[i - 1]
        BY <1>1, <1>6, <3>2
      <4> QED
        BY <1>1, <4>1 DEF Range
    <3> QED
      BY <1>6, <3>1, <3>2
  <2>2. e \in Range(r)
    BY <1>1, <1>6, <1>7 DEF Range
  <2>3. ASSUME NEW i \in 1..Len(q)
        PROVE  q[i] \in Range(r)
    <3>1. CASE i < k
      BY <1>1, <1>6, <1>7, <3>1 DEF Range
    <3>2. CASE i >= k
      <4>1. i + 1 \in 1..(Len(q) + 1) /\ r[i + 1] = q[i]
        <5>1. i + 1 \in 1..(Len(q) + 1) /\ i + 1 > k /\ (i + 1) - 1 = i
          BY <1>1, <3>2
        <5> QED
          BY <1>6, <5>1
      <4> QED
        BY <1>7, <4>1 DEF Range
    <3> QED
      BY <3>1, <3>2
  <2> QED
    BY <1>1, <1>7, <2>1, <2>2, <2>3 DEF Range
<1>9. ASSUME Distinct(q), e \notin Range(q), NEW i \in 1..Len(r), NEW j \in 1..Len(r), r[i] = r[j]
      PROVE  i = j
  <2>1. \A n \in 1..Len(q) : q[n] # e
    BY <1>1, <1>9 DEF Range
  <2>2. i < k => r[i] # e
    BY <1>6, <1>9, <2>1
  <2>3. i > k => r[i] # e
    BY <1>6, <1>9, <2>1
  <2>4. j < k => r[j] # e
    BY <1>6, <1>9, <2>1
  <2>5. j > k => r[j] # e
    BY <1>6, <1>9, <2>1
  <2> QED
    BY <1>1, <1>6, <1>9, <2>2, <2>3, <2>4, <2>5 DEF Distinct
<1> QED
  BY <1>6, <1>8, <1>9 DEF Distinct, r

LEMMA ConcatAdds ==
    ASSUME NEW S, NEW p \in Seq(S), NEW q \in Seq(S)
    PROVE  /\ p \o q \in Seq(S)
           /\ Range(p \o q) = Range(p) \cup Range(q)
           /\ Distinct(p) /\ Distinct(q) /\ Range(p) \cap Range(q) = {} => Distinct(p \o q)
<1>1. /\ DOMAIN p = 1..Len(p) /\ DOMAIN q = 1..Len(q)
      /\ p \o q \in Seq(S)
      /\ DOMAIN (p \o q) = 1..(Len(p) + Len(q)) /\ Len(p \o q) = Len(p) + Len(q)
      /\ \A i \in 1..(Len(p) + Len(q)) :
            (p \o q)[i] = IF i <= Len(p) THEN p[i] ELSE q[i - Len(p)]
      /\ Len(p) \in Nat /\ Len(q) \in Nat
  BY ConcatProperties
<1>2. \A i \in 1..Len(q) : Len(p) + i \in DOMAIN (p \o q) /\ (p \o q)[Len(p) + i] = q[i]
  BY <1>1
<1>3. \A i \in 1..Len(p) : i \in DOMAIN (p \o q) /\ (p \o q)[i] = p[i]
  BY <1>1
<1>4. Range(p) \subseteq Range(p \o q) /\ Range(q) \subseteq Range(p \o q)
  <2>1. Range(p) \subseteq Range(p \o q)
    BY <1>1, <1>3 DEF Range
  <2>2. ASSUME NEW i \in 1..Len(q)
        PROVE  q[i] \in Range(p \o q)
    BY <1>2 DEF Range
  <2>3. Range(q) \subseteq Range(p \o q)
    BY <1>1, <2>2 DEF Range
  <2> QED
    BY <2>1, <2>3
<1>5. Range(p \o q) \subseteq Range(p) \cup Range(q)
  BY <1>1 DEF Range
<1>6. ASSUME Distinct(p), Distinct(q), Range(p) \cap Range(q) = {},
             NEW i \in 1..(Len(p) + Len(q)), NEW j \in 1..(Len(p) + Len(q)),
             (p \o q)[i] = (p \o q)[j]
      PROVE  i = j
  <2>1. i <= Len(p) => (p \o q)[i] = p[i] /\ p[i] \in Range(p) /\ i \in 1..Len(p)
    BY <1>1, <1>6 DEF Range
  <2>2. j <= Len(p) => (p \o q)[j] = p[j] /\ p[j] \in Range(p) /\ j \in 1..Len(p)
    BY <1>1, <1>6 DEF Range
  <2>3. i > Len(p) => (p \o q)[i] = q[i - Len(p)] /\ q[i - Len(p)] \in Range(q)
                      /\ i - Len(p) \in 1..Len(q)
    BY <1>1, <1>6 DEF Range
  <2>4. j > Len(p) => (p \o q)[j] = q[j - Len(p)] /\ q[j - Len(p)] \in Range(q)
                      /\ j - Len(p) \in 1..Len(q)
    BY <1>1, <1>6 DEF Range
  <2> QED
    BY <1>1, <1>6, <2>1, <2>2, <2>3, <2>4 DEF Distinct
<1> QED
  BY <1>1, <1>4, <1>5, <1>6 DEF Distinct

LEMMA TailDrops ==
    ASSUME NEW S, NEW q \in Seq(S), q # <<>>
    PROVE  /\ Head(q) \in Range(q) /\ Tail(q) \in Seq(S)
           /\ Range(Tail(q)) \subseteq Range(q)
           /\ Range(q) = Range(Tail(q)) \cup {Head(q)}
           /\ Distinct(q) => Distinct(Tail(q)) /\ Head(q) \notin Range(Tail(q))
<1>1. /\ DOMAIN q = 1..Len(q) /\ Len(q) \in Nat \ {0}
      /\ Tail(q) \in Seq(S) /\ Len(Tail(q)) = Len(q) - 1
      /\ DOMAIN Tail(q) = 1..(Len(q) - 1)
      /\ \A i \in 1..(Len(q) - 1) : Tail(q)[i] = q[i + 1]
      /\ Head(q) = q[1]
  BY HeadTailProperties, EmptySeq
<1>2. Head(q) \in Range(q)
  BY <1>1 DEF Range
<1>3. Range(Tail(q)) \subseteq Range(q)
  BY <1>1 DEF Range
<1>4. Range(q) \subseteq Range(Tail(q)) \cup {Head(q)}
  <2>1. ASSUME NEW i \in 1..Len(q), i # 1
        PROVE  q[i] \in Range(Tail(q))
    <3>1. i - 1 \in 1..(Len(q) - 1) /\ (i - 1) + 1 = i
      BY <1>1, <2>1
    <3> QED
      BY <1>1, <3>1 DEF Range
  <2> QED
    BY <1>1, <2>1 DEF Range
<1>5. ASSUME Distinct(q)
      PROVE  Distinct(Tail(q)) /\ Head(q) \notin Range(Tail(q))
  <2>1. \A i, j \in 1..(Len(q) - 1) : q[i + 1] = q[j + 1] => i = j
    BY <1>1, <1>5 DEF Distinct
  <2>2. \A i \in 1..(Len(q) - 1) : q[i + 1] # q[1]
    BY <1>1, <1>5 DEF Distinct
  <2> QED
    BY <1>1, <2>1, <2>2 DEF Distinct, Range
<1> QED
  BY <1>1, <1>2, <1>3, <1>4, <1>5

-----------------------------------------------------------------------------

\* What the constants are.
LEMMA Constants ==
    /\ NoTurn \notin Msgs /\ NoSession \notin Sessions
    /\ \A m \in Msgs : m \in Nat /\ m >= 1 /\ m <= MaxTyped
    /\ MaxTyped \in Nat
    /\ \A m \in 1..MaxTyped : m \in Msgs
  BY ChatAssumption DEF Msgs, NoTurn

LEMMA FlatTypes ==
    ASSUME TypeOK
    PROVE  /\ quitting \in BOOLEAN /\ stranded \in BOOLEAN /\ stale \in BOOLEAN
           /\ stored \subseteq Sessions /\ grants \subseteq Sessions
           /\ foreign \subseteq Sessions /\ deleted \subseteq Sessions
           /\ aborted \subseteq Msgs /\ cancelled \subseteq Msgs /\ ahead \subseteq Msgs
           /\ current # NoTurn => current \in Msgs
           /\ \A s \in Sessions : detached[s] # NoTurn => detached[s] \in Msgs
           /\ steeredAhead \in Nat /\ typed \in Nat
  BY Constants DEF TypeOK

LEMMA WaitingAreMsgs ==
    ASSUME TypeOK
    PROVE  /\ \A m \in Range(queue) : m \in Msgs
           /\ \A t \in Msgs : \A m \in Range(inbox[t]) : m \in Msgs
  BY RangeOf DEF TypeOK

\* The initial state.
LEMMA InitHolds == Init => IInv
<1> SUFFICES ASSUME Init PROVE IInv
  OBVIOUS
<1> USE Constants DEF Init
<1>1. TypeOK
  <2>0. {quitting, stranded, stale} \subseteq BOOLEAN
    BY Zenon
  <2>1. <<>> \in Seq(Msgs) /\ 0 \in 0..MaxTyped
    OBVIOUS
  <2>2. inbox \in [Msgs -> Seq(Msgs)]
    BY <2>1
  <2>3. fate \in [Msgs -> Fates] /\ phase \in [Msgs -> {"none", "early", "open", "closed"}]
    BY DEF Fates
  <2>4. /\ detached \in [Sessions -> Msgs \cup {NoTurn}]
        /\ home \in [Msgs -> Sessions \cup {NoSession}]
        /\ aimed \in [Msgs -> Sessions \cup {NoSession}]
    OBVIOUS
  <2> QED
    BY <2>0, <2>1, <2>2, <2>3, <2>4 DEF TypeOK
<1>2. ThreadInv
  BY DEF ThreadInv, Running
<1>3. WaitInv
  BY NoneIn DEF WaitInv
<1>4. WatermarkInv
  BY DEF WatermarkInv
<1> QED
  BY <1>1, <1>2, <1>3, <1>4, NoneIn
  DEF IInv, DeletedStaysDeleted, GrantsEndWithTheVisit, ParkedBehindTurn

\* A turn gets its session, reads its steers or closes its window.
LEMMA TurnOpensKeeps ==
    ASSUME IInv, NEW t \in Msgs, TurnOpens(t)
    PROVE  IInv'
<1> USE DEF IInv, TurnOpens, uiVars, envVars
<1>1. TypeOK'
  BY DEF TypeOK
<1>2. \A m \in Msgs : Running(m)' <=> Running(m)
  BY DEF Running, TypeOK
<1>3. ThreadInv'
  BY <1>2 DEF ThreadInv, TypeOK
<1>4. WaitInv'
  BY <1>2, RangeOf DEF WaitInv, TypeOK
<1>5. WatermarkInv'
  BY DEF WatermarkInv
<1> QED
  BY <1>1, <1>3, <1>4, <1>5 DEF DeletedStaysDeleted, GrantsEndWithTheVisit, ParkedBehindTurn

LEMMA TurnReadsKeeps ==
    ASSUME IInv, NEW t \in Msgs, TurnReads(t)
    PROVE  IInv'
<1> USE DEF IInv, TurnReads, uiVars, envVars
<1>1. TypeOK'
  BY DEF TypeOK, Mark, Fates
<1>2. \A m \in Msgs : Running(m)' <=> Running(m)
  BY DEF Running, TypeOK
<1>3. ThreadInv'
  BY <1>2 DEF ThreadInv, TypeOK
<1>4. WaitInv'
  <2>1. \A u \in Msgs : inbox'[u] = IF u = t THEN <<>> ELSE inbox[u]
    BY DEF TypeOK
  <2> QED
    BY <1>2, <2>1, WaitingAreMsgs, NoneIn DEF WaitInv
<1>5. WatermarkInv'
  BY DEF WatermarkInv
<1> QED
  BY <1>1, <1>3, <1>4, <1>5 DEF DeletedStaysDeleted, GrantsEndWithTheVisit, ParkedBehindTurn

LEMMA TurnClosesKeeps ==
    ASSUME IInv, NEW t \in Msgs, TurnCloses(t)
    PROVE  IInv'
<1> USE DEF IInv, TurnCloses, uiVars, envVars
<1>1. TypeOK'
  BY DEF TypeOK
<1>2. \A m \in Msgs : Running(m)' <=> Running(m)
  BY DEF Running, TypeOK
<1>3. ThreadInv'
  BY <1>2 DEF ThreadInv, TypeOK
<1>4. WaitInv'
  BY <1>2, RangeOf DEF WaitInv, TypeOK
<1>5. WatermarkInv'
  BY DEF WatermarkInv
<1> QED
  BY <1>1, <1>3, <1>4, <1>5 DEF DeletedStaysDeleted, GrantsEndWithTheVisit, ParkedBehindTurn

\* Turns of other origins.
LEMMA ForeignKeeps ==
    ASSUME IInv, NEW s \in Sessions, ForeignStarts(s) \/ ForeignEnds(s)
    PROVE  IInv'
<1> USE DEF IInv, ForeignStarts, ForeignEnds, uiVars, turnVars
<1>0. s \in stored /\ s \notin deleted
  BY DEF ThreadInv, DeletedStaysDeleted
<1>1. TypeOK'
  BY DEF TypeOK
<1>2. \A m \in Msgs : Running(m)' <=> Running(m)
  BY DEF Running, TypeOK
<1>3. ThreadInv'
  BY <1>0, <1>2 DEF ThreadInv, TypeOK
<1>4. DeletedStaysDeleted'
  BY <1>0 DEF DeletedStaysDeleted
<1>5. WaitInv'
  BY <1>2, RangeOf DEF WaitInv, TypeOK
<1>6. WatermarkInv'
  BY DEF WatermarkInv
<1> QED
  BY <1>1, <1>3, <1>4, <1>5, <1>6 DEF GrantsEndWithTheVisit, ParkedBehindTurn

LEMMA GrantKeeps ==
    ASSUME IInv, Grant
    PROVE  IInv'
<1> USE DEF IInv, Grant, turnVars, envVars
<1>1. TypeOK'
  BY DEF TypeOK
<1>2. \A m \in Msgs : Running(m)' <=> Running(m)
  BY DEF Running, TypeOK
<1>3. ThreadInv'
  BY <1>2 DEF ThreadInv, TypeOK
<1>4. GrantsEndWithTheVisit'
  BY DEF GrantsEndWithTheVisit
<1>5. WaitInv'
  BY <1>2, RangeOf DEF WaitInv, TypeOK
<1>6. WatermarkInv'
  BY DEF WatermarkInv
<1> QED
  BY <1>1, <1>3, <1>4, <1>5, <1>6 DEF DeletedStaysDeleted, ParkedBehindTurn

LEMMA StutterKeeps == IInv /\ UNCHANGED vars => IInv'
<1> SUFFICES ASSUME IInv, UNCHANGED vars PROVE IInv'
  OBVIOUS
<1> USE DEF vars, uiVars, turnVars, envVars
<1>1. TypeOK' /\ DeletedStaysDeleted' /\ GrantsEndWithTheVisit' /\ ParkedBehindTurn'
  BY DEF IInv, TypeOK, DeletedStaysDeleted, GrantsEndWithTheVisit, ParkedBehindTurn
<1>2. ThreadInv'
  BY DEF IInv, ThreadInv, Running
<1>3. WaitInv'
  BY DEF IInv, WaitInv, Running
<1>4. WatermarkInv'
  BY DEF IInv, WatermarkInv
<1> QED
  BY <1>1, <1>2, <1>3, <1>4 DEF IInv

-----------------------------------------------------------------------------

\* A message typed: it is new, and the visible thread, created with the first
\* message, has no turn but the one in view.
Typing(m, s) ==
    /\ m = typed + 1 /\ typed' = m /\ typed \in Nat /\ typed < m
    /\ \A x \in Msgs : x <= typed => x < m /\ x <= m
    /\ quitting = FALSE /\ quitting' = FALSE
    /\ session' = s /\ s \in stored' /\ stored \subseteq stored'
    /\ stored' \subseteq Sessions /\ deleted \cap stored' = {}
    /\ UNCHANGED <<detached, grants, foreign, deleted, stranded>>
    /\ detached[s] = NoTurn
    /\ current # NoTurn => s = session
    /\ session # NoSession => s = session
    /\ \A t \in Msgs : Running(t) /\ home[t] = s => t = current
    /\ ~Running(m) /\ m \notin Range(queue) /\ m \notin ahead
    /\ inbox[m] = <<>> /\ \A t \in Msgs : m \notin Range(inbox[t])
    /\ aimed' \in [Msgs -> Sessions \cup {NoSession}]
    /\ \A x \in Msgs : aimed'[x] = IF x = m THEN s ELSE aimed[x]

LEMMA TypeFacts ==
    ASSUME IInv, NEW m \in Msgs, NEW s \in Sessions, Type(m, s)
    PROVE  Typing(m, s)
<1> USE DEF Type
<1>0. TypeOK /\ ThreadInv /\ DeletedStaysDeleted
  BY DEF IInv
<1>1. typed \in Nat /\ m \in Nat /\ session \in Sessions \cup {NoSession}
  BY <1>0, Constants DEF TypeOK
<1>2. /\ m = typed + 1 /\ typed' = m
      /\ session' = s
      /\ UNCHANGED <<detached, grants, foreign, deleted, stranded, quitting>>
  OBVIOUS
<1>3. quitting = FALSE
  BY DEF TypeOK
<1>6. ~Running(m) /\ m \notin Range(queue) /\ m \notin ahead
      /\ inbox[m] = <<>> /\ \A t \in Msgs : m \notin Range(inbox[t])
  <2>1. ~(m <= typed)
    BY <1>1, <1>2
  <2> QED
    BY <2>1 DEF IInv, ThreadInv, WaitInv, WatermarkInv
<1>7. /\ aimed' \in [Msgs -> Sessions \cup {NoSession}]
      /\ \A x \in Msgs : aimed'[x] = IF x = m THEN s ELSE aimed[x]
  BY <1>0 DEF TypeOK
<1>8. /\ s \in stored' /\ stored \subseteq stored'
      /\ stored' \subseteq Sessions /\ deleted \cap stored' = {}
      /\ detached[s] = NoTurn
      /\ current # NoTurn => s = session
      /\ session # NoSession => s = session
      /\ \A t \in Msgs : Running(t) /\ home[t] = s => t = current
  <2>1. CASE session = NoSession
    <3>1. s \in Sessions /\ s \notin stored /\ s \notin deleted /\ stored' = stored \cup {s}
      BY <2>1 DEF Visible, FreshIds
    <3>2. \A t \in Msgs : Running(t) => home[t] # s
      BY <1>0, <3>1 DEF ThreadInv
    <3>3. detached[s] = NoTurn
      <4>1. detached[s] \in Msgs \cup {NoTurn}
        BY <1>0 DEF TypeOK
      <4>2. detached[s] # NoTurn => Running(detached[s]) /\ home[detached[s]] = s
        BY <1>0 DEF ThreadInv
      <4> QED
        BY <3>2, <4>1, <4>2
    <3>4. current = NoTurn
      <4>1. current \in Msgs \cup {NoTurn} /\ NoSession \notin stored
        BY <1>0, Constants DEF TypeOK
      <4>2. current # NoTurn => Running(current) /\ home[current] = session
        BY <1>0 DEF ThreadInv
      <4> QED
        BY <1>0, <2>1, <4>1, <4>2 DEF ThreadInv
    <3>5. stored \cup {s} \subseteq Sessions /\ deleted \cap (stored \cup {s}) = {}
      BY <1>0, <3>1 DEF DeletedStaysDeleted, TypeOK
    <3> QED
      BY <1>2, <2>1, <3>1, <3>2, <3>3, <3>4, <3>5
  <2>2. CASE session # NoSession
    <3>1. s = session /\ stored' = stored /\ s \in stored /\ detached[s] = NoTurn
      BY <1>0, <2>2 DEF Visible, ThreadInv
    <3>2. \A t \in Msgs : Running(t) /\ home[t] = s => t = current
      BY <1>0, <1>3, <3>1, Constants DEF ThreadInv
    <3>3. stored \subseteq Sessions /\ deleted \cap stored = {}
      BY <1>0 DEF DeletedStaysDeleted, TypeOK
    <3> QED
      BY <1>2, <2>2, <3>1, <3>2, <3>3
  <2> QED
    BY <2>1, <2>2
<1>9. typed < m /\ \A x \in Msgs : x <= typed => x < m /\ x <= m
  <2>1. typed < m
    BY <1>1, <1>2
  <2> QED
    BY <1>1, <2>1, Constants
<1> QED
  BY <1>1, <1>2, <1>3, <1>6, <1>7, <1>8, <1>9 DEF Typing

\* The threads when the message starts no turn.
LEMMA TypeKeepsThreads ==
    ASSUME IInv, NEW m \in Msgs, NEW s \in Sessions, Type(m, s),
           UNCHANGED <<current, phase, home, aborted>>
    PROVE  ThreadInv' /\ DeletedStaysDeleted' /\ GrantsEndWithTheVisit'
<1>0. Typing(m, s)
  BY TypeFacts
<1>1. \A t \in Msgs : Running(t)' <=> Running(t)
  BY DEF Running
<1>2. \A t \in Msgs : t \in Nat
  BY Constants
<1>3. ThreadInv'
  <2>1. \A t \in Msgs : t <= typed => t <= m
    BY <1>0, <1>2 DEF Typing
  <2>2. \A t \in Msgs : Running(t)' => t <= typed' /\ home'[t] \in stored'
    BY <1>0, <1>1, <2>1 DEF Typing, IInv, ThreadInv
  <2>3. \A t \in Msgs : Running(t)' => t \in {current', detached'[home'[t]]}
    BY <1>0, <1>1 DEF Typing, IInv, ThreadInv
  <2>4. current' # NoTurn => Running(current)' /\ home'[current'] = session'
    <3>1. current # NoTurn => current \in Msgs
      BY DEF IInv, TypeOK
    <3> QED
      BY <1>0, <1>1, <3>1 DEF Typing, IInv, ThreadInv
  <2>5. \A x \in Sessions : detached'[x] # NoTurn =>
            Running(detached[x])' /\ home'[detached'[x]] = x
    <3>1. \A x \in Sessions : detached[x] # NoTurn => detached[x] \in Msgs
      BY DEF IInv, TypeOK
    <3> QED
      BY <1>0, <1>1, <3>1 DEF Typing, IInv, ThreadInv
  <2>6. \A t, u \in Msgs : Running(t)' /\ Running(u)' /\ home'[t] = home'[u] => t = u
    BY <1>1 DEF IInv, ThreadInv
  <2>7. foreign' \subseteq stored'
    BY <1>0 DEF Typing, IInv, ThreadInv
  <2> QED
    BY <1>0, <2>2, <2>3, <2>4, <2>5, <2>6, <2>7 DEF Typing, ThreadInv
<1>4. GrantsEndWithTheVisit'
  <2>1. grants \subseteq Sessions
    BY DEF IInv, TypeOK
  <2> QED
    BY <2>1, <1>0, Constants DEF Typing, IInv, GrantsEndWithTheVisit
<1> QED
  BY <1>3, <1>4, <1>0 DEF Typing, DeletedStaysDeleted

\* The rest of TypeOK when a message is typed.
LEMMA TypeKeepsTypes ==
    ASSUME IInv, NEW m \in Msgs, NEW s \in Sessions, Type(m, s),
           UNCHANGED <<aborted, cancelled>>,
           current' \in Msgs \cup {NoTurn},
           queue' \in Seq(Msgs), steeredAhead' \in Nat, steeredAhead' <= m,
           ahead' \subseteq Msgs, stale' \in BOOLEAN,
           phase' \in [Msgs -> {"none", "early", "open", "closed"}],
           home' \in [Msgs -> Sessions \cup {NoSession}],
           inbox' \in [Msgs -> Seq(Msgs)], fate' \in [Msgs -> Fates]
    PROVE  TypeOK'
<1>0. Typing(m, s)
  BY TypeFacts
<1>1. m <= MaxTyped /\ MaxTyped \in Nat /\ m \in Nat
  BY Constants
<1>2. steeredAhead' \in 0..MaxTyped /\ typed' \in 0..MaxTyped
  BY <1>1, <1>0 DEF Typing
<1>3. {quitting', stranded', stale'} \subseteq BOOLEAN
  BY <1>0, FlatTypes, Zenon DEF Typing, IInv
<1>4. /\ session' \in Sessions \cup {NoSession}
      /\ detached' \in [Sessions -> Msgs \cup {NoTurn}]
      /\ {stored', grants', foreign', deleted'} \subseteq SUBSET Sessions
      /\ aimed' \in [Msgs -> Sessions \cup {NoSession}]
      /\ {aborted', cancelled', ahead'} \subseteq SUBSET Msgs
  <2>1. detached' \in [Sessions -> Msgs \cup {NoTurn}]
    BY <1>0 DEF Typing, IInv, TypeOK
  <2> QED
    BY <1>0, <2>1, FlatTypes DEF Typing, IInv
<1> QED
  BY <1>2, <1>3, <1>4, FlatTypes DEF IInv, TypeOK

\* The message is handed back, blocked, or goes to the turn of another origin.
LEMMA NotTakenKeeps ==
    ASSUME IInv, NEW m \in Msgs, NEW s \in Sessions, Type(m, s),
           UNCHANGED <<current, queue, steeredAhead, turnVars, ahead, stale>>,
           fate' \in [Msgs -> Fates]
    PROVE  IInv'
<1> USE DEF turnVars
<1>t. Typing(m, s)
  BY TypeFacts
<1>0. /\ typed <= m /\ typed \in Nat /\ m \in Nat
      /\ steeredAhead <= typed /\ steeredAhead \in Nat
  BY <1>t, Constants DEF Typing, IInv, WatermarkInv, TypeOK
<1>1. TypeOK'
  <2>1. steeredAhead' \in Nat /\ steeredAhead' <= m
    BY <1>0
  <2> QED
    BY <2>1, TypeKeepsTypes DEF IInv, TypeOK
<1>2. ThreadInv' /\ DeletedStaysDeleted' /\ GrantsEndWithTheVisit'
  BY TypeKeepsThreads
<1>3. WaitInv'
  <2>1. \A t \in Msgs : Running(t)' <=> Running(t)
    BY DEF Running
  <2>2. \A x \in Msgs : x <= typed => x <= m
    BY <1>0, Constants
  <2>3. \A x \in Range(queue) : x \in Msgs /\ x # m
    BY WaitingAreMsgs, <1>t DEF Typing, IInv
  <2>4. \A t \in Msgs : \A x \in Range(inbox[t]) : x \in Msgs /\ x # m
    BY WaitingAreMsgs, <1>t DEF Typing, IInv
  <2> QED
    BY <2>1, <2>2, <2>3, <2>4, <1>t DEF Typing, IInv, WaitInv
<1>4. WatermarkInv'
  <2>1. \A x \in ahead : x <= m
    <3>1. \A x \in ahead : x \in Msgs /\ x <= typed
      BY FlatTypes DEF IInv, WatermarkInv
    <3> QED
      BY <1>t, <3>1 DEF Typing
  <2>2. steeredAhead <= m
    BY <1>0
  <2> QED
    BY <2>1, <2>2, <1>t DEF Typing, IInv, WatermarkInv
<1>5. ParkedBehindTurn'
  BY <1>t, WaitingAreMsgs, NoneIn DEF Typing, IInv, ParkedBehindTurn
<1> QED
  BY <1>1, <1>2, <1>3, <1>4, <1>5 DEF IInv

\* The message is parked: behind the backlog or among the re-routed steers.
LEMMA ParkedStands ==
    ASSUME IInv, NEW m \in Msgs, NEW s \in Sessions, Type(m, s), current # NoTurn,
           UNCHANGED <<current, turnVars, stale>>,
           fate' = [fate EXCEPT ![m] = "parked"],
           queue' \in Seq(Msgs), Range(queue') = Range(queue) \cup {m}, Distinct(queue'),
           steeredAhead' \in Nat, steeredAhead' <= m, ahead' \subseteq ahead \cup {m}
    PROVE  /\ TypeOK' /\ ThreadInv' /\ DeletedStaysDeleted' /\ GrantsEndWithTheVisit'
           /\ WaitInv' /\ ParkedBehindTurn'
           /\ \A x \in ahead' : x <= typed'
<1> USE DEF turnVars
<1>t. Typing(m, s)
  BY TypeFacts
<1>1. TypeOK'
  <2>1. fate' \in [Msgs -> Fates]
    BY DEF IInv, TypeOK, Fates
  <2>2. ahead' \subseteq Msgs
    BY FlatTypes DEF IInv
  <2> QED
    BY <2>1, <2>2, TypeKeepsTypes DEF IInv, TypeOK
<1>2. ThreadInv' /\ DeletedStaysDeleted' /\ GrantsEndWithTheVisit'
  BY TypeKeepsThreads
<1>3. WaitInv'
  <2>1. \A t \in Msgs : Running(t)' <=> Running(t)
    BY DEF Running
  <2>2. m <= m
    BY Constants
  <2>3. \A x \in Range(queue) : x \in Msgs /\ x # m
    BY WaitingAreMsgs, <1>t DEF Typing, IInv
  <2>4. \A t \in Msgs : \A x \in Range(inbox[t]) : x \in Msgs /\ x # m
    BY WaitingAreMsgs, <1>t DEF Typing, IInv
  <2>5. Distinct(queue') /\ \A x \in Range(queue') : x <= typed' /\ ~Running(x)'
    <3>1. \A x \in Range(queue) : x \in Msgs /\ x # m /\ x <= typed /\ ~Running(x)
      BY <2>3 DEF IInv, WaitInv
    <3>2. m <= typed' /\ ~Running(m)
      BY <2>2, <1>t DEF Typing
    <3> QED
      BY <2>1, <3>1, <3>2, <1>t DEF Typing
  <2>6. ASSUME NEW t \in Msgs
        PROVE  /\ ~Running(t)' => inbox'[t] = <<>>
               /\ Distinct(inbox'[t])
               /\ \A x \in Range(inbox'[t]) :
                    x <= typed' /\ ~Running(x)' /\ x \notin Range(queue') /\ aimed'[x] = home'[t]
    <3>1. \A x \in Range(inbox[t]) :
            x \in Msgs /\ x # m /\ x <= typed /\ ~Running(x) /\ x \notin Range(queue)
            /\ aimed[x] = home[t]
      BY <2>4 DEF IInv, WaitInv
    <3>2. (~Running(t) => inbox[t] = <<>>) /\ Distinct(inbox[t])
      BY DEF IInv, WaitInv
    <3> QED
      BY <3>1, <3>2, <2>1, <1>t DEF Typing
  <2> QED
    BY <2>5, <2>6 DEF WaitInv
<1>4. ParkedBehindTurn'
  <2>1. \A x \in Range(queue) : x \in Msgs /\ x # m
    BY WaitingAreMsgs, <1>t DEF Typing, IInv
  <2> QED
    BY <1>t, <2>1 DEF Typing, IInv, ParkedBehindTurn
<1>5. \A x \in ahead' : x <= typed'
  <2>1. \A x \in ahead : x \in Msgs /\ x <= typed
    BY FlatTypes DEF IInv, WatermarkInv
  <2>2. m <= m
    BY Constants
  <2> QED
    BY <1>t, <2>1, <2>2 DEF Typing
<1> QED
  BY <1>1, <1>2, <1>3, <1>4, <1>5

LEMMA BacklogKeeps ==
    ASSUME IInv, NEW m \in Msgs, NEW s \in Sessions, Type(m, s), current # NoTurn,
           UNCHANGED <<current, turnVars, stale, steeredAhead, ahead>>,
           fate' = [fate EXCEPT ![m] = "parked"],
           queue' = Append(queue, m)
    PROVE  IInv'
<1> USE DEF turnVars
<1>t. Typing(m, s)
  BY TypeFacts
<1>q. queue \in Seq(Msgs) /\ Distinct(queue) /\ Len(queue) \in Nat
  BY DEF IInv, WaitInv, TypeOK
<1>1. /\ queue' \in Seq(Msgs) /\ Len(queue') = Len(queue) + 1
      /\ \A i \in 1..Len(queue) : queue'[i] = queue[i]
      /\ queue'[Len(queue) + 1] = m
      /\ Range(queue') = Range(queue) \cup {m} /\ Distinct(queue')
  BY <1>t, <1>q, AppendAdds DEF Typing
<1>2. steeredAhead' \in Nat /\ steeredAhead' <= m /\ steeredAhead <= typed
  BY <1>t, FlatTypes, Constants DEF Typing, IInv, WatermarkInv
<1>3. /\ TypeOK' /\ ThreadInv' /\ DeletedStaysDeleted' /\ GrantsEndWithTheVisit'
      /\ WaitInv' /\ ParkedBehindTurn'
      /\ \A x \in ahead' : x <= typed'
  BY <1>1, <1>2, ParkedStands
<1>4. WatermarkInv'
  <2>1. SUFFICES ASSUME current \notin aborted, ~stale
                 PROVE  /\ steeredAhead <= Len(queue')
                        /\ \A i \in 1..Len(queue') : queue'[i] \in ahead <=> i <= steeredAhead
                        /\ \A i, j \in 1..steeredAhead : i < j => queue'[i] < queue'[j]
    BY <1>2, <1>3, <1>t DEF WatermarkInv, Typing
  <2>2. /\ steeredAhead <= Len(queue)
        /\ \A i \in 1..Len(queue) : queue[i] \in ahead <=> i <= steeredAhead
        /\ \A i, j \in 1..steeredAhead : i < j => queue[i] < queue[j]
    BY <2>1 DEF IInv, WatermarkInv
  <2>3. m \notin ahead /\ steeredAhead \in Nat
    BY <1>t, FlatTypes DEF Typing, IInv
  <2>4. \A i \in 1..Len(queue') : i \in 1..Len(queue) \/ i = Len(queue) + 1
    BY <1>1, <1>q
  <2>5. \A i \in 1..steeredAhead : i \in 1..Len(queue)
    BY <2>2, <2>3, <1>q
  <2>6. steeredAhead <= Len(queue') /\ ~(Len(queue) + 1 <= steeredAhead)
    BY <1>1, <1>q, <2>2, <2>3
  <2> QED
    BY <1>1, <2>2, <2>3, <2>4, <2>5, <2>6
<1> QED
  BY <1>3, <1>4 DEF IInv

LEMMA SteerParkedKeeps ==
    ASSUME IInv, NEW m \in Msgs, NEW s \in Sessions, Type(m, s), current # NoTurn,
           UNCHANGED <<current, turnVars, stale>>,
           fate' = [fate EXCEPT ![m] = "parked"],
           QueueAsSteer(m), ahead' = ahead \cup {m}
    PROVE  IInv'
<1> USE DEF turnVars
<1> DEFINE k == IF steeredAhead <= Len(queue) THEN steeredAhead + 1 ELSE Len(queue) + 1
<1>t. Typing(m, s)
  BY TypeFacts
<1>q. queue \in Seq(Msgs) /\ Distinct(queue) /\ Len(queue) \in Nat /\ steeredAhead \in Nat
  BY FlatTypes DEF IInv, WaitInv, TypeOK
<1>k. k \in 1..(Len(queue) + 1)
  BY <1>q
<1>1. /\ queue' \in Seq(Msgs) /\ Len(queue') = Len(queue) + 1
      /\ \A i \in 1..(Len(queue) + 1) : queue'[i] =
            IF i < k THEN queue[i] ELSE IF i = k THEN m ELSE queue[i - 1]
      /\ Range(queue') = Range(queue) \cup {m} /\ Distinct(queue')
  <2>1. queue' = InsertAt(queue, k, m)
    BY DEF QueueAsSteer
  <2>2. m \notin Range(queue)
    BY <1>t DEF Typing
  <2> HIDE DEF k
  <2>3. /\ InsertAt(queue, k, m) \in Seq(Msgs)
        /\ Len(InsertAt(queue, k, m)) = Len(queue) + 1
        /\ \A i \in 1..(Len(queue) + 1) : InsertAt(queue, k, m)[i] =
                IF i < k THEN queue[i] ELSE IF i = k THEN m ELSE queue[i - 1]
        /\ Range(InsertAt(queue, k, m)) = Range(queue) \cup {m}
        /\ Distinct(InsertAt(queue, k, m))
    BY <1>q, <1>k, <2>2, InsertAdds
  <2> QED
    BY <2>1, <2>3
<1>2. steeredAhead' = steeredAhead + 1 /\ steeredAhead' \in Nat /\ steeredAhead' <= m
  <2>1. steeredAhead <= typed /\ m = typed + 1 /\ typed \in Nat
    BY <1>t DEF Typing, IInv, WatermarkInv
  <2> QED
    BY <2>1, <1>q DEF QueueAsSteer
<1>3. /\ TypeOK' /\ ThreadInv' /\ DeletedStaysDeleted' /\ GrantsEndWithTheVisit'
      /\ WaitInv' /\ ParkedBehindTurn'
      /\ \A x \in ahead' : x <= typed'
  BY <1>1, <1>2, ParkedStands
<1>4. WatermarkInv'
  <2>1. SUFFICES ASSUME current \notin aborted, ~stale
                 PROVE  /\ steeredAhead + 1 <= Len(queue')
                        /\ \A i \in 1..Len(queue') : queue'[i] \in ahead' <=> i <= steeredAhead + 1
                        /\ \A i, j \in 1..(steeredAhead + 1) : i < j => queue'[i] < queue'[j]
    BY <1>2, <1>3, <1>t DEF WatermarkInv, Typing
  <2>2. /\ steeredAhead <= Len(queue)
        /\ \A i \in 1..Len(queue) : queue[i] \in ahead <=> i <= steeredAhead
        /\ \A i, j \in 1..steeredAhead : i < j => queue[i] < queue[j]
    BY <2>1 DEF IInv, WatermarkInv
  <2>3. \A i \in 1..Len(queue) : queue[i] # m /\ queue[i] < m
    <3>1. \A i \in 1..Len(queue) : queue[i] \in Range(queue) /\ queue[i] \in Msgs
      BY <1>q, RangeOf
    <3>2. \A x \in Range(queue) : x # m /\ x <= typed
      BY <1>t DEF Typing, IInv, WaitInv
    <3> QED
      BY <3>1, <3>2, <1>t DEF Typing
  <2>4. k = steeredAhead + 1
    BY <2>2
  <2> HIDE DEF k
  <2>5. \A i \in 1..Len(queue') : queue'[i] \in ahead' <=> i <= steeredAhead + 1
    <3>1. SUFFICES ASSUME NEW i \in 1..(Len(queue) + 1)
                   PROVE  queue'[i] \in ahead \cup {m} <=> i <= steeredAhead + 1
      BY <1>1
    <3>2. CASE i < k
      <4>1. i \in 1..Len(queue) /\ i <= steeredAhead
        BY <1>q, <2>2, <2>4, <3>2
      <4> QED
        BY <1>1, <2>2, <3>2, <4>1, <1>q
    <3>3. CASE i = k
      BY <1>1, <1>q, <2>4, <3>3
    <3>4. CASE i > k
      <4>1. i - 1 \in 1..Len(queue) /\ ~(i - 1 <= steeredAhead) /\ ~(i <= steeredAhead + 1)
        BY <1>q, <2>2, <2>4, <3>4
      <4>2. queue'[i] = queue[i - 1]
        BY <1>1, <1>k, <3>4
      <4> QED
        BY <2>2, <2>3, <4>1, <4>2
    <3> QED
      BY <3>2, <3>3, <3>4, <1>k
  <2>6. ASSUME NEW i \in 1..(steeredAhead + 1), NEW j \in 1..(steeredAhead + 1), i < j
        PROVE  queue'[i] < queue'[j]
    <3>1. i \in 1..steeredAhead /\ i \in 1..Len(queue) /\ i \in 1..(Len(queue) + 1) /\ i < k
      BY <1>q, <2>2, <2>4, <2>6
    <3>2. queue'[i] = queue[i]
      BY <1>1, <3>1
    <3>3. CASE j = k
      <4>1. queue'[j] = m
        BY <1>1, <1>k, <3>3
      <4> QED
        BY <2>3, <3>1, <3>2, <4>1
    <3>4. CASE j # k
      <4>1. j \in 1..steeredAhead /\ j \in 1..(Len(queue) + 1) /\ j < k
        BY <1>q, <2>2, <2>4, <2>6, <3>4
      <4>2. queue'[j] = queue[j]
        BY <1>1, <4>1
      <4> QED
        BY <2>2, <2>6, <3>1, <3>2, <4>1, <4>2
    <3> QED
      BY <3>3, <3>4
  <2>7. steeredAhead + 1 <= Len(queue')
    BY <1>1, <1>q, <2>2
  <2> QED
    BY <2>5, <2>6, <2>7
<1> QED
  BY <1>3, <1>4 DEF IInv

\* A turn of the thread takes the message into its inbox.
LEMMA TakenKeeps ==
    ASSUME IInv, NEW m \in Msgs, NEW s \in Sessions, Type(m, s), NEW t \in Takers(s),
           inbox' = [inbox EXCEPT ![t] = Append(@, m)],
           fate' = [fate EXCEPT ![m] = "steered"],
           UNCHANGED <<current, queue, steeredAhead, phase, home, aborted, cancelled, ahead, stale>>
    PROVE  IInv'
<1>t. Typing(m, s)
  BY TypeFacts
<1>0. /\ typed \in Nat /\ typed <= m /\ m \in Nat
      /\ steeredAhead <= typed /\ steeredAhead \in Nat
  BY <1>t, Constants, FlatTypes DEF Typing, IInv, WatermarkInv
<1>q. t \in Msgs /\ home[t] = s /\ Running(t) /\ inbox[t] \in Seq(Msgs)
  BY DEF Takers, Running, IInv, TypeOK
<1>1. /\ Append(inbox[t], m) \in Seq(Msgs)
      /\ Range(Append(inbox[t], m)) = Range(inbox[t]) \cup {m}
      /\ Distinct(Append(inbox[t], m))
  BY <1>t, <1>q, AppendAdds DEF Typing, IInv, WaitInv
<1>2. /\ inbox' \in [Msgs -> Seq(Msgs)]
      /\ \A u \in Msgs : inbox'[u] = IF u = t THEN Append(inbox[t], m) ELSE inbox[u]
  BY <1>1, <1>q DEF IInv, TypeOK
<1>3. TypeOK'
  <2>1. fate' \in [Msgs -> Fates]
    BY DEF IInv, TypeOK, Fates
  <2>2. steeredAhead' \in Nat /\ steeredAhead' <= m
    BY <1>0
  <2> QED
    BY <1>2, <2>1, <2>2, TypeKeepsTypes DEF IInv, TypeOK
<1>4. ThreadInv' /\ DeletedStaysDeleted' /\ GrantsEndWithTheVisit'
  BY TypeKeepsThreads
<1>5. WaitInv'
  <2>1. \A u \in Msgs : Running(u)' <=> Running(u)
    BY DEF Running
  <2>2. m <= m
    BY Constants
  <2>3. \A x \in Range(queue) : x \in Msgs /\ x # m
    BY WaitingAreMsgs, <1>t DEF Typing, IInv
  <2>4. \A u \in Msgs : \A x \in Range(inbox[u]) : x \in Msgs /\ x # m
    BY WaitingAreMsgs, <1>t DEF Typing, IInv
  <2>5. Distinct(queue') /\ \A x \in Range(queue') : x <= typed' /\ ~Running(x)'
    BY <2>1, <2>3, <1>t DEF Typing, IInv, WaitInv
  <2>6. ASSUME NEW u \in Msgs
        PROVE  /\ ~Running(u)' => inbox'[u] = <<>>
               /\ Distinct(inbox'[u])
               /\ \A x \in Range(inbox'[u]) :
                    x <= typed' /\ ~Running(x)' /\ x \notin Range(queue') /\ aimed'[x] = home'[u]
    <3>1. CASE u = t
      <4>1. \A x \in Range(inbox[t]) :
              x \in Msgs /\ x # m /\ x <= typed /\ ~Running(x) /\ x \notin Range(queue)
              /\ aimed[x] = home[t]
        BY <1>q, <2>4 DEF IInv, WaitInv
      <4>2. inbox'[u] = Append(inbox[t], m) /\ Running(u) /\ home[u] = s
        BY <3>1, <1>2, <1>q
      <4>3. \A x \in Range(inbox'[u]) : x = m \/ x \in Range(inbox[t])
        BY <4>2, <1>1
      <4>4. m <= typed' /\ ~Running(m) /\ m \notin Range(queue') /\ aimed'[m] = s
        BY <2>2, <1>t DEF Typing
      <4> QED
        BY <3>1, <4>1, <4>2, <4>3, <4>4, <1>1, <1>t, <2>1 DEF Typing
    <3>2. CASE u # t
      BY <3>2, <1>2, <1>t, <2>1, <2>4 DEF Typing, IInv, WaitInv
    <3> QED
      BY <3>1, <3>2
  <2> QED
    BY <2>5, <2>6 DEF WaitInv
<1>6. WatermarkInv'
  <2>1. \A x \in ahead : x <= m
    <3>1. \A x \in ahead : x \in Msgs /\ x <= typed
      BY FlatTypes DEF IInv, WatermarkInv
    <3> QED
      BY <1>t, <3>1 DEF Typing
  <2>2. steeredAhead <= m
    BY <1>0
  <2> QED
    BY <2>1, <2>2, <1>t DEF Typing, IInv, WatermarkInv
<1>7. ParkedBehindTurn'
  BY <1>t, WaitingAreMsgs, NoneIn DEF Typing, IInv, ParkedBehindTurn
<1> QED
  BY <1>3, <1>4, <1>5, <1>6, <1>7 DEF IInv

\* The message starts a turn.
LEMMA StartsKeeps ==
    ASSUME IInv, NEW m \in Msgs, NEW s \in Sessions, Type(m, s), current = NoTurn,
           current' = m, steeredAhead' = 0, ahead' = {}, stale' = FALSE,
           fate' \in [Msgs -> Fates],
           phase' = [phase EXCEPT ![m] = "early"],
           home' = [home EXCEPT ![m] = s],
           UNCHANGED <<queue, aborted, cancelled, inbox>>
    PROVE  IInv'
<1>t. Typing(m, s)
  BY TypeFacts
<1>0. m \in Nat /\ 0 <= m /\ m <= m
  BY Constants
<1>1. /\ \A t \in Msgs : Running(t)' <=> t = m \/ Running(t)
      /\ \A t \in Msgs : home'[t] = IF t = m THEN s ELSE home[t]
  BY DEF Running, IInv, TypeOK
<1>2. TypeOK'
  <2>1. /\ phase' \in [Msgs -> {"none", "early", "open", "closed"}]
        /\ home' \in [Msgs -> Sessions \cup {NoSession}]
    BY DEF IInv, TypeOK
  <2> QED
    BY <1>0, <2>1, TypeKeepsTypes DEF IInv, TypeOK
<1>3. ThreadInv'
  <2>1. \A t \in Msgs : Running(t)' => t <= typed' /\ home'[t] \in stored'
    BY <1>0, <1>1, <1>t DEF Typing, IInv, ThreadInv
  <2>2. \A t \in Msgs : Running(t)' => t \in {current', detached'[home'[t]]}
    BY <1>1, <1>t, Constants DEF Typing, IInv, ThreadInv
  <2>3. \A x \in Sessions : detached'[x] # NoTurn =>
            Running(detached[x])' /\ home'[detached'[x]] = x
    <3>1. \A x \in Sessions : detached[x] # NoTurn =>
            detached[x] \in Msgs /\ Running(detached[x]) /\ home[detached[x]] = x
      BY FlatTypes DEF IInv, ThreadInv
    <3>2. ~Running(m) /\ detached' = detached
      BY <1>t DEF Typing
    <3>3. SUFFICES ASSUME NEW x \in Sessions, detached[x] # NoTurn
                   PROVE  phase'[detached[x]] # "none" /\ home'[detached[x]] = x
      BY <3>2 DEF Running
    <3> QED
      BY <1>1, <3>1, <3>2, <3>3 DEF Running
  <2>4. \A t, u \in Msgs : Running(t)' /\ Running(u)' /\ home'[t] = home'[u] => t = u
    <3>1. \A t \in Msgs : Running(t) => home[t] # s
      BY <1>t, Constants DEF Typing
    <3> QED
      BY <1>1, <3>1 DEF IInv, ThreadInv
  <2>5. foreign' \subseteq stored'
    BY <1>t DEF Typing, IInv, ThreadInv
  <2>6. current' # NoTurn => Running(current)' /\ home'[current'] = session'
    BY <1>1, <1>t DEF Typing, Running
  <2> QED
    BY <2>1, <2>2, <2>3, <2>4, <2>5, <2>6, <1>t DEF ThreadInv, Typing
<1>4. DeletedStaysDeleted'
  BY <1>t DEF Typing, DeletedStaysDeleted
<1>5. GrantsEndWithTheVisit'
  <2>1. grants \subseteq Sessions
    BY DEF IInv, TypeOK
  <2> QED
    BY <2>1, <1>t, Constants DEF Typing, IInv, GrantsEndWithTheVisit
<1>6. WaitInv'
  <2>1. Distinct(queue') /\ \A x \in Range(queue') : x <= typed' /\ ~Running(x)'
    <3>1. \A x \in Range(queue) : x \in Msgs /\ x # m /\ x <= typed /\ ~Running(x)
      BY WaitingAreMsgs, <1>t DEF Typing, IInv, WaitInv
    <3> QED
      BY <1>1, <3>1, <1>t DEF Typing, IInv, WaitInv
  <2>2. ASSUME NEW t \in Msgs
        PROVE  /\ ~Running(t)' => inbox'[t] = <<>>
               /\ Distinct(inbox'[t])
               /\ \A x \in Range(inbox'[t]) :
                    x <= typed' /\ ~Running(x)' /\ x \notin Range(queue') /\ aimed'[x] = home'[t]
    <3>1. \A x \in Range(inbox[t]) :
            x \in Msgs /\ x # m /\ x <= typed /\ ~Running(x) /\ x \notin Range(queue)
            /\ aimed[x] = home[t]
      BY WaitingAreMsgs, <1>t DEF Typing, IInv, WaitInv
    <3>2. t = m => Range(inbox[t]) = {}
      BY <1>t, NoneIn DEF Typing
    <3>3. (~Running(t) => inbox[t] = <<>>) /\ Distinct(inbox[t])
      BY DEF IInv, WaitInv
    <3> QED
      BY <1>1, <3>1, <3>2, <3>3, <1>t DEF Typing
  <2> QED
    BY <2>1, <2>2 DEF WaitInv
<1>7. WatermarkInv'
  <2>1. Len(queue) \in Nat
    BY DEF IInv, TypeOK
  <2> QED
    BY <1>0, <2>1, <1>t DEF WatermarkInv, Typing
<1>8. ParkedBehindTurn'
  BY <1>t, NoneIn, Constants DEF Typing, IInv, ParkedBehindTurn
<1> QED
  BY <1>2, <1>3, <1>4, <1>5, <1>6, <1>7, <1>8 DEF IInv

LEMMA RunNowKeeps ==
    ASSUME IInv, NEW m \in Msgs, NEW s \in Sessions, Type(m, s), current = NoTurn, RunNow(m, s)
    PROVE  IInv'
<1>1. PICK blocked \in BOOLEAN : Launch(m, blocked, fate) /\ LaunchTurn(m, s, blocked, phase)
  BY DEF RunNow
<1>2. UNCHANGED <<queue, aborted, cancelled, inbox>>
  BY DEF RunNow
<1>3. fate' \in [Msgs -> Fates]
  BY <1>1 DEF Launch, Mark, IInv, TypeOK, Fates
<1>4. CASE blocked
  <2>1. UNCHANGED <<current, queue, steeredAhead, turnVars, ahead, stale>>
    BY <1>1, <1>2, <1>4 DEF Launch, LaunchTurn, turnVars
  <2> QED
    BY <1>3, <2>1, NotTakenKeeps
<1>5. CASE ~blocked
  <2>1. /\ current' = m /\ steeredAhead' = 0 /\ ahead' = {} /\ stale' = FALSE
        /\ phase' = [phase EXCEPT ![m] = "early"]
        /\ home' = [home EXCEPT ![m] = s]
    BY <1>1, <1>5 DEF Launch, LaunchTurn
  <2> QED
    BY <1>2, <1>3, <2>1, StartsKeeps
<1> QED
  BY <1>4, <1>5

LEMMA RefuseKeeps ==
    ASSUME IInv, NEW m \in Msgs, NEW s \in Sessions, Type(m, s), Refuse(m)
    PROVE  IInv'
<1>1. fate' \in [Msgs -> Fates]
  BY DEF Refuse, IInv, TypeOK, Fates
<1> QED
  BY <1>1, NotTakenKeeps DEF Refuse

LEMMA SendMessageKeeps ==
    ASSUME IInv, NEW m \in Msgs, NEW s \in Sessions, SendMessage(m, s)
    PROVE  IInv'
<1>0. Type(m, s)
  BY DEF SendMessage
<1>1. CASE current = NoTurn /\ RunNow(m, s)
  BY <1>0, <1>1, RunNowKeeps
<1>2. CASE current # NoTurn /\ Refuse(m)
  BY <1>0, <1>2, RefuseKeeps
<1>3. CASE /\ current # NoTurn /\ Len(queue) < MaxQueued
           /\ queue' = Append(queue, m)
           /\ fate' = [fate EXCEPT ![m] = "parked"]
           /\ UNCHANGED <<current, steeredAhead, turnVars, ahead, stale>>
  BY <1>0, <1>3, BacklogKeeps
<1> QED
  BY <1>1, <1>2, <1>3 DEF SendMessage

LEMMA SteerMessageKeeps ==
    ASSUME IInv, NEW m \in Msgs, NEW s \in Sessions, SteerMessage(m, s)
    PROVE  IInv'
<1>0. Type(m, s)
  BY DEF SteerMessage
<1>1. CASE \E t \in Takers(s) :
            /\ inbox' = [inbox EXCEPT ![t] = Append(@, m)]
            /\ fate' = [fate EXCEPT ![m] = "steered"]
            /\ UNCHANGED <<current, queue, steeredAhead, phase, home, aborted, cancelled, ahead, stale>>
  BY <1>0, <1>1, TakenKeeps
<1>2. CASE /\ s \in foreign
           /\ fate' = [fate EXCEPT ![m] = "elsewhere"]
           /\ UNCHANGED <<current, queue, steeredAhead, turnVars, ahead, stale>>
  <2>1. fate' \in [Msgs -> Fates]
    BY <1>2 DEF IInv, TypeOK, Fates
  <2> QED
    BY <1>0, <1>2, <2>1, NotTakenKeeps
<1>3. CASE current # NoTurn /\ Refuse(m)
  BY <1>0, <1>3, RefuseKeeps
<1>4. CASE /\ current # NoTurn /\ Len(queue) < MaxQueued
           /\ QueueAsSteer(m)
           /\ fate' = [fate EXCEPT ![m] = "parked"]
           /\ ahead' = ahead \cup {m}
           /\ UNCHANGED <<current, turnVars, stale>>
  BY <1>0, <1>4, SteerParkedKeeps
<1>5. CASE current = NoTurn /\ RunNow(m, s)
  BY <1>0, <1>5, RunNowKeeps
<1> QED
  BY <1>1, <1>2, <1>3, <1>4, <1>5 DEF SteerMessage

-----------------------------------------------------------------------------

\* Emptying the queue leaves the inboxes as they are.
LEMMA EmptiedWaits ==
    ASSUME IInv, queue' = <<>>, UNCHANGED <<phase, home, inbox, aimed, typed>>
    PROVE  WaitInv'
<1>1. \A m \in Msgs : Running(m)' <=> Running(m)
  BY DEF Running
<1> QED
  BY <1>1, NoneIn, WaitingAreMsgs DEF IInv, WaitInv

LEMMA AbortKeeps ==
    ASSUME IInv, AbortCurrentTurn
    PROVE  IInv'
<1> USE DEF AbortCurrentTurn, envVars
<1>1. aborted' \subseteq Msgs /\ aborted \subseteq aborted' /\ (current # NoTurn => current \in aborted')
  BY FlatTypes DEF IInv
<1>2. TypeOK'
  <2>1. fate' \in [Msgs -> Fates]
    BY DEF IInv, TypeOK, Mark, Fates
  <2>2. queue' \in Seq(Msgs)
    OBVIOUS
  <2> QED
    BY <1>1, <2>1, <2>2 DEF IInv, TypeOK
<1>3. \A m \in Msgs : Running(m)' <=> Running(m)
  BY DEF Running
<1>4. ThreadInv'
  BY <1>1, <1>3, FlatTypes DEF IInv, ThreadInv, Running
<1>5. WatermarkInv'
  BY <1>1 DEF IInv, WatermarkInv
<1>6. ParkedBehindTurn'
  BY NoneIn DEF ParkedBehindTurn
<1> QED
  BY <1>2, <1>4, <1>5, <1>6, EmptiedWaits
  DEF IInv, DeletedStaysDeleted, GrantsEndWithTheVisit

LEMMA ClearKeeps ==
    ASSUME IInv, ClearQueue
    PROVE  IInv'
<1> USE DEF ClearQueue, envVars, turnVars
<1>2. TypeOK'
  <2>1. fate' \in [Msgs -> Fates]
    BY DEF IInv, TypeOK, Mark, Fates
  <2>2. queue' \in Seq(Msgs) /\ steeredAhead' \in 0..MaxTyped
    BY Constants
  <2> QED
    BY <2>1, <2>2, FlatTypes DEF IInv, TypeOK
<1>4. ThreadInv'
  BY DEF IInv, ThreadInv, Running
<1>5. WatermarkInv'
  BY NoneIn, FlatTypes DEF IInv, WatermarkInv
<1>6. ParkedBehindTurn'
  BY NoneIn DEF ParkedBehindTurn
<1> QED
  BY <1>2, <1>4, <1>5, <1>6, EmptiedWaits
  DEF IInv, DeletedStaysDeleted, GrantsEndWithTheVisit

\* Quitting aborts every turn, in view or not, so it may forget the handles.
LEMMA QuitKeeps ==
    ASSUME IInv, Quit
    PROVE  IInv'
<1> USE DEF Quit, envVars
<1>1. aborted' \subseteq Msgs
  BY FlatTypes DEF IInv
<1>2. \A t \in Msgs : Running(t) => t \in aborted' /\ (t = current => current \in aborted')
  <2>1. SUFFICES ASSUME NEW t \in Msgs, Running(t)
                 PROVE  t \in aborted'
    OBVIOUS
  <2>2. t # NoTurn /\ home[t] \in Sessions /\ t \in {current, detached[home[t]]}
    BY <2>1, Constants, FlatTypes DEF IInv, ThreadInv
  <2> QED
    BY <2>2
<1>3. current # NoTurn => current \in aborted'
  OBVIOUS
<1>4. TypeOK'
  <2>1. fate' \in [Msgs -> Fates]
    BY DEF IInv, TypeOK, Mark, Fates
  <2>2. queue' \in Seq(Msgs) /\ steeredAhead' \in 0..MaxTyped
    BY Constants
  <2>3. detached' \in [Sessions -> Msgs \cup {NoTurn}]
    OBVIOUS
  <2>4. quitting' \in BOOLEAN
    OBVIOUS
  <2> QED
    BY <1>1, <2>1, <2>2, <2>3, <2>4 DEF IInv, TypeOK
<1>5. \A m \in Msgs : Running(m)' <=> Running(m)
  BY DEF Running
<1>6. ThreadInv'
  BY <1>2, <1>5, FlatTypes DEF IInv, ThreadInv, Running
<1>7. WatermarkInv'
  BY <1>3, FlatTypes DEF IInv, WatermarkInv
<1>8. ParkedBehindTurn' /\ GrantsEndWithTheVisit'
  BY DEF ParkedBehindTurn, GrantsEndWithTheVisit
<1> QED
  BY <1>4, <1>6, <1>7, <1>8, EmptiedWaits DEF IInv, DeletedStaysDeleted

\* Leaving the thread: the handle in view goes to its thread, and the handle
\* kept for the thread that takes its place comes into view.
LEMMA LeaveKeeps ==
    ASSUME IInv, ~quitting, NEW s \in Sessions, NEW fresh \in BOOLEAN, LeaveFor(s, fresh),
           ~(current # NoTurn /\ session = s),
           s \in stored', stored' \subseteq Sessions,
           \A t \in Msgs : Running(t) => home[t] \in stored',
           foreign \subseteq stored',
           deleted' \subseteq Sessions, deleted' \cap stored' = {}
    PROVE  IInv'
<1> USE DEF LeaveFor, turnVars
<1>1. /\ current # NoTurn => session \in Sessions /\ current \in Msgs
      /\ \A x \in Sessions : detached[x] # NoTurn => detached[x] \in Msgs
      /\ session \in Sessions => detached[session] = NoTurn
      /\ \A t \in Msgs : t # NoTurn
  <2>1. current # NoTurn => current \in Msgs /\ home[current] = session /\ home[current] \in Sessions
    BY FlatTypes DEF IInv, ThreadInv
  <2> QED
    BY <2>1, Constants, FlatTypes DEF IInv, ThreadInv
<1>2. Park \in [Sessions -> Msgs \cup {NoTurn}]
      /\ \A x \in Sessions : Park[x] = IF current # NoTurn /\ x = session THEN current ELSE detached[x]
  BY <1>1 DEF Park, IInv, TypeOK
<1>3. /\ current' = detached[s]
      /\ \A x \in Sessions : detached'[x] =
            IF x = s THEN NoTurn ELSE IF current # NoTurn /\ x = session THEN current ELSE detached[x]
      /\ detached' \in [Sessions -> Msgs \cup {NoTurn}]
  BY <1>2
<1>4. \A m \in Msgs : Running(m)' <=> Running(m)
  BY DEF Running
<1>5. queue' = <<>> \/ (queue' = queue /\ current = NoTurn)
  BY DEF QueueAfterLeave
<1>6. steeredAhead' = 0 \/ steeredAhead' = steeredAhead
  OBVIOUS
<1>7. TypeOK'
  <2>1. fate' \in [Msgs -> Fates]
    BY DEF IInv, TypeOK, Mark, Fates
  <2>2. queue' \in Seq(Msgs)
    <3>1. queue \in Seq(Msgs) /\ <<>> \in Seq(Msgs)
      BY DEF IInv, TypeOK
    <3> QED
      BY <1>5, <3>1, Zenon
  <2>3. steeredAhead' \in 0..MaxTyped
    <3>1. steeredAhead \in 0..MaxTyped /\ 0 \in 0..MaxTyped
      BY Constants DEF IInv, TypeOK
    <3> QED
      BY <1>6, <3>1
  <2>4. current' \in Msgs \cup {NoTurn} /\ session' \in Sessions /\ grants' \subseteq Sessions
    BY <1>1, <1>3, FlatTypes DEF IInv
  <2>5. ahead' \subseteq Msgs /\ stale' \in BOOLEAN
    OBVIOUS
  <2>6. UNCHANGED <<quitting, phase, home, aborted, cancelled, inbox, foreign, typed, aimed, stranded>>
    OBVIOUS
  <2> HIDE DEF LeaveFor
  <2> QED
    BY <1>3, <2>1, <2>2, <2>3, <2>4, <2>5, <2>6 DEF IInv, TypeOK
<1>8. ThreadInv'
  <2>1. ASSUME NEW t \in Msgs, Running(t)
        PROVE  t \in {current', detached'[home[t]]}
    <3>1. home[t] \in Sessions /\ t \in {current, detached[home[t]]} /\ t # NoTurn
      BY <1>1, <2>1, FlatTypes DEF IInv, ThreadInv
    <3>2. CASE t = current
      <4>1. home[t] = session /\ session # s
        BY <1>1, <3>1, <3>2 DEF IInv, ThreadInv
      <4> QED
        BY <1>3, <3>1, <3>2, <4>1
    <3>3. CASE t = detached[home[t]]
      <4>1. home[t] # session
        BY <1>1, <3>1, <3>3
      <4> QED
        BY <1>3, <3>1, <3>3, <4>1
    <3> QED
      BY <3>1, <3>2, <3>3
  <2>2. current' # NoTurn => phase[current'] # "none" /\ home[current'] = s
    BY <1>3 DEF IInv, ThreadInv, Running
  <2>3. \A x \in Sessions : detached'[x] # NoTurn =>
            phase[detached'[x]] # "none" /\ home[detached'[x]] = x
    BY <1>3 DEF IInv, ThreadInv, Running
  <2>4. detached'[s] = NoTurn /\ ~quitting'
    BY <1>3
  <2> QED
    BY <1>4, <2>1, <2>2, <2>3, <2>4 DEF IInv, ThreadInv, Running
<1>9. GrantsEndWithTheVisit'
  BY <1>1, <1>3, FlatTypes DEF IInv, GrantsEndWithTheVisit
<1>10. WaitInv'
  <2>1. CASE queue' = <<>>
    <3>1. UNCHANGED <<phase, home, inbox, aimed, typed>>
      OBVIOUS
    <3> QED
      BY <2>1, <3>1, EmptiedWaits
  <2>2. CASE queue' = queue
    BY <1>4, <2>2, WaitingAreMsgs DEF IInv, WaitInv
  <2> QED
    BY <1>5, <2>1, <2>2
<1>11. WatermarkInv'
  <2>1. Len(queue') \in Nat /\ 0 <= typed
    BY <1>7, FlatTypes DEF IInv, TypeOK
  <2>2. steeredAhead' <= typed
    BY <1>6, <2>1 DEF IInv, WatermarkInv
  <2>3. ahead' = {} /\ typed' = typed /\ (stale' <=> current' # NoTurn /\ steeredAhead' # 0)
    OBVIOUS
  <2>4. current' # NoTurn /\ ~stale' => steeredAhead' = 0
    BY <2>3
  <2> QED
    BY <2>1, <2>2, <2>3, <2>4 DEF WatermarkInv
<1>12. ParkedBehindTurn'
  BY <1>5, NoneIn DEF IInv, ParkedBehindTurn
<1> QED
  BY <1>7, <1>8, <1>9, <1>10, <1>11, <1>12 DEF IInv, DeletedStaysDeleted

LEMMA NewSessionKeeps ==
    ASSUME IInv, NEW s \in Sessions, NewSession(s)
    PROVE  IInv'
<1>1. /\ ~quitting /\ s \notin stored /\ s \notin deleted
      /\ LeaveFor(s, TRUE) /\ stored' = stored \cup {s} /\ deleted' = deleted
  BY DEF NewSession, FreshIds
<1>2. /\ ~(current # NoTurn /\ session = s)
      /\ \A t \in Msgs : Running(t) => home[t] \in stored
      /\ foreign \subseteq stored
      /\ stored \subseteq Sessions /\ deleted \subseteq Sessions /\ deleted \cap stored = {}
  BY <1>1, FlatTypes DEF IInv, ThreadInv, DeletedStaysDeleted
<1> QED
  BY <1>1, <1>2, LeaveKeeps

LEMMA SwitchSessionKeeps ==
    ASSUME IInv, NEW s \in Sessions, SwitchSession(s)
    PROVE  IInv'
<1>1. /\ ~quitting /\ s \in stored /\ ~(current # NoTurn /\ session = s)
      /\ LeaveFor(s, FALSE) /\ stored' = stored /\ deleted' = deleted
  BY DEF SwitchSession
<1>2. /\ \A t \in Msgs : Running(t) => home[t] \in stored
      /\ foreign \subseteq stored
      /\ stored \subseteq Sessions /\ deleted \subseteq Sessions /\ deleted \cap stored = {}
  BY <1>1, FlatTypes DEF IInv, ThreadInv, DeletedStaysDeleted
<1> QED
  BY <1>1, <1>2, LeaveKeeps

\* The refusals of a deletion cover every turn on the thread: one in view, one
\* off screen, and one of another origin.
LEMMA DeleteSessionKeeps ==
    ASSUME IInv, NEW s \in Sessions, DeleteSession(s)
    PROVE  IInv'
<1>1. /\ ~quitting /\ s \in stored /\ MayDelete(s) /\ deleted' = deleted \cup {s}
  BY DEF DeleteSession
<1>2. \A t \in Msgs : Running(t) => home[t] \in stored /\ home[t] # s
  BY <1>1, Constants DEF IInv, ThreadInv, MayDelete
<1>3. /\ foreign \subseteq stored /\ s \notin foreign
      /\ stored \subseteq Sessions /\ deleted \subseteq Sessions /\ deleted \cap stored = {}
  BY <1>1, FlatTypes DEF IInv, ThreadInv, DeletedStaysDeleted, MayDelete, IsBusy
<1>4. CASE session = s
  <2>1. PICK new \in FreshIds \ {s} : LeaveFor(new, TRUE) /\ stored' = (stored \ {s}) \cup {new}
    BY <1>4 DEF DeleteSession
  <2>2. new \in Sessions /\ new \notin stored /\ new \notin deleted /\ new # s
    BY <2>1 DEF FreshIds
  <2>3. /\ ~(current # NoTurn /\ session = new)
        /\ new \in stored' /\ stored' \subseteq Sessions
        /\ \A t \in Msgs : Running(t) => home[t] \in stored'
        /\ foreign \subseteq stored'
        /\ deleted' \subseteq Sessions /\ deleted' \cap stored' = {}
    BY <1>1, <1>2, <1>3, <1>4, <2>1, <2>2
  <2> QED
    BY <1>1, <2>1, <2>2, <2>3, LeaveKeeps
<1>5. CASE session # s
  <2>1. /\ stored' = stored \ {s}
        /\ UNCHANGED <<uiVars, turnVars, foreign, typed, aimed, fate, ahead, stale, stranded>>
    BY <1>5 DEF DeleteSession
  <2> USE DEF uiVars, turnVars
  <2>2. TypeOK'
    BY <1>1, <1>3, <2>1 DEF IInv, TypeOK
  <2>3. \A m \in Msgs : Running(m)' <=> Running(m)
    BY <2>1 DEF Running
  <2>4. ThreadInv'
    BY <1>1, <1>2, <1>3, <1>5, <2>1, <2>3 DEF IInv, ThreadInv, Running
  <2>5. DeletedStaysDeleted'
    BY <1>1, <1>3, <2>1 DEF DeletedStaysDeleted
  <2>6. WaitInv'
    BY <2>1, <2>3, WaitingAreMsgs DEF IInv, WaitInv
  <2>7. WatermarkInv' /\ ParkedBehindTurn' /\ GrantsEndWithTheVisit'
    BY <2>1 DEF IInv, WatermarkInv, ParkedBehindTurn, GrantsEndWithTheVisit
  <2> QED
    BY <2>2, <2>4, <2>5, <2>6, <2>7 DEF IInv
<1> QED
  BY <1>4, <1>5

-----------------------------------------------------------------------------

\* The end of a turn: what all its cases share.
Ending(t, threw) ==
    /\ Running(t)
    /\ home[t] \in stored /\ home[t] \in Sessions /\ stored' = stored
    /\ inbox' \in [Msgs -> Seq(Msgs)]
    /\ \A u \in Msgs : inbox'[u] = IF u = t THEN <<>> ELSE inbox[u]
    /\ cancelled' \subseteq Msgs /\ aborted' = aborted \ {t}
    /\ detached' \in [Sessions -> Msgs \cup {NoTurn}]
    /\ \A s \in Sessions : detached'[s] = IF detached[s] = t THEN NoTurn ELSE detached[s]
    /\ grants' \subseteq grants
    /\ detached[home[t]] = t => home[t] \notin grants'
    /\ UNCHANGED <<session, quitting, foreign, deleted, typed, aimed>>

LEMMA EndFacts ==
    ASSUME IInv, NEW t \in Msgs, NEW threw \in BOOLEAN, TurnEnds(t, threw)
    PROVE  Ending(t, threw)
<1> USE DEF TurnEnds
<1>1. Running(t)
  BY DEF Running
<1>2. home[t] \in stored /\ home[t] \in Sessions
  BY <1>1, FlatTypes DEF IInv, ThreadInv
<1>3. stored' = stored
  BY <1>2
<1>4. inbox' \in [Msgs -> Seq(Msgs)] /\ \A u \in Msgs : inbox'[u] = IF u = t THEN <<>> ELSE inbox[u]
  <2>1. inbox \in [Msgs -> Seq(Msgs)] /\ <<>> \in Seq(Msgs) /\ inbox' = [inbox EXCEPT ![t] = <<>>]
    BY DEF IInv, TypeOK
  <2> HIDE DEF TurnEnds
  <2> QED
    BY <2>1
<1>5. detached' \in [Sessions -> Msgs \cup {NoTurn}]
  <2>1. /\ detached \in [Sessions -> Msgs \cup {NoTurn}]
        /\ detached' = [s \in Sessions |-> IF detached[s] = t THEN NoTurn ELSE detached[s]]
    BY DEF IInv, TypeOK
  <2> HIDE DEF TurnEnds
  <2> QED
    BY <2>1
<1>6. grants' \subseteq grants /\ (detached[home[t]] = t => home[t] \notin grants')
  BY DEF GrantsAfter
<1>7. cancelled' \subseteq Msgs
  BY FlatTypes DEF IInv
<1>8. /\ aborted' = aborted \ {t}
      /\ \A s \in Sessions : detached'[s] = IF detached[s] = t THEN NoTurn ELSE detached[s]
      /\ UNCHANGED <<session, quitting, foreign, deleted, typed, aimed>>
  OBVIOUS
<1> HIDE DEF TurnEnds
<1> QED
  BY <1>1, <1>2, <1>3, <1>4, <1>5, <1>6, <1>7, <1>8 DEF Ending

\* The backlog of the ended turn: messages that wait nowhere else.
LEMMA BacklogFacts ==
    ASSUME IInv, NEW t \in Msgs, NEW threw \in BOOLEAN, Running(t)
    PROVE  /\ Backlog(t, threw) \in Seq(Msgs) /\ Distinct(Backlog(t, threw))
           /\ Range(queue) \subseteq Range(Backlog(t, threw))
           /\ \A x \in Range(Backlog(t, threw)) :
                /\ x \in Msgs /\ x # t /\ x <= typed /\ ~Running(x)
                /\ \A u \in Msgs : u # t => x \notin Range(inbox[u])
                /\ x \in Range(queue) \/ aimed[x] = session
<1>1. /\ queue \in Seq(Msgs) /\ Distinct(queue)
      /\ inbox[t] \in Seq(Msgs) /\ Distinct(inbox[t])
  BY DEF IInv, TypeOK, WaitInv
<1>2. \A x \in Range(queue) :
        /\ x \in Msgs /\ x # t /\ x <= typed /\ ~Running(x)
        /\ \A u \in Msgs : x \notin Range(inbox[u])
  BY WaitingAreMsgs DEF IInv, WaitInv
<1>3. ASSUME Reroutes(t, threw)
      PROVE  /\ Range(inbox[t]) \cap Range(queue) = {}
             /\ \A x \in Range(inbox[t]) :
                    /\ x \in Msgs /\ x # t /\ x <= typed /\ ~Running(x)
                    /\ \A u \in Msgs : u # t => x \notin Range(inbox[u])
                    /\ aimed[x] = session
  <2>1. \A x \in Range(inbox[t]) :
            /\ x \in Msgs /\ x # t /\ x <= typed /\ ~Running(x) /\ x \notin Range(queue)
            /\ aimed[x] = home[t] /\ home[t] = session
    BY <1>3, WaitingAreMsgs DEF IInv, WaitInv, Reroutes
  <2>2. ASSUME NEW x \in Range(inbox[t]), NEW u \in Msgs, x \in Range(inbox[u])
        PROVE  u = t
    <3>1. aimed[x] = home[u] /\ Running(u)
      BY <2>2, NoneIn DEF IInv, WaitInv
    <3> QED
      BY <2>1, <2>2, <3>1 DEF IInv, ThreadInv
  <2> QED
    BY <2>1, <2>2
<1>4. CASE Reroutes(t, threw)
  <2>1. Backlog(t, threw) = inbox[t] \o queue
    BY <1>4 DEF Backlog
  <2>2. /\ inbox[t] \o queue \in Seq(Msgs) /\ Distinct(inbox[t] \o queue)
        /\ Range(inbox[t] \o queue) = Range(inbox[t]) \cup Range(queue)
    BY <1>1, <1>3, <1>4, ConcatAdds
  <2> QED
    BY <1>2, <1>3, <1>4, <2>1, <2>2
<1>5. CASE ~Reroutes(t, threw)
  <2>1. Backlog(t, threw) = queue
    BY <1>5 DEF Backlog
  <2> QED
    BY <1>1, <1>2, <2>1
<1> QED
  BY <1>4, <1>5

\* What the end does to the fates.
LEMMA SettledTypes ==
    ASSUME IInv, NEW t \in Msgs, NEW threw \in BOOLEAN
    PROVE  Settled(t, threw) \in [Msgs -> Fates]
  BY DEF IInv, TypeOK, Settled, Mark, Fates

\* The threads once the turn is gone and no other takes its place.
LEMMA EndedThreads ==
    ASSUME IInv, NEW t \in Msgs, NEW threw \in BOOLEAN, Ending(t, threw),
           current' = (IF current = t THEN NoTurn ELSE current),
           phase' = [phase EXCEPT ![t] = "none"], home' = home
    PROVE  ThreadInv' /\ GrantsEndWithTheVisit'
<1> USE DEF Ending
<1>1. \A u \in Msgs : Running(u)' <=> Running(u) /\ u # t
  BY DEF Running, IInv, TypeOK
<1>2. ThreadInv'
  <2>1. \A u \in Msgs : Running(u)' => u <= typed /\ home[u] \in stored
    BY <1>1 DEF IInv, ThreadInv
  <2>2. ~quitting => \A u \in Msgs : Running(u)' => u \in {current', detached'[home[u]]}
    <3>1. SUFFICES ASSUME ~quitting, NEW u \in Msgs, Running(u), u # t
                   PROVE  u \in {current', detached'[home[u]]}
      BY <1>1
    <3>2. home[u] \in Sessions /\ u \in {current, detached[home[u]]}
      BY <3>1, FlatTypes DEF IInv, ThreadInv
    <3> QED
      BY <3>1, <3>2
  <2>3. quitting => /\ \A u \in Msgs : Running(u)' => u \in aborted'
                    /\ \A s \in Sessions : detached'[s] = NoTurn
    BY <1>1 DEF IInv, ThreadInv
  <2>4. current' # NoTurn => Running(current)' /\ home[current'] = session
    <3>1. ASSUME current' # NoTurn
          PROVE  /\ current' = current /\ current # t /\ current \in Msgs
                 /\ Running(current) /\ home[current] = session
      BY <3>1, FlatTypes DEF IInv, ThreadInv
    <3> QED
      BY <1>1, <3>1 DEF Running, IInv, TypeOK
  <2>5. ASSUME NEW s \in Sessions, detached'[s] # NoTurn
        PROVE  phase'[detached'[s]] # "none" /\ home[detached'[s]] = s
    <3>1. /\ detached'[s] = detached[s] /\ detached[s] # t /\ detached[s] \in Msgs
          /\ Running(detached[s]) /\ home[detached[s]] = s
      BY <2>5, FlatTypes DEF IInv, ThreadInv
    <3> QED
      BY <1>1, <3>1 DEF Running, IInv, TypeOK
  <2>6. \A u, v \in Msgs : Running(u)' /\ Running(v)' /\ home[u] = home[v] => u = v
    BY <1>1 DEF IInv, ThreadInv
  <2>7. session # NoSession => session \in stored /\ detached'[session] = NoTurn
    BY FlatTypes DEF IInv, ThreadInv
  <2>8. foreign \subseteq stored
    BY DEF IInv, ThreadInv
  <2> QED
    BY <2>1, <2>2, <2>3, <2>4, <2>5, <2>6, <2>7, <2>8 DEF ThreadInv, Running
<1>3. GrantsEndWithTheVisit'
  <2>1. SUFFICES ASSUME ~quitting, NEW s \in grants', s # session
                 PROVE  detached'[s] # NoTurn
    BY DEF GrantsEndWithTheVisit
  <2>2. s \in Sessions /\ detached[s] # NoTurn
    BY <2>1, FlatTypes DEF IInv, GrantsEndWithTheVisit
  <2>3. detached[s] # t
    BY <2>1, <2>2 DEF IInv, ThreadInv
  <2> QED
    BY <2>2, <2>3
<1> QED
  BY <1>2, <1>3

\* Whatever is left of the backlog waits where it did.
LEMMA EndedWaits ==
    ASSUME IInv, NEW t \in Msgs, NEW threw \in BOOLEAN, Ending(t, threw),
           queue' \in Seq(Msgs), Distinct(queue'),
           Range(queue') \subseteq Range(Backlog(t, threw)),
           phase' = [phase EXCEPT ![t] = "none"], home' = home
    PROVE  WaitInv'
<1> USE DEF Ending
<1>1. \A u \in Msgs : Running(u)' <=> Running(u) /\ u # t
  BY DEF Running, IInv, TypeOK
<1>2. \A x \in Range(queue') :
        /\ x \in Msgs /\ x <= typed /\ ~Running(x)
        /\ \A u \in Msgs : u # t => x \notin Range(inbox[u])
  BY BacklogFacts
<1>3. ASSUME NEW u \in Msgs
      PROVE  /\ ~Running(u)' => inbox'[u] = <<>>
             /\ Distinct(inbox'[u])
             /\ \A x \in Range(inbox'[u]) :
                    x <= typed' /\ ~Running(x)' /\ x \notin Range(queue') /\ aimed'[x] = home'[u]
  <2>1. CASE u = t
    BY <2>1, NoneIn
  <2>2. CASE u # t
    BY <1>1, <1>2, <2>2, WaitingAreMsgs DEF IInv, WaitInv
  <2> QED
    BY <2>1, <2>2
<1> QED
  BY <1>1, <1>2, <1>3 DEF WaitInv

LEMMA TurnEndsKeeps ==
    ASSUME IInv, NEW t \in Msgs, NEW threw \in BOOLEAN, TurnEnds(t, threw)
    PROVE  IInv'
<1> DEFINE rest == Backlog(t, threw)
           settled == Settled(t, threw)
           ended == [phase EXCEPT ![t] = "none"]
<1>e. Ending(t, threw)
  BY EndFacts
<1>r. /\ rest \in Seq(Msgs) /\ Distinct(rest)
      /\ Range(queue) \subseteq Range(rest)
      /\ \A x \in Range(rest) :
            /\ x \in Msgs /\ x # t /\ x <= typed /\ ~Running(x)
            /\ \A u \in Msgs : u # t => x \notin Range(inbox[u])
            /\ x \in Range(queue) \/ aimed[x] = session
  BY <1>e, BacklogFacts DEF Ending
<1>q. queue \in Seq(Msgs) /\ Distinct(queue)
  BY DEF IInv, TypeOK, WaitInv
<1>s. settled \in [Msgs -> Fates]
  BY SettledTypes
<1>p. ended \in [Msgs -> {"none", "early", "open", "closed"}]
  BY DEF IInv, TypeOK
<1>d. DeletedStaysDeleted'
  BY <1>e DEF Ending, IInv, DeletedStaysDeleted
<1>m. \A x \in Msgs : x # NoTurn
  BY Constants
<1>c. home[t] = session => detached[home[t]] = NoTurn
  BY <1>e, Constants DEF Ending, IInv, ThreadInv
<1>v. ~quitting /\ home[t] = session => current = t
  BY <1>e, <1>c, <1>m DEF Ending, IInv, ThreadInv
<1>w. current = t => home[t] = session
  BY <1>m DEF IInv, ThreadInv
<1>1. TurnEnds(t, threw)
  OBVIOUS
<1>t. ASSUME current' \in Msgs \cup {NoTurn}, queue' \in Seq(Msgs), steeredAhead' \in 0..MaxTyped,
             ahead' \subseteq Msgs, stale' \in BOOLEAN, stranded' \in BOOLEAN,
             phase' \in [Msgs -> {"none", "early", "open", "closed"}],
             home' \in [Msgs -> Sessions \cup {NoSession}],
             fate' \in [Msgs -> Fates]
      PROVE  TypeOK'
  <2>1. /\ inbox' \in [Msgs -> Seq(Msgs)] /\ cancelled' \subseteq Msgs /\ aborted' \subseteq Msgs
        /\ detached' \in [Sessions -> Msgs \cup {NoTurn}] /\ grants' \subseteq Sessions
        /\ UNCHANGED <<session, quitting, stored, foreign, deleted, typed, aimed>>
    BY <1>e, FlatTypes DEF Ending, IInv
  <2> QED
    BY <1>t, <2>1 DEF IInv, TypeOK
<1> HIDE DEF rest, settled, ended
<1>2. CASE /\ home[t] # session
           /\ fate' = settled /\ phase' = ended
           /\ UNCHANGED <<current, queue, steeredAhead, home, ahead, stale, stranded>>
  <2>1. current # t /\ current' = (IF current = t THEN NoTurn ELSE current)
    BY <1>2, <1>w
  <2>2. phase' = [phase EXCEPT ![t] = "none"]
    BY <1>2 DEF ended
  <2>3. TypeOK'
    <3>1. /\ current \in Msgs \cup {NoTurn} /\ steeredAhead \in 0..MaxTyped /\ ahead \subseteq Msgs
          /\ stale \in BOOLEAN /\ stranded \in BOOLEAN
          /\ home \in [Msgs -> Sessions \cup {NoSession}]
      BY FlatTypes DEF IInv, TypeOK
    <3> QED
      BY <3>1, <1>2, <1>q, <1>s, <1>p, <1>t
  <2>4. ThreadInv' /\ GrantsEndWithTheVisit'
    BY <1>e, <1>2, <2>1, <2>2, EndedThreads
  <2>5. WaitInv'
    BY <1>e, <1>2, <1>q, <1>r, <2>2, EndedWaits DEF rest
  <2>6. WatermarkInv'
    BY <1>e, <1>2, <2>1 DEF Ending, IInv, WatermarkInv
  <2>7. ParkedBehindTurn'
    BY <1>e, <1>2 DEF Ending, IInv, ParkedBehindTurn
  <2> QED
    BY <1>d, <2>3, <2>4, <2>5, <2>6, <2>7 DEF IInv
<1>3. CASE /\ home[t] = session /\ (rest = <<>> \/ quitting)
           /\ current' = IF current = t THEN NoTurn ELSE current
           /\ queue' = IF rest = <<>> THEN <<>> ELSE Tail(rest)
           /\ fate' = IF rest = <<>> THEN settled ELSE Mark(settled, {Head(rest)}, "silent")
           /\ phase' = ended
           /\ UNCHANGED <<steeredAhead, home, ahead, stale, stranded>>
  <2>1. /\ queue' \in Seq(Msgs) /\ Distinct(queue') /\ Range(queue') \subseteq Range(rest)
    <3>1. CASE rest = <<>>
      BY <1>3, <3>1, <1>r, NoneIn
    <3>2. CASE rest # <<>>
      BY <1>3, <3>2, <1>r, TailDrops
    <3> QED
      BY <3>1, <3>2
  <2>2. phase' = [phase EXCEPT ![t] = "none"]
    BY <1>3 DEF ended
  <2>3. TypeOK'
    <3>1. /\ current' \in Msgs \cup {NoTurn} /\ steeredAhead \in 0..MaxTyped /\ ahead \subseteq Msgs
          /\ stale \in BOOLEAN /\ stranded \in BOOLEAN
          /\ home \in [Msgs -> Sessions \cup {NoSession}]
      BY <1>3, FlatTypes DEF IInv, TypeOK
    <3>2. fate' \in [Msgs -> Fates]
      BY <1>3, <1>s DEF Mark, Fates
    <3> QED
      BY <3>1, <3>2, <1>3, <1>p, <2>1, <1>t
  <2>4. ThreadInv' /\ GrantsEndWithTheVisit'
    BY <1>e, <1>3, <2>2, EndedThreads
  <2>5. WaitInv'
    BY <1>e, <1>3, <2>1, <2>2, EndedWaits DEF rest
  <2>6. WatermarkInv'
    <3>1. CASE current = t
      BY <3>1, <1>3, <1>e DEF Ending, IInv, WatermarkInv
    <3>2. CASE current # t /\ quitting
      BY <3>2, <1>3, <1>e, <1>m, FlatTypes DEF Ending, IInv, WatermarkInv, ThreadInv
    <3> QED
      BY <3>1, <3>2, <1>3, <1>v
  <2>7. ParkedBehindTurn'
    BY <1>e, <1>3, NoneIn DEF Ending, ParkedBehindTurn
  <2> QED
    BY <1>d, <2>3, <2>4, <2>5, <2>6, <2>7 DEF IInv
<1>4. CASE /\ home[t] = session /\ rest # <<>> /\ ~quitting
           /\ queue' = Tail(rest)
           /\ \E blocked \in BOOLEAN :
                /\ Launch(Head(rest), blocked, settled)
                /\ LaunchTurn(Head(rest), session, blocked, ended)
                /\ stranded' = (stranded \/ (blocked /\ Tail(rest) # <<>>))
  <2> DEFINE m == Head(rest)
  <2>1. /\ queue' \in Seq(Msgs) /\ Distinct(queue') /\ Range(queue') \subseteq Range(rest)
        /\ m \in Range(rest) /\ m \notin Range(queue')
    BY <1>4, <1>r, TailDrops
  <2>2. current = t
    BY <1>4, <1>v
  <2>3. m \in Msgs /\ m # t /\ m <= typed /\ ~Running(m)
    BY <1>r, <2>1
  <2>4. PICK blocked \in BOOLEAN :
            /\ Launch(m, blocked, settled)
            /\ LaunchTurn(m, session, blocked, ended)
            /\ stranded' = (stranded \/ (blocked /\ Tail(rest) # <<>>))
    BY <1>4
  <2>o. /\ steeredAhead \in 0..MaxTyped /\ 0 \in 0..MaxTyped /\ ahead \subseteq Msgs
        /\ stale \in BOOLEAN /\ stranded \in BOOLEAN
        /\ home \in [Msgs -> Sessions \cup {NoSession}]
    BY FlatTypes, Constants DEF IInv, TypeOK
  <2> HIDE DEF m
  <2>5. CASE blocked
    <3>1. /\ current' = NoTurn /\ fate' = Mark(settled, {m}, "told")
          /\ UNCHANGED <<steeredAhead, ahead, stale>>
          /\ phase' = ended /\ home' = home
          /\ stranded' = (stranded \/ Tail(rest) # <<>>)
      BY <2>4, <2>5 DEF Launch, LaunchTurn
    <3>2. phase' = [phase EXCEPT ![t] = "none"]
      BY <3>1 DEF ended
    <3>3. TypeOK'
      <4>1. fate' \in [Msgs -> Fates]
        BY <3>1, <1>s DEF Mark, Fates
      <4>2. stranded' \in BOOLEAN
        BY <3>1, <2>o
      <4> QED
        BY <4>1, <4>2, <3>1, <2>1, <2>o, <1>p, <1>t
    <3>4. ThreadInv' /\ GrantsEndWithTheVisit'
      BY <1>e, <2>2, <3>1, <3>2, EndedThreads
    <3>5. WaitInv'
      BY <1>e, <2>1, <3>1, <3>2, EndedWaits DEF rest
    <3>6. WatermarkInv'
      BY <1>e, <3>1 DEF Ending, IInv, WatermarkInv
    <3>7. ParkedBehindTurn'
      BY <1>4, <3>1, NoneIn DEF ParkedBehindTurn
    <3> QED
      BY <1>d, <3>3, <3>4, <3>5, <3>6, <3>7 DEF IInv
  <2>6. CASE ~blocked
    <3>1. /\ current' = m /\ steeredAhead' = 0 /\ ahead' = {} /\ stale' = FALSE
          /\ fate' = Mark(settled, {m}, "running")
          /\ phase' = [ended EXCEPT ![m] = "early"]
          /\ home' = [home EXCEPT ![m] = session]
          /\ (stranded' <=> stranded)
      BY <2>4, <2>6 DEF Launch, LaunchTurn
    <3>2. session \in Sessions /\ session \in stored
      BY <1>e, <1>4 DEF Ending
    <3>3. /\ \A u \in Msgs : Running(u)' <=> u = m \/ (Running(u) /\ u # t)
          /\ \A u \in Msgs : home'[u] = IF u = m THEN session ELSE home[u]
      <4>1. \A u \in Msgs : phase'[u] = IF u = m THEN "early" ELSE IF u = t THEN "none" ELSE phase[u]
        <5>1. \A u \in Msgs : ended[u] = IF u = t THEN "none" ELSE phase[u]
          BY DEF ended, IInv, TypeOK
        <5> QED
          BY <3>1, <5>1, <1>p
      <4> QED
        BY <4>1, <3>1, <2>o DEF Running
    <3>4. TypeOK'
      <4>1. fate' \in [Msgs -> Fates]
        BY <3>1, <1>s DEF Mark, Fates
      <4>2. phase' \in [Msgs -> {"none", "early", "open", "closed"}]
        BY <3>1, <1>p
      <4>3. home' \in [Msgs -> Sessions \cup {NoSession}]
        BY <3>1, <3>2, <2>o
      <4>4. stranded' \in BOOLEAN
        BY <1>4, <2>o
      <4> QED
        BY <4>1, <4>2, <4>3, <4>4, <3>1, <2>1, <2>3, <2>o, <1>t
    <3>5. ThreadInv'
      <4>1. \A u \in Msgs : Running(u)' => u <= typed /\ home'[u] \in stored
        BY <2>3, <3>2, <3>3 DEF IInv, ThreadInv
      <4>2. ASSUME NEW u \in Msgs, Running(u)'
            PROVE  u \in {current', detached'[home'[u]]}
        <5>1. CASE u = m
          BY <3>1, <5>1
        <5>2. CASE u # m
          <6>1. /\ Running(u) /\ u # t /\ home[u] \in Sessions /\ home'[u] = home[u]
                /\ u \in {current, detached[home[u]]}
            BY <3>3, <4>2, <5>2, <1>4, FlatTypes DEF IInv, ThreadInv
          <6> QED
            BY <6>1, <2>2, <1>e DEF Ending
        <5> QED
          BY <5>1, <5>2
      <4>3. Running(current)' /\ home'[current'] = session'
        BY <3>1, <3>3, <2>3, <1>e DEF Ending, Running
      <4>4. ASSUME NEW s \in Sessions, detached'[s] # NoTurn
            PROVE  phase'[detached'[s]] # "none" /\ home'[detached'[s]] = s
        <5>1. /\ detached'[s] = detached[s] /\ detached[s] # t /\ detached[s] \in Msgs
              /\ Running(detached[s]) /\ home[detached[s]] = s
          BY <4>4, <1>e, FlatTypes DEF Ending, IInv, ThreadInv
        <5> QED
          BY <5>1, <3>3, <2>3 DEF Running
      <4>5. \A u, v \in Msgs : Running(u)' /\ Running(v)' /\ home'[u] = home'[v] => u = v
        <5>1. \A u \in Msgs : Running(u) /\ home[u] = session => u = t
          BY <1>4, <1>e DEF Ending, IInv, ThreadInv
        <5> QED
          BY <3>3, <5>1 DEF IInv, ThreadInv
      <4>6. session' \in stored' /\ detached'[session'] = NoTurn /\ foreign' \subseteq stored'
        BY <3>2, <1>e, <1>c, <1>4, <1>m DEF Ending, IInv, ThreadInv
      <4> QED
        BY <4>1, <4>2, <4>3, <4>4, <4>5, <4>6, <1>e, <1>4 DEF ThreadInv, Ending, Running
    <3>6. GrantsEndWithTheVisit'
      <4>1. SUFFICES ASSUME NEW s \in grants', s # session
                     PROVE  detached'[s] # NoTurn
        BY <1>e DEF GrantsEndWithTheVisit, Ending
      <4>2. s \in Sessions /\ detached[s] # NoTurn
        BY <4>1, <1>4, <1>e, FlatTypes DEF Ending, IInv, GrantsEndWithTheVisit
      <4>3. detached[s] # t
        BY <4>1, <4>2, <1>4 DEF IInv, ThreadInv
      <4> QED
        BY <4>2, <4>3, <1>e DEF Ending
    <3>7. WaitInv'
      <4>1. Distinct(queue') /\ \A x \in Range(queue') : x <= typed' /\ ~Running(x)'
        BY <1>r, <1>e, <2>1, <3>3 DEF Ending
      <4>2. ASSUME NEW u \in Msgs
            PROVE  /\ ~Running(u)' => inbox'[u] = <<>>
                   /\ Distinct(inbox'[u])
                   /\ \A x \in Range(inbox'[u]) :
                        x <= typed' /\ ~Running(x)' /\ x \notin Range(queue') /\ aimed'[x] = home'[u]
        <5>1. CASE u = t
          BY <5>1, <1>e, NoneIn DEF Ending
        <5>2. CASE u # t
          <6>1. inbox'[u] = inbox[u] /\ (u = m => inbox[u] = <<>>) /\ m \notin Range(inbox[u])
            BY <5>2, <1>e, <1>r, <2>1, <2>3 DEF Ending, IInv, WaitInv
          <6>2. \A x \in Range(inbox[u]) :
                  /\ x \in Msgs /\ x # m /\ x <= typed /\ ~Running(x) /\ aimed[x] = home[u]
                  /\ x \notin Range(queue')
            BY <5>2, <6>1, <1>r, <2>1, WaitingAreMsgs DEF IInv, WaitInv
          <6>3. (~Running(u) => inbox[u] = <<>>) /\ Distinct(inbox[u])
            BY DEF IInv, WaitInv
          <6> QED
            BY <5>2, <6>1, <6>2, <6>3, <3>3, <1>e, NoneIn DEF Ending
        <5> QED
          BY <5>1, <5>2
      <4> QED
        BY <4>1, <4>2 DEF WaitInv
    <3>8. WatermarkInv'
      <4>1. Len(queue') \in Nat /\ typed' \in Nat
        BY <2>1, <1>e, FlatTypes DEF Ending, IInv
      <4> QED
        BY <4>1, <3>1 DEF WatermarkInv
    <3>9. ParkedBehindTurn'
      <4>1. SUFFICES ASSUME ~stranded, NEW x \in Range(queue')
                     PROVE  aimed[x] = session
        BY <3>1, <2>3, <1>m, <1>e DEF ParkedBehindTurn, Ending
      <4> QED
        BY <4>1, <1>4, <1>r, <2>1 DEF IInv, ParkedBehindTurn
    <3> QED
      BY <1>d, <3>4, <3>5, <3>6, <3>7, <3>8, <3>9 DEF IInv
  <2> QED
    BY <2>5, <2>6
<1> QED
  BY <1>1, <1>2, <1>3, <1>4 DEF TurnEnds, rest, settled, ended

LEMMA NextKeeps == IInv /\ [Next]_vars => IInv'
<1> SUFFICES ASSUME IInv, [Next]_vars
             PROVE  IInv'
  OBVIOUS
<1>1. ASSUME NEW m \in Msgs, NEW s \in Sessions, SendMessage(m, s) \/ SteerMessage(m, s)
      PROVE  IInv'
  BY <1>1, SendMessageKeeps, SteerMessageKeeps
<1>2. CASE AbortCurrentTurn \/ ClearQueue \/ Quit \/ Grant
  BY <1>2, AbortKeeps, ClearKeeps, QuitKeeps, GrantKeeps
<1>3. ASSUME NEW s \in Sessions,
             NewSession(s) \/ SwitchSession(s) \/ DeleteSession(s) \/ ForeignStarts(s) \/ ForeignEnds(s)
      PROVE  IInv'
  BY <1>3, NewSessionKeeps, SwitchSessionKeeps, DeleteSessionKeeps, ForeignKeeps
<1>4. ASSUME NEW t \in Msgs, TurnOpens(t) \/ TurnReads(t) \/ TurnCloses(t)
      PROVE  IInv'
  BY <1>4, TurnOpensKeeps, TurnReadsKeeps, TurnClosesKeeps
<1>5. ASSUME NEW t \in Msgs, NEW threw \in BOOLEAN, TurnEnds(t, threw)
      PROVE  IInv'
  BY <1>5, TurnEndsKeeps
<1>6. CASE UNCHANGED vars
  BY <1>6, StutterKeeps
<1> QED
  BY <1>1, <1>2, <1>3, <1>4, <1>5, <1>6 DEF Next

\* The inductive invariant holds in every reachable state.
THEOREM Invariance == Spec => []IInv
<1>1. Init => IInv
  BY InitHolds
<1>2. IInv /\ [Next]_vars => IInv'
  BY NextKeeps
<1> QED
  BY <1>1, <1>2, PTL DEF Spec

\* Every variable of the chat keeps its type.
THEOREM TypeCorrect == Spec => []TypeOK
<1>1. IInv => TypeOK
  BY DEF IInv
<1> QED
  BY <1>1, Invariance, PTL

\* Every turn this terminal started keeps one handle, in view or under its
\* thread, until it ends or is aborted: park, take, release and abortAll of
\* DetachedTurns, around leaveCurrentSession and runOneTurn.
THEOREM HandlesKept == Spec => []EveryTurnHasItsHandle
<1>1. IInv => EveryTurnHasItsHandle
  <2> SUFFICES ASSUME IInv PROVE EveryTurnHasItsHandle
    OBVIOUS
  <2>1. ASSUME NEW t \in Msgs, Running(t), t \notin aborted
        PROVE  t \in {current, detached[home[t]]}
    BY <2>1 DEF IInv, ThreadInv
  <2> QED
    BY <2>1 DEF IInv, ThreadInv, EveryTurnHasItsHandle
<1> QED
  BY <1>1, Invariance, PTL

\* Unless the model gate has stranded them, parked messages wait behind a turn
\* of the thread they were typed for: what leaveCurrentSession drops and
\* runOneTurn drains.
THEOREM ParkedWait == Spec => []ParkedBehindTurn
<1>1. IInv => ParkedBehindTurn
  BY DEF IInv
<1> QED
  BY <1>1, Invariance, PTL

\* Re-routed steers of the turn in view stand in front of the backlog in typing
\* order: the watermark of queueAsSteer, where it is not stale.
THEOREM SteersInFront == Spec => []SteersRunNext
<1>1. IInv => SteersRunNext
  <2> SUFFICES ASSUME IInv, current # NoTurn, current \notin aborted, ~stale,
                      NEW i \in DOMAIN queue, NEW j \in DOMAIN queue,
                      i < j, queue[j] \in ahead
               PROVE  queue[i] \in ahead /\ queue[i] < queue[j]
    BY DEF SteersRunNext, SteersFirst
  <2>1. /\ i \in 1..Len(queue) /\ j \in 1..Len(queue) /\ Len(queue) \in Nat
        /\ steeredAhead \in Nat
    BY FlatTypes DEF IInv, TypeOK
  <2>2. /\ \A n \in 1..Len(queue) : queue[n] \in ahead <=> n <= steeredAhead
        /\ \A n, k \in 1..steeredAhead : n < k => queue[n] < queue[k]
    BY DEF IInv, WatermarkInv
  <2>3. j <= steeredAhead
    BY <2>1, <2>2
  <2>4. i \in 1..steeredAhead /\ j \in 1..steeredAhead /\ i <= steeredAhead
    BY <2>1, <2>3
  <2> QED
    BY <2>1, <2>2, <2>4
<1> QED
  BY <1>1, Invariance, PTL

\* Approval grants for a session end when the operator leaves it, or with the
\* turn left running there: clearSessionGrants in leaveCurrentSession and at the
\* end of runOneTurn.
THEOREM GrantsEnd == Spec => []GrantsEndWithTheVisit
<1>1. IInv => GrantsEndWithTheVisit
  BY DEF IInv
<1> QED
  BY <1>1, Invariance, PTL

\* No turn saves a deleted thread again: the refusals of deleteSession.
THEOREM DeletedStay == Spec => []DeletedStaysDeleted
<1>1. IInv => DeletedStaysDeleted
  BY DEF IInv
<1> QED
  BY <1>1, Invariance, PTL

-----------------------------------------------------------------------------
(* Messages are where their fates say.                                     *)

Steered(m) == \E t \in Msgs : m \in Range(inbox[t])
Placed == \A m \in Msgs : InItsPlace(m)

\* The fates a message has while it waits or runs; the others are ends.
UnderWay == {"untyped", "parked", "steered", "running"}

\* Two inboxes share no message: they belong to turns of two threads.
LEMMA OneInbox ==
    ASSUME IInv, NEW t \in Msgs, NEW u \in Msgs, NEW x \in Range(inbox[t]), x \in Range(inbox[u])
    PROVE  t = u
<1>1. Running(t) /\ Running(u)
  BY NoneIn DEF IInv, WaitInv
<1>2. aimed[x] = home[t] /\ aimed[x] = home[u]
  BY DEF IInv, WaitInv
<1> QED
  BY <1>1, <1>2 DEF IInv, ThreadInv

\* Nothing moves.
LEMMA SamePlaces ==
    ASSUME Placed, UNCHANGED <<fate, queue, inbox, typed>>, \A x \in Msgs : Running(x)' <=> Running(x)
    PROVE  Placed'
BY DEF Placed, InItsPlace

\* A message is typed and put somewhere.
LEMMA TypedPlaced ==
    ASSUME IInv, Placed, NEW m \in Msgs, NEW s \in Sessions, Typing(m, s),
           NEW what \in Fates \ {"untyped"},
           \A x \in Msgs : fate'[x] = IF x = m THEN what ELSE fate[x],
           \A x \in Msgs : x \in Range(queue') <=> x \in Range(queue) \/ (x = m /\ what = "parked"),
           \A x \in Msgs : Steered(x)' <=> Steered(x) \/ (x = m /\ what = "steered"),
           \A x \in Msgs : Running(x)' <=> Running(x) \/ (x = m /\ what = "running")
    PROVE  Placed'
<1>1. /\ typed' = m /\ m = typed + 1 /\ typed \in Nat
      /\ ~Running(m) /\ m \notin Range(queue) /\ ~Steered(m)
  BY DEF Typing, Steered
<1>2. \A x \in Msgs : x > typed' <=> x > typed /\ x # m
  BY <1>1, Constants
<1> SUFFICES ASSUME NEW x \in Msgs PROVE InItsPlace(x)'
  BY DEF Placed
<1>3. InItsPlace(x)
  BY DEF Placed
<1>4. CASE x = m
  BY <1>1, <1>2, <1>4 DEF InItsPlace, Steered
<1>5. CASE x # m
  BY <1>2, <1>3, <1>5 DEF InItsPlace, Steered
<1> QED
  BY <1>4, <1>5

LEMMA TypePlaced ==
    ASSUME IInv, Placed, NEW m \in Msgs, NEW s \in Sessions, SendMessage(m, s) \/ SteerMessage(m, s)
    PROVE  Placed'
<1>1. Typing(m, s)
  BY TypeFacts DEF SendMessage, SteerMessage
<1>2. queue \in Seq(Msgs) /\ inbox \in [Msgs -> Seq(Msgs)] /\ fate \in [Msgs -> Fates]
      /\ phase \in [Msgs -> {"none", "early", "open", "closed"}]
  BY DEF IInv, TypeOK
<1>3. {"told", "parked", "steered", "running", "elsewhere"} \subseteq Fates \ {"untyped"}
  BY DEF Fates
<1>4. phase' = phase => \A x \in Msgs : Running(x)' <=> Running(x)
  BY DEF Running
<1>5. inbox' = inbox => \A x \in Msgs : Steered(x)' <=> Steered(x)
  BY DEF Steered
<1>6. CASE RunNow(m, s)
  <2>1. PICK blocked \in BOOLEAN : Launch(m, blocked, fate) /\ LaunchTurn(m, s, blocked, phase)
    BY <1>6 DEF RunNow
  <2>2. UNCHANGED <<queue, inbox>>
    BY <1>6 DEF RunNow
  <2>3. CASE blocked
    <3>1. phase' = phase /\ \A x \in Msgs : fate'[x] = IF x = m THEN "told" ELSE fate[x]
      BY <2>1, <2>3 DEF Launch, LaunchTurn, Mark
    <3> QED
      BY <1>1, <1>3, <1>4, <1>5, <2>2, <3>1, TypedPlaced
  <2>4. CASE ~blocked
    <3>1. \A x \in Msgs : fate'[x] = IF x = m THEN "running" ELSE fate[x]
      BY <2>1, <2>4 DEF Launch, Mark
    <3>2. \A x \in Msgs : Running(x)' <=> Running(x) \/ x = m
      BY <1>2, <2>1, <2>4 DEF LaunchTurn, Running
    <3> QED
      BY <1>1, <1>3, <1>5, <2>2, <3>1, <3>2, TypedPlaced
  <2> QED
    BY <2>3, <2>4
<1>7. ASSUME NEW what \in {"told", "elsewhere"}, fate' = [fate EXCEPT ![m] = what],
             UNCHANGED <<queue, inbox, phase>>
      PROVE  Placed'
  <2>1. \A x \in Msgs : fate'[x] = IF x = m THEN what ELSE fate[x]
    BY <1>2, <1>7
  <2>2. what \in Fates \ {"untyped"} /\ what \notin UnderWay
    BY <1>3 DEF UnderWay
  <2> QED
    BY <1>1, <1>4, <1>5, <1>7, <2>1, <2>2, TypedPlaced DEF UnderWay
<1>8. ASSUME fate' = [fate EXCEPT ![m] = "parked"], Range(queue') = Range(queue) \cup {m},
             UNCHANGED <<inbox, phase>>
      PROVE  Placed'
  <2>1. \A x \in Msgs : fate'[x] = IF x = m THEN "parked" ELSE fate[x]
    BY <1>2, <1>8
  <2>2. \A x \in Msgs : x \in Range(queue') <=> x \in Range(queue) \/ x = m
    BY <1>8
  <2> QED
    BY <1>1, <1>3, <1>4, <1>5, <1>8, <2>1, <2>2, TypedPlaced
<1>9. ASSUME NEW t \in Msgs, fate' = [fate EXCEPT ![m] = "steered"],
             inbox' = [inbox EXCEPT ![t] = Append(@, m)], UNCHANGED <<queue, phase>>
      PROVE  Placed'
  <2>1. \A x \in Msgs : fate'[x] = IF x = m THEN "steered" ELSE fate[x]
    BY <1>2, <1>9
  <2>2. inbox[t] \in Seq(Msgs)
    BY <1>2
  <2>3. Range(inbox'[t]) = Range(inbox[t]) \cup {m}
    <3>1. inbox'[t] = Append(inbox[t], m)
      BY <1>2, <1>9
    <3>2. Range(Append(inbox[t], m)) = Range(inbox[t]) \cup {m}
      BY <2>2, AppendAdds
    <3> QED
      BY <3>1, <3>2
  <2>4. \A u \in Msgs : u # t => inbox'[u] = inbox[u]
    BY <1>2, <1>9
  <2>5. \A x \in Msgs : Steered(x)' <=> Steered(x) \/ x = m
    BY <2>3, <2>4 DEF Steered
  <2> QED
    BY <1>1, <1>3, <1>4, <1>9, <2>1, <2>5, TypedPlaced
<1>10. Range(Append(queue, m)) = Range(queue) \cup {m}
  BY <1>2, AppendAdds
<1>11. QueueAsSteer(m) => Range(queue') = Range(queue) \cup {m}
  <2> DEFINE k == IF steeredAhead <= Len(queue) THEN steeredAhead + 1 ELSE Len(queue) + 1
  <2>1. k \in 1..(Len(queue) + 1)
    BY <1>2, FlatTypes DEF IInv
  <2>2. Range(InsertAt(queue, k, m)) = Range(queue) \cup {m}
    BY <1>2, <2>1, InsertAdds
  <2> QED
    BY <2>2 DEF QueueAsSteer
<1>12. CASE Refuse(m)
  BY <1>7, <1>12 DEF Refuse, turnVars
<1>13. CASE SendMessage(m, s)
  BY <1>6, <1>8, <1>10, <1>12, <1>13 DEF SendMessage, turnVars
<1>14. CASE SteerMessage(m, s)
  <2>1. ASSUME NEW t \in Takers(s), inbox' = [inbox EXCEPT ![t] = Append(@, m)],
               fate' = [fate EXCEPT ![m] = "steered"], UNCHANGED <<queue, phase>>
        PROVE  Placed'
    BY <1>9, <2>1 DEF Takers
  <2> QED
    BY <1>6, <1>7, <1>8, <1>11, <1>12, <1>14, <2>1 DEF SteerMessage, turnVars
<1> QED
  BY <1>13, <1>14

\* Parked messages are dropped, with a word or without.
LEMMA DroppedPlaced ==
    ASSUME IInv, Placed, NEW D, NEW what, what \notin UnderWay, fate' = Mark(fate, D, what),
           D \subseteq Range(queue), Range(queue') = Range(queue) \ D,
           UNCHANGED <<inbox, typed, phase>>
    PROVE  Placed'
<1> SUFFICES ASSUME NEW x \in Msgs PROVE InItsPlace(x)'
  BY DEF Placed
<1>1. InItsPlace(x)
  BY DEF Placed
<1>2. fate'[x] = IF x \in D THEN what ELSE fate[x]
  BY DEF Mark
<1>3. Running(x)' <=> Running(x)
  BY DEF Running
<1>4. Steered(x)' <=> Steered(x)
  BY DEF Steered
<1> QED
  BY <1>1, <1>2, <1>3, <1>4 DEF InItsPlace, Steered, UnderWay

LEMMA LeavePlaced ==
    ASSUME IInv, Placed, NEW s \in Sessions, NEW fresh \in BOOLEAN, LeaveFor(s, fresh)
    PROVE  Placed'
<1> DEFINE D == Range(queue) \ Range(queue')
           what == IF current = NoTurn THEN "silent" ELSE "told"
<1>1. what \notin UnderWay
  BY DEF UnderWay
<1>2. fate' = Mark(fate, D, what) /\ UNCHANGED <<inbox, typed, phase>>
  BY DEF LeaveFor, turnVars
<1>3. queue' \in {queue, <<>>}
  BY DEF LeaveFor, QueueAfterLeave
<1>4. D \subseteq Range(queue) /\ Range(queue') = Range(queue) \ D
  BY <1>3, NoneIn
<1> HIDE DEF D, what
<1> QED
  BY <1>1, <1>2, <1>4, DroppedPlaced

LEMMA EmptiedPlaced ==
    ASSUME IInv, Placed, AbortCurrentTurn \/ ClearQueue \/ Quit
    PROVE  Placed'
<1>1. PICK what \in {"told", "cleared", "silent"} : fate' = Mark(fate, Range(queue), what)
  BY DEF AbortCurrentTurn, ClearQueue, Quit
<1>2. what \notin UnderWay
  BY DEF UnderWay
<1>3. UNCHANGED <<inbox, typed, phase>> /\ Range(queue') = Range(queue) \ Range(queue)
  BY NoneIn DEF AbortCurrentTurn, ClearQueue, Quit, turnVars
<1> QED
  BY <1>1, <1>2, <1>3, DroppedPlaced

\* A step boundary reads what is in the inbox of one turn.
LEMMA ReadPlaced ==
    ASSUME IInv, Placed, NEW t \in Msgs, TurnReads(t)
    PROVE  Placed'
<1> SUFFICES ASSUME NEW x \in Msgs PROVE InItsPlace(x)'
  BY DEF Placed
<1>1. InItsPlace(x)
  BY DEF Placed
<1>2. /\ fate'[x] = IF x \in Range(inbox[t]) THEN "read" ELSE fate[x]
      /\ UNCHANGED <<queue, typed, phase>>
  BY DEF TurnReads, Mark, uiVars
<1>3. \A u \in Msgs : inbox'[u] = IF u = t THEN <<>> ELSE inbox[u]
  BY DEF TurnReads, IInv, TypeOK
<1>4. Running(x)' <=> Running(x)
  BY <1>2 DEF Running
<1>5. CASE x \in Range(inbox[t])
  <2>1. fate[x] = "steered"
    BY <1>1, <1>5 DEF InItsPlace
  <2>2. \A u \in Msgs : x \notin Range(inbox'[u])
    BY <1>3, <1>5, NoneIn, OneInbox
  <2> QED
    BY <1>1, <1>2, <1>4, <1>5, <2>1, <2>2 DEF InItsPlace
<1>6. CASE x \notin Range(inbox[t])
  <2>1. \A u \in Msgs : x \in Range(inbox'[u]) <=> x \in Range(inbox[u])
    BY <1>3, <1>6, NoneIn
  <2> QED
    BY <1>1, <1>2, <1>4, <1>6, <2>1 DEF InItsPlace
<1> QED
  BY <1>5, <1>6

\* The fates once a turn is over agree with its backlog and the other inboxes.
LEMMA SettledPlaces ==
    ASSUME IInv, Placed, NEW t \in Msgs, NEW threw \in BOOLEAN, Ending(t, threw), NEW x \in Msgs
    PROVE  /\ Settled(t, threw)[x] = "untyped" <=> x > typed
           /\ Settled(t, threw)[x] = "parked" <=> x \in Range(Backlog(t, threw))
           /\ Settled(t, threw)[x] = "steered" <=> \E u \in Msgs : x \in Range(inbox'[u])
           /\ Settled(t, threw)[x] = "running" <=> Running(x) /\ x # t
<1> DEFINE word == IF threw THEN "lost" ELSE IF Reroutes(t, threw) THEN "parked" ELSE "told"
<1>1. Settled(t, threw)[x] =
        IF x \in Range(inbox[t]) THEN word ELSE IF x = t THEN "ran" ELSE fate[x]
  BY DEF Settled, Mark, IInv, TypeOK
<1>2. InItsPlace(x)
  BY DEF Placed
<1>3. \A u \in Msgs : x \in Range(inbox'[u]) <=> u # t /\ x \in Range(inbox[u])
  BY NoneIn DEF Ending
<1>4. Range(Backlog(t, threw)) =
        IF Reroutes(t, threw) THEN Range(inbox[t]) \cup Range(queue) ELSE Range(queue)
  <2>1. queue \in Seq(Msgs) /\ inbox[t] \in Seq(Msgs)
    BY DEF IInv, TypeOK
  <2>2. Range(inbox[t] \o queue) = Range(inbox[t]) \cup Range(queue)
    BY <2>1, ConcatAdds
  <2> QED
    BY <2>2 DEF Backlog
<1>5. Running(t) /\ InItsPlace(t)
  BY DEF Ending, Placed
<1>6. CASE x \in Range(inbox[t])
  <2>1. fate[x] = "steered"
    BY <1>2, <1>6 DEF InItsPlace
  <2>2. ~(x > typed) /\ x \notin Range(queue) /\ ~Running(x)
    BY <1>2, <2>1 DEF InItsPlace
  <2>3. \A u \in Msgs : x \notin Range(inbox'[u])
    BY <1>3, <1>6, OneInbox
  <2>4. Settled(t, threw)[x] = word
    BY <1>1, <1>6
  <2>5. word = "parked" <=> Reroutes(t, threw)
    BY DEF Reroutes
  <2>6. word \in {"lost", "parked", "told"}
    OBVIOUS
  <2> HIDE DEF word
  <2> QED
    BY <1>4, <1>6, <2>2, <2>3, <2>4, <2>5, <2>6
<1>7. CASE x = t
  <2>1. fate[x] = "running"
    BY <1>5, <1>7 DEF InItsPlace
  <2>2. ~(x > typed) /\ x \notin Range(queue) /\ \A u \in Msgs : x \notin Range(inbox[u])
    BY <1>2, <2>1 DEF InItsPlace
  <2>3. Settled(t, threw)[x] = "ran"
    BY <1>1, <1>7, <2>2
  <2> QED
    BY <1>3, <1>4, <1>7, <2>2, <2>3
<1>8. CASE x \notin Range(inbox[t]) /\ x # t
  <2>1. Settled(t, threw)[x] = fate[x]
    BY <1>1, <1>8
  <2>2. x \in Range(Backlog(t, threw)) <=> x \in Range(queue)
    BY <1>4, <1>8
  <2> QED
    BY <1>2, <1>3, <1>8, <2>1, <2>2 DEF InItsPlace
<1> QED
  BY <1>6, <1>7, <1>8

LEMMA EndPlaced ==
    ASSUME IInv, Placed, NEW t \in Msgs, NEW threw \in BOOLEAN, TurnEnds(t, threw)
    PROVE  Placed'
<1> DEFINE rest == Backlog(t, threw)
           settled == Settled(t, threw)
           ended == [phase EXCEPT ![t] = "none"]
<1>1. Ending(t, threw)
  BY EndFacts
<1>2. rest \in Seq(Msgs) /\ Distinct(rest)
  BY <1>1, BacklogFacts DEF Ending
<1>3. typed' = typed
  BY <1>1 DEF Ending
<1>4. rest # <<>> => /\ Head(rest) \in Msgs
                     /\ Range(rest) = Range(Tail(rest)) \cup {Head(rest)}
                     /\ Head(rest) \notin Range(Tail(rest))
  BY <1>2, TailDrops, RangeOf
<1>5. \A x \in Msgs : ended[x] # "none" <=> Running(x) /\ x # t
  BY DEF Running, IInv, TypeOK
<1>6. \A x \in Msgs :
        /\ settled[x] = "untyped" <=> x > typed
        /\ settled[x] = "parked" <=> x \in Range(rest)
        /\ settled[x] = "steered" <=> \E u \in Msgs : x \in Range(inbox'[u])
        /\ settled[x] = "running" <=> Running(x) /\ x # t
  BY <1>1, SettledPlaces
<1>7. \/ /\ home[t] # session /\ fate' = settled /\ phase' = ended /\ queue' = queue
      \/ /\ phase' = ended
         /\ queue' = IF rest = <<>> THEN <<>> ELSE Tail(rest)
         /\ fate' = IF rest = <<>> THEN settled ELSE Mark(settled, {Head(rest)}, "silent")
      \/ /\ rest # <<>> /\ queue' = Tail(rest)
         /\ \E blocked \in BOOLEAN : /\ Launch(Head(rest), blocked, settled)
                                     /\ LaunchTurn(Head(rest), session, blocked, ended)
  BY DEF TurnEnds
<1>8. home[t] # session => rest = queue
  BY DEF Backlog, Reroutes
<1> HIDE DEF rest, settled, ended
<1>9. CASE rest = <<>> \/ home[t] # session
  <2>1. CASE phase' = ended /\ fate' = settled /\ queue' = rest
    BY <1>3, <1>5, <1>6, <2>1 DEF Placed, InItsPlace, Running
  <2>2. CASE ~(phase' = ended /\ fate' = settled /\ queue' = rest)
    <3>1. home[t] # session /\ rest # <<>>
      BY <1>7, <1>8, <1>9, <2>2
    <3> QED
      BY <1>7, <1>8, <2>2, <3>1 DEF TurnEnds
  <2> QED
    BY <2>1, <2>2
<1>10. ASSUME rest # <<>>, queue' = Tail(rest), NEW what \in {"silent", "told"},
              fate' = Mark(settled, {Head(rest)}, what), phase' = ended
       PROVE  Placed'
  <2> SUFFICES ASSUME NEW x \in Msgs PROVE InItsPlace(x)'
    BY DEF Placed
  <2>1. fate'[x] = IF x = Head(rest) THEN what ELSE settled[x]
    BY <1>10 DEF Mark
  <2>2. Running(x)' <=> Running(x) /\ x # t
    BY <1>5, <1>10 DEF Running
  <2>3. CASE x = Head(rest)
    <3>1. settled[x] = "parked"
      BY <1>4, <1>6, <1>10, <2>3
    <3> QED
      BY <1>3, <1>4, <1>6, <1>10, <2>1, <2>2, <2>3, <3>1 DEF InItsPlace
  <2>4. CASE x # Head(rest)
    BY <1>3, <1>4, <1>6, <1>10, <2>1, <2>2, <2>4 DEF InItsPlace
  <2> QED
    BY <2>3, <2>4
<1>11. ASSUME rest # <<>>, queue' = Tail(rest), fate' = Mark(settled, {Head(rest)}, "running"),
              phase' = [ended EXCEPT ![Head(rest)] = "early"]
       PROVE  Placed'
  <2> SUFFICES ASSUME NEW x \in Msgs PROVE InItsPlace(x)'
    BY DEF Placed
  <2>1. fate'[x] = IF x = Head(rest) THEN "running" ELSE settled[x]
    BY <1>11 DEF Mark
  <2>2. Running(x)' <=> x = Head(rest) \/ (Running(x) /\ x # t)
    <3>1. ended \in [Msgs -> {"none", "early", "open", "closed"}]
      BY DEF ended, IInv, TypeOK
    <3> QED
      BY <1>4, <1>5, <1>11, <3>1 DEF Running
  <2>3. CASE x = Head(rest)
    <3>1. settled[x] = "parked"
      BY <1>4, <1>6, <1>11, <2>3
    <3> QED
      BY <1>3, <1>4, <1>6, <1>11, <2>1, <2>2, <2>3, <3>1 DEF InItsPlace
  <2>4. CASE x # Head(rest)
    BY <1>3, <1>4, <1>6, <1>11, <2>1, <2>2, <2>4 DEF InItsPlace
  <2> QED
    BY <2>3, <2>4
<1>12. CASE rest # <<>> /\ home[t] = session
  <2>1. CASE phase' = ended /\ queue' = Tail(rest) /\ fate' = Mark(settled, {Head(rest)}, "silent")
    BY <1>10, <1>12, <2>1
  <2>2. ASSUME NEW blocked \in BOOLEAN, queue' = Tail(rest), Launch(Head(rest), blocked, settled),
               LaunchTurn(Head(rest), session, blocked, ended)
        PROVE  Placed'
    <3>1. CASE blocked
      <4>1. fate' = Mark(settled, {Head(rest)}, "told") /\ phase' = ended
        BY <2>2, <3>1 DEF Launch, LaunchTurn
      <4> QED
        BY <1>10, <1>12, <2>2, <4>1
    <3>2. CASE ~blocked
      <4>1. /\ fate' = Mark(settled, {Head(rest)}, "running")
            /\ phase' = [ended EXCEPT ![Head(rest)] = "early"]
        BY <2>2, <3>2 DEF Launch, LaunchTurn
      <4> QED
        BY <1>11, <1>12, <2>2, <4>1
    <3> QED
      BY <3>1, <3>2
  <2> QED
    BY <1>7, <1>12, <2>1, <2>2
<1> QED
  BY <1>9, <1>12

\* No step parts a message from its fate.
LEMMA StepPlaced == IInv /\ Placed /\ [Next]_vars => Placed'
<1> SUFFICES ASSUME IInv, Placed, [Next]_vars PROVE Placed'
  OBVIOUS
<1>1. ASSUME NEW m \in Msgs, NEW s \in Sessions, SendMessage(m, s) \/ SteerMessage(m, s)
      PROVE  Placed'
  BY <1>1, TypePlaced
<1>2. CASE AbortCurrentTurn \/ ClearQueue \/ Quit
  BY <1>2, EmptiedPlaced
<1>3. ASSUME NEW s \in Sessions, NewSession(s) \/ SwitchSession(s) PROVE Placed'
  BY <1>3, LeavePlaced DEF NewSession, SwitchSession
<1>4. ASSUME NEW s \in Sessions, DeleteSession(s) PROVE Placed'
  <2>1. CASE session = s
    <3>1. PICK new \in FreshIds \ {s} : LeaveFor(new, TRUE)
      BY <1>4, <2>1 DEF DeleteSession
    <3> QED
      BY <3>1, LeavePlaced DEF FreshIds
  <2>2. CASE session # s
    <3>1. UNCHANGED <<fate, queue, inbox, typed, phase>>
      BY <1>4, <2>2 DEF DeleteSession, uiVars, turnVars
    <3> QED
      BY <3>1, SamePlaces DEF Running
  <2> QED
    BY <2>1, <2>2
<1>5. ASSUME NEW t \in Msgs, TurnReads(t) PROVE Placed'
  BY <1>5, ReadPlaced
<1>6. ASSUME NEW t \in Msgs, NEW threw \in BOOLEAN, TurnEnds(t, threw) PROVE Placed'
  BY <1>6, EndPlaced
<1>7. ASSUME NEW t \in Msgs, TurnOpens(t) \/ TurnCloses(t) PROVE Placed'
  <2>1. UNCHANGED <<fate, queue, inbox, typed>> /\ \A x \in Msgs : Running(x)' <=> Running(x)
    BY <1>7 DEF TurnOpens, TurnCloses, uiVars, Running, IInv, TypeOK
  <2> QED
    BY <2>1, SamePlaces
<1>8. CASE (\E s \in Sessions : ForeignStarts(s) \/ ForeignEnds(s)) \/ Grant \/ UNCHANGED vars
  <2>1. UNCHANGED <<fate, queue, inbox, typed, phase>>
    BY <1>8 DEF ForeignStarts, ForeignEnds, Grant, vars, uiVars, turnVars
  <2> QED
    BY <2>1, SamePlaces DEF Running
<1> QED
  BY <1>1, <1>2, <1>3, <1>4, <1>5, <1>6, <1>7, <1>8 DEF Next

\* At the start every message is still to be typed.
LEMMA InitPlaced == Init => Placed
<1> SUFFICES ASSUME Init, NEW m \in Msgs PROVE InItsPlace(m)
  BY DEF Placed
<1>1. m > typed
  BY Constants DEF Init
<1>2. /\ fate[m] = "untyped" /\ phase[m] = "none" /\ queue = <<>>
      /\ \A t \in Msgs : inbox[t] = <<>>
  BY DEF Init
<1> QED
  BY <1>1, <1>2, NoneIn DEF InItsPlace, Running

-----------------------------------------------------------------------------

\* Leaving the thread drops messages silently only when none should be parked.
LEMMA LeaveSpeaks ==
    ASSUME IInv, ~quitting, NEW s \in Sessions, NEW fresh \in BOOLEAN, LeaveFor(s, fresh),
           NEW m \in Msgs, fate'[m] = "silent", fate[m] # "silent"
    PROVE  stranded
<1>1. fate'[m] = IF m \in Range(queue) \ Range(queue')
                 THEN (IF current = NoTurn THEN "silent" ELSE "told") ELSE fate[m]
  BY DEF LeaveFor, Mark
<1>2. m \in Range(queue) /\ current = NoTurn
  BY <1>1
<1> QED
  BY <1>2, NoneIn DEF IInv, ParkedBehindTurn

\* What a typed message becomes is told, and nothing else changes.
LEMMA TypeSpeaks ==
    ASSUME IInv, NEW n \in Msgs, NEW s \in Sessions, SendMessage(n, s) \/ SteerMessage(n, s),
           NEW m \in Msgs, fate'[m] = "silent"
    PROVE  fate[m] = "silent"
<1>1. fate \in [Msgs -> Fates]
  BY DEF IInv, TypeOK
<1>2. CASE RunNow(n, s)
  BY <1>2 DEF RunNow, Launch, Mark
<1>3. CASE \E what \in {"told", "parked", "steered", "elsewhere"} : fate' = [fate EXCEPT ![n] = what]
  BY <1>1, <1>3
<1> QED
  BY <1>2, <1>3 DEF SendMessage, SteerMessage, Refuse

\* The end of a turn drops a message silently only once the operator quits.
LEMMA EndSpeaks ==
    ASSUME IInv, NEW t \in Msgs, NEW threw \in BOOLEAN, TurnEnds(t, threw),
           NEW m \in Msgs, fate'[m] = "silent", fate[m] # "silent"
    PROVE  quitting'
<1>1. Settled(t, threw)[m] # "silent"
  <2>1. fate \in [Msgs -> Fates]
    BY DEF IInv, TypeOK
  <2> QED
    BY <2>1 DEF Settled, Mark
<1>2. fate' # Settled(t, threw)
  BY <1>1
<1>3. \A x : \A what \in {"told", "running"} : fate' # Mark(Settled(t, threw), {x}, what)
  BY <1>1 DEF Mark
<1>4. Backlog(t, threw) # <<>> => quitting
  <2>1. \A x : \A blocked \in BOOLEAN : ~Launch(x, blocked, Settled(t, threw))
    BY <1>3 DEF Launch
  <2> QED
    BY <1>2, <2>1 DEF TurnEnds
<1> QED
  BY <1>2, <1>4 DEF TurnEnds

\* Every accepted message is where its fate says, and none disappears without a
\* word but by quitting or behind a turn the model gate blocked: every path of
\* sendMessage, steerMessage, abortCurrentTurn, clearQueue,
\* leaveCurrentSession and runOneTurn parks, hands over or announces it.
THEOREM NothingLostSilently == Spec => NothingVanishes
<1>1. ASSUME IInv, [Next]_vars, NEW m \in Msgs, fate'[m] = "silent", fate[m] # "silent"
      PROVE  quitting' \/ stranded
  <2>1. ASSUME NEW n \in Msgs, NEW s \in Sessions, SendMessage(n, s) \/ SteerMessage(n, s)
        PROVE  FALSE
    BY <1>1, <2>1, TypeSpeaks
  <2>2. CASE AbortCurrentTurn \/ ClearQueue
    BY <1>1, <2>2 DEF AbortCurrentTurn, ClearQueue, Mark
  <2>3. CASE Quit
    BY <2>3 DEF Quit
  <2>4. ASSUME NEW s \in Sessions, NewSession(s) \/ SwitchSession(s)
        PROVE  stranded
    BY <1>1, <2>4, LeaveSpeaks DEF NewSession, SwitchSession
  <2>5. ASSUME NEW s \in Sessions, DeleteSession(s)
        PROVE  stranded
    <3>1. CASE session = s
      <4>1. PICK new \in FreshIds \ {s} : LeaveFor(new, TRUE)
        BY <2>5, <3>1 DEF DeleteSession
      <4>2. ~quitting /\ new \in Sessions
        BY <2>5, <4>1 DEF DeleteSession, FreshIds
      <4> QED
        BY <1>1, <4>1, <4>2, LeaveSpeaks
    <3>2. CASE session # s
      BY <1>1, <2>5, <3>2 DEF DeleteSession
    <3> QED
      BY <3>1, <3>2
  <2>6. ASSUME NEW t \in Msgs, TurnReads(t)
        PROVE  FALSE
    BY <1>1, <2>6 DEF TurnReads, Mark
  <2>7. ASSUME NEW t \in Msgs, NEW threw \in BOOLEAN, TurnEnds(t, threw)
        PROVE  quitting'
    BY <1>1, <2>7, EndSpeaks
  <2>8. CASE fate' = fate
    BY <1>1, <2>8
  <2>9. ASSUME NEW t \in Msgs, TurnOpens(t) \/ TurnCloses(t)
        PROVE  fate' = fate
    BY <2>9 DEF TurnOpens, TurnCloses
  <2>10. ASSUME NEW s \in Sessions, ForeignStarts(s) \/ ForeignEnds(s)
         PROVE  fate' = fate
    BY <2>10 DEF ForeignStarts, ForeignEnds
  <2>11. Grant \/ UNCHANGED vars => fate' = fate
    BY DEF Grant, vars
  <2> QED
    BY <1>1, <2>1, <2>2, <2>3, <2>4, <2>5, <2>6, <2>7, <2>8, <2>9, <2>10, <2>11 DEF Next
<1>2. IInv /\ [Next]_vars =>
        [\A m \in Msgs : fate'[m] = "silent" /\ fate[m] # "silent" => quitting' \/ stranded]_vars
  BY <1>1
<1>3. Placed => \A m \in Msgs : InItsPlace(m)
  BY DEF Placed
<1> QED
  BY <1>2, <1>3, InitPlaced, StepPlaced, Invariance, PTL DEF Spec, NothingVanishes

-----------------------------------------------------------------------------

\* A message is heard in the thread it was typed for: a steer is handed to a
\* turn of that thread, and the turn a message starts runs there, unless a
\* drained message the model gate blocked left others parked behind no turn.
HeardWhereTyped ==
    /\ \A t \in Msgs : \A m \in Range(inbox[t]) : aimed[m] = home[t]
    /\ ~stranded => RunsWhereItWasTyped

\* A turn of the next state runs already, or starts in its thread.
AtHome(t) ==
    \/ Running(t) /\ home'[t] = home[t] /\ aimed'[t] = aimed[t]
    \/ home'[t] = aimed'[t]

LEMMA SameTurnsAtHome ==
    ASSUME phase' = phase, home' = home, aimed' = aimed, NEW t \in Msgs, Running(t)'
    PROVE  AtHome(t)
BY DEF AtHome, Running

\* The turn of a typed message.
LEMMA TypedAtHome ==
    ASSUME IInv, NEW m \in Msgs, NEW s \in Sessions, SendMessage(m, s) \/ SteerMessage(m, s),
           NEW t \in Msgs, Running(t)'
    PROVE  AtHome(t) /\ stranded' = stranded
<1>1. Type(m, s)
  BY DEF SendMessage, SteerMessage
<1>2. Typing(m, s)
  BY <1>1, TypeFacts
<1>3. stranded' = stranded /\ ~Running(m) /\ \A x \in Msgs : aimed'[x] = IF x = m THEN s ELSE aimed[x]
  BY <1>2 DEF Typing
<1>4. CASE phase' = phase /\ home' = home
  BY <1>3, <1>4 DEF AtHome, Running
<1>5. CASE RunNow(m, s)
  <2>1. PICK blocked \in BOOLEAN : LaunchTurn(m, s, blocked, phase)
    BY <1>5 DEF RunNow
  <2>2. CASE blocked
    BY <1>4, <2>1, <2>2 DEF LaunchTurn
  <2>3. CASE ~blocked
    <3>1. \A x \in Msgs : /\ phase'[x] = IF x = m THEN "early" ELSE phase[x]
                          /\ home'[x] = IF x = m THEN s ELSE home[x]
      BY <2>1, <2>3 DEF LaunchTurn, IInv, TypeOK
    <3> QED
      BY <1>3, <3>1 DEF AtHome, Running
  <2> QED
    BY <2>2, <2>3
<1> QED
  BY <1>4, <1>5 DEF SendMessage, SteerMessage, Refuse, turnVars

\* The turn that follows one that ends: its message was rerouted from the inbox
\* of that turn, or parked behind it.
LEMMA NextAtHome ==
    ASSUME IInv, NEW u \in Msgs, NEW threw \in BOOLEAN, TurnEnds(u, threw), ~stranded',
           NEW t \in Msgs, Running(t)'
    PROVE  AtHome(t) /\ ~stranded
<1> DEFINE rest == Backlog(u, threw)
           ended == [phase EXCEPT ![u] = "none"]
<1>1. Ending(u, threw) /\ aimed' = aimed
  BY EndFacts DEF Ending
<1>2. \A x \in Msgs : ended[x] # "none" => Running(x)
  BY DEF Running, IInv, TypeOK
<1>3. CASE phase' = ended /\ home' = home /\ stranded' = stranded
  BY <1>1, <1>2, <1>3 DEF AtHome, Running
<1>4. CASE /\ rest # <<>> /\ ~quitting
           /\ \E blocked \in BOOLEAN :
                /\ LaunchTurn(Head(rest), session, blocked, ended)
                /\ stranded' = (stranded \/ (blocked /\ Tail(rest) # <<>>))
  <2>1. PICK blocked \in BOOLEAN :
          /\ LaunchTurn(Head(rest), session, blocked, ended)
          /\ stranded' = (stranded \/ (blocked /\ Tail(rest) # <<>>))
    BY <1>4
  <2>2. ~stranded
    BY <2>1 DEF IInv, TypeOK
  <2>3. rest \in Seq(Msgs) /\ \A x \in Range(rest) : x \in Range(queue) \/ aimed[x] = session
    BY <1>1, BacklogFacts DEF Ending
  <2> HIDE DEF rest, ended
  <2>4. Head(rest) \in Range(rest) /\ Head(rest) \in Msgs
    BY <1>4, <2>3, TailDrops, RangeOf
  <2>5. aimed[Head(rest)] = session
    BY <1>4, <2>2, <2>3, <2>4 DEF IInv, ParkedBehindTurn
  <2>6. CASE blocked
    BY <1>1, <1>2, <2>1, <2>2, <2>6 DEF LaunchTurn, AtHome, Running
  <2>7. CASE ~blocked
    <3>1. DOMAIN ended = Msgs /\ DOMAIN home = Msgs
      BY DEF ended, IInv, TypeOK
    <3>2. \A x \in Msgs : /\ phase'[x] = IF x = Head(rest) THEN "early" ELSE ended[x]
                          /\ home'[x] = IF x = Head(rest) THEN session ELSE home[x]
      BY <2>1, <2>7, <3>1 DEF LaunchTurn
    <3> QED
      BY <1>1, <1>2, <2>2, <2>5, <3>2 DEF AtHome, Running
  <2> QED
    BY <2>6, <2>7
<1> QED
  BY <1>3, <1>4 DEF TurnEnds

\* No step moves a turn, and none starts one in another thread but behind a
\* stranded queue.
LEMMA TurnsStartAtHome ==
    ASSUME IInv, [Next]_vars, ~stranded', NEW t \in Msgs, Running(t)'
    PROVE  AtHome(t) /\ ~stranded
<1>1. ASSUME NEW m \in Msgs, NEW s \in Sessions, SendMessage(m, s) \/ SteerMessage(m, s)
      PROVE  AtHome(t) /\ ~stranded
  BY <1>1, TypedAtHome
<1>2. ASSUME NEW u \in Msgs, NEW threw \in BOOLEAN, TurnEnds(u, threw)
      PROVE  AtHome(t) /\ ~stranded
  BY <1>2, NextAtHome
<1>3. CASE phase' = phase /\ home' = home /\ aimed' = aimed /\ stranded' = stranded
  BY <1>3, SameTurnsAtHome
<1>4. ASSUME NEW u \in Msgs, TurnOpens(u) \/ TurnReads(u) \/ TurnCloses(u)
      PROVE  AtHome(t) /\ ~stranded
  <2>1. /\ home' = home /\ aimed' = aimed /\ stranded' = stranded
        /\ \A x \in Msgs : phase'[x] # "none" => phase[x] # "none"
    BY <1>4 DEF TurnOpens, TurnReads, TurnCloses, IInv, TypeOK
  <2> QED
    BY <2>1 DEF AtHome, Running
<1>5. CASE AbortCurrentTurn \/ ClearQueue \/ Quit \/ Grant \/ UNCHANGED vars
  BY <1>3, <1>5 DEF AbortCurrentTurn, ClearQueue, Quit, Grant, vars, turnVars
<1>6. ASSUME NEW s \in Sessions, \/ NewSession(s) \/ SwitchSession(s) \/ DeleteSession(s)
                                 \/ ForeignStarts(s) \/ ForeignEnds(s)
      PROVE  AtHome(t) /\ ~stranded
  BY <1>3, <1>6 DEF NewSession, SwitchSession, DeleteSession, ForeignStarts, ForeignEnds,
                    LeaveFor, turnVars
<1> QED
  BY <1>1, <1>2, <1>4, <1>5, <1>6 DEF Next

\* Messages are heard where they were typed, whatever threads the operator opens,
\* leaves and deletes meanwhile: sendMessage, steerMessage, leaveCurrentSession and
\* the drain at the end of runOneTurn.  What the model gate strands is the only
\* exception (RunsWhereItWasTyped fails without it).
THEOREM MessagesFindTheirThread == Spec => []HeardWhereTyped
<1> DEFINE Runs == ~stranded => RunsWhereItWasTyped
<1>1. Init => Runs
  BY DEF Init, RunsWhereItWasTyped, Running
<1>2. IInv /\ Runs /\ [Next]_vars => Runs'
  <2> SUFFICES ASSUME IInv, Runs, [Next]_vars, ~stranded', NEW t \in Msgs, Running(t)'
               PROVE  home'[t] = aimed'[t]
    BY DEF RunsWhereItWasTyped, Running
  <2>1. AtHome(t) /\ ~stranded
    BY TurnsStartAtHome
  <2> QED
    BY <2>1 DEF AtHome, RunsWhereItWasTyped
<1>3. IInv /\ Runs => HeardWhereTyped
  BY DEF IInv, WaitInv, HeardWhereTyped
<1> HIDE DEF Runs
<1> QED
  BY <1>1, <1>2, <1>3, Invariance, PTL DEF Spec

=============================================================================
