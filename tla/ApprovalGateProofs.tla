-------------------------- MODULE ApprovalGateProofs --------------------------
(***************************************************************************)
(* What the approval gate guarantees for any sessions, requests, shapes    *)
(* and levels: grants are earned, silence is earned, decisions are final.  *)
(***************************************************************************)
EXTENDS ApprovalGate, TLAPS

\* The earning approval of grant g.
Earns(q, g) ==
    /\ state[q] = "approved"
    /\ asked[q].session = g[1]
    /\ asked[q].category \notin Ungrantable
    /\ \/ scope[q] = "category" /\ asked[q].category = g[2]
       \/ scope[q] = "shape" /\ asked[q].shape = g[2]

GateInv == GateTypeOK /\ GrantsAreEarned

-----------------------------------------------------------------------------

\* What recordGrant adds is of the declared shape, and is what the request in
\* question earns once it is approved with that scope.
LEMMA RecordGrantType ==
    ASSUME NEW a \in Subjects, NEW sc \in Scopes
    PROVE  RecordGrant(a, sc) \subseteq Sessions \X (Categories \cup Shapes)
  BY DEF RecordGrant, Subjects, Scopes

LEMMA RecordGrantEarned ==
    ASSUME NEW a \in Subjects, NEW sc \in Scopes, NEW g \in RecordGrant(a, sc)
    PROVE  /\ a.category \notin Ungrantable
           /\ a.session = g[1]
           /\ \/ sc = "category" /\ a.category = g[2]
              \/ sc = "shape" /\ a.shape = g[2]
  BY DEF RecordGrant, Scopes

LEMMA InitGate == ASSUME GateInit PROVE GateInv
  <1>1. GateTypeOK
    <2>1. NoSubject \in Subjects
      BY GateAssumption DEF NoSubject, Subjects
    <2>2. QED
      BY <2>1 DEF GateInit, GateTypeOK, States, Scopes
  <1>2. GrantsAreEarned
    BY DEF GateInit, GrantsAreEarned
  <1>3. QED
    BY <1>1, <1>2 DEF GateInv

\* A step that keeps approved requests as they are, and adds no grant, keeps
\* every grant earned.
LEMMA KeepsEarned ==
    ASSUME GateTypeOK, GrantsAreEarned, grants' \subseteq grants,
           \A q \in Requests : state[q] = "approved" =>
               state'[q] = "approved" /\ asked'[q] = asked[q] /\ scope'[q] = scope[q]
    PROVE  GrantsAreEarned'
  BY DEF GrantsAreEarned, GateTypeOK

LEMMA RequestStep ==
    ASSUME GateInv, NEW r \in Requests, NEW a \in Subjects, NEW b \in BOOLEAN,
           Request(r, a, b)
    PROVE  GateInv'
  <1>1. GateTypeOK'
    BY DEF GateInv, GateTypeOK, Request, States
  <1>2. \A q \in Requests : state[q] = "approved" =>
            state'[q] = "approved" /\ asked'[q] = asked[q] /\ scope'[q] = scope[q]
    BY DEF GateInv, GateTypeOK, Request
  <1>3. grants' \subseteq grants
    BY DEF Request
  <1>4. QED
    BY <1>1, <1>2, <1>3, KeepsEarned DEF GateInv

LEMMA ResolveStep ==
    ASSUME GateInv, NEW r \in Requests, NEW approved \in BOOLEAN, NEW sc \in Scopes,
           Resolve(r, approved, sc)
    PROVE  GateInv'
  <1> USE DEF GateInv
  <1>1. CASE state[r] # "pending"
    <2>1. UNCHANGED gateVars
      BY <1>1 DEF Resolve, gateVars
    <2>2. QED
      BY <2>1 DEF gateVars, GateTypeOK, GrantsAreEarned
  <1>2. CASE state[r] = "pending" /\ ~ approved
    <2>1. GateTypeOK'
      BY <1>2 DEF GateTypeOK, Resolve, States
    <2>2. \A q \in Requests : state[q] = "approved" =>
              state'[q] = "approved" /\ asked'[q] = asked[q] /\ scope'[q] = scope[q]
      BY <1>2 DEF GateTypeOK, Resolve
    <2>3. QED
      BY <1>2, <2>1, <2>2, KeepsEarned DEF Resolve
  <1>3. CASE state[r] = "pending" /\ approved
    <2>1. /\ state' = [state EXCEPT ![r] = "approved"]
          /\ scope' = [scope EXCEPT ![r] = sc]
          /\ grants' = grants \cup RecordGrant(asked[r], sc)
          /\ UNCHANGED <<level, asked>>
      BY <1>3 DEF Resolve
    <2>2. asked[r] \in Subjects
      BY DEF GateTypeOK
    <2>3. GateTypeOK'
      BY <2>1, <2>2, RecordGrantType DEF GateTypeOK, States
    <2>4. ASSUME NEW g \in grants
          PROVE  \E q \in Requests : Earns(q, g)'
      <3>1. PICK q \in Requests : Earns(q, g)
        BY DEF GrantsAreEarned, Earns
      <3>2. q # r
        BY <1>3, <3>1 DEF Earns
      <3>3. Earns(q, g)'
        BY <2>1, <3>1, <3>2 DEF Earns, GateTypeOK
      <3>4. QED
        BY <3>3
    <2>5. ASSUME NEW g \in RecordGrant(asked[r], sc)
          PROVE  Earns(r, g)'
      BY <2>1, <2>2, RecordGrantEarned DEF Earns, GateTypeOK
    <2>6. GrantsAreEarned'
      BY <2>1, <2>4, <2>5 DEF GrantsAreEarned, Earns
    <2>7. QED
      BY <2>3, <2>6
  <1>4. QED
    BY <1>1, <1>2, <1>3

LEMMA AbortStep ==
    ASSUME GateInv, NEW R \in SUBSET Requests, Abort(R)
    PROVE  GateInv'
  <1>1. GateTypeOK'
    BY DEF GateInv, GateTypeOK, Abort, States
  <1>2. QED
    BY <1>1, KeepsEarned DEF GateInv, GateTypeOK, Abort

LEMMA DenyStep ==
    ASSUME GateInv, NEW k \in Sessions, DenyPending(k)
    PROVE  GateInv'
  <1>1. GateTypeOK'
    BY DEF GateInv, GateTypeOK, DenyPending, States
  <1>2. QED
    BY <1>1, KeepsEarned DEF GateInv, GateTypeOK, DenyPending

LEMMA LevelStep ==
    ASSUME GateInv, NEW l \in Levels, SetLevel(l)
    PROVE  GateInv'
  <1>1. GateTypeOK'
    BY DEF GateInv, GateTypeOK, SetLevel
  <1>2. QED
    BY <1>1, KeepsEarned DEF GateInv, SetLevel

LEMMA ClearStep ==
    ASSUME GateInv, NEW K \in SUBSET Sessions, ClearGrants(K)
    PROVE  GateInv'
  <1>1. GateTypeOK'
    BY DEF GateInv, GateTypeOK, ClearGrants
  <1>2. QED
    BY <1>1, KeepsEarned DEF GateInv, ClearGrants

LEMMA GateStep == ASSUME GateInv, [GateNext]_gateVars PROVE GateInv'
  <1>1. CASE UNCHANGED gateVars
    BY <1>1 DEF gateVars, GateInv, GateTypeOK, GrantsAreEarned
  <1>2. CASE GateNext
    BY <1>2, RequestStep, ResolveStep, AbortStep, DenyStep, LevelStep, ClearStep
    DEF GateNext
  <1>3. QED
    BY <1>1, <1>2

\* The gate's variables keep their shape and every grant it holds was earned by
\* an approval in its own session with that scope.
THEOREM GateInvariance == GateSpec => []GateInv
  <1>1. GateInit => GateInv
    BY InitGate
  <1>2. GateInv /\ [GateNext]_gateVars => GateInv'
    BY GateStep
  <1>3. QED
    BY <1>1, <1>2, PTL DEF GateSpec

\* recordGrant in approval-gate.ts: no grant without an approved prompt.
THEOREM GrantsEarned == GateSpec => []GrantsAreEarned
  BY GateInvariance, PTL DEF GateInv

-----------------------------------------------------------------------------

\* A step that takes a request from unused to auto is its request().
LEMMA AutoStep ==
    ASSUME GateInv, [GateNext]_gateVars, NEW r \in Requests,
           state[r] = "unused", state'[r] = "auto"
    PROVE  \/ level >= AutoApproveFrom[asked'[r].category]
           \/ \E q \in Requests : Covers(q, asked'[r])
  <1>1. PICK a \in Subjects : asked'[r] = a /\ AutoApproved(a)
    <2>1. ~ UNCHANGED gateVars
      BY DEF gateVars
    <2>2. ASSUME NEW q \in Requests, NEW a \in Subjects, NEW b \in BOOLEAN, Request(q, a, b)
          PROVE  asked'[r] = a /\ AutoApproved(a)
      BY <2>2 DEF Request, GateInv, GateTypeOK
    <2>3. ASSUME NEW q \in Requests, NEW approved \in BOOLEAN, NEW sc \in Scopes,
                 Resolve(q, approved, sc)
          PROVE  FALSE
      BY <2>3 DEF Resolve, GateInv, GateTypeOK
    <2>4. ASSUME NEW R \in SUBSET Requests, Abort(R) PROVE FALSE
      BY <2>4 DEF Abort
    <2>5. ASSUME NEW k \in Sessions, DenyPending(k) PROVE FALSE
      BY <2>5 DEF DenyPending
    <2>6. ASSUME NEW l \in Levels, SetLevel(l) PROVE FALSE
      BY <2>6 DEF SetLevel
    <2>7. ASSUME NEW K \in SUBSET Sessions, ClearGrants(K) PROVE FALSE
      BY <2>7 DEF ClearGrants
    <2>8. QED
      BY <2>1, <2>2, <2>3, <2>4, <2>5, <2>6, <2>7 DEF GateNext
  <1>2. CASE level >= AutoApproveFrom[a.category]
    BY <1>1, <1>2
  <1>3. CASE Granted(a)
    <2>1. CASE <<a.session, a.category>> \in grants
      <3>1. PICK q \in Requests : Earns(q, <<a.session, a.category>>)
        BY <2>1 DEF GateInv, GrantsAreEarned, Earns
      <3>2. asked[q] \in Subjects /\ a.category \in Categories
        BY DEF GateInv, GateTypeOK, Subjects
      <3>3. asked[q].shape # a.category
        BY <1>3, <3>1, <3>2, GateAssumption DEF Subjects
      <3>4. Covers(q, a)
        BY <3>1, <3>3 DEF Earns, Covers
      <3>5. QED
        BY <1>1, <3>4
    <2>2. CASE a.shape # NoShape /\ <<a.session, a.shape>> \in grants
      <3>1. PICK q \in Requests : Earns(q, <<a.session, a.shape>>)
        BY <2>2 DEF GateInv, GrantsAreEarned, Earns
      <3>2. asked[q].category \in Categories /\ a.shape \in Shapes
        BY <2>2 DEF GateInv, GateTypeOK, Subjects
      <3>3. asked[q].category # a.shape
        BY <3>2, GateAssumption
      <3>4. Covers(q, a)
        BY <2>2, <3>1, <3>3 DEF Earns, Covers
      <3>5. QED
        BY <1>1, <3>4
    <2>3. QED
      BY <1>3, <2>1, <2>2 DEF Granted
  <1>4. QED
    BY <1>1, <1>2, <1>3 DEF AutoApproved

\* autoApproval in approval-gate.ts: a call goes unprompted only at the level or
\* by a grant of the same session.
THEOREM SilenceEarned == GateSpec => AutoIsEarned
  <1>1. GateInv /\ [GateNext]_gateVars =>
            [\A r \in Requests : state[r] = "unused" /\ state'[r] = "auto" =>
                \/ level >= AutoApproveFrom[asked'[r].category]
                \/ \E q \in Requests : Covers(q, asked'[r])]_gateVars
    BY AutoStep
  <1>2. QED
    BY <1>1, GateInvariance, PTL DEF GateSpec, AutoIsEarned

\* A decided request is never touched again, whoever comes late.
LEMMA DecidedStep ==
    ASSUME GateInv, [GateNext]_gateVars, NEW r \in Requests,
           state[r] \notin {"unused", "pending"}
    PROVE  state'[r] = state[r] /\ asked'[r] = asked[r] /\ scope'[r] = scope[r]
  <1>1. CASE UNCHANGED gateVars
    BY <1>1 DEF gateVars
  <1>2. ASSUME NEW q \in Requests, NEW a \in Subjects, NEW b \in BOOLEAN, Request(q, a, b)
        PROVE  state'[r] = state[r] /\ asked'[r] = asked[r] /\ scope'[r] = scope[r]
    BY <1>2 DEF Request, GateInv, GateTypeOK
  <1>3. ASSUME NEW q \in Requests, NEW approved \in BOOLEAN, NEW sc \in Scopes,
               Resolve(q, approved, sc)
        PROVE  state'[r] = state[r] /\ asked'[r] = asked[r] /\ scope'[r] = scope[r]
    BY <1>3 DEF Resolve, GateInv, GateTypeOK
  <1>4. ASSUME NEW R \in SUBSET Requests, Abort(R)
        PROVE  state'[r] = state[r] /\ asked'[r] = asked[r] /\ scope'[r] = scope[r]
    BY <1>4 DEF Abort
  <1>5. ASSUME NEW k \in Sessions, DenyPending(k)
        PROVE  state'[r] = state[r] /\ asked'[r] = asked[r] /\ scope'[r] = scope[r]
    BY <1>5 DEF DenyPending
  <1>6. ASSUME NEW l \in Levels, SetLevel(l)
        PROVE  state'[r] = state[r] /\ asked'[r] = asked[r] /\ scope'[r] = scope[r]
    BY <1>6 DEF SetLevel
  <1>7. ASSUME NEW K \in SUBSET Sessions, ClearGrants(K)
        PROVE  state'[r] = state[r] /\ asked'[r] = asked[r] /\ scope'[r] = scope[r]
    BY <1>7 DEF ClearGrants
  <1>8. QED
    BY <1>1, <1>2, <1>3, <1>4, <1>5, <1>6, <1>7 DEF GateNext

\* resolve() and the abort listener in approval-gate.ts: first come, only
\* served.
THEOREM DecisionsFinal == GateSpec => DecidedOnce
  <1>1. GateInv /\ [GateNext]_gateVars =>
            [\A r \in Requests : state[r] \notin {"unused", "pending"} =>
                state'[r] = state[r] /\ asked'[r] = asked[r] /\ scope'[r] = scope[r]]_gateVars
    BY DecidedStep
  <1>2. QED
    BY <1>1, GateInvariance, PTL DEF GateSpec, DecidedOnce

=============================================================================
