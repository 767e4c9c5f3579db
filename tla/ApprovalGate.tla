----------------------------- MODULE ApprovalGate -----------------------------
(***************************************************************************)
(* The gate every dangerous tool call asks before it runs.  A request is   *)
(* approved at once when the standing level covers its category or the     *)
(* operator granted the category, or the shell command, for the session;   *)
(* else it waits for resolve() or for the abort signal of its turn.        *)
(*                                                                         *)
(* The life of a request:                                                  *)
(*   unused -> auto                                  no prompt             *)
(*          -> pending -> approved | denied          resolve()             *)
(*          -> pending -> aborted,  unused -> aborted   the signal         *)
(***************************************************************************)
EXTENDS Naturals

CONSTANTS Sessions,
          Requests,     \* approval ids, each drawn once (randomUUID)
          Categories,   \* the request categories in use
          Shapes,       \* command binaries a shell request may carry
          NoShape,      \* no commandShape
          Levels        \* the approval levels setLevel() is called with

\* The level from which a category stops asking.
AutoApproveFrom ==
    [fs_write_workspace |-> 2,
     fs_write_home |-> 3, fs_trash |-> 3, http |-> 3,
     shell |-> 4, script |-> 4, proc_kill |-> 4,
     browser_nonweb |-> 5, trust_config |-> 5, other |-> 5]

\* The categories a session grant never covers.
Ungrantable == {"trust_config"}

ASSUME GateAssumption ==
    /\ Sessions # {}
    /\ Categories # {}
    /\ Categories \subseteq DOMAIN AutoApproveFrom
    /\ Shapes \cap Categories = {}
    /\ NoShape \notin Shapes \cup Categories
    /\ Levels \subseteq 1..5
    /\ Levels # {}

VARIABLES level,     \* the standing level
          grants,    \* grantsBySession: <<session, category or shape>>
          state,     \* where each request is
          asked,     \* what each request is about
          scope      \* what its approval granted

gateVars == <<level, grants, state, asked, scope>>

\* A command shape comes with shell requests only.
Subjects == {a \in [session : Sessions, category : Categories, shape : Shapes \cup {NoShape}] :
                a.shape # NoShape => a.category = "shell"}

States == {"unused", "auto", "pending", "approved", "denied", "aborted"}
Scopes == {"once", "category", "shape"}

GateTypeOK ==
    /\ level \in Levels
    /\ grants \subseteq Sessions \X (Categories \cup Shapes)
    /\ state \in [Requests -> States]
    /\ asked \in [Requests -> Subjects]
    /\ scope \in [Requests -> Scopes]

\* What an unused request is about is of no account.
NoSubject == [session |-> CHOOSE k \in Sessions : TRUE,
              category |-> CHOOSE c \in Categories : TRUE,
              shape |-> NoShape]

GateInit ==
    /\ level \in Levels
    /\ grants = {}
    /\ state = [r \in Requests |-> "unused"]
    /\ asked = [r \in Requests |-> NoSubject]
    /\ scope = [r \in Requests |-> "once"]

-----------------------------------------------------------------------------

Granted(a) == a.category \notin Ungrantable /\
    \/ <<a.session, a.category>> \in grants
    \/ a.shape # NoShape /\ <<a.session, a.shape>> \in grants

\* Mutant: a grant of any session covers the request.
AutoApprovedAcrossSessions(a) ==
    \/ level >= AutoApproveFrom[a.category]
    \/ a.category \notin Ungrantable /\ \E k \in Sessions : <<k, a.category>> \in grants

\* The level wins, then the grants of the request's own session.
AutoApproved(a) == level >= AutoApproveFrom[a.category] \/ Granted(a)

\* request() about a.  The auto-approval comes before the look at the signal;
\* an aborted signal rejects at once.
Request(r, a, signalAborted) ==
    /\ state[r] = "unused"
    /\ asked' = [asked EXCEPT ![r] = a]
    /\ state' = [state EXCEPT ![r] =
            IF AutoApproved(a) THEN "auto"
            ELSE IF signalAborted THEN "aborted" ELSE "pending"]
    /\ UNCHANGED <<level, grants, scope>>

\* Mutant: every approval that grants no command grants the category.
RecordGrantByDefault(a, sc) ==
    IF a.category \in Ungrantable THEN {}
    ELSE IF sc = "shape" /\ a.shape # NoShape THEN {<<a.session, a.shape>>}
    ELSE {<<a.session, a.category>>}

\* recordGrant: the caller names the scope, the pending request the value.
RecordGrant(a, sc) ==
    IF a.category \in Ungrantable THEN {}
    ELSE CASE sc = "category" -> {<<a.session, a.category>>}
           [] sc = "shape" /\ a.shape # NoShape -> {<<a.session, a.shape>>}
           [] OTHER -> {}

\* Mutant: a decision is applied whatever became of the request.
ResolveAnyway(r, approved, sc) ==
    /\ state' = [state EXCEPT ![r] = IF approved THEN "approved" ELSE "denied"]
    /\ IF approved
       THEN /\ scope' = [scope EXCEPT ![r] = sc]
            /\ grants' = grants \cup RecordGrant(asked[r], sc)
       ELSE UNCHANGED <<grants, scope>>
    /\ UNCHANGED <<level, asked>>

\* resolve(): no effect on a request that is not pending any more.
Resolve(r, approved, sc) ==
    /\ IF state[r] # "pending"
       THEN UNCHANGED <<state, grants, scope>>
       ELSE /\ state' = [state EXCEPT ![r] = IF approved THEN "approved" ELSE "denied"]
            /\ IF approved
               THEN /\ scope' = [scope EXCEPT ![r] = sc]
                    /\ grants' = grants \cup RecordGrant(asked[r], sc)
               ELSE UNCHANGED <<grants, scope>>
    /\ UNCHANGED <<level, asked>>

\* Mutant: the gate does not listen to the signal.
AbortUnheard(R) == R \subseteq Requests /\ UNCHANGED gateVars

\* The signals of the requests R fire: their abort listeners take the pending
\* ones out and reject.
Abort(R) ==
    /\ state' = [r \in Requests |->
            IF r \in R /\ state[r] = "pending" THEN "aborted" ELSE state[r]]
    /\ UNCHANGED <<level, grants, asked, scope>>

\* denyPendingForSession.
DenyPending(k) ==
    /\ state' = [r \in Requests |->
            IF state[r] = "pending" /\ asked[r].session = k THEN "denied" ELSE state[r]]
    /\ UNCHANGED <<level, grants, asked, scope>>

SetLevel(l) == level' = l /\ UNCHANGED <<grants, state, asked, scope>>

\* clearSessionGrants for the sessions K.
ClearGrants(K) ==
    /\ grants' = {g \in grants : g[1] \notin K}
    /\ UNCHANGED <<level, state, asked, scope>>

GateNext ==
    \/ \E r \in Requests, a \in Subjects, b \in BOOLEAN : Request(r, a, b)
    \/ \E r \in Requests, approved \in BOOLEAN, sc \in Scopes : Resolve(r, approved, sc)
    \/ \E R \in SUBSET Requests : Abort(R)
    \/ \E k \in Sessions : DenyPending(k)
    \/ \E l \in Levels : SetLevel(l)
    \/ \E K \in SUBSET Sessions : ClearGrants(K)

GateSpec == GateInit /\ [][GateNext]_gateVars

-----------------------------------------------------------------------------

\* The operator approved request q and granted what request a needs: the same
\* category, or the same command, in the same session.
Covers(q, a) ==
    /\ state[q] = "approved"
    /\ asked[q].session = a.session
    /\ asked[q].category \notin Ungrantable
    /\ \/ scope[q] = "category" /\ asked[q].category = a.category
       \/ scope[q] = "shape" /\ asked[q].shape = a.shape /\ a.shape # NoShape

\* Every grant the gate holds goes back to a prompt the operator approved with
\* that scope, in the session the grant is for.
GrantsAreEarned == \A g \in grants : \E q \in Requests :
    /\ state[q] = "approved"
    /\ asked[q].session = g[1]
    /\ asked[q].category \notin Ungrantable
    /\ \/ scope[q] = "category" /\ asked[q].category = g[2]
       \/ scope[q] = "shape" /\ asked[q].shape = g[2]

\* A call runs without a prompt only where the standing level covers it or the
\* operator granted that much to the same session: no other session's grant, no
\* wider scope, and never for the agent's own trust configuration.
AutoIsEarned == [][\A r \in Requests : state[r] = "unused" /\ state'[r] = "auto" =>
    \/ level >= AutoApproveFrom[asked'[r].category]
    \/ \E q \in Requests : Covers(q, asked'[r])]_gateVars

\* A decision is final: whichever of operator, timeout, abort and session
\* switch came first, the others change neither it nor what it granted.
DecidedOnce == [][\A r \in Requests : state[r] \notin {"unused", "pending"} =>
    state'[r] = state[r] /\ asked'[r] = asked[r] /\ scope'[r] = scope[r]]_gateVars

=============================================================================
