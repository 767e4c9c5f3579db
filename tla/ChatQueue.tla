------------------------------ MODULE ChatQueue ------------------------------
(***************************************************************************)
(* The terminal chat: one visible thread, the messages parked behind its   *)
(* turn, and the turns the operator left running in other threads.         *)
(* src/src/tui/chat-orchestrator.ts: ChatOrchestrator;                     *)
(* src/src/tui/detached-turns.ts: DetachedTurns.                           *)
(*                                                                         *)
(* A turn is named by the message that started it, and so is its abort     *)
(* handle.  The runtime below (turn queue, steering inbox, store) appears  *)
(* as its callers see it: a turn waits for its session, opens its steering *)
(* window, reads steers at step boundaries, closes the window and returns  *)
(* what it did not read.  Turns of other origins (scheduler, Telegram,     *)
(* HTTP) share the sessions.                                               *)
(***************************************************************************)
EXTENDS Integers, SequencesExt

CONSTANTS
    Sessions,       \* session ids
    NoSession,
    MaxTyped,       \* bound on the messages the operator types
    MaxQueued,      \* MAX_QUEUED_MESSAGES
    InboxSize       \* steers a turn takes between two step boundaries

ASSUME ChatAssumption ==
    /\ NoSession \notin Sessions
    /\ MaxTyped \in Nat /\ MaxQueued \in Nat \ {0} /\ InboxSize \in Nat \ {0}

Msgs == 1..MaxTyped
NoTurn == 0

VARIABLES
    session,        \* the visible session
    current,        \* currentController: the turn Esc aborts
    queue,          \* parked messages
    steeredAhead,   \* leading entries of queue that are re-routed steers
    detached,       \* DetachedTurns: session -> turn
    quitting,
    stored,         \* rows of the session store
    grants,         \* sessions with session-scoped approval grants
    phase,          \* of the turn a message started
    home,           \* session that turn runs in
    aborted,        \* turns whose signal is aborted
    cancelled,      \* turns that closed as "cancelled"
    inbox,          \* steers a turn has accepted and not read
    foreign,        \* sessions a turn of another origin holds
    typed,          \* messages typed so far
    aimed,          \* (history) session a message was typed for
    fate,           \* (history) what became of a message
    ahead,          \* (history) messages re-routed as steers for the current turn
    deleted,        \* (history) sessions the operator deleted
    stranded,       \* (history) a blocked turn left messages parked behind no turn
    stale           \* (history) the turn in view was returned to while steeredAhead
                    \* still counted the steers of another one

uiVars == <<session, current, queue, steeredAhead, detached, quitting, grants>>
turnVars == <<phase, home, aborted, cancelled, inbox>>
envVars == <<stored, foreign, deleted>>
vars == <<uiVars, turnVars, envVars, typed, aimed, fate, ahead, stranded, stale>>

Fates == {"untyped", "parked", "running", "steered", "ran", "read", "told",
          "cleared", "elsewhere", "lost", "silent"}

TypeOK ==
    /\ session \in Sessions \cup {NoSession}
    /\ current \in Msgs \cup {NoTurn}
    /\ queue \in Seq(Msgs) /\ steeredAhead \in 0..MaxTyped
    /\ detached \in [Sessions -> Msgs \cup {NoTurn}]
    /\ {quitting, stranded, stale} \subseteq BOOLEAN
    /\ {stored, grants, foreign, deleted} \subseteq SUBSET Sessions
    /\ phase \in [Msgs -> {"none", "early", "open", "closed"}]
    /\ home \in [Msgs -> Sessions \cup {NoSession}]
    /\ aimed \in [Msgs -> Sessions \cup {NoSession}]
    /\ {aborted, cancelled, ahead} \subseteq SUBSET Msgs
    /\ inbox \in [Msgs -> Seq(Msgs)]
    /\ fate \in [Msgs -> Fates] /\ typed \in 0..MaxTyped

\* The terminal as it opens, over a store that may hold threads already.
Init ==
    /\ session = NoSession /\ current = NoTurn /\ queue = <<>> /\ steeredAhead = 0
    /\ detached = [s \in Sessions |-> NoTurn]
    /\ quitting = FALSE /\ grants = {}
    /\ stored \in SUBSET Sessions
    /\ foreign = {} /\ deleted = {}
    /\ phase = [m \in Msgs |-> "none"] /\ home = [m \in Msgs |-> NoSession]
    /\ aborted = {} /\ cancelled = {}
    /\ inbox = [m \in Msgs |-> <<>>]
    /\ typed = 0
    /\ aimed = [m \in Msgs |-> NoSession]
    /\ fate = [m \in Msgs |-> "untyped"]
    /\ ahead = {} /\ stranded = FALSE /\ stale = FALSE

-----------------------------------------------------------------------------

Running(m) == phase[m] # "none"
\* TurnController.isBusy.
IsBusy(s) == s \in foreign \/ \E m \in Msgs : home[m] = s /\ phase[m] \in {"open", "closed"}
Mark(f, S, what) == [m \in Msgs |-> IF m \in S THEN what ELSE f[m]]
FreshIds == Sessions \ (stored \cup deleted)

\* runOneTurn up to its first await, for message m in session s.  A turn the
\* local model gate blocks does not start: its text goes back to the editor,
\* or, drained from the queue, is dropped with a notice.
Launch(m, blocked, marked) ==
    IF blocked THEN
        /\ current' = NoTurn
        /\ fate' = Mark(marked, {m}, "told")
        /\ UNCHANGED <<steeredAhead, ahead, stale>>
    ELSE
        /\ current' = m
        /\ steeredAhead' = 0
        /\ ahead' = {} /\ stale' = FALSE
        /\ fate' = Mark(marked, {m}, "running")

\* The turn variables of a launched turn, over those its starter has set.
LaunchTurn(m, s, blocked, ph) ==
    /\ phase' = IF blocked THEN ph ELSE [ph EXCEPT ![m] = "early"]
    /\ home' = IF blocked THEN home ELSE [home EXCEPT ![m] = s]

\* ensureSession: the first message of the terminal creates its session.
Visible(s) == IF session = NoSession THEN s \in FreshIds ELSE s = session

Type(m, s) ==
    /\ ~quitting /\ typed < MaxTyped
    /\ m = typed + 1
    /\ typed' = m
    /\ Visible(s)
    /\ session' = s
    /\ stored' = IF session = NoSession THEN stored \cup {s} ELSE stored
    /\ aimed' = [aimed EXCEPT ![m] = s]
    /\ UNCHANGED <<detached, quitting, grants, foreign, deleted, stranded>>

\* A message with no turn on the visible thread runs at once.
RunNow(m, s) ==
    /\ \E blocked \in BOOLEAN :
        Launch(m, blocked, fate) /\ LaunchTurn(m, s, blocked, phase)
    /\ UNCHANGED <<queue, aborted, cancelled, inbox>>

\* A full queue hands the text back to the editor.
Refuse(m) ==
    /\ Len(queue) >= MaxQueued
    /\ fate' = [fate EXCEPT ![m] = "told"]
    /\ UNCHANGED <<current, queue, steeredAhead, turnVars, ahead, stale>>

\* sendMessage.
SendMessage(m, s) ==
    /\ Type(m, s)
    /\ \/ current = NoTurn /\ RunNow(m, s)
       \/ current # NoTurn /\ Refuse(m)
       \/ /\ current # NoTurn /\ Len(queue) < MaxQueued
          /\ queue' = Append(queue, m)
          /\ fate' = [fate EXCEPT ![m] = "parked"]
          /\ UNCHANGED <<current, steeredAhead, turnVars, ahead, stale>>

\* Turns on s whose window is open and has room.
Takers(s) == {t \in Msgs : phase[t] = "open" /\ home[t] = s /\ Len(inbox[t]) < InboxSize}

\* Mutant: the newest steer in front of the others.
QueueAsSteerFirst(m) ==
    /\ queue' = <<m>> \o queue
    /\ UNCHANGED steeredAhead

\* queueAsSteer.
QueueAsSteer(m) ==
    /\ queue' = InsertAt(queue, IF steeredAhead <= Len(queue) THEN steeredAhead + 1
                                ELSE Len(queue) + 1, m)
    /\ steeredAhead' = steeredAhead + 1

\* steerMessage: the inbox first, then the front of the queue, then a turn.
SteerMessage(m, s) ==
    /\ Type(m, s)
    /\ \/ \E t \in Takers(s) :
            /\ inbox' = [inbox EXCEPT ![t] = Append(@, m)]
            /\ fate' = [fate EXCEPT ![m] = "steered"]
            /\ UNCHANGED <<current, queue, steeredAhead, phase, home, aborted, cancelled,
                           ahead, stale>>
       \/ /\ s \in foreign
          /\ fate' = [fate EXCEPT ![m] = "elsewhere"]
          /\ UNCHANGED <<current, queue, steeredAhead, turnVars, ahead, stale>>
       \/ /\ Takers(s) = {}
          /\ \/ current # NoTurn /\ Refuse(m)
             \/ /\ current # NoTurn /\ Len(queue) < MaxQueued
                /\ QueueAsSteer(m)
                /\ fate' = [fate EXCEPT ![m] = "parked"]
                /\ ahead' = ahead \cup {m}
                /\ UNCHANGED <<current, turnVars, stale>>
             \/ current = NoTurn /\ RunNow(m, s)

\* abortCurrentTurn: Esc stops the agent, the parked messages go with a notice.
AbortCurrentTurn ==
    /\ current # NoTurn \/ queue # <<>>
    /\ queue' = <<>>
    /\ fate' = Mark(fate, Range(queue), "told")
    /\ aborted' = aborted \cup ({current} \ {NoTurn})
    /\ UNCHANGED <<session, current, steeredAhead, detached, quitting, grants, phase, home,
                   cancelled, inbox, envVars, typed, aimed, ahead, stale, stranded>>

\* /queue clear.
ClearQueue ==
    /\ queue # <<>> \/ steeredAhead # 0
    /\ queue' = <<>> /\ steeredAhead' = 0 /\ stale' = FALSE
    /\ fate' = Mark(fate, Range(queue), "cleared")
    /\ UNCHANGED <<session, current, detached, quitting, grants, turnVars, envVars, typed,
                   aimed, ahead, stranded>>

-----------------------------------------------------------------------------

\* Mutant: the parked messages come along.
QueueKept(fresh) == queue

\* What stays parked when the operator leaves the visible thread.  Opening a
\* new thread empties the queue as well.
QueueAfterLeave(fresh) == IF current = NoTurn /\ ~fresh THEN queue ELSE <<>>

\* Mutant: the handle of the turn left behind is forgotten.
ParkNothing == detached

\* DetachedTurns.park: the turn in flight keeps its handle under its thread.
Park == IF current = NoTurn THEN detached ELSE [detached EXCEPT ![session] = current]

\* leaveCurrentSession, then the session that takes its place and take(), the
\* handle of a turn left there earlier.  With a turn of this terminal in flight
\* the messages behind it are dropped with a notice; without one the grants of
\* the thread end, and a new thread drops what is parked without a word.
LeaveFor(s, fresh) ==
    /\ queue' = QueueAfterLeave(fresh)
    /\ fate' = Mark(fate, Range(queue) \ Range(queue'),
                    IF current = NoTurn THEN "silent" ELSE "told")
    /\ steeredAhead' = IF current = NoTurn /\ ~fresh THEN steeredAhead ELSE 0
    /\ grants' = IF current = NoTurn THEN grants \ {session} ELSE grants
    /\ current' = Park[s]
    /\ detached' = [Park EXCEPT ![s] = NoTurn]
    /\ session' = s
    /\ ahead' = {}
    /\ stale' = (current' # NoTurn /\ steeredAhead' # 0)
    /\ UNCHANGED <<quitting, turnVars, foreign, typed, aimed, stranded>>

\* newSession.
NewSession(s) ==
    /\ ~quitting
    /\ s \in FreshIds
    /\ LeaveFor(s, TRUE)
    /\ stored' = stored \cup {s}
    /\ UNCHANGED deleted

\* switchSession; on the thread that is open, mid-run, it does nothing.
SwitchSession(s) ==
    /\ ~quitting
    /\ s \in stored
    /\ ~(current # NoTurn /\ session = s)
    /\ LeaveFor(s, FALSE)
    /\ UNCHANGED <<stored, deleted>>

\* Mutant: only the runtime is asked, which a turn about to start has not told.
MayDeleteDetached(s) ==
    /\ ~(current # NoTurn /\ session = s)
    /\ ~IsBusy(s)

\* The three refusals of deleteSession.
MayDelete(s) ==
    /\ ~(current # NoTurn /\ session = s)
    /\ detached[s] = NoTurn
    /\ ~IsBusy(s)

\* deleteSession; deleting the visible thread opens a new one.
DeleteSession(s) ==
    /\ ~quitting
    /\ s \in stored /\ MayDelete(s)
    /\ deleted' = deleted \cup {s}
    /\ IF session = s THEN
          \E new \in FreshIds \ {s} : LeaveFor(new, TRUE) /\ stored' = (stored \ {s}) \cup {new}
       ELSE
          /\ stored' = stored \ {s}
          /\ UNCHANGED <<uiVars, turnVars, foreign, typed, aimed, fate, ahead, stale, stranded>>

\* quit.
Quit ==
    /\ ~quitting
    /\ quitting' = TRUE
    /\ queue' = <<>> /\ steeredAhead' = 0
    /\ fate' = Mark(fate, Range(queue), "silent")
    /\ aborted' = aborted \cup (({current} \cup {detached[s] : s \in Sessions}) \ {NoTurn})
    /\ detached' = [s \in Sessions |-> NoTurn]
    /\ UNCHANGED <<session, current, grants, phase, home, cancelled, inbox, envVars, typed,
                   aimed, ahead, stale, stranded>>

\* "Allow for this session", answered for the visible thread.
Grant ==
    /\ session # NoSession /\ IsBusy(session)
    /\ grants' = grants \cup {session}
    /\ UNCHANGED <<session, current, queue, steeredAhead, detached, quitting, turnVars, envVars,
                   typed, aimed, fate, ahead, stale, stranded>>

-----------------------------------------------------------------------------

\* The turn gets its session and opens its steering window.
TurnOpens(t) ==
    /\ phase[t] = "early"
    /\ ~IsBusy(home[t])
    /\ phase' = [phase EXCEPT ![t] = "open"]
    /\ UNCHANGED <<uiVars, home, aborted, cancelled, inbox, envVars, typed, aimed, fate, ahead,
                   stale, stranded>>

\* A step boundary: the turn reads its steers.
TurnReads(t) ==
    /\ phase[t] = "open" /\ inbox[t] # <<>>
    /\ fate' = Mark(fate, Range(inbox[t]), "read")
    /\ inbox' = [inbox EXCEPT ![t] = <<>>]
    /\ UNCHANGED <<uiVars, phase, home, aborted, cancelled, envVars, typed, aimed, ahead,
                   stale, stranded>>

\* The final drain closes the window; what is in the inbox is undelivered.
TurnCloses(t) ==
    /\ phase[t] = "open"
    /\ phase' = [phase EXCEPT ![t] = "closed"]
    /\ cancelled' = IF t \in aborted THEN cancelled \cup {t} ELSE cancelled
    /\ UNCHANGED <<uiVars, home, aborted, inbox, envVars, typed, aimed, fate, ahead,
                   stale, stranded>>

\* What runOneTurn does with the steers the turn did not read: with a turn that
\* threw they are lost; a cancelled turn, or one whose thread is off screen,
\* drops them with a notice; else they go to the front of the queue.
Reroutes(t, threw) == ~threw /\ t \notin cancelled /\ home[t] = session

\* Mutant: the steers of a cancelled turn go without a notice.
SettledSilent(t, threw) ==
    Mark([fate EXCEPT ![t] = "ran"], Range(inbox[t]),
         IF threw THEN "lost" ELSE IF Reroutes(t, threw) THEN "parked" ELSE "silent")

Settled(t, threw) ==
    Mark([fate EXCEPT ![t] = "ran"], Range(inbox[t]),
         IF threw THEN "lost" ELSE IF Reroutes(t, threw) THEN "parked" ELSE "told")

\* Mutant: the steers a turn did not read are not taken out of its result.
BacklogAlone(t, threw) == queue

\* The queue the ended turn is followed by.
Backlog(t, threw) == IF Reroutes(t, threw) THEN inbox[t] \o queue ELSE queue

\* Mutant: a turn that ends off screen leaves its grants.
GrantsKept(t) == grants

\* DetachedTurns.release: the end of a turn off screen ends the grants of its
\* thread.
GrantsAfter(t) == IF detached[home[t]] = t THEN grants \ {home[t]} ELSE grants

\* The rest of runOneTurn after its await.  A turn aborted before it held the
\* session throws; one that ran saves its session, unless saving throws.
TurnEnds(t, threw) ==
    /\ phase[t] = "closed" \/ (phase[t] = "early" /\ t \in aborted /\ threw)
    /\ stored' = IF threw THEN stored ELSE stored \cup {home[t]}
    /\ inbox' = [inbox EXCEPT ![t] = <<>>]
    /\ cancelled' = cancelled \ {t}
    /\ aborted' = aborted \ {t}
    /\ detached' = [s \in Sessions |-> IF detached[s] = t THEN NoTurn ELSE detached[s]]
    /\ grants' = GrantsAfter(t)
    /\ LET settled == Settled(t, threw)
           rest == Backlog(t, threw)
           ended == [phase EXCEPT ![t] = "none"]
       IN
        \/ /\ home[t] # session
           /\ fate' = settled /\ phase' = ended
           /\ UNCHANGED <<current, queue, steeredAhead, home, ahead, stale, stranded>>
        \/ /\ home[t] = session /\ (rest = <<>> \/ quitting)
           /\ current' = IF current = t THEN NoTurn ELSE current
           /\ queue' = IF rest = <<>> THEN <<>> ELSE Tail(rest)
           /\ fate' = IF rest = <<>> THEN settled ELSE Mark(settled, {Head(rest)}, "silent")
           /\ phase' = ended
           /\ UNCHANGED <<steeredAhead, home, ahead, stale, stranded>>
        \/ /\ home[t] = session /\ rest # <<>> /\ ~quitting
           /\ queue' = Tail(rest)
           /\ \E blocked \in BOOLEAN :
                /\ Launch(Head(rest), blocked, settled)
                /\ LaunchTurn(Head(rest), session, blocked, ended)
                /\ stranded' = (stranded \/ (blocked /\ Tail(rest) # <<>>))
    /\ UNCHANGED <<session, quitting, foreign, deleted, typed, aimed>>

\* Turns of other origins: a scheduled task, Telegram, HTTP.
ForeignStarts(s) ==
    /\ s \in stored /\ ~IsBusy(s)
    /\ foreign' = foreign \cup {s}
    /\ UNCHANGED <<uiVars, turnVars, stored, deleted, typed, aimed, fate, ahead, stale, stranded>>

ForeignEnds(s) ==
    /\ s \in foreign
    /\ foreign' = foreign \ {s}
    /\ stored' = stored \cup {s}
    /\ UNCHANGED <<uiVars, turnVars, deleted, typed, aimed, fate, ahead, stale, stranded>>

Next ==
    \/ \E m \in Msgs, s \in Sessions : SendMessage(m, s) \/ SteerMessage(m, s)
    \/ AbortCurrentTurn \/ ClearQueue \/ Quit \/ Grant
    \/ \E s \in Sessions :
        NewSession(s) \/ SwitchSession(s) \/ DeleteSession(s) \/ ForeignStarts(s) \/ ForeignEnds(s)
    \/ \E t \in Msgs :
        \/ TurnOpens(t) \/ TurnReads(t) \/ TurnCloses(t)
        \/ \E threw \in BOOLEAN : TurnEnds(t, threw)

Spec == Init /\ [][Next]_vars

-----------------------------------------------------------------------------

\* Every turn this terminal started can be stopped: Esc, a switch back or quit
\* reaches its handle until it ends or is aborted, no session has two, and no
\* handle outlives its turn or points into another thread.
EveryTurnHasItsHandle ==
    /\ \A t \in Msgs : Running(t) /\ t \notin aborted => t \in {current, detached[home[t]]}
    /\ current # NoTurn => Running(current) /\ home[current] = session
    /\ \A s \in Sessions : detached[s] # NoTurn => Running(detached[s]) /\ home[detached[s]] = s
    /\ \A t, u \in Msgs : Running(t) /\ Running(u) /\ home[t] = home[u] => t = u

\* A message runs in the thread it was typed for, whatever the operator opened
\* meanwhile.
RunsWhereItWasTyped == \A t \in Msgs : Running(t) => home[t] = aimed[t]

\* Parked messages wait behind a turn of the thread they were typed for, so
\* that nothing typed later overtakes them.
ParkedBehindTurn == ~stranded /\ ~quitting =>
    /\ queue # <<>> => current # NoTurn
    /\ \A m \in Range(queue) : aimed[m] = session

\* The steers among the parked messages run before the others, in typing order.
SteersFirst == \A i, j \in DOMAIN queue :
    i < j /\ queue[j] \in ahead => queue[i] \in ahead /\ queue[i] < queue[j]

\* Messages re-routed as steers for the current turn run before the backlog and
\* in typing order, until that turn is aborted; a turn the operator returned to
\* with a stale watermark is left out.
SteersRunNext == current # NoTurn /\ current \notin aborted /\ ~stale => SteersFirst

\* "ahead of ordinary backlog, behind steers already re-routed for the same
\* turn", with no turn left out.
NoSteerBehindBacklog == current # NoTurn /\ current \notin aborted => SteersFirst

\* Where a message is agrees with what became of it: it is parked, steered or
\* running exactly while it stands in the queue, in an inbox or has a turn.
InItsPlace(m) ==
    /\ fate[m] = "untyped" <=> m > typed
    /\ fate[m] = "parked" <=> m \in Range(queue)
    /\ fate[m] = "steered" <=> \E t \in Msgs : m \in Range(inbox[t])
    /\ fate[m] = "running" <=> Running(m)

\* A message the operator saw accepted never disappears without a word but by
\* quitting: it waits, runs, is read, comes back or is announced as dropped.
\* Left out are the steers lost with a turn that throws, and what stood behind a
\* drained message the model gate blocked.
NothingVanishes ==
    /\ [](\A m \in Msgs : InItsPlace(m))
    /\ [][\A m \in Msgs : fate'[m] = "silent" /\ fate[m] # "silent" => quitting' \/ stranded]_vars

\* Exceptions granted "for this session" end with the visit: off screen only a
\* turn this terminal left running keeps them.
GrantsEndWithTheVisit ==
    ~quitting => \A s \in grants : s = session \/ detached[s] # NoTurn

\* A deleted thread stays deleted: no turn in flight saves it again.
DeletedStaysDeleted == deleted \cap stored = {}
=============================================================================
