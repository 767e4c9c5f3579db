--------------------------- MODULE TelegramApprovals ---------------------------
(***************************************************************************)
(* The Telegram channel: messages of one chat become turns of the session  *)
(* the channel points at, the turns ask the approval gate, and the channel *)
(* shows the prompts as inline keyboards with an auto-deny timer.          *)
(*                                                                         *)
(* The life of a prompt:                                                   *)
(*   none -> host                     the host's own surface shows it      *)
(*        -> sending -> armed         delivered, timer running             *)
(*        -> settled                  clicked, timed out or undeliverable  *)
(*   armed -> cut                     stop() cancelled its timer           *)
(*   sending -> stray -> strayArmed   sent by a bridge stop() let go of:   *)
(*                                    its timer runs, its buttons are dead *)
(***************************************************************************)
EXTENDS ApprovalGate, FiniteSets

CONSTANTS Subs,        \* the messages of the chat, each a submission
          NoSub, NoSession,
          MaxStops     \* bound on stop()

ASSUME ChannelAssumption ==
    /\ NoSub \notin Subs
    /\ NoSession \notin Sessions
    /\ Requests \subseteq Nat
    /\ Subs \subseteq Nat
    /\ Sessions \subseteq Nat
    /\ MaxStops \in Nat

VARIABLES pc, sess, prev, released, queues, hooks, busy, ahead
VARIABLES aborted,     \* messages whose AbortController has fired
          inflight,    \* the chat's slot of the inflight map
          current,     \* TelegramSessionPointer.current
          bound,       \* the session of approvalSubscription
          channel,     \* the channel's state
          stops,       \* history: calls of stop()
          displaced,   \* history: messages whose slot a later one took
          owner,       \* the turn that made each request
          prompt       \* where each request's prompt is

\* Every message comes with a signal and an event hook.
Queue == INSTANCE TurnController WITH Hooked <- Subs, Signalled <- Subs

queueVars == <<pc, sess, prev, released, queues, hooks, busy, ahead>>
chatVars == <<aborted, inflight, current, displaced>>
linkVars == <<bound, channel, stops>>
promptVars == <<owner, prompt>>
vars == <<queueVars, gateVars, chatVars, linkVars, promptVars>>

Prompts == {"none", "host", "sending", "armed", "stray", "strayArmed", "cut", "settled"}

TypeOK ==
    /\ Queue!TypeOK
    /\ GateTypeOK
    /\ aborted \subseteq Subs
    /\ inflight \in Subs \cup {NoSub}
    /\ current \in Sessions \cup {NoSession}
    /\ bound \in Sessions \cup {NoSession}
    /\ channel \in {"up", "stopping", "down"}
    /\ stops \in 0..MaxStops
    /\ displaced \subseteq Subs
    /\ owner \in [Requests -> Subs \cup {NoSub}]
    /\ prompt \in [Requests -> Prompts]

Init ==
    /\ Queue!Init
    /\ GateInit
    /\ aborted = {}
    /\ inflight = NoSub
    /\ current = NoSession
    /\ bound = NoSession
    /\ channel = "up"
    /\ stops = 0
    /\ displaced = {}
    /\ owner = [r \in Requests |-> NoSub]
    /\ prompt = [r \in Requests |-> "none"]

RequestsOf(m) == {r \in Requests : owner[r] = m}
Parked(m) == \E r \in RequestsOf(m) : state[r] = "pending"

-----------------------------------------------------------------------------
(* The chat.                                                               *)

Used == {sess[n] : n \in {n \in Subs : pc[n] # "idle"}}

\* createSession: a new session, numbered as it is created.
FreshSession(k) == k \notin Used /\ \A j \in Sessions \ Used : k <= j

\* ensureApprovalSession: the router sends the prompts of session k to the
\* bridge; stop() has taken the bridge away.
Bind(k) == bound' = IF channel = "up" THEN k ELSE NoSession

\* dispatchToRuntime up to its first await: the pointer's session, or a fresh
\* one; the approval router bound to it; the chat's slot; the queue.  Messages
\* are numbered as they arrive.
Message(m) ==
    /\ channel # "down"
    /\ \A n \in Subs : n < m => pc[n] # "idle"
    /\ IF current # NoSession THEN sess[m] = current ELSE FreshSession(sess[m])
    /\ Queue!Enqueue(m)
    /\ current' = sess[m]
    /\ Bind(sess[m])
    /\ inflight' = m
    /\ displaced' = displaced \cup ({inflight} \ {NoSub})
    /\ UNCHANGED <<gateVars, aborted, channel, stops, promptVars>>

\* "/new".
NewSession ==
    /\ channel # "down"
    /\ current # NoSession
    /\ current' = NoSession
    /\ UNCHANGED <<queueVars, gateVars, aborted, inflight, displaced, linkVars, promptVars>>

\* The controller of m fires: the queue and the gate listen to its signal.
AbortController(m) ==
    /\ aborted' = aborted \cup {m}
    /\ IF pc[m] = "waiting" THEN Queue!AbortWaiting(m) ELSE UNCHANGED queueVars
    /\ Abort(RequestsOf(m))

\* "/cancel" aborts what the slot holds, the chat's last message.
CancelCommand ==
    /\ channel # "down"
    /\ inflight \in Subs \ aborted
    /\ AbortController(inflight)
    /\ UNCHANGED <<inflight, current, displaced, linkVars, promptVars>>

\* The finally block of dispatchToRuntime.
FreeSlot(m) ==
    /\ inflight' = IF inflight = m THEN NoSub ELSE inflight
    /\ UNCHANGED <<gateVars, aborted, current, displaced, linkVars, promptVars>>

DropTurn(m) == Queue!DropAborted(m) /\ FreeSlot(m)

StartTurn(m) ==
    /\ Queue!StartRun(m)
    /\ UNCHANGED <<gateVars, chatVars, linkVars, promptVars>>

\* A turn ends when it waits for nothing.
EndTurn(m) ==
    /\ ~ Parked(m)
    /\ Queue!FinishRun(m)
    /\ FreeSlot(m)

-----------------------------------------------------------------------------
(* Prompts.                                                                *)

\* ApprovalRouter.emit: the bridge when bound to session k, else the host.
Route(k) == IF bound = k THEN "sending" ELSE "host"

\* A tool call of turn m asks the gate, also after the turn was aborted (the
\* loop looks at the signal between calls).  Ids are drawn in order.
Ask(m, r) == \E a \in Subjects :
    /\ pc[m] = "running"
    /\ ~ Parked(m)
    /\ a.session = sess[m]
    /\ \A q \in Requests : q < r => state[q] # "unused"
    /\ Request(r, a, m \in aborted)
    /\ owner' = [owner EXCEPT ![r] = m]
    /\ prompt' = [prompt EXCEPT ![r] =
            IF state'[r] = "pending" THEN Route(sess[m]) ELSE "settled"]
    /\ UNCHANGED <<queueVars, chatVars, linkVars>>

\* sendMessage returned a message id.
SendDelivered(r) ==
    /\ prompt[r] \in {"sending", "stray"}
    /\ prompt' = [prompt EXCEPT ![r] = IF @ = "sending" THEN "armed" ELSE "strayArmed"]
    /\ UNCHANGED <<queueVars, gateVars, chatVars, linkVars, owner>>

\* The prompt of r is done with and the gate gets the answer.
Settle(r, approved) ==
    /\ prompt' = [prompt EXCEPT ![r] = "settled"]
    /\ Resolve(r, approved, "once")
    /\ UNCHANGED <<queueVars, chatVars, linkVars, owner>>

\* Mutant: a prompt that could not be sent is logged only.
SendFailsSilently(r) ==
    /\ prompt[r] \in {"sending", "stray"}
    /\ prompt' = [prompt EXCEPT ![r] = "settled"]
    /\ UNCHANGED <<queueVars, gateVars, chatVars, linkVars, owner>>

\* sendMessage failed, or returned no message id.
SendFails(r) == prompt[r] \in {"sending", "stray"} /\ Settle(r, FALSE)

\* The owner presses a button; the bridge of a stopped channel hears nothing.
Click(r, approved) ==
    /\ channel = "up"
    /\ prompt[r] = "armed"
    /\ Settle(r, approved)

Timeout(r) == prompt[r] \in {"armed", "strayArmed"} /\ Settle(r, FALSE)

\* The host's surface answers what was routed to it; it offers to grant a
\* command only where there is one.
HostAnswers(r, approved, sc) ==
    /\ prompt[r] = "host"
    /\ state[r] = "pending"
    /\ sc = "shape" => asked[r].shape # NoShape
    /\ prompt' = [prompt EXCEPT ![r] = "settled"]
    /\ Resolve(r, approved, sc)
    /\ UNCHANGED <<queueVars, chatVars, linkVars, owner>>

\* The host leaves session k, which it had open too, or moves the level.
HostLeaves(k) ==
    /\ DenyPending(k) \/ ClearGrants({k})
    /\ UNCHANGED <<queueVars, chatVars, linkVars, promptVars>>

HostSetsLevel ==
    /\ \E l \in Levels : SetLevel(l)
    /\ UNCHANGED <<queueVars, chatVars, linkVars, promptVars>>

-----------------------------------------------------------------------------
(* The channel's lifecycle.                                                *)

\* ApprovalBridge.cancelAll: timers are cancelled and forgotten; a dispatch
\* that still awaits sendMessage is not known to it.
CancelAll == prompt' = [r \in Requests |->
    CASE prompt[r] = "armed" -> "cut"
      [] prompt[r] = "sending" -> "stray"
      [] OTHER -> prompt[r]]

\* Mutant: the slot is cleared without aborting what it holds.
StopWithoutAbort ==
    /\ channel = "up"
    /\ stops < MaxStops
    /\ UNCHANGED <<queueVars, gateVars, aborted, current, displaced, owner>>
    /\ inflight' = NoSub
    /\ bound' = NoSession
    /\ CancelAll
    /\ channel' = "stopping"
    /\ stops' = stops + 1

\* stop() up to its await, also as the first half of restart().
Stop ==
    /\ channel = "up"
    /\ stops < MaxStops
    /\ IF inflight # NoSub
       THEN AbortController(inflight)
       ELSE UNCHANGED <<queueVars, gateVars, aborted>>
    /\ inflight' = NoSub
    /\ bound' = NoSession
    /\ CancelAll
    /\ channel' = "stopping"
    /\ stops' = stops + 1
    /\ UNCHANGED <<current, displaced, owner>>

\* Polling has ended.
BotStopped ==
    /\ channel = "stopping"
    /\ channel' = "down"
    /\ UNCHANGED <<queueVars, gateVars, chatVars, bound, stops, promptVars>>

\* start() with a new bot and a new bridge.
Start ==
    /\ channel = "down"
    /\ channel' = "up"
    /\ UNCHANGED <<queueVars, gateVars, chatVars, bound, stops, promptVars>>

Next ==
    \/ \E m \in Subs :
        \/ Message(m) \/ StartTurn(m) \/ EndTurn(m) \/ DropTurn(m)
        \/ \E r \in Requests : Ask(m, r)
    \/ NewSession \/ CancelCommand
    \/ \E r \in Requests :
        \/ SendDelivered(r) \/ SendFails(r) \/ Timeout(r)
        \/ \E approved \in BOOLEAN : Click(r, approved)
        \/ \E approved \in BOOLEAN, sc \in Scopes : HostAnswers(r, approved, sc)
    \/ \E k \in Sessions : HostLeaves(k)
    \/ HostSetsLevel
    \/ Stop \/ BotStopped \/ Start

Spec == Init /\ [][Next]_vars

\* Promise reactions run, requests to Telegram return, timers fire and a turn
\* that waits for nothing ends; neither the owner nor the host owes an answer.
Fairness ==
    /\ \A m \in Subs : WF_vars(StartTurn(m)) /\ WF_vars(EndTurn(m)) /\ WF_vars(DropTurn(m))
    /\ \A r \in Requests : WF_vars(SendDelivered(r) \/ SendFails(r)) /\ WF_vars(Timeout(r))
    /\ WF_vars(BotStopped)

FairSpec == Spec /\ Fairness

-----------------------------------------------------------------------------

\* A request that waits has somebody who will answer it: the host, a message on
\* its way or a running timer.  The one exception is the prompt stop() cut from
\* a turn that a later message had taken the chat's slot from.
PromptsAreWatched == \A r \in Requests : state[r] = "pending" =>
    \/ prompt[r] \in {"host", "sending", "armed", "stray", "strayArmed"}
    \/ prompt[r] = "cut" /\ owner[r] \in displaced

\* "At most one request is pending per session by design", and where not: two
\* are pending only of two turns that overlap, and turns of a session overlap
\* only after one of its messages was cancelled while it was queued.
OnePendingPerSession == \A r, q \in Requests :
    /\ r # q
    /\ state[r] = "pending" /\ state[q] = "pending"
    /\ asked[r].session = asked[q].session
    => owner[r] # owner[q] /\ ~ Queue!NoneDropped(asked[r].session)

\* Who waits runs: a pending request belongs to a running turn whose signal has
\* not fired, so an aborted turn is never left parked.
PendingIsLive == \A r \in Requests : state[r] = "pending" =>
    owner[r] # NoSub /\ pc[owner[r]] = "running" /\ owner[r] \notin aborted

InTelegram(r) == state[r] = "pending" /\ prompt[r] # "host"

\* What was shown in the chat is decided, by the timer at the latest, unless
\* its turn had lost the chat's slot to a later message.
PromptsSettle == \A r \in Requests :
    InTelegram(r) ~> (state[r] # "pending" \/ owner[r] \in displaced)

\* The same without the exception: what cancelAll() leaves open, the "caller's
\* own abort signal" closes.
EveryPromptSettles == \A r \in Requests : InTelegram(r) ~> state[r] # "pending"

=============================================================================
