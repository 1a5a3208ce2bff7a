-------------------------- MODULE ConfirmationSaga --------------------------
(* The confirmation flow as a whole: the monolith (subscription requests,   *)
(* outbox relay, reply consumer, timeout sweeper), the notification service *)
(* and the broker between them, with their crashes and lost connections.    *)
EXTENDS SubscriptionRequests, OutboxRelay, NotificationSagaConsumer, SagaOrchestrator

vars == <<tableVars, transportVars, http, relay, handler, worker>>

TypeOK ==
  /\ TablesTypeOK
  /\ TransportTypeOK
  /\ RequestsTypeOK
  /\ RelayTypeOK
  /\ HandlerTypeOK
  /\ WorkerTypeOK

Init ==
  /\ TablesInit
  /\ TransportInit
  /\ RequestsInit
  /\ RelayInit
  /\ HandlerInit
  /\ WorkerInit

-----------------------------------------------------------------------------
(* Failures of the monolith *)

\* The socket takes what the broker has not read with it. The relay gets a new
\* channel at its next publish; nothing registers the reply consumer again.
MonolithDisconnects ==
  /\ "monolith" \in listening
  /\ Fault
  /\ listening' = listening \ {"monolith"}
  /\ wire' = [s \in Sub |-> 0]
  /\ lost' = lost \cup {s \in Sub : wire[s] > 0}
  /\ UNCHANGED <<tableVars, commands, replies, mailed, bounced, http, relay, handler, worker>>

\* The process is gone and its container starts a new one: every request, drain
\* and worker is forgotten. A command on the socket survives in its outbox row
\* while that is PENDING.
MonolithRestarts ==
  /\ listening' = listening \cup {"monolith"}
  /\ wire' = [s \in Sub |-> 0]
  /\ lost' = lost \cup {s \in Sub : wire[s] > 0 /\ outbox[s] = "SENT"}
  /\ http' = {}
  /\ relay' = [d \in Drain |-> IdleDrain]
  /\ worker' = [w \in Worker |-> IdleWorker]
  /\ UNCHANGED <<tableVars, commands, replies, mailed, bounced, handler>>

\* Also what a failing findPending or findStaleStarted comes to: both run under
\* `void` in a timer, so their rejection is unhandled.
MonolithCrash == Fault /\ MonolithRestarts

\* A sweep whose FAILED update throws rejects unhandled; a reply handler throws
\* in its catch block when the channel it acknowledges on is dead.
MonolithDies ==
  \E w \in Worker :
    \/ worker[w].pc = "nack" /\ worker[w].by = "sweep"
    \/ /\ worker[w].pc \in {"ack", "nack"} /\ worker[w].by = "reply"
       /\ "monolith" \notin listening
MonolithUnhandledRejection == MonolithDies /\ MonolithRestarts /\ UNCHANGED faults

-----------------------------------------------------------------------------
Clock == TimePasses /\ UNCHANGED <<transportVars, http, relay, handler, worker>>
Broker(s) == BrokerAccept(s) /\ UNCHANGED <<tableVars, http, relay, handler, worker>>
Requests(s) == RequestStep(s) /\ UNCHANGED <<relay, handler, worker>>
Relay(d) == RelayStep(d) /\ UNCHANGED <<http, handler, worker>>
Notification(h) == NotificationStep(h) /\ UNCHANGED <<tableVars, http, relay, worker>>
Orchestrator(w) == WorkerStep(w) /\ UNCHANGED <<http, relay, handler>>
NotificationFailure ==
  /\ NotificationDisconnects \/ NotificationCrash \/ NotificationUnhandledRejection
  /\ UNCHANGED <<tableVars, http, relay, worker>>
MonolithFailure == MonolithDisconnects \/ MonolithCrash \/ MonolithUnhandledRejection

Next ==
  \/ Clock
  \/ \E s \in Sub : Broker(s) \/ Requests(s)
  \/ \E d \in Drain : Relay(d)
  \/ \E h \in Handler : Notification(h)
  \/ \E w \in Worker : Orchestrator(w)
  \/ NotificationFailure
  \/ MonolithFailure

Spec == Init /\ [][Next]_vars

\* Time passes, the timers of the monolith fire, what has started goes on, and a
\* rejected process dies. Nobody has to subscribe, click, or answer an e-mail's
\* send, and no fault has to happen.
Fairness ==
  /\ WF_vars(Clock)
  /\ \A s \in Sub : WF_vars(Broker(s))
  /\ \A d \in Drain : WF_vars(Relay(d))
  /\ \A w \in Worker : WF_vars(Orchestrator(w))
  /\ WF_vars(MonolithUnhandledRejection)

FairSpec == Spec /\ Fairness

-----------------------------------------------------------------------------
(* Safety *)

\* COMPENSATED is the truth about the subscription: compensation has deleted its
\* row, whatever other replies, sweeps, clicks, crashes and failed calls ran
\* into it (compensateSaga deletes before it marks).
CompensatedMeansDeleted == \A s \in Sub : saga[s] = "COMPENSATED" => row[s] = "compensated"

\* COMPLETED is the truth about the e-mail: the confirmation has reached the
\* subscriber, across redelivered commands, duplicate replies and restarts.
CompletedMeansMailed == \A s \in Sub : saga[s] = "COMPLETED" => s \in mailed

\* An undecided saga always has work outstanding for it somewhere: its outbox
\* row, its command or its reply. Only a dropped socket or a discarded reply
\* breaks the chain, and no crash, redelivery or failed markSent does.
NothingLostSilently ==
  \A s \in Sub : saga[s] = "STARTED" =>
    \/ outbox[s] = "PENDING"
    \/ wire[s] > 0
    \/ commands[s] > 0
    \/ \E r \in Reply : r.saga = s /\ replies[r] > 0
    \/ s \in lost

\* While a consumer is registered, the broker holds a copy of every message in
\* hand: nothing is acknowledged twice, whatever is redelivered and to whom.
InHandIsUnacknowledged ==
  /\ "notification" \in listening =>
       \A s \in Sub : Cardinality(Unacked(s)) <= commands[s]
  /\ "monolith" \in listening =>
       \A r \in Reply : Cardinality(Unsettled(r)) <= replies[r]

\* No subscription is deleted behind its owner's back for another reason than
\* its own: a send for it was reported failed, or it is older than the timeout.
CompensationIsJustified ==
  \A s \in Sub : row[s] = "compensated" => s \in bounced \/ createdAt[s] <= cutoff

\* The duplicate check of subscribe is a read, and two requests can both pass
\* it; still one pair never has two live subscriptions.
OneLiveRowPerKey ==
  \A s, t \in Sub : Live(s) /\ Live(t) /\ KeyOf[s] = KeyOf[t] => s = t

\* A deleted subscription is never brought back or deleted again: confirm and
\* unsubscribe write by the id of a row they found before an await.
RemovedRowStaysRemoved ==
  [][\A s \in Sub : row[s] \in RemovedRow => row'[s] = row[s]]_vars

\* The whole flow does to a subscription only what SagaPromise allows.
Promise == INSTANCE SagaPromise
KeepsPromise == Promise!Spec

(* The inductive strengthening of the invariants above *)

Known(s) == row[s] # "none"

\* Nothing in a table, on the way or in a process is about a subscription that
\* its transaction has not committed.
OnlyKnown ==
  /\ \A s \in Sub : Known(s) <=> saga[s] # "none"
  /\ \A s \in Sub : Known(s) <=> outbox[s] # "none"
  /\ \A s \in Sub : wire[s] > 0 \/ commands[s] > 0 => Known(s)
  /\ \A r \in Reply : replies[r] > 0 => Known(r.saga)
  /\ \A q \in http : q.op = "subscribe" <=> ~Known(q.sub)
  /\ \A d \in Drain : \A s \in relay[d].rows : Known(s)
  /\ \A h \in Handler : Busy(h) => Known(handler[h].sub)
  /\ \A w \in Worker : Active(w) => \A s \in {worker[w].sub} \cup worker[w].left : Known(s)

\* The rows are ranked by the order of their commits: no two are equally old, so
\* a drain has one current row.
Ranked ==
  /\ \A s \in Sub : Known(s) <=> createdAt[s] # 0
  /\ \A s \in Sub : createdAt[s] <= Inserted
  /\ \A s, t \in Sub : Known(s) /\ createdAt[s] = createdAt[t] => s = t

\* A reply tells what the send came to, wherever the reply is.
Witnessed(s, success) == IF success THEN s \in mailed ELSE s \in bounced
RepliesTrue ==
  /\ \A r \in Reply : replies[r] > 0 => Witnessed(r.saga, r.success)
  /\ \A h \in Handler : handler[h].pc = "replying" =>
       Witnessed(handler[h].sub, handler[h].success)
  /\ \A w \in Worker : Active(w) /\ worker[w].by = "reply" =>
       Witnessed(worker[w].sub, worker[w].success)

\* What has been established when an activation reaches a stage.
StagesTrue ==
  \A w \in Worker : Active(w) =>
    /\ worker[w].by = "sweep" =>
         \A s \in {worker[w].sub} \cup worker[w].left : createdAt[s] <= cutoff
    /\ worker[w].pc = "complete" => worker[w].by = "reply" /\ worker[w].success
    /\ worker[w].pc = "delete" /\ worker[w].by = "reply" => ~worker[w].success
    /\ worker[w].pc = "markCompensated" => row[worker[w].sub] = "compensated"
    /\ worker[w].pc = "ack" => worker[w].by = "reply" /\ saga[worker[w].sub] \in Terminal

\* A confirm request follows an e-mail, an unsubscribe request a confirmation.
ClicksTrue ==
  \A q \in http :
    /\ q.op = "confirm" => q.sub \in mailed
    /\ q.op = "unsubscribe" => row[q.sub] # "unconfirmed"

\* The saga is decided, or something that can decide it is left.
HasWork(s) ==
  \/ saga[s] \in Terminal
  \/ wire[s] > 0
  \/ commands[s] > 0
  \/ \E r \in Reply : r.saga = s /\ replies[r] > 0
  \/ s \in lost
WorkOutstanding ==
  /\ \A s \in Sub : outbox[s] = "SENT" => HasWork(s)
  /\ \A d \in Drain : \A s \in Sub : relay[d].pc = "mark" /\ IsCurrent(d, s) => HasWork(s)

\* Together with TypeOK and InHandIsUnacknowledged these are inductive: each
\* speaks of what lies between the two ends that an invariant above relates.
SagaInvariant ==
  /\ OnlyKnown
  /\ Ranked
  /\ RepliesTrue
  /\ StagesTrue
  /\ ClicksTrue
  /\ WorkOutstanding
  /\ CompensatedMeansDeleted
  /\ CompletedMeansMailed
  /\ CompensationIsJustified

(* Liveness *)

\* No saga stays undecided: the sweeper decides the ones whose command or reply
\* is lost, whose consumers are deaf or whose handler crashed.
EverySagaSettles == \A s \in Sub : saga[s] = "STARTED" ~> saga[s] \in Terminal

\* The relay gets every command out, the row of an old saga included, although
\* drains overlap, fail and are forgotten in a crash.
EveryCommandIsSent == \A s \in Sub : outbox[s] = "PENDING" ~> outbox[s] = "SENT"

(* What the documents say of the flow, and it does not do *)

\* hw8 design: "The subscription stays confirmed=false throughout" the saga, so
\* what compensation deletes was never confirmed.
ConfirmedIsNeverCompensated ==
  [][\A s \in Sub : row[s] = "confirmed" => row'[s] # "compensated"]_vars

\* hw8 design: "The Saga guarantees row created AND confirmation email
\* delivered": a COMPLETED saga has not had its row compensated away.
CompletedKeepsRow == \A s \in Sub : saga[s] = "COMPLETED" => row[s] # "compensated"

\* outbox-relay.ts: "At-least-once: a row is marked SENT only after a successful
\* publish": the command of a SENT row is on its way or has been handled.
SentIsDelivered ==
  \A s \in Sub : outbox[s] = "SENT" =>
    wire[s] > 0 \/ commands[s] > 0 \/ s \in mailed \cup bounced
=============================================================================
