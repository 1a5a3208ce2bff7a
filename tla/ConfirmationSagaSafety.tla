----------------------- MODULE ConfirmationSagaSafety -----------------------
(* SagaInvariant is inductive: the proof that a verdict of the saga is true,*)
(* that no compensation is unjustified and that no work is lost silently,   *)
(* for every number of subscriptions, drains, handlers, workers and faults. *)
EXTENDS ConfirmationSagaProofs

-----------------------------------------------------------------------------
(* How the process variables change *)

\* Worker w is at stage pc with the same saga in hand.
AtStage(w, pc) ==
  /\ \A v \in Worker \ {w} : worker'[v] = worker[v]
  /\ worker'[w].pc = pc
  /\ worker'[w].by = worker[w].by
  /\ worker'[w].sub = worker[w].sub
  /\ worker'[w].success = worker[w].success
  /\ worker'[w].left = worker[w].left

\* Worker w is idle, or about to compensate one of rows.
Sweeping(w, rows) ==
  /\ \A v \in Worker \ {w} : worker'[v] = worker[v]
  /\ \/ worker'[w].pc = "idle"
     \/ /\ worker'[w].pc = "delete"
        /\ worker'[w].by = "sweep"
        /\ worker'[w].sub \in rows
        /\ worker'[w].left \subseteq rows

LEMMA ActiveRecord ==
  ASSUME WorkerTypeOK, NEW w \in Worker, Active(w)
  PROVE  worker[w] \in WorkerRecord
BY DEF Active, WorkerTypeOK, IdleWorker, WorkerRecord

LEMMA GotoFields ==
  ASSUME WorkerTypeOK, NEW w \in Worker, Active(w), NEW pc \in Stage, GotoStage(w, pc)
  PROVE  AtStage(w, pc)
<1>1. worker[w] \in WorkerRecord
  BY ActiveRecord
<1> QED
  BY <1>1 DEF GotoStage, AtStage, WorkerTypeOK, WorkerRecord

LEMMA SweepFields ==
  ASSUME WorkerTypeOK, NEW w \in Worker, NEW rows \in SUBSET Sub, SweepNext(w, rows)
  PROVE  Sweeping(w, rows)
BY DEF SweepNext, Sweeping, WorkerTypeOK, IdleWorker

LEMMA ReturnFields ==
  ASSUME WorkerTypeOK, NEW w \in Worker, Active(w), Return(w)
  PROVE  \/ worker[w].by = "reply" /\ AtStage(w, "ack")
         \/ worker[w].by = "sweep" /\ Sweeping(w, worker[w].left)
<1>1. worker[w].left \in SUBSET Sub
  BY ActiveRecord DEF WorkerRecord
<1> QED
  BY <1>1, GotoFields, SweepFields DEF Return, Stage

LEMMA TakeFields ==
  ASSUME WorkerTypeOK, NEW w \in Worker, NEW r \in Reply, NEW pc \in Stage, Take(w, r, pc)
  PROVE  /\ \A v \in Worker \ {w} : worker'[v] = worker[v]
         /\ worker'[w].pc = pc
         /\ worker'[w].by = "reply"
         /\ worker'[w].sub = r.saga
         /\ worker'[w].success = r.success
         /\ worker'[w].left = {}
BY DEF Take, WorkerTypeOK

-----------------------------------------------------------------------------
(* OnlyKnown *)

\* Every saga in hand, or waiting in a sweep, is known.
WorkersKnown ==
  \A w \in Worker : Active(w) => \A s \in {worker[w].sub} \cup worker[w].left : Known(s)

\* The sagas an activation has in hand are sagas.
LEMMA InHandSub ==
  ASSUME WorkerTypeOK, NEW w \in Worker, Active(w)
  PROVE  worker[w].sub \in Sub /\ worker[w].left \in SUBSET Sub
BY ActiveRecord DEF WorkerRecord

LEMMA WorkersKnownKept ==
  ASSUME WorkerTypeOK, WorkersKnown, NEW w \in Worker,
         \A s \in Sub : Known(s) => Known(s)'
  PROVE  /\ \A pc \in Stage : Active(w) /\ AtStage(w, pc) => WorkersKnown'
         /\ \A rows \in SUBSET Sub :
              Sweeping(w, rows) /\ (\A s \in rows : Known(s)) => WorkersKnown'
         /\ Active(w) /\ Return(w) => WorkersKnown'
<1>1. \A v \in Worker : Active(v) =>
        \A s \in {worker[v].sub} \cup worker[v].left : s \in Sub /\ Known(s)
  BY InHandSub DEF WorkersKnown
<1>2. ASSUME NEW v \in Worker, worker'[v] = worker[v], Active(v)'
      PROVE  \A s \in {worker'[v].sub} \cup worker'[v].left : Known(s)'
  BY <1>1, <1>2 DEF Active
<1>3. ASSUME NEW pc \in Stage, Active(w), AtStage(w, pc) PROVE WorkersKnown'
  <2>1. \A s \in {worker'[w].sub} \cup worker'[w].left : Known(s)'
    BY <1>1, <1>3 DEF AtStage
  <2> QED
    BY <1>2, <1>3, <2>1 DEF AtStage, WorkersKnown
<1>4. ASSUME NEW rows \in SUBSET Sub, Sweeping(w, rows), \A s \in rows : Known(s)
      PROVE  WorkersKnown'
  <2>1. Active(w)' => \A s \in {worker'[w].sub} \cup worker'[w].left : Known(s)'
    BY <1>4 DEF Sweeping, Active
  <2> QED
    BY <1>2, <1>4, <2>1 DEF Sweeping, WorkersKnown
<1>5. ASSUME Active(w), Return(w) PROVE WorkersKnown'
  <2>1. worker[w].left \in SUBSET Sub /\ \A s \in worker[w].left : Known(s)
    BY <1>1, <1>5, InHandSub
  <2>2. CASE AtStage(w, "ack")
    BY <1>3, <1>5, <2>2 DEF Stage
  <2>3. CASE Sweeping(w, worker[w].left)
    BY <1>4, <2>1, <2>3
  <2> QED
    BY <1>5, <2>2, <2>3, ReturnFields
<1> QED
  BY <1>3, <1>4, <1>5

\* What is known, and what is said of it, is the same after the step.
LEMMA KnownFrame ==
  ASSUME OnlyKnown, WorkersKnown', UNCHANGED <<http, relay, handler, wire, commands, outbox>>,
         \A s \in Sub : Known(s)' <=> Known(s),
         \A s \in Sub : saga'[s] # "none" <=> saga[s] # "none",
         \A r \in Reply : replies'[r] > 0 => replies[r] > 0,
         TypeOK
  PROVE  OnlyKnown'
<1> USE DEF Known, Active, Busy
<1>1. \A d \in Drain : relay[d].rows \subseteq Sub
  BY DEF TypeOK, RelayTypeOK
<1>2. \A h \in Handler : Busy(h) => handler[h].sub \in Sub
  BY DEF TypeOK, HandlerTypeOK, IdleHandler
<1>3. \A q \in http : q.sub \in Sub
  BY DEF TypeOK, RequestsTypeOK, Request
<1>4. \A r \in Reply : r.saga \in Sub
  BY DEF Reply
<1>5. \A s \in Sub : (Known(s)' <=> saga'[s] # "none") /\ (Known(s)' <=> outbox'[s] # "none")
  BY DEF OnlyKnown
<1>6. /\ \A s \in Sub : wire'[s] > 0 \/ commands'[s] > 0 => Known(s)'
      /\ \A r \in Reply : replies'[r] > 0 => Known(r.saga)'
  BY <1>4 DEF OnlyKnown
<1>7. \A q \in http' : q.op = "subscribe" <=> ~Known(q.sub)'
  BY <1>3 DEF OnlyKnown
<1>8. ASSUME NEW d \in Drain, NEW s \in relay'[d].rows PROVE Known(s)'
  <2>1. s \in relay[d].rows /\ s \in Sub
    BY <1>1, <1>8
  <2>2. Known(s)
    BY <2>1 DEF OnlyKnown
  <2> QED
    BY <2>1, <2>2
<1>9. ASSUME NEW h \in Handler, Busy(h)' PROVE Known(handler[h].sub)'
  BY <1>2, <1>9 DEF OnlyKnown
<1> QED
  BY <1>5, <1>6, <1>7, <1>8, <1>9 DEF OnlyKnown, WorkersKnown

LEMMA KnownOrchestrator ==
  ASSUME TypeOK, InHandIsUnacknowledged, OnlyKnown, NEW w \in Worker, Orchestrator(w)
  PROVE  OnlyKnown'
<1>0. WorkerTypeOK /\ WorkersKnown
  BY DEF TypeOK, OnlyKnown, WorkersKnown
<1> USE DEF Orchestrator
<1>1. ASSUME NEW r \in Reply, HandleReply(w, r) PROVE OnlyKnown'
  <2>1. PICK pc \in Stage : Take(w, r, pc)
    BY <1>1 DEF HandleReply, ReplyStage, Stage
  <2>2. replies[r] > 0
    BY <1>1, InHandFinite DEF HandleReply, TypeOK, TransportTypeOK
  <2>3. WorkersKnown'
    BY <1>1, <1>0, <2>1, <2>2, TakeFields DEF HandleReply, Active, tableVars, WorkersKnown,
       OnlyKnown, Known
  <2> QED
    BY <1>1, <2>3, KnownFrame DEF HandleReply, tableVars, orchestratorTransport, Known
<1>2. CASE Complete(w)
  <2>1. worker[w].sub \in Sub /\ Known(worker[w].sub) /\ Active(w)
    BY <1>0, <1>2, InHandSub DEF Complete, Active, WorkersKnown
  <2>2. WorkersKnown'
    BY <1>0, <1>2, <2>1, GotoFields, WorkersKnownKept DEF Complete, Stage, Known
  <2>3. \A s \in Sub : saga'[s] # "none" <=> saga[s] # "none"
    BY <1>2, <2>1 DEF Complete, UpdateStatus, TypeOK, TablesTypeOK, OnlyKnown
  <2> QED
    BY <1>2, <2>2, <2>3, KnownFrame DEF Complete, orchestratorTables, orchestratorTransport, Known
<1>3. CASE SweepTimeouts(w)
  <2>1. FindStaleStarted \in SUBSET Sub /\ \A s \in FindStaleStarted : Known(s)
    BY DEF FindStaleStarted, OnlyKnown
  <2>2. WorkersKnown'
    BY <1>0, <1>3, <2>1, SweepFields, WorkersKnownKept DEF SweepTimeouts, tableVars, Known
  <2> QED
    BY <1>3, <2>2, KnownFrame DEF SweepTimeouts, tableVars, transportVars, Known
<1>4. CASE Compensate(w)
  <2>1. worker[w].sub \in Sub /\ Known(worker[w].sub) /\ Active(w)
    BY <1>0, <1>4, InHandSub DEF Compensate, Active, WorkersKnown
  <2>2. \A s \in Sub : Known(s)' <=> Known(s)
    BY <1>4, <2>1 DEF Compensate, DeleteSubscription, TypeOK, TablesTypeOK, Known
  <2>3. WorkersKnown'
    BY <1>0, <1>4, <2>1, <2>2, GotoFields, WorkersKnownKept DEF Compensate, Stage
  <2> QED
    BY <1>4, <2>2, <2>3, KnownFrame DEF Compensate, orchestratorTables, orchestratorTransport
<1>5. CASE MarkCompensated(w) \/ MarkFailed(w)
  <2>1. worker[w].sub \in Sub /\ Known(worker[w].sub) /\ Active(w)
    BY <1>0, <1>5, InHandSub DEF MarkCompensated, MarkFailed, Active, WorkersKnown
  <2>2. WorkersKnown'
    BY <1>0, <1>5, <2>1, GotoFields, WorkersKnownKept DEF MarkCompensated, MarkFailed, Stage, Known
  <2>3. \A s \in Sub : saga'[s] # "none" <=> saga[s] # "none"
    BY <1>5, <2>1 DEF MarkCompensated, MarkFailed, UpdateStatus, TypeOK, TablesTypeOK, OnlyKnown
  <2> QED
    BY <1>5, <2>2, <2>3, KnownFrame
       DEF MarkCompensated, MarkFailed, orchestratorTables, orchestratorTransport, Known
<1>6. CASE Settle(w)
  <2>1. \A v \in Worker : worker'[v] = IF v = w THEN IdleWorker ELSE worker[v]
    BY <1>0, <1>6 DEF Settle, WorkerTypeOK
  <2>2. WorkersKnown'
    BY <1>0, <1>6, <2>1 DEF Settle, tableVars, WorkersKnown, Active, IdleWorker, Known
  <2>3. \A r \in Reply : replies'[r] > 0 => replies[r] > 0
    BY <1>6 DEF Settle, TypeOK, TransportTypeOK
  <2> QED
    BY <1>6, <2>2, <2>3, KnownFrame DEF Settle, tableVars, orchestratorTransport, Known
<1> QED
  BY <1>1, <1>2, <1>3, <1>4, <1>5, <1>6 DEF WorkerStep

LEMMA KnownRequests ==
  ASSUME TypeOK, OnlyKnown, NEW s \in Sub, Requests(s)
  PROVE  OnlyKnown' /\ \A t \in Sub : Known(t) => Known(t)'
<1> USE DEF Known, Active, Busy
<1>1. UNCHANGED <<relay, handler, worker, wire, commands, replies>>
  BY DEF Requests, RequestStep, CheckDuplicate, CommitSubscription, Start, FindByConfirmToken, Confirm,
         FindByUnsubscribeToken, Unsubscribe, transportVars
<1>2. \A q \in http : q \in Request /\ q.sub \in Sub
  BY DEF TypeOK, RequestsTypeOK, Request
<1> DEFINE TablesKnown == \A t \in Sub : (Known(t) <=> saga[t] # "none")
                                      /\ (Known(t) <=> outbox[t] # "none")
           RequestsKnown == \A q \in http : q.op = "subscribe" <=> ~Known(q.sub)
           Grows == \A t \in Sub : Known(t) => Known(t)'
<1>3. TablesKnown /\ RequestsKnown
  BY DEF OnlyKnown
<1>4. TablesKnown' /\ RequestsKnown' /\ Grows
  <2> USE DEF TypeOK, TablesTypeOK, Live, LiveRow, tableVars
  <2>1. CASE CheckDuplicate(s) \/ FindByConfirmToken(s) \/ FindByUnsubscribeToken(s)
    <3>1. UNCHANGED <<row, saga, outbox>>
      BY <2>1 DEF CheckDuplicate, FindByConfirmToken, FindByUnsubscribeToken
    <3>2. PICK op \in {"subscribe", "confirm", "unsubscribe"} :
            http' = http \cup {Req(op, s)} /\ (op = "subscribe" <=> row[s] = "none")
      BY <2>1 DEF CheckDuplicate, FindByConfirmToken, FindByUnsubscribeToken
    <3> QED
      BY <1>3, <3>1, <3>2 DEF Req
  <2>2. CASE CommitSubscription(s)
    <3>1. ~Known(s) /\ Req("subscribe", s) \in http
      BY <1>3, <2>2 DEF CommitSubscription, Start, Req
    <3>2. CASE UNCHANGED tableVars
      BY <1>3, <2>2, <3>2 DEF CommitSubscription, Start
    <3>3. CASE CreateSubscription(s) /\ CreateSaga(s) /\ Enqueue(s)
      <4>1. \A t \in Sub : /\ row'[t] = IF t = s THEN "unconfirmed" ELSE row[t]
                           /\ saga'[t] = IF t = s THEN "STARTED" ELSE saga[t]
                           /\ outbox'[t] = IF t = s THEN "PENDING" ELSE outbox[t]
        BY <3>3 DEF CreateSubscription, CreateSaga, Enqueue
      <4>2. ASSUME NEW q \in http, q.sub = s, q.op = "subscribe" PROVE q = Req("subscribe", s)
        BY <1>2, <4>2 DEF Request, Req
      <4>3. http' = http \ {Req("subscribe", s)}
        BY <2>2 DEF CommitSubscription, Start
      <4>4. RequestsKnown'
        BY <1>2, <1>3, <3>1, <4>1, <4>2, <4>3
      <4> QED
        BY <1>3, <4>1, <4>4
    <3> QED
      BY <2>2, <3>2, <3>3 DEF CommitSubscription, Start
  <2>3. CASE Confirm(s) \/ Unsubscribe(s)
    <3>1. http' \subseteq http /\ UNCHANGED <<saga, outbox>>
      BY <2>3 DEF Confirm, Unsubscribe
    <3>2. \A t \in Sub : Known(t)' <=> Known(t)
      BY <2>3 DEF Confirm, Unsubscribe, ConfirmSubscription, DeleteSubscription
    <3> QED
      BY <1>2, <1>3, <3>1, <3>2
  <2> QED
    BY <2>1, <2>2, <2>3 DEF Requests, RequestStep
<1>5. /\ \A d \in Drain : relay[d].rows \subseteq Sub
      /\ \A h \in Handler : Busy(h) => handler[h].sub \in Sub
      /\ \A w \in Worker : Active(w) => worker[w].sub \in Sub /\ worker[w].left \subseteq Sub
      /\ \A r \in Reply : r.saga \in Sub
  BY InHandSub DEF TypeOK, RelayTypeOK, HandlerTypeOK, IdleHandler, Reply
<1>6. /\ \A t \in Sub : wire'[t] > 0 \/ commands'[t] > 0 => Known(t)'
      /\ \A r \in Reply : replies'[r] > 0 => Known(r.saga)'
  BY <1>1, <1>4, <1>5 DEF OnlyKnown
<1>7. /\ \A d \in Drain : \A t \in relay'[d].rows : Known(t)'
      /\ \A h \in Handler : Busy(h)' => Known(handler[h].sub)'
  BY <1>1, <1>4, <1>5 DEF OnlyKnown
<1>8. WorkersKnown'
  <2>1. WorkersKnown
    BY DEF OnlyKnown, WorkersKnown
  <2> QED
    BY <1>1, <1>4, <1>5, <2>1 DEF WorkersKnown
<1> QED
  BY <1>4, <1>6, <1>7, <1>8 DEF OnlyKnown, WorkersKnown

LEMMA KnownRelay ==
  ASSUME TypeOK, OnlyKnown, NEW d \in Drain, Relay(d)
  PROVE  OnlyKnown'
<1> USE DEF Known, Active, Busy
<1>1. /\ UNCHANGED <<row, saga, http, handler, worker, commands, replies>>
      /\ \A c \in Drain \ {d} : relay'[c] = relay[c]
  BY DEF Relay, RelayStep, StartDrain, Publish, Mark, Bump, Goto, NextRow, tableVars,
         transportVars, relayTables, relayTransport, TypeOK, RelayTypeOK
<1>2. \A t \in Sub : Known(t) <=> outbox'[t] # "none"
  BY DEF Relay, RelayStep, StartDrain, Publish, Mark, Bump, MarkSent, IsCurrent, tableVars,
         TypeOK, TablesTypeOK, OnlyKnown
<1>3. \A t \in Sub : wire'[t] > 0 => Known(t)
  BY DEF Relay, RelayStep, StartDrain, Publish, Mark, Bump, IsCurrent, transportVars,
         TypeOK, TransportTypeOK, OnlyKnown
<1>4. \A t \in relay'[d].rows : Known(t)
  <2>1. CASE StartDrain(d)
    <3>1. relay'[d].rows = FindPending
      BY <2>1 DEF StartDrain, TypeOK, RelayTypeOK
    <3> QED
      BY <3>1 DEF FindPending, OnlyKnown
  <2>2. ASSUME NEW pc \in {"mark", "bump"}, Goto(d, pc) PROVE relay'[d].rows = relay[d].rows
    BY <2>2 DEF Goto, TypeOK, RelayTypeOK
  <2>3. ASSUME NEW s \in Sub, NextRow(d, s) PROVE relay'[d].rows \subseteq relay[d].rows
    BY <2>3 DEF NextRow, IdleDrain, TypeOK, RelayTypeOK
  <2>4. CASE relay'[d].rows \subseteq relay[d].rows
    BY <2>4 DEF OnlyKnown
  <2> QED
    BY <2>1, <2>2, <2>3, <2>4 DEF Relay, RelayStep, Publish, Mark, Bump
<1>5. \A c \in Drain : \A t \in relay'[c].rows : Known(t)'
  BY <1>1, <1>4 DEF OnlyKnown
<1> QED
  BY <1>1, <1>2, <1>3, <1>5 DEF OnlyKnown

LEMMA KnownNotification ==
  ASSUME TypeOK, OnlyKnown, NEW h \in Handler, Notification(h)
  PROVE  OnlyKnown'
<1> USE DEF Known, Active, Busy
<1>1. UNCHANGED <<row, saga, outbox, http, relay, worker, wire>>
  BY DEF Notification, NotificationStep, Consume, SendEmail, PublishReply, tableVars, transportVars
<1> DEFINE MessagesKnown == /\ \A t \in Sub : commands[t] > 0 => Known(t)
                            /\ \A r \in Reply : replies[r] > 0 => Known(r.saga)
           HandlersKnown == \A g \in Handler : Busy(g) =>
                              \E t \in Sub : t = handler[g].sub /\ Known(t)
<1>2. MessagesKnown /\ HandlersKnown
  BY DEF OnlyKnown, TypeOK, HandlerTypeOK, IdleHandler
<1>3. MessagesKnown' /\ HandlersKnown'
  <2> USE DEF TypeOK, TransportTypeOK
  <2>1. ASSUME NEW s \in Sub, Consume(h, s) PROVE MessagesKnown' /\ HandlersKnown'
    <3>1. Known(s)
      BY <1>2, <2>1, InHandFinite DEF Consume
    <3>2. \A g \in Handler : handler'[g] = IF g = h THEN [pc |-> "sending", sub |-> s, success |-> FALSE]
                                                    ELSE handler[g]
      BY <2>1 DEF Consume, HandlerTypeOK
    <3>3. HandlersKnown'
      BY <1>1, <1>2, <3>1, <3>2
    <3> QED
      BY <1>1, <1>2, <2>1, <3>3 DEF Consume, transportVars
  <2>2. CASE SendEmail(h)
    <3>1. handler[h] \in [pc : {"sending", "replying"}, sub : Sub, success : BOOLEAN]
      BY <2>2 DEF SendEmail, HandlerTypeOK, IdleHandler
    <3>2. \A g \in Handler : handler'[g].sub = handler[g].sub /\ (Busy(g)' => Busy(g))
      BY <2>2, <3>1 DEF SendEmail, HandlerTypeOK
    <3>3. HandlersKnown'
      BY <1>1, <1>2, <3>2
    <3> QED
      BY <1>1, <1>2, <2>2, <3>3 DEF SendEmail
  <2>3. CASE PublishReply(h)
    <3>1. handler[h] \in [pc : {"sending", "replying"}, sub : Sub, success : BOOLEAN]
      BY <2>3 DEF PublishReply, HandlerTypeOK, IdleHandler
    <3>2. Known(handler[h].sub)
      BY <1>2, <2>3 DEF PublishReply
    <3>3. PICK r \in Reply : r.saga = handler[h].sub /\ replies' = [replies EXCEPT ![r] = @ + 1]
      BY <2>3, <3>1 DEF PublishReply, Reply
    <3>4. \A g \in Handler : handler'[g] = IF g = h THEN IdleHandler ELSE handler[g]
      BY <2>3 DEF PublishReply, HandlerTypeOK
    <3>5. HandlersKnown'
      BY <1>1, <1>2, <3>4 DEF IdleHandler
    <3>6. \A t \in Sub : commands'[t] > 0 => Known(t)'
      BY <1>1, <1>2, <2>3, <3>1 DEF PublishReply
    <3>7. \A q \in Reply : replies'[q] > 0 => Known(q.saga)'
      BY <1>1, <1>2, <3>2, <3>3
    <3> QED
      BY <3>5, <3>6, <3>7
  <2> QED
    BY <2>1, <2>2, <2>3 DEF Notification, NotificationStep
<1> QED
  BY <1>1, <1>3 DEF OnlyKnown

LEMMA KnownFailure ==
  ASSUME TypeOK, OnlyKnown, NotificationFailure \/ MonolithFailure
  PROVE  OnlyKnown'
<1> USE DEF Known, Active, Busy
<1>1. UNCHANGED <<row, saga, outbox, commands, replies>>
  BY DEF NotificationFailure, NotificationDisconnects, NotificationCrash, NotificationRestarts,
         NotificationUnhandledRejection, MonolithFailure, MonolithDisconnects, MonolithCrash,
         MonolithUnhandledRejection, MonolithRestarts, tableVars
<1>2. http' \in {http, {}} /\ \A s \in Sub : wire'[s] > 0 => wire[s] > 0
  BY DEF NotificationFailure, NotificationDisconnects, NotificationCrash, NotificationRestarts,
         NotificationUnhandledRejection, MonolithFailure, MonolithDisconnects, MonolithCrash,
         MonolithUnhandledRejection, MonolithRestarts
<1>3. /\ \A d \in Drain : relay'[d] \in {relay[d], IdleDrain}
      /\ \A h \in Handler : handler'[h] \in {handler[h], IdleHandler}
      /\ \A w \in Worker : worker'[w] \in {worker[w], IdleWorker}
  BY DEF NotificationFailure, NotificationDisconnects, NotificationCrash, NotificationRestarts,
         NotificationUnhandledRejection, MonolithFailure, MonolithDisconnects, MonolithCrash,
         MonolithUnhandledRejection, MonolithRestarts
<1>4. \A d \in Drain : \A s \in relay'[d].rows : Known(s)
  BY <1>3 DEF OnlyKnown, IdleDrain
<1>5. \A h \in Handler : Busy(h)' => handler'[h] = handler[h] /\ Busy(h)
  BY <1>3 DEF IdleHandler
<1>6. \A w \in Worker : Active(w)' => worker'[w] = worker[w] /\ Active(w)
  BY <1>3 DEF IdleWorker
<1>7. \A h \in Handler : Busy(h)' => row'[handler'[h].sub] # "none"
  BY <1>1, <1>5 DEF OnlyKnown
<1>8. WorkersKnown'
  BY <1>1, <1>6 DEF OnlyKnown, WorkersKnown
<1> QED
  BY <1>1, <1>2, <1>4, <1>7, <1>8 DEF OnlyKnown, WorkersKnown

LEMMA KnownStep ==
  ASSUME TypeOK, InHandIsUnacknowledged, OnlyKnown, [Next]_vars
  PROVE  OnlyKnown'
<1>1. CASE Clock
  <2>1. UNCHANGED <<row, saga, outbox, wire, commands, replies, http, relay, handler, worker>>
    BY <1>1 DEF Clock, TimePasses, transportVars
  <2> QED
    BY <2>1 DEF OnlyKnown, Known, Busy, Active
<1>2. ASSUME NEW s \in Sub, Broker(s) PROVE OnlyKnown'
  <2>1. UNCHANGED <<row, saga, outbox, replies, http, relay, handler, worker>>
    BY <1>2 DEF Broker, BrokerAccept, tableVars
  <2>2. \A t \in Sub : wire'[t] > 0 \/ commands'[t] > 0 => Known(t)
    BY <1>2 DEF Broker, BrokerAccept, OnlyKnown, TypeOK, TransportTypeOK
  <2> QED
    BY <2>1, <2>2 DEF OnlyKnown, Known, Busy, Active
<1>3. CASE UNCHANGED vars
  <2>1. UNCHANGED <<row, saga, outbox, wire, commands, replies, http, relay, handler, worker>>
    BY <1>3 DEF vars, tableVars, transportVars
  <2> QED
    BY <2>1 DEF OnlyKnown, Known, Busy, Active
<1> QED
  BY <1>1, <1>2, <1>3, KnownRequests, KnownRelay, KnownNotification, KnownOrchestrator, KnownFailure
     DEF Next

-----------------------------------------------------------------------------
(* What never goes back *)

\* A deleted row, a verdict, the age of a row, an e-mail, a lost message: later
\* steps add to these and take nothing back.
Forward ==
  /\ \A s \in Sub : row[s] \in RemovedRow => row'[s] = row[s]
  /\ \A s \in Sub : saga[s] \in Terminal => saga'[s] \in Terminal
  /\ \A s \in Sub : Known(s) => createdAt'[s] = createdAt[s]
  /\ cutoff <= cutoff'
  /\ mailed \subseteq mailed' /\ bounced \subseteq bounced' /\ lost \subseteq lost'

LEMMA ForwardRequests ==
  ASSUME TypeOK, OnlyKnown, NEW s \in Sub, Requests(s)
  PROVE  Forward
<1> USE DEF TypeOK, TablesTypeOK
<1>1. CASE CommitSubscription(s)
  <2>1. ~Known(s) /\ saga[s] = "none" /\ row[s] = "none"
    BY <1>1 DEF CommitSubscription, Start, Req, OnlyKnown, Known
  <2> QED
    BY <1>1, <2>1 DEF CommitSubscription, Start, CreateSubscription, CreateSaga, tableVars, transportVars,
                      Forward, Known, RemovedRow, Terminal
<1>2. CASE CheckDuplicate(s) \/ FindByConfirmToken(s) \/ FindByUnsubscribeToken(s)
  BY <1>2 DEF CheckDuplicate, FindByConfirmToken, FindByUnsubscribeToken, tableVars, transportVars,
              Forward
<1>3. CASE Confirm(s) \/ Unsubscribe(s)
  BY <1>3 DEF Confirm, Unsubscribe, ConfirmSubscription, DeleteSubscription, Live, LiveRow,
              RemovedRow, transportVars, Forward
<1> QED
  BY <1>1, <1>2, <1>3 DEF Requests, RequestStep

LEMMA ForwardOrchestrator ==
  ASSUME TypeOK, NEW w \in Worker, Orchestrator(w)
  PROVE  Forward
<1>1. UNCHANGED <<createdAt, cutoff, mailed, bounced>> /\ lost \subseteq lost'
  BY DEF Orchestrator, WorkerStep, HandleReply, Complete, SweepTimeouts, Compensate,
         MarkCompensated, MarkFailed, Settle, tableVars, transportVars, orchestratorTables,
         orchestratorTransport
<1>2. \A s \in Sub : row[s] \in RemovedRow => row'[s] = row[s]
  BY DEF Orchestrator, WorkerStep, HandleReply, Complete, SweepTimeouts, Compensate,
         MarkCompensated, MarkFailed, Settle, tableVars, TypeOK, TablesTypeOK,
         DeleteSubscription, Live, LiveRow, RemovedRow
<1>3. \A s \in Sub : saga[s] \in Terminal => saga'[s] \in Terminal
  BY DEF Orchestrator, WorkerStep, HandleReply, Complete, SweepTimeouts, Compensate,
         MarkCompensated, MarkFailed, Settle, tableVars, TypeOK, TablesTypeOK,
         UpdateStatus, Terminal
<1> QED
  BY <1>1, <1>2, <1>3 DEF Forward, TypeOK, TablesTypeOK

LEMMA ForwardStep ==
  ASSUME TypeOK, OnlyKnown, [Next]_vars
  PROVE  Forward
<1> USE DEF Forward, TypeOK, TablesTypeOK
<1>1. CASE Clock
  BY <1>1 DEF Clock, TimePasses, transportVars
<1>2. ASSUME NEW s \in Sub, Broker(s) PROVE Forward
  BY <1>2 DEF Broker, BrokerAccept, tableVars
<1>3. ASSUME NEW d \in Drain, Relay(d) PROVE Forward
  BY <1>3 DEF Relay, RelayStep, StartDrain, Publish, Mark, Bump, tableVars, transportVars,
              relayTables, relayTransport
<1>4. ASSUME NEW h \in Handler, Notification(h) PROVE Forward
  BY <1>4 DEF Notification, NotificationStep, Consume, SendEmail, PublishReply, tableVars,
              transportVars
<1>5. CASE NotificationFailure \/ MonolithFailure
  BY <1>5 DEF NotificationFailure, NotificationDisconnects, NotificationCrash,
              NotificationRestarts, NotificationUnhandledRejection, MonolithFailure,
              MonolithDisconnects, MonolithCrash, MonolithUnhandledRejection, MonolithRestarts,
              tableVars
<1>6. CASE UNCHANGED vars
  BY <1>6 DEF vars, tableVars, transportVars
<1> QED
  BY <1>1, <1>2, <1>3, <1>4, <1>5, <1>6, ForwardRequests, ForwardOrchestrator DEF Next

-----------------------------------------------------------------------------
(* RepliesTrue, StagesTrue, ClicksTrue and the verdicts *)

LEMMA WitnessedKept ==
  ASSUME Forward, NEW s \in Sub, NEW success \in BOOLEAN, Witnessed(s, success)
  PROVE  Witnessed(s, success)'
BY DEF Forward, Witnessed

LEMMA RepliesStep ==
  ASSUME TypeOK, TypeOK', InHandIsUnacknowledged, OnlyKnown, RepliesTrue, [Next]_vars
  PROVE  RepliesTrue'
<1> DEFINE InQueue == \A r \in Reply : replies[r] > 0 => Witnessed(r.saga, r.success)
           InHandler == \A h \in Handler : handler[h].pc = "replying" =>
                          \E s \in Sub, success \in BOOLEAN :
                            /\ s = handler[h].sub /\ success = handler[h].success
                            /\ Witnessed(s, success)
           InWorker == \A w \in Worker : Active(w) /\ worker[w].by = "reply" =>
                         \E s \in Sub, success \in BOOLEAN :
                            /\ s = worker[w].sub /\ success = worker[w].success
                            /\ Witnessed(s, success)
<1>1. InQueue /\ InHandler /\ InWorker
  <2>1. \A h \in Handler : handler[h].pc = "replying" =>
          handler[h].sub \in Sub /\ handler[h].success \in BOOLEAN
    BY DEF TypeOK, HandlerTypeOK, IdleHandler
  <2>2. \A w \in Worker : Active(w) => worker[w].sub \in Sub /\ worker[w].success \in BOOLEAN
    BY ActiveRecord DEF TypeOK, WorkerRecord
  <2> QED
    BY <2>1, <2>2 DEF RepliesTrue
<1>2. \A s \in Sub, success \in BOOLEAN : Witnessed(s, success) => Witnessed(s, success)'
  BY ForwardStep, WitnessedKept
<1>3. CASE UNCHANGED <<replies, handler, worker>>
  BY <1>1, <1>2, <1>3 DEF RepliesTrue, Reply, Active
<1>4. ASSUME NEW h \in Handler, Notification(h) PROVE RepliesTrue'
  <2> USE DEF TypeOK, TransportTypeOK
  <2>0. replies' = replies => InQueue'
    BY <1>1, <1>2 DEF Reply
  <2>1. worker' = worker /\ InWorker'
    BY <1>1, <1>2, <1>4 DEF Notification, Active
  <2>2. ASSUME NEW s \in Sub, Consume(h, s) PROVE InQueue' /\ InHandler'
    <3>1. \A g \in Handler : handler'[g] = IF g = h THEN [pc |-> "sending", sub |-> s, success |-> FALSE]
                                                    ELSE handler[g]
      BY <2>2 DEF Consume, HandlerTypeOK
    <3>2. InQueue'
      BY <2>0, <2>2 DEF Consume, transportVars
    <3>3. InHandler'
      BY <1>1, <1>2, <3>1
    <3> QED
      BY <3>2, <3>3
  <2>3. ASSUME SendEmail(h) PROVE InQueue' /\ InHandler'
    <3>1. PICK success \in BOOLEAN, arrived \in BOOLEAN :
            /\ success => arrived
            /\ handler' = [handler EXCEPT ![h].pc = "replying", ![h].success = success]
            /\ mailed' = IF arrived THEN mailed \cup {handler[h].sub} ELSE mailed
            /\ bounced' = IF success THEN bounced ELSE bounced \cup {handler[h].sub}
            /\ replies' = replies
      BY <2>3 DEF SendEmail
    <3>2. handler[h] \in [pc : {"sending", "replying"}, sub : Sub, success : BOOLEAN]
      BY <2>3 DEF SendEmail, HandlerTypeOK, IdleHandler
    <3>3. PICK s \in Sub : s = handler[h].sub
      BY <3>2
    <3>4. handler'[h].sub = s /\ handler'[h].success = success
      BY <3>1, <3>2, <3>3 DEF HandlerTypeOK
    <3>5. Witnessed(s, success)'
      BY <3>1, <3>3 DEF Witnessed
    <3>6. \A g \in Handler \ {h} : handler'[g] = handler[g]
      BY <3>1 DEF HandlerTypeOK
    <3>7. InHandler'
      BY <1>1, <1>2, <3>4, <3>5, <3>6
    <3> QED
      BY <2>0, <3>1, <3>7
  <2>4. ASSUME PublishReply(h) PROVE InQueue' /\ InHandler'
    <3>1. PICK s \in Sub, success \in BOOLEAN :
            s = handler[h].sub /\ success = handler[h].success /\ Witnessed(s, success)
      BY <1>1, <2>4 DEF PublishReply
    <3>2. [saga |-> s, success |-> success] \in Reply
      BY DEF Reply
    <3>3. PICK r \in Reply : /\ r.saga = s /\ r.success = success
                             /\ replies' = [replies EXCEPT ![r] = @ + 1]
      BY <2>4, <3>1, <3>2 DEF PublishReply
    <3>4. \A g \in Handler : handler'[g] = IF g = h THEN IdleHandler ELSE handler[g]
      BY <2>4 DEF PublishReply, HandlerTypeOK
    <3>5. \A q \in Reply : replies'[q] > 0 => Witnessed(q.saga, q.success)
      BY <1>1, <3>1, <3>3
    <3>6. InQueue'
      BY <1>2, <3>5 DEF Reply
    <3>7. InHandler'
      BY <1>1, <1>2, <3>4 DEF IdleHandler
    <3> QED
      BY <3>6, <3>7
  <2>5. InQueue' /\ InHandler'
    BY <1>4, <2>2, <2>3, <2>4 DEF Notification, NotificationStep
  <2> QED
    BY <2>1, <2>5 DEF RepliesTrue
<1>5. ASSUME NEW w \in Worker, Orchestrator(w) PROVE RepliesTrue'
  <2>0. WorkerTypeOK
    BY DEF TypeOK
  <2>1. InHandler'
    BY <1>1, <1>2, <1>5 DEF Orchestrator
  <2>2. \A r \in Reply : replies'[r] > 0 => replies[r] > 0
    BY <1>5 DEF Orchestrator, WorkerStep, HandleReply, Complete, SweepTimeouts, Compensate,
                MarkCompensated, MarkFailed, Settle, tableVars, transportVars, TypeOK,
                TransportTypeOK
  <2>3. InQueue'
    BY <1>1, <1>2, <2>2 DEF Reply
  <2>4. CASE \E pc \in Stage : Active(w) /\ AtStage(w, pc)
    <3>1. InWorker'
      BY <1>1, <1>2, <2>4 DEF AtStage, Active
    <3> QED
      BY <2>1, <2>3, <3>1 DEF RepliesTrue
  <2>5. CASE \E rows \in SUBSET Sub : Sweeping(w, rows)
    <3>1. InWorker'
      BY <1>1, <1>2, <2>5 DEF Sweeping, Active
    <3> QED
      BY <2>1, <2>3, <3>1 DEF RepliesTrue
  <2>6. ASSUME NEW r \in Reply, HandleReply(w, r) PROVE RepliesTrue'
    <3>1. PICK pc \in Stage : Take(w, r, pc)
      BY <2>6 DEF HandleReply, ReplyStage, Stage
    <3>2. replies[r] > 0
      BY <2>6, InHandFinite DEF HandleReply, TypeOK, TransportTypeOK
    <3>3. r.saga \in Sub /\ r.success \in BOOLEAN /\ Witnessed(r.saga, r.success)
      BY <1>1, <3>2 DEF Reply
    <3>4. InWorker'
      BY <1>1, <1>2, <2>0, <3>1, <3>3, TakeFields DEF Active
    <3> QED
      BY <2>1, <2>3, <3>4 DEF RepliesTrue
  <2>7. CASE Settle(w)
    <3>1. \A v \in Worker : worker'[v] = IF v = w THEN IdleWorker ELSE worker[v]
      BY <2>0, <2>7 DEF Settle, WorkerTypeOK
    <3>2. InWorker'
      BY <1>1, <1>2, <3>1 DEF Active, IdleWorker
    <3> QED
      BY <2>1, <2>3, <3>2 DEF RepliesTrue
  <2>8. Active(w) /\ Return(w) => \/ \E pc \in Stage : AtStage(w, pc)
                                  \/ \E rows \in SUBSET Sub : Sweeping(w, rows)
    BY <2>0, ReturnFields, InHandSub DEF Stage
  <2>9. CASE Complete(w) \/ Compensate(w) \/ MarkCompensated(w) \/ MarkFailed(w)
    <3>1. Active(w) /\ (Return(w) \/ \E pc \in Stage : GotoStage(w, pc))
      BY <2>9 DEF Complete, Compensate, MarkCompensated, MarkFailed, Active, Stage
    <3> QED
      BY <2>0, <2>4, <2>5, <2>8, <3>1, GotoFields
  <2>10. CASE SweepTimeouts(w)
    <3>1. FindStaleStarted \in SUBSET Sub
      BY DEF FindStaleStarted
    <3> QED
      BY <2>0, <2>5, <2>10, <3>1, SweepFields DEF SweepTimeouts
  <2> QED
    BY <1>5, <2>6, <2>7, <2>9, <2>10 DEF Orchestrator, WorkerStep
<1>6. CASE NotificationFailure \/ MonolithFailure
  <2>1. /\ replies' = replies
        /\ \A h \in Handler : handler'[h] \in {handler[h], IdleHandler}
        /\ \A w \in Worker : worker'[w] \in {worker[w], IdleWorker}
    BY <1>6 DEF NotificationFailure, NotificationDisconnects, NotificationCrash,
         NotificationRestarts, NotificationUnhandledRejection, MonolithFailure,
         MonolithDisconnects, MonolithCrash, MonolithUnhandledRejection, MonolithRestarts
  <2>2. InQueue' /\ InHandler' /\ InWorker'
    BY <1>1, <1>2, <2>1 DEF Reply, Active, IdleHandler, IdleWorker
  <2> QED
    BY <2>2 DEF RepliesTrue
<1>7. CASE Clock \/ UNCHANGED vars \/ \E s \in Sub : Broker(s) \/ Requests(s)
  BY <1>3, <1>7 DEF Clock, vars, Broker, Requests, transportVars, BrokerAccept, RequestStep,
     CheckDuplicate, CommitSubscription, Start, FindByConfirmToken, Confirm, FindByUnsubscribeToken,
     Unsubscribe
<1>8. ASSUME NEW d \in Drain, Relay(d) PROVE RepliesTrue'
  BY <1>3, <1>8 DEF Relay, RelayStep, StartDrain, Publish, Mark, Bump, transportVars, relayTransport
<1> QED
  BY <1>4, <1>5, <1>6, <1>7, <1>8 DEF Next

\* StagesTrue about one activation.
StageTrue(w) ==
  Active(w) =>
    /\ worker[w].by = "sweep" =>
         \A s \in {worker[w].sub} \cup worker[w].left : createdAt[s] <= cutoff
    /\ worker[w].pc = "complete" => worker[w].by = "reply" /\ worker[w].success
    /\ worker[w].pc = "delete" /\ worker[w].by = "reply" => ~worker[w].success
    /\ worker[w].pc = "markCompensated" => row[worker[w].sub] = "compensated"
    /\ worker[w].pc = "ack" => worker[w].by = "reply" /\ saga[worker[w].sub] \in Terminal

LEMMA StageKept ==
  ASSUME TypeOK, TypeOK', OnlyKnown, Forward, NEW w \in Worker, worker'[w] = worker[w],
         StageTrue(w)
  PROVE  StageTrue(w)'
<1> SUFFICES ASSUME Active(w) PROVE StageTrue(w)'
  BY DEF StageTrue, Active
<1>1. /\ \A s \in {worker[w].sub} \cup worker[w].left : s \in Sub /\ Known(s)
      /\ worker[w].sub \in Sub
  BY InHandSub DEF TypeOK, OnlyKnown
<1>2. \A s \in {worker[w].sub} \cup worker[w].left :
        createdAt[s] <= cutoff => createdAt'[s] <= cutoff'
  BY <1>1 DEF Forward, TypeOK, TablesTypeOK
<1>3. /\ row[worker[w].sub] = "compensated" => row'[worker[w].sub] = "compensated"
      /\ saga[worker[w].sub] \in Terminal => saga'[worker[w].sub] \in Terminal
  BY <1>1 DEF Forward, RemovedRow
<1> QED
  BY <1>2, <1>3 DEF StageTrue, Active

LEMMA StageOrchestrator ==
  ASSUME TypeOK, TypeOK', InHandIsUnacknowledged, OnlyKnown, NEW w \in Worker, StageTrue(w),
         Orchestrator(w)
  PROVE  StageTrue(w)' /\ \A v \in Worker \ {w} : worker'[v] = worker[v]
<1> DEFINE Goal == StageTrue(w)' /\ \A v \in Worker \ {w} : worker'[v] = worker[v]
<1>0. WorkerTypeOK /\ WorkerTypeOK'
  BY DEF TypeOK
<1>1. ASSUME NEW r \in Reply, HandleReply(w, r) PROVE Goal
  <2>1. PICK pc \in Stage : pc \in {ReplyStage(r), "nack"} /\ Take(w, r, pc)
    BY <1>1 DEF HandleReply, ReplyStage, Stage
  <2>2. replies[r] > 0
    BY <1>1, InHandFinite DEF HandleReply, TypeOK, TransportTypeOK
  <2>3. r.saga \in Sub /\ saga[r.saga] # "none"
    BY <2>2 DEF OnlyKnown, Reply
  <2>4. /\ pc = "ack" => saga[r.saga] \in Terminal
        /\ pc = "complete" => r.success
        /\ pc = "delete" => ~r.success
        /\ pc # "markCompensated"
    BY <2>1, <2>3 DEF ReplyStage
  <2> QED
    BY <1>0, <1>1, <2>1, <2>4, TakeFields DEF HandleReply, tableVars, StageTrue, Active
<1>2. CASE Complete(w)
  <2>1. Active(w) /\ worker[w].by = "reply" /\ worker[w].sub \in Sub
    BY <1>0, <1>2, InHandSub DEF Complete, Active, StageTrue
  <2>2. \/ AtStage(w, "ack") /\ saga'[worker[w].sub] = "COMPLETED"
        \/ AtStage(w, "nack")
    BY <1>0, <1>2, <2>1, GotoFields DEF Complete, UpdateStatus, Stage, TypeOK, TablesTypeOK
  <2> QED
    BY <2>1, <2>2 DEF AtStage, StageTrue, Active, Terminal
<1>3. CASE SweepTimeouts(w)
  <2>1. Sweeping(w, FindStaleStarted) /\ UNCHANGED <<createdAt, cutoff>>
    BY <1>0, <1>3, SweepFields DEF SweepTimeouts, FindStaleStarted, tableVars
  <2> QED
    BY <2>1 DEF Sweeping, FindStaleStarted, StageTrue, Active
<1>4. CASE Compensate(w)
  <2>1. Active(w) /\ worker[w].sub \in Sub /\ UNCHANGED <<createdAt, cutoff>>
    BY <1>0, <1>4, InHandSub DEF Compensate, Active, orchestratorTables
  <2>2. \/ AtStage(w, "markCompensated") /\ row'[worker[w].sub] = "compensated"
        \/ AtStage(w, "markFailed")
    BY <1>0, <1>4, <2>1, GotoFields DEF Compensate, DeleteSubscription, Stage, TypeOK, TablesTypeOK
  <2> QED
    BY <2>1, <2>2 DEF AtStage, StageTrue, Active
<1>5. CASE MarkCompensated(w) \/ MarkFailed(w)
  <2>1. Active(w) /\ worker[w].sub \in Sub /\ UNCHANGED <<createdAt, cutoff>>
    BY <1>0, <1>5, InHandSub DEF MarkCompensated, MarkFailed, Active, orchestratorTables
  <2>2. \/ Return(w) /\ saga'[worker[w].sub] \in Terminal
        \/ GotoStage(w, "markFailed") \/ GotoStage(w, "nack")
    BY <1>5, <2>1 DEF MarkCompensated, MarkFailed, UpdateStatus, TypeOK, TablesTypeOK, Terminal
  <2>3. CASE AtStage(w, "markFailed") \/ AtStage(w, "nack")
    BY <2>1, <2>3 DEF AtStage, StageTrue, Active
  <2>4. CASE worker[w].by = "reply" /\ AtStage(w, "ack") /\ saga'[worker[w].sub] \in Terminal
    BY <2>1, <2>4 DEF AtStage, StageTrue, Active
  <2>5. CASE worker[w].by = "sweep" /\ Sweeping(w, worker[w].left)
    BY <2>1, <2>5 DEF Sweeping, StageTrue, Active
  <2> QED
    BY <1>0, <2>1, <2>2, <2>3, <2>4, <2>5, ReturnFields, GotoFields DEF Stage
<1>6. CASE Settle(w)
  BY <1>0, <1>6 DEF Settle, WorkerTypeOK, IdleWorker, StageTrue, Active
<1> QED
  BY <1>1, <1>2, <1>3, <1>4, <1>5, <1>6 DEF Orchestrator, WorkerStep

LEMMA StagesStep ==
  ASSUME TypeOK, TypeOK', InHandIsUnacknowledged, OnlyKnown, StagesTrue, [Next]_vars
  PROVE  StagesTrue'
<1>1. \A w \in Worker : StageTrue(w)
  BY DEF StagesTrue, StageTrue
<1>2. Forward
  BY ForwardStep
<1>3. ASSUME NEW w \in Worker, worker'[w] \in {worker[w], IdleWorker} PROVE StageTrue(w)'
  <2>1. CASE worker'[w] = IdleWorker
    BY <2>1 DEF StageTrue, Active, IdleWorker
  <2> QED
    BY <1>1, <1>2, <1>3, <2>1, StageKept
<1>4. \A w \in Worker : StageTrue(w)'
  <2>1. CASE \A w \in Worker : worker'[w] \in {worker[w], IdleWorker}
    BY <1>3, <2>1
  <2>2. ASSUME NEW w \in Worker, Orchestrator(w) PROVE \A v \in Worker : StageTrue(v)'
    BY <1>1, <1>3, <2>2, StageOrchestrator
  <2>3. CASE NotificationFailure \/ MonolithFailure
    BY <2>1, <2>3 DEF NotificationFailure, MonolithFailure, MonolithDisconnects, MonolithCrash,
                      MonolithUnhandledRejection, MonolithRestarts
  <2> QED
    BY <2>1, <2>2, <2>3 DEF Next, Clock, Broker, Requests, Relay, Notification, vars
<1> QED
  BY <1>4 DEF StagesTrue, StageTrue

LEMMA ClicksStep ==
  ASSUME TypeOK, TypeOK', OnlyKnown, ClicksTrue, [Next]_vars
  PROVE  ClicksTrue'
<1>1. Forward
  BY ForwardStep
<1>2. \A q \in http : q.sub \in Sub
  BY DEF TypeOK, RequestsTypeOK, Request
<1>3. \A s \in Sub : Known(s) /\ row[s] # "unconfirmed" => row'[s] # "unconfirmed"
  <2>1. CASE row' = row
    BY <2>1
  <2>2. ASSUME NEW s \in Sub, Requests(s)
        PROVE  \A t \in Sub : Known(t) /\ row[t] # "unconfirmed" => row'[t] # "unconfirmed"
    <3>1. Req("subscribe", s) \in http => ~Known(s)
      BY DEF OnlyKnown, Req
    <3> QED
      BY <2>2, <3>1 DEF Requests, RequestStep, CheckDuplicate, CommitSubscription, Start,
         FindByConfirmToken, Confirm, FindByUnsubscribeToken, Unsubscribe, tableVars,
         CreateSubscription, ConfirmSubscription, DeleteSubscription, TypeOK, TablesTypeOK
  <2>3. ASSUME NEW w \in Worker, Orchestrator(w)
        PROVE  \A t \in Sub : Known(t) /\ row[t] # "unconfirmed" => row'[t] # "unconfirmed"
    BY <2>3 DEF Orchestrator, WorkerStep, HandleReply, Complete, SweepTimeouts, Compensate,
       MarkCompensated, MarkFailed, Settle, tableVars, TypeOK, TablesTypeOK, DeleteSubscription
  <2>4. ASSUME NEW d \in Drain, Relay(d) PROVE row' = row
    BY <2>4 DEF Relay, RelayStep, StartDrain, Publish, Mark, Bump, tableVars, relayTables
  <2>5. CASE NotificationFailure \/ MonolithFailure
    BY <2>1, <2>5 DEF NotificationFailure, MonolithFailure, MonolithDisconnects, MonolithCrash,
                      MonolithUnhandledRejection, MonolithRestarts, tableVars
  <2> QED
    BY <2>1, <2>2, <2>3, <2>4, <2>5 DEF Next, Clock, TimePasses, Broker, Notification, vars, tableVars
<1>4. ASSUME NEW q \in http, q \in http'
      PROVE  /\ q.op = "confirm" => q.sub \in mailed'
             /\ q.op = "unsubscribe" => row'[q.sub] # "unconfirmed"
  <2>1. q.op = "unsubscribe" => Known(q.sub)
    BY DEF OnlyKnown
  <2> QED
    BY <1>1, <1>2, <1>3, <2>1 DEF ClicksTrue, Forward
<1>5. CASE http' \subseteq http
  BY <1>4, <1>5 DEF ClicksTrue
<1>6. ASSUME NEW s \in Sub, Requests(s) PROVE ClicksTrue'
  <2>1. CASE CheckDuplicate(s) \/ FindByConfirmToken(s) \/ FindByUnsubscribeToken(s)
    <3>1. UNCHANGED <<row, mailed>>
      BY <2>1 DEF CheckDuplicate, FindByConfirmToken, FindByUnsubscribeToken, tableVars,
                  transportVars
    <3>2. PICK op \in {"subscribe", "confirm", "unsubscribe"} :
            /\ http' = http \cup {Req(op, s)}
            /\ op = "confirm" => s \in mailed
            /\ op = "unsubscribe" => row[s] # "unconfirmed"
      BY <2>1 DEF CheckDuplicate, FindByConfirmToken, FindByUnsubscribeToken
    <3> QED
      BY <3>1, <3>2 DEF Req, ClicksTrue
  <2>2. CASE CommitSubscription(s) \/ Confirm(s) \/ Unsubscribe(s)
    BY <1>5, <2>2 DEF CommitSubscription, Start, Confirm, Unsubscribe
  <2> QED
    BY <1>6, <2>1, <2>2 DEF Requests, RequestStep
<1>7. CASE NotificationFailure \/ MonolithFailure
  BY <1>5, <1>7 DEF NotificationFailure, MonolithFailure, MonolithDisconnects, MonolithCrash,
                    MonolithUnhandledRejection, MonolithRestarts
<1> QED
  BY <1>5, <1>6, <1>7 DEF Next, Clock, Broker, Relay, Notification, Orchestrator, vars

LEMMA RankedStep ==
  ASSUME TypeOK, TypeOK', OnlyKnown, Ranked, [Next]_vars
  PROVE  Ranked'
<1> DEFINE Rows == {t \in Sub : createdAt[t] # 0}
<1>1. IsFiniteSet(Rows) /\ Inserted = Cardinality(Rows) /\ Inserted \in Nat
  <2>1. Rows \in SUBSET Sub
    OBVIOUS
  <2>2. IsFiniteSet(Rows)
    BY <2>1, FS_Subset, TablesAssumption
  <2> QED
    BY <2>2, FS_CardinalityType DEF Inserted
<1>2. CASE createdAt' = createdAt /\ \A s \in Sub : Known(s)' <=> Known(s)
  BY <1>2 DEF Ranked, Inserted
<1>3. ASSUME NEW s \in Sub, CommitSubscription(s), createdAt' # createdAt PROVE Ranked'
  <2>1. /\ createdAt' = [createdAt EXCEPT ![s] = Inserted + 1]
        /\ row' = [row EXCEPT ![s] = "unconfirmed"]
    BY <1>3 DEF CommitSubscription, Start, CreateSubscription, tableVars
  <2>2. ~Known(s) /\ createdAt[s] = 0
    BY <1>3 DEF CommitSubscription, Start, Req, OnlyKnown, Ranked
  <2>3. Rows' = Rows \cup {s} /\ s \notin Rows
    BY <1>1, <2>1, <2>2 DEF TypeOK, TablesTypeOK
  <2>4. Inserted' = Inserted + 1
    <3>1. Cardinality(Rows \cup {s}) = Cardinality(Rows) + 1
      BY <1>1, <2>3, FS_AddElement
    <3> QED
      BY <1>1, <2>3, <3>1 DEF Inserted
  <2>5. \A t \in Sub : createdAt'[t] = IF t = s THEN Inserted + 1 ELSE createdAt[t]
    BY <2>1 DEF TypeOK, TablesTypeOK
  <2>6. \A t \in Sub : Known(t)' <=> (t = s \/ Known(t))
    BY <2>1 DEF Known, TypeOK, TablesTypeOK
  <2>7. \A t \in Sub : createdAt[t] \in Nat /\ createdAt[t] <= Inserted
    BY DEF Ranked, TypeOK, TablesTypeOK
  <2>8. \A t \in Sub : Known(t)' <=> createdAt'[t] # 0
    BY <1>1, <2>5, <2>6 DEF Ranked
  <2>9. \A t \in Sub : createdAt'[t] <= Inserted'
    BY <1>1, <2>4, <2>5, <2>7
  <2>10. ASSUME NEW t \in Sub, NEW u \in Sub, Known(t)', createdAt'[t] = createdAt'[u]
         PROVE  t = u
    BY <1>1, <2>5, <2>6, <2>7, <2>10 DEF Ranked
  <2> QED
    BY <2>8, <2>9, <2>10 DEF Ranked
<1>4. ASSUME NEW s \in Sub, Requests(s) PROVE Ranked'
  <2>1. CASE CommitSubscription(s) /\ createdAt' = createdAt
    <3>1. createdAt'[s] = 0
      BY <2>1 DEF CommitSubscription, Start, Req, OnlyKnown, Ranked
    <3>2. row' = row
      BY <1>1, <2>1, <3>1 DEF CommitSubscription, Start, tableVars, TypeOK, TablesTypeOK
    <3> QED
      BY <1>2, <2>1, <3>2 DEF Known
  <2>2. CASE ~CommitSubscription(s)
    BY <1>2, <1>4, <2>2 DEF Requests, RequestStep, CheckDuplicate, FindByConfirmToken, Confirm,
       FindByUnsubscribeToken, Unsubscribe, ConfirmSubscription, DeleteSubscription, tableVars,
       Live, LiveRow, Known, TypeOK, TablesTypeOK
  <2> QED
    BY <1>3, <2>1, <2>2
<1>5. ASSUME NEW w \in Worker, Orchestrator(w) PROVE Ranked'
  BY <1>2, <1>5 DEF Orchestrator, WorkerStep, HandleReply, Complete, SweepTimeouts, Compensate,
     MarkCompensated, MarkFailed, Settle, tableVars, orchestratorTables, DeleteSubscription,
     Live, LiveRow, Known, TypeOK, TablesTypeOK
<1>6. ASSUME NEW d \in Drain, Relay(d) PROVE Ranked'
  BY <1>2, <1>6 DEF Relay, RelayStep, StartDrain, Publish, Mark, Bump, tableVars, relayTables, Known
<1>7. CASE NotificationFailure \/ MonolithFailure
  BY <1>2, <1>7 DEF NotificationFailure, MonolithFailure, MonolithDisconnects, MonolithCrash,
                    MonolithUnhandledRejection, MonolithRestarts, tableVars, Known
<1>8. CASE Clock \/ UNCHANGED vars \/ (\E s \in Sub : Broker(s)) \/ \E h \in Handler : Notification(h)
  BY <1>2, <1>8 DEF Clock, TimePasses, vars, Broker, Notification, tableVars, Known
<1> QED
  BY <1>4, <1>5, <1>6, <1>7, <1>8 DEF Next

\* The three invariants that a reader of the tables relies on.
VerdictsTrue == CompensatedMeansDeleted /\ CompletedMeansMailed /\ CompensationIsJustified

LEMMA VerdictsStep ==
  ASSUME TypeOK, TypeOK', OnlyKnown, RepliesTrue, StagesTrue, VerdictsTrue, [Next]_vars
  PROVE  VerdictsTrue'
<1> USE DEF VerdictsTrue, CompensatedMeansDeleted, CompletedMeansMailed, CompensationIsJustified
<1>1. Forward
  BY ForwardStep
\* What has been true of a subscription stays true.
<1>2. ASSUME NEW s \in Sub
      PROVE  /\ row[s] = "compensated" => row'[s] = "compensated"
             /\ s \in mailed => s \in mailed'
             /\ row[s] = "compensated" => s \in bounced' \/ createdAt'[s] <= cutoff'
  BY <1>1 DEF Forward, RemovedRow, Known, TypeOK, TablesTypeOK
\* A step that gives no verdict and compensates nothing.
<1>3. CASE /\ \A s \in Sub : saga'[s] \in {"COMPENSATED", "COMPLETED"} => saga'[s] = saga[s]
           /\ \A s \in Sub : row'[s] = "compensated" => row[s] = "compensated"
  BY <1>2, <1>3
<1>4. ASSUME NEW w \in Worker, Orchestrator(w) PROVE VerdictsTrue'
  <2> USE DEF TypeOK, TablesTypeOK
  <2>1. Active(w) => worker[w].sub \in Sub
    BY InHandSub
  <2>2. CASE Complete(w)
    <3>1. worker[w].sub \in Sub /\ worker[w].sub \in mailed'
      BY <1>2, <2>1, <2>2 DEF Complete, Active, StagesTrue, RepliesTrue, Witnessed
    <3>2. row' = row /\ \A s \in Sub : saga'[s] = saga[s] \/ (s = worker[w].sub /\ saga'[s] = "COMPLETED")
      BY <2>2 DEF Complete, UpdateStatus
    <3> QED
      BY <1>2, <3>1, <3>2
  <2>3. CASE MarkCompensated(w)
    <3>1. worker[w].sub \in Sub /\ row[worker[w].sub] = "compensated"
      BY <2>1, <2>3 DEF MarkCompensated, Active, StagesTrue
    <3>2. row' = row /\ \A s \in Sub : saga'[s] = saga[s] \/ (s = worker[w].sub /\ saga'[s] = "COMPENSATED")
      BY <2>3 DEF MarkCompensated, UpdateStatus
    <3> QED
      BY <1>2, <3>1, <3>2
  <2>4. CASE Compensate(w)
    <3>1. worker[w].sub \in Sub
      BY <2>1, <2>4 DEF Compensate, Active
    <3>2. worker[w].sub \in bounced \/ createdAt[worker[w].sub] <= cutoff
      BY <2>1, <2>4, ActiveRecord
         DEF Compensate, Active, StagesTrue, RepliesTrue, Witnessed, WorkerRecord
    <3>3. /\ saga' = saga /\ UNCHANGED <<bounced, createdAt, cutoff>>
          /\ \A s \in Sub : row'[s] = row[s] \/ s = worker[w].sub
      BY <2>4 DEF Compensate, DeleteSubscription, orchestratorTables, orchestratorTransport
    <3> QED
      BY <1>2, <3>1, <3>2, <3>3
  <2>5. CASE MarkFailed(w)
    BY <1>3, <2>5 DEF MarkFailed, UpdateStatus
  <2>6. CASE SweepTimeouts(w) \/ Settle(w) \/ \E r \in Reply : HandleReply(w, r)
    BY <1>3, <2>6 DEF SweepTimeouts, Settle, HandleReply, tableVars
  <2> QED
    BY <1>4, <2>2, <2>3, <2>4, <2>5, <2>6 DEF Orchestrator, WorkerStep
<1>5. ASSUME NEW s \in Sub, Requests(s) PROVE VerdictsTrue'
  BY <1>3, <1>5 DEF Requests, RequestStep, CheckDuplicate, CommitSubscription, Start, FindByConfirmToken,
     Confirm, FindByUnsubscribeToken, Unsubscribe, CreateSubscription, ConfirmSubscription,
     DeleteSubscription, CreateSaga, tableVars, TypeOK, TablesTypeOK
<1>6. CASE UNCHANGED <<row, saga>>
  BY <1>3, <1>6
<1>7. ASSUME NEW d \in Drain, Relay(d) PROVE UNCHANGED <<row, saga>>
  BY <1>7 DEF Relay, RelayStep, StartDrain, Publish, Mark, Bump, tableVars, relayTables
<1>8. CASE NotificationFailure \/ MonolithFailure
  BY <1>6, <1>8 DEF NotificationFailure, MonolithFailure, MonolithDisconnects, MonolithCrash,
                    MonolithUnhandledRejection, MonolithRestarts, tableVars
<1> QED
  BY <1>4, <1>5, <1>6, <1>7, <1>8 DEF Next, Clock, TimePasses, Broker, Notification, vars, tableVars

-----------------------------------------------------------------------------
(* WorkOutstanding *)

\* A step that takes no copy of a message away.
LEMMA CopiesKept ==
  ASSUME Forward, TypeOK, TypeOK', NEW s \in Sub, HasWork(s),
         wire'[s] >= wire[s], commands'[s] >= commands[s],
         \A r \in Reply : r.saga = s => replies'[r] >= replies[r]
  PROVE  HasWork(s)'
BY DEF Forward, HasWork, TypeOK, TransportTypeOK

LEMMA WorkNotification ==
  ASSUME Forward, TypeOK, TypeOK', NEW s \in Sub, HasWork(s), NEW h \in Handler, Notification(h)
  PROVE  HasWork(s)'
<1> USE DEF Notification, TypeOK, TransportTypeOK
<1>1. CASE PublishReply(h)
  <2> DEFINE r == [saga |-> handler[h].sub, success |-> handler[h].success]
  <2>1. handler[h].sub \in Sub /\ handler[h].success \in BOOLEAN /\ r \in Reply
    BY <1>1 DEF PublishReply, HandlerTypeOK, IdleHandler, Reply
  <2>2. /\ replies' = [replies EXCEPT ![r] = @ + 1]
        /\ wire' = wire
        /\ commands' = commands \/ commands' = [commands EXCEPT ![handler[h].sub] = @ - 1]
    BY <1>1 DEF PublishReply
  <2>3. replies'[r] > 0 /\ r.saga = handler[h].sub
    BY <2>1, <2>2
  <2>4. CASE handler[h].sub = s
    BY <2>1, <2>3, <2>4 DEF HasWork
  <2>5. CASE handler[h].sub # s
    <3>1. \A q \in Reply : replies'[q] >= replies[q]
      BY <2>1, <2>2
    <3>2. commands'[s] = commands[s]
      BY <2>1, <2>2, <2>5
    <3> QED
      BY <2>2, <3>1, <3>2, CopiesKept
  <2> QED
    BY <2>4, <2>5
<1>2. CASE SendEmail(h) \/ \E t \in Sub : Consume(h, t)
  <2>1. UNCHANGED <<wire, commands, replies>>
    BY <1>2 DEF SendEmail, Consume, transportVars
  <2> QED
    BY <2>1, CopiesKept
<1> QED
  BY <1>1, <1>2 DEF NotificationStep

LEMMA WorkOrchestrator ==
  ASSUME Forward, TypeOK, TypeOK', StagesTrue, NEW s \in Sub, HasWork(s), NEW w \in Worker,
         Orchestrator(w)
  PROVE  HasWork(s)'
<1> USE DEF Orchestrator, TypeOK, TransportTypeOK
<1>1. CASE Settle(w)
  <2> DEFINE r == [saga |-> worker[w].sub, success |-> worker[w].success]
  <2>1. /\ UNCHANGED <<wire, commands, saga>>
        /\ replies' = [replies EXCEPT ![r] = @ - 1]
        /\ worker[w].pc \in {"ack", "nack"}
        /\ worker[w].pc = "nack" => worker[w].sub \in lost'
    BY <1>1 DEF Settle, tableVars, orchestratorTransport
  <2>2. worker[w].pc = "ack" => saga[worker[w].sub] \in Terminal
    BY <2>1 DEF StagesTrue, Active
  <2>3. CASE worker[w].sub = s
    BY <2>1, <2>2, <2>3 DEF HasWork
  <2>4. CASE worker[w].sub # s
    <3>1. \A q \in Reply : q.saga = s => replies'[q] = replies[q]
      BY <2>1, <2>4
    <3> QED
      BY <2>1, <3>1, CopiesKept
  <2> QED
    BY <2>3, <2>4
<1>2. CASE ~Settle(w)
  <2>1. UNCHANGED <<wire, commands, replies>>
    BY <1>2 DEF WorkerStep, HandleReply, Complete, SweepTimeouts, Compensate, MarkCompensated,
                MarkFailed, transportVars, orchestratorTransport
  <2> QED
    BY <2>1, CopiesKept
<1> QED
  BY <1>1, <1>2

\* Only a restart of the monolith can take away work unnoticed, and only the
\* command of a row that is still PENDING.
LEMMA WorkKept ==
  ASSUME Forward, TypeOK, TypeOK', StagesTrue, [Next]_vars,
         NEW s \in Sub, HasWork(s), outbox[s] = "SENT" \/ ~MonolithRestarts
  PROVE  HasWork(s)'
<1> USE DEF TypeOK, TransportTypeOK
<1>1. CASE UNCHANGED <<wire, commands, replies>>
  BY <1>1, CopiesKept
<1>2. ASSUME NEW t \in Sub, Broker(t) PROVE HasWork(s)'
  <2>1. /\ wire' = [wire EXCEPT ![t] = @ - 1]
        /\ commands' = [commands EXCEPT ![t] = @ + 1]
        /\ replies' = replies
    BY <1>2 DEF Broker, BrokerAccept
  <2>2. CASE t = s
    BY <2>1, <2>2 DEF HasWork
  <2>3. CASE t # s
    BY <2>1, <2>3, CopiesKept
  <2> QED
    BY <2>2, <2>3
<1>3. ASSUME NEW d \in Drain, Relay(d) PROVE HasWork(s)'
  <2>1. /\ \A t \in Sub : wire'[t] >= wire[t]
        /\ UNCHANGED <<commands, replies>>
    BY <1>3 DEF Relay, RelayStep, StartDrain, Publish, Mark, Bump, transportVars, relayTransport
  <2> QED
    BY <2>1, CopiesKept
<1>4. CASE MonolithFailure
  <2>1. /\ UNCHANGED <<commands, replies>>
        /\ wire[s] > 0 => s \in lost'
    BY <1>4 DEF MonolithFailure, MonolithDisconnects, MonolithCrash, MonolithUnhandledRejection,
                MonolithRestarts
  <2>2. CASE s \in lost'
    BY <2>2 DEF HasWork
  <2>3. CASE ~(wire[s] > 0)
    <3>1. wire'[s] >= wire[s]
      BY <2>3
    <3> QED
      BY <2>1, <3>1, CopiesKept
  <2> QED
    BY <2>1, <2>2, <2>3
<1>5. CASE Clock \/ NotificationFailure \/ UNCHANGED vars \/ \E t \in Sub : Requests(t)
  BY <1>1, <1>5 DEF Clock, NotificationFailure, NotificationDisconnects, NotificationCrash,
     NotificationUnhandledRejection, NotificationRestarts, vars, Requests, RequestStep,
     CheckDuplicate, CommitSubscription, Start, FindByConfirmToken, Confirm, FindByUnsubscribeToken,
     Unsubscribe, transportVars
<1> QED
  BY <1>2, <1>3, <1>4, <1>5, WorkNotification, WorkOrchestrator DEF Next

\* The current row of a drain depends on nothing but its rows.
LEMMA CurrentKept ==
  ASSUME Forward, OnlyKnown, NEW d \in Drain, NEW s \in Sub, TypeOK,
         relay'[d].rows = relay[d].rows, IsCurrent(d, s)'
  PROVE  IsCurrent(d, s)
<1>1. \A t \in relay[d].rows : t \in Sub /\ createdAt'[t] = createdAt[t]
  BY DEF Forward, OnlyKnown, TypeOK, RelayTypeOK
<1> QED
  BY <1>1 DEF IsCurrent

LEMMA CurrentUnique ==
  ASSUME Ranked, OnlyKnown, TypeOK, NEW d \in Drain, NEW s \in Sub, NEW t \in Sub,
         IsCurrent(d, s), IsCurrent(d, t)
  PROVE  s = t
<1>1. createdAt[s] = createdAt[t]
  BY DEF IsCurrent, TypeOK, TablesTypeOK
<1> QED
  BY <1>1 DEF Ranked, IsCurrent, OnlyKnown

LEMMA WorkOutstandingStep ==
  ASSUME TypeOK, TypeOK', OnlyKnown, Ranked, StagesTrue, WorkOutstanding, [Next]_vars
  PROVE  WorkOutstanding'
<1> USE DEF TypeOK, TablesTypeOK, TransportTypeOK
<1>1. Forward
  BY ForwardStep
<1>2. ASSUME NEW s \in Sub, outbox'[s] = "SENT" PROVE HasWork(s)'
  <2>1. CASE outbox[s] = "SENT"
    BY <1>1, <2>1, WorkKept DEF WorkOutstanding
  <2>2. CASE outbox[s] # "SENT"
    <3>1. ~MonolithRestarts
      BY <1>2, <2>2 DEF MonolithRestarts, tableVars
    <3>2. \E d \in Drain : Mark(d, s)
      <4>1. ASSUME NEW t \in Sub, Requests(t) PROVE outbox' = outbox \/ outbox'[s] # "SENT"
        BY <2>2, <4>1 DEF Requests, RequestStep, CheckDuplicate, CommitSubscription, Start, Enqueue,
           FindByConfirmToken, Confirm, FindByUnsubscribeToken, Unsubscribe, tableVars
      <4>2. ASSUME NEW w \in Worker, Orchestrator(w) PROVE outbox' = outbox
        BY <4>2 DEF Orchestrator, WorkerStep, HandleReply, Complete, SweepTimeouts, Compensate,
           MarkCompensated, MarkFailed, Settle, tableVars, orchestratorTables
      <4>3. ASSUME NEW d \in Drain, Relay(d), ~Mark(d, s) PROVE outbox'[s] = outbox[s]
        BY <4>3 DEF Relay, RelayStep, StartDrain, Publish, Mark, Bump, MarkSent, tableVars,
           relayTables
      <4>4. CASE MonolithFailure
        BY <1>2, <2>2, <4>4 DEF MonolithFailure, MonolithDisconnects, MonolithCrash,
           MonolithUnhandledRejection, MonolithRestarts, tableVars
      <4> QED
        BY <1>2, <2>2, <4>1, <4>2, <4>3, <4>4 DEF Next, Clock, TimePasses, Broker, Notification,
           NotificationFailure, vars, tableVars
    <3> QED
      BY <1>1, <3>1, <3>2, WorkKept DEF Mark, WorkOutstanding
  <2> QED
    BY <2>1, <2>2
<1>3. ASSUME NEW d \in Drain, NEW s \in Sub, relay'[d].pc = "mark", IsCurrent(d, s)'
      PROVE  HasWork(s)'
  <2>1. ~MonolithRestarts
    BY <1>3 DEF MonolithRestarts, IdleDrain
  <2>2. CASE relay'[d] = relay[d]
    BY <1>1, <1>3, <2>1, <2>2, CurrentKept, WorkKept DEF WorkOutstanding
  <2>3. CASE relay'[d] # relay[d]
    <3>1. Relay(d)
      <4>1. ASSUME NEW c \in Drain, Relay(c), c # d PROVE relay'[d] = relay[d]
        BY <4>1 DEF Relay, RelayStep, StartDrain, Publish, Mark, Bump, Goto, NextRow, RelayTypeOK
      <4> QED
        BY <2>1, <2>3, <4>1 DEF Next, Clock, Broker, Requests, Notification, Orchestrator,
           NotificationFailure, MonolithFailure, MonolithDisconnects, MonolithCrash,
           MonolithUnhandledRejection, vars
    <3>2. PICK t \in Sub : Publish(d, t) /\ Goto(d, "mark") /\ wire' = [wire EXCEPT ![t] = @ + 1]
      BY <1>3, <3>1 DEF Relay, RelayStep, StartDrain, Publish, Mark, Bump, Goto, NextRow,
                        RelayTypeOK, IdleDrain
    <3>3. relay'[d].rows = relay[d].rows
      BY <3>2 DEF Goto, RelayTypeOK
    <3>4. s = t
      BY <1>1, <1>3, <3>2, <3>3, CurrentKept, CurrentUnique DEF Publish
    <3> QED
      BY <3>2, <3>4 DEF HasWork
  <2> QED
    BY <2>2, <2>3
<1> QED
  BY <1>2, <1>3 DEF WorkOutstanding

-----------------------------------------------------------------------------
(* OneLiveRowPerKey, and the steps of SagaPromise *)

\* A row that becomes live has its key to itself.
LEMMA KeyStep ==
  ASSUME TypeOK, OneLiveRowPerKey, [Next]_vars
  PROVE  OneLiveRowPerKey'
<1> USE DEF TypeOK, TablesTypeOK, LiveRow, RemovedRow, Live
<1>1. CASE \A s \in Sub : Live(s)' => Live(s)
  BY <1>1 DEF OneLiveRowPerKey
<1>2. ASSUME NEW s \in Sub, Requests(s) PROVE OneLiveRowPerKey'
  <2>1. CASE CommitSubscription(s) /\ ~KeyTaken(s) /\ CreateSubscription(s)
    <3>1. \A t \in Sub : row'[t] = IF t = s THEN "unconfirmed" ELSE row[t]
      BY <2>1 DEF CreateSubscription
    <3> QED
      BY <2>1, <3>1 DEF OneLiveRowPerKey, KeyTaken
  <2>2. CASE ~(CommitSubscription(s) /\ ~KeyTaken(s) /\ CreateSubscription(s))
    BY <1>1, <1>2, <2>2 DEF Requests, RequestStep, CheckDuplicate, CommitSubscription, Start,
       FindByConfirmToken, Confirm, ConfirmSubscription, FindByUnsubscribeToken, Unsubscribe,
       DeleteSubscription, tableVars
  <2> QED
    BY <2>1, <2>2
<1>3. ASSUME NEW w \in Worker, Orchestrator(w) PROVE OneLiveRowPerKey'
  BY <1>1, <1>3 DEF Orchestrator, WorkerStep, HandleReply, Complete, SweepTimeouts, Compensate,
     DeleteSubscription, MarkCompensated, MarkFailed, Settle, tableVars
<1>4. ASSUME NEW d \in Drain, Relay(d) PROVE OneLiveRowPerKey'
  BY <1>1, <1>4 DEF Relay, RelayStep, StartDrain, Publish, Mark, Bump, tableVars, relayTables
<1>5. CASE NotificationFailure \/ MonolithFailure
  BY <1>1, <1>5 DEF NotificationFailure, MonolithFailure, MonolithDisconnects, MonolithCrash,
     MonolithUnhandledRejection, MonolithRestarts, tableVars
<1> QED
  BY <1>1, <1>2, <1>3, <1>4, <1>5 DEF Next, Clock, TimePasses, Broker, Notification, vars, tableVars

LEMMA PromiseRequests ==
  ASSUME TypeOK, OnlyKnown, ClicksTrue, NEW s \in Sub, Requests(s)
  PROVE  [Promise!Next]_(Promise!promiseVars)
<1> USE DEF TypeOK, TablesTypeOK, LiveRow, RemovedRow, Live, Req, Promise!Next, Promise!promiseVars
<1>1. CASE CommitSubscription(s) /\ ~KeyTaken(s) /\ CreateSubscription(s) /\ CreateSaga(s)
  <2>1. row[s] = "none"
    BY <1>1 DEF CommitSubscription, Start, OnlyKnown, Known
  <2>2. Promise!Begin(s)
    BY <1>1, <2>1 DEF CommitSubscription, Start, CreateSubscription, CreateSaga, KeyTaken, transportVars,
                      Promise!Begin, Promise!Live
  <2> QED
    BY <2>2
<1>2. CASE Confirm(s)
  <2>1. s \in mailed
    BY <1>2 DEF Confirm, ClicksTrue
  <2>2. CASE row[s] = "unconfirmed"
    <3>1. Promise!Confirm(s)
      BY <1>2, <2>1, <2>2 DEF Confirm, ConfirmSubscription, transportVars, Promise!Confirm
    <3> QED
      BY <3>1
  <2>3. CASE row[s] # "unconfirmed"
    BY <1>2, <2>3 DEF Confirm, ConfirmSubscription, transportVars
  <2> QED
    BY <2>2, <2>3
<1>3. CASE Unsubscribe(s)
  <2>1. row[s] # "unconfirmed"
    BY <1>3 DEF Unsubscribe, ClicksTrue
  <2>2. CASE row[s] = "confirmed"
    <3>1. Promise!Leave(s)
      BY <1>3, <2>2 DEF Unsubscribe, DeleteSubscription, transportVars, Promise!Leave
    <3> QED
      BY <3>1
  <2>3. CASE row[s] # "confirmed"
    BY <1>3, <2>1, <2>3 DEF Unsubscribe, transportVars
  <2> QED
    BY <2>2, <2>3
<1>4. CASE UNCHANGED <<row, saga, mailed>>
  BY <1>4
<1> QED
  BY <1>1, <1>2, <1>3, <1>4 DEF Requests, RequestStep, CheckDuplicate, CommitSubscription, Start,
     FindByConfirmToken, FindByUnsubscribeToken, tableVars, transportVars

LEMMA PromiseOrchestrator ==
  ASSUME TypeOK, OnlyKnown, RepliesTrue, StagesTrue, NEW w \in Worker, Orchestrator(w)
  PROVE  [Promise!Next]_(Promise!promiseVars)
<1> DEFINE s == worker[w].sub
<1> USE DEF Promise!Next, Promise!promiseVars, orchestratorTransport, orchestratorTables
<1>1. Active(w) => s \in Sub /\ saga[s] # "none"
  BY InHandSub DEF TypeOK, OnlyKnown, Known
<1>2. CASE Complete(w) /\ UpdateStatus(s, "COMPLETED")
  <2>1. Active(w) /\ s \in mailed
    BY <1>2 DEF Complete, Active, StagesTrue, RepliesTrue, Witnessed
  <2>2. Promise!Settle(s, "COMPLETED")
    BY <1>1, <1>2, <2>1 DEF Complete, UpdateStatus, Promise!Settle
  <2> QED
    BY <1>1, <2>1, <2>2
<1>3. CASE MarkCompensated(w) /\ UpdateStatus(s, "COMPENSATED")
  <2>1. Active(w) /\ row[s] = "compensated"
    BY <1>3 DEF MarkCompensated, Active, StagesTrue
  <2>2. Promise!Settle(s, "COMPENSATED")
    BY <1>1, <1>3, <2>1 DEF MarkCompensated, UpdateStatus, Promise!Settle
  <2> QED
    BY <1>1, <2>1, <2>2
<1>4. CASE MarkFailed(w) /\ UpdateStatus(s, "FAILED")
  <2>1. Active(w)
    BY <1>4 DEF MarkFailed, Active
  <2>2. Promise!Settle(s, "FAILED")
    BY <1>1, <1>4, <2>1 DEF MarkFailed, UpdateStatus, Promise!Settle
  <2> QED
    BY <1>1, <2>1, <2>2
<1>5. CASE Compensate(w) /\ Live(s) /\ DeleteSubscription(s, "compensated")
  <2>1. Active(w)
    BY <1>5 DEF Compensate, Active
  <2>2. Promise!Compensate(s)
    BY <1>1, <1>5, <2>1 DEF Compensate, DeleteSubscription, Live, LiveRow, Promise!Compensate,
                            Promise!Live
  <2> QED
    BY <1>1, <2>1, <2>2
<1>6. CASE UNCHANGED <<row, saga, mailed>>
  BY <1>6
<1> QED
  BY <1>2, <1>3, <1>4, <1>5, <1>6 DEF Orchestrator, WorkerStep, HandleReply, Complete,
     SweepTimeouts, Compensate, MarkCompensated, MarkFailed, Settle, tableVars, transportVars

LEMMA PromiseStep ==
  ASSUME TypeOK, OnlyKnown, RepliesTrue, StagesTrue, ClicksTrue, [Next]_vars
  PROVE  [Promise!Next]_(Promise!promiseVars)
<1>1. CASE UNCHANGED <<row, saga, mailed>>
  BY <1>1 DEF Promise!promiseVars
<1>2. ASSUME NEW h \in Handler, Notification(h) PROVE [Promise!Next]_(Promise!promiseVars)
  <2>1. CASE SendEmail(h)
    <3> DEFINE s == handler[h].sub
    <3>1. s \in Sub /\ saga[s] # "none"
      BY <2>1 DEF SendEmail, Busy, OnlyKnown, Known, TypeOK, HandlerTypeOK, IdleHandler
    <3>2. mailed' = mailed \/ Promise!Deliver(s)
      BY <1>2, <2>1, <3>1 DEF Notification, SendEmail, tableVars, Promise!Deliver
    <3>3. UNCHANGED <<row, saga>>
      BY <1>2 DEF Notification, tableVars
    <3> QED
      BY <3>1, <3>2, <3>3 DEF Promise!Next, Promise!promiseVars
  <2>2. CASE ~SendEmail(h)
    BY <1>1, <1>2, <2>2 DEF Notification, NotificationStep, Consume, PublishReply, tableVars,
       transportVars
  <2> QED
    BY <2>1, <2>2
<1>3. ASSUME NEW d \in Drain, Relay(d) PROVE UNCHANGED <<row, saga, mailed>>
  BY <1>3 DEF Relay, RelayStep, StartDrain, Publish, Mark, Bump, tableVars, transportVars,
     relayTables, relayTransport
<1>4. CASE NotificationFailure \/ MonolithFailure
  BY <1>1, <1>4 DEF NotificationFailure, NotificationDisconnects, NotificationCrash,
     NotificationRestarts, NotificationUnhandledRejection, MonolithFailure, MonolithDisconnects,
     MonolithCrash, MonolithUnhandledRejection, MonolithRestarts, tableVars
<1>5. CASE Clock \/ UNCHANGED vars \/ \E s \in Sub : Broker(s)
  BY <1>1, <1>5 DEF Clock, TimePasses, Broker, BrokerAccept, vars, tableVars, transportVars
<1> QED
  BY <1>1, <1>2, <1>3, <1>4, <1>5, PromiseRequests, PromiseOrchestrator DEF Next

-----------------------------------------------------------------------------
(* The theorems *)

Strengthened == TypeOK /\ InHandIsUnacknowledged /\ SagaInvariant /\ OneLiveRowPerKey

LEMMA StrengthenedInit == Init => Strengthened
<1> SUFFICES ASSUME Init PROVE Strengthened
  OBVIOUS
<1>1. TypeOK /\ InHandIsUnacknowledged
  BY InHandInit
<1> USE DEF Init, TablesInit, TransportInit, RequestsInit, RelayInit, HandlerInit, WorkerInit
<1>2. OnlyKnown /\ RepliesTrue /\ StagesTrue /\ ClicksTrue
  BY DEF OnlyKnown, RepliesTrue, StagesTrue, ClicksTrue, Known, Busy, Active, IdleDrain,
         IdleHandler, IdleWorker, Reply
<1>3. Ranked
  <2>1. {s \in Sub : createdAt[s] # 0} = {}
    OBVIOUS
  <2>2. Inserted = 0
    BY <2>1, FS_EmptySet DEF Inserted
  <2> QED
    BY <2>2 DEF Ranked, Known
<1>4. WorkOutstanding
  BY DEF WorkOutstanding, IdleDrain
<1>5. CompensatedMeansDeleted /\ CompletedMeansMailed /\ CompensationIsJustified
  BY DEF CompensatedMeansDeleted, CompletedMeansMailed, CompensationIsJustified
<1>6. OneLiveRowPerKey
  BY DEF OneLiveRowPerKey, Live, LiveRow
<1> QED
  BY <1>1, <1>2, <1>3, <1>4, <1>5, <1>6 DEF Strengthened, SagaInvariant

LEMMA StrengthenedStep ==
  ASSUME Strengthened, [Next]_vars
  PROVE  Strengthened'
<1> USE DEF Strengthened, SagaInvariant
<1>1. TypeOK' /\ InHandIsUnacknowledged'
  BY InHandStep
<1>2. OnlyKnown'
  BY KnownStep
<1>3. Ranked'
  BY <1>1, RankedStep
<1>4. RepliesTrue'
  BY <1>1, RepliesStep
<1>5. StagesTrue'
  BY <1>1, StagesStep
<1>6. ClicksTrue'
  BY <1>1, ClicksStep
<1>7. WorkOutstanding'
  BY <1>1, WorkOutstandingStep
<1>8. VerdictsTrue'
  BY <1>1, VerdictsStep DEF VerdictsTrue
<1>9. OneLiveRowPerKey'
  BY KeyStep
<1> QED
  BY <1>1, <1>2, <1>3, <1>4, <1>5, <1>6, <1>7, <1>8, <1>9 DEF VerdictsTrue

\* The strengthening that the safety properties follow from holds of the flow for
\* every number of subscriptions, drains, prefetch slots, workers and faults.
THEOREM SagaInvariantCorrect == Spec => []SagaInvariant
<1>1. Strengthened => SagaInvariant
  BY DEF Strengthened
<1> QED
  BY <1>1, StrengthenedInit, StrengthenedStep, PTL DEF Spec

\* COMPENSATED is only ever written of a subscription that compensateSaga has
\* deleted, whatever replies, sweeps and clicks it raced with.
THEOREM CompensatedCorrect == Spec => []CompensatedMeansDeleted
<1>1. Strengthened => CompensatedMeansDeleted
  BY DEF Strengthened, SagaInvariant
<1> QED
  BY <1>1, StrengthenedInit, StrengthenedStep, PTL DEF Spec

\* COMPLETED is only ever written of a subscription whose confirmation e-mail
\* has arrived, across redeliveries, duplicate replies and restarts.
THEOREM CompletedCorrect == Spec => []CompletedMeansMailed
<1>1. Strengthened => CompletedMeansMailed
  BY DEF Strengthened, SagaInvariant
<1> QED
  BY <1>1, StrengthenedInit, StrengthenedStep, PTL DEF Spec

\* handleReply and sweepTimeouts delete no subscription but one whose send was
\* reported failed or whose saga is older than the timeout.
THEOREM CompensationCorrect == Spec => []CompensationIsJustified
<1>1. Strengthened => CompensationIsJustified
  BY DEF Strengthened, SagaInvariant
<1> QED
  BY <1>1, StrengthenedInit, StrengthenedStep, PTL DEF Spec

\* An undecided saga has its outbox row, its command or its reply left unless
\* the transport dropped one: the transactional outbox, markSent after publish
\* and acknowledgement after the reply leave no other gap.
THEOREM NothingLostCorrect == Spec => []NothingLostSilently
<1>1. Strengthened => NothingLostSilently
  <2> SUFFICES ASSUME Strengthened, NEW s \in Sub, saga[s] = "STARTED", outbox[s] # "PENDING"
               PROVE  wire[s] > 0 \/ commands[s] > 0
                      \/ (\E r \in Reply : r.saga = s /\ replies[r] > 0) \/ s \in lost
    BY DEF NothingLostSilently
  <2>1. outbox[s] = "SENT"
    BY DEF Strengthened, SagaInvariant, OnlyKnown, TypeOK, TablesTypeOK
  <2> QED
    BY <2>1 DEF Strengthened, SagaInvariant, WorkOutstanding, HasWork, Terminal
<1> QED
  BY <1>1, StrengthenedInit, StrengthenedStep, PTL DEF Spec

\* subscribe's duplicate check can be passed by two requests at once; the unique
\* constraint inside the transaction keeps one live subscription per pair.
THEOREM OneLiveRowCorrect == Spec => []OneLiveRowPerKey
<1>1. Strengthened => OneLiveRowPerKey
  BY DEF Strengthened
<1> QED
  BY <1>1, StrengthenedInit, StrengthenedStep, PTL DEF Spec

\* confirm, unsubscribe and compensate write by the id of a row read earlier,
\* and still no deleted subscription comes back or is deleted a second time.
THEOREM RemovedRowCorrect == Spec => RemovedRowStaysRemoved
<1>1. Strengthened /\ [Next]_vars => [\A s \in Sub : row[s] \in RemovedRow => row'[s] = row[s]]_vars
  BY ForwardStep DEF Strengthened, SagaInvariant, Forward
<1> QED
  BY <1>1, StrengthenedInit, StrengthenedStep, PTL DEF Spec, RemovedRowStaysRemoved

\* The flow implements SagaPromise: every one of its steps, failures included,
\* is one of the promise's or leaves the row, the verdict and the e-mail alone.
THEOREM PromiseKept == Spec => KeepsPromise
<1>1. Init => Promise!Init
  BY DEF Init, TablesInit, TransportInit, Promise!Init
<1>2. Strengthened /\ [Next]_vars => [Promise!Next]_(Promise!promiseVars)
  BY PromiseStep DEF Strengthened, SagaInvariant
<1> QED
  BY <1>1, <1>2, StrengthenedInit, StrengthenedStep, PTL DEF Spec, KeepsPromise, Promise!Spec

\* What the promise is worth: whatever keeps it has these properties, however it is
\* built.
PromiseGives ==
  /\ DOMAIN row = Sub /\ DOMAIN saga = Sub
  /\ CompensatedMeansDeleted /\ CompletedMeansMailed /\ OneLiveRowPerKey

LEMMA PromiseGivesStep ==
  ASSUME PromiseGives, [Promise!Next]_(Promise!promiseVars)
  PROVE  /\ PromiseGives'
         /\ \A s \in Sub : row[s] \in RemovedRow => row'[s] = row[s]
<1> USE DEF PromiseGives, CompensatedMeansDeleted, CompletedMeansMailed, OneLiveRowPerKey,
  LiveRow, RemovedRow
<1>1. CASE UNCHANGED Promise!promiseVars
  BY <1>1 DEF Promise!promiseVars, Live
<1>2. ASSUME NEW s \in Sub, Promise!Begin(s)
      PROVE  /\ PromiseGives'
             /\ \A u \in Sub : row[u] \in RemovedRow => row'[u] = row[u]
  <2>1. \A u \in Sub : Live(u)' <=> Live(u) \/ u = s
    BY <1>2 DEF Promise!Begin, Live
  <2>2. \A u \in Sub : Live(u) => KeyOf[u] # KeyOf[s]
    BY <1>2 DEF Promise!Begin, Promise!Live, Live
  <2>3. OneLiveRowPerKey'
    BY <2>1, <2>2
  <2> QED BY <1>2, <2>3 DEF Promise!Begin
<1>3. ASSUME NEW s \in Sub, Promise!Confirm(s) \/ Promise!Leave(s) \/ Promise!Compensate(s)
      PROVE  /\ PromiseGives'
             /\ \A u \in Sub : row[u] \in RemovedRow => row'[u] = row[u]
  <2>1. \E v \in {"confirmed", "unsubscribed", "compensated"} : row' = [row EXCEPT ![s] = v]
    BY <1>3 DEF Promise!Confirm, Promise!Leave, Promise!Compensate
  <2>2. Live(s) /\ UNCHANGED <<saga, mailed>>
    BY <1>3 DEF Promise!Confirm, Promise!Leave, Promise!Compensate, Promise!Live, Live
  <2>3. \A u \in Sub : Live(u)' => Live(u)
    BY <2>1, <2>2 DEF Live
  <2> QED BY <2>1, <2>2, <2>3 DEF Live
<1>4. ASSUME NEW s \in Sub, Promise!Deliver(s)
      PROVE  /\ PromiseGives'
             /\ \A u \in Sub : row[u] \in RemovedRow => row'[u] = row[u]
  BY <1>4 DEF Promise!Deliver, Live
<1>5. ASSUME NEW s \in Sub, NEW verdict \in {"COMPLETED", "COMPENSATED", "FAILED"}, Promise!Settle(s, verdict)
      PROVE  /\ PromiseGives'
             /\ \A u \in Sub : row[u] \in RemovedRow => row'[u] = row[u]
  BY <1>5 DEF Promise!Settle, Live
<1> QED BY <1>1, <1>2, <1>3, <1>4, <1>5 DEF Promise!Next

\* SagaPromise is strong enough to be what the flow is judged by: the truth of both
\* verdicts and one live row per pair follow from it alone, and so does that no
\* deleted row comes back.
THEOREM PromiseSuffices ==
  KeepsPromise =>
    /\ []CompensatedMeansDeleted /\ []CompletedMeansMailed /\ []OneLiveRowPerKey
    /\ RemovedRowStaysRemoved
<1>1. Promise!Init => PromiseGives
  BY DEF Promise!Init, PromiseGives, CompensatedMeansDeleted, CompletedMeansMailed, OneLiveRowPerKey,
         Live, LiveRow
<1>2. PromiseGives /\ [Promise!Next]_(Promise!promiseVars) => PromiseGives'
  BY PromiseGivesStep
<1>3. PromiseGives /\ [Promise!Next]_(Promise!promiseVars) =>
        [\A s \in Sub : row[s] \in RemovedRow => row'[s] = row[s]]_vars
  BY PromiseGivesStep
<1>4. PromiseGives => CompensatedMeansDeleted /\ CompletedMeansMailed /\ OneLiveRowPerKey
  BY DEF PromiseGives
<1> QED
  BY <1>1, <1>2, <1>3, <1>4, PTL DEF KeepsPromise, Promise!Spec, RemovedRowStaysRemoved
=============================================================================
