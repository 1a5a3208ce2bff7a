----------------------- MODULE ConfirmationSagaProofs -----------------------
(* Proofs about ConfirmationSaga, for every number of subscriptions, drains,*)
(* handlers, workers and faults.                                            *)
EXTENDS ConfirmationSaga, FiniteSetTheorems, TLAPS

-----------------------------------------------------------------------------
(* Messages in hand *)

LEMMA InHandFinite ==
  /\ \A s \in Sub : IsFiniteSet(Unacked(s)) /\ Cardinality(Unacked(s)) \in Nat
  /\ \A r \in Reply : IsFiniteSet(Unsettled(r)) /\ Cardinality(Unsettled(r)) \in Nat
<1>1. \A s \in Sub : Unacked(s) \in SUBSET Handler
  BY DEF Unacked
<1>2. \A r \in Reply : Unsettled(r) \in SUBSET Worker
  BY DEF Unsettled
<1> QED
  BY <1>1, <1>2, FS_Subset, FS_CardinalityType, HandlerAssumption, WorkerAssumption

LEMMA RequestsType ==
  ASSUME TypeOK, NEW s \in Sub, Requests(s)
  PROVE  TypeOK'
<1> USE DEF TypeOK, TablesTypeOK, TransportTypeOK, RequestsTypeOK, RelayTypeOK, HandlerTypeOK,
            WorkerTypeOK, tableVars, transportVars, Request, Req, LiveRow, RemovedRow
<1>1. CASE CheckDuplicate(s)
  BY <1>1 DEF Requests, CheckDuplicate
<1>2. CASE CommitSubscription(s)
  <2>1. {t \in Sub : createdAt[t] # 0} \in SUBSET Sub
    OBVIOUS
  <2>2. Inserted \in Nat
    BY <2>1, FS_Subset, FS_CardinalityType, TablesAssumption DEF Inserted
  <2> QED
    BY <1>2, <2>2 DEF Requests, CommitSubscription, Start, CreateSubscription, CreateSaga, Enqueue
<1>3. CASE FindByConfirmToken(s)
  BY <1>3 DEF Requests, FindByConfirmToken
<1>4. CASE Confirm(s)
  BY <1>4 DEF Requests, Confirm, ConfirmSubscription
<1>5. CASE FindByUnsubscribeToken(s)
  BY <1>5 DEF Requests, FindByUnsubscribeToken
<1>6. CASE Unsubscribe(s)
  BY <1>6 DEF Requests, Unsubscribe, DeleteSubscription
<1> QED
  BY <1>1, <1>2, <1>3, <1>4, <1>5, <1>6 DEF Requests, RequestStep

\* A relay that moves on in its drain stays well-typed.
LEMMA DrainMoves ==
  ASSUME RelayTypeOK, NEW d \in Drain
  PROVE  /\ \A pc \in {"mark", "bump"} : Goto(d, pc) => RelayTypeOK'
         /\ \A s \in Sub : NextRow(d, s) => RelayTypeOK'
<1>1. ASSUME NEW pc \in {"mark", "bump"}, Goto(d, pc) PROVE RelayTypeOK'
  BY <1>1 DEF RelayTypeOK, Goto
<1>2. ASSUME NEW s \in Sub, NextRow(d, s) PROVE RelayTypeOK'
  BY <1>2 DEF RelayTypeOK, NextRow, IdleDrain
<1> QED
  BY <1>1, <1>2

LEMMA RelayType ==
  ASSUME TypeOK, NEW d \in Drain, Relay(d)
  PROVE  TypeOK'
<1> USE DEF TypeOK, TablesTypeOK, TransportTypeOK, RequestsTypeOK, HandlerTypeOK,
            WorkerTypeOK, tableVars, transportVars, relayTables, relayTransport, Fault
<1>1. CASE StartDrain(d)
  BY <1>1 DEF Relay, StartDrain, FindPending, RelayTypeOK
<1>2. ASSUME NEW s \in Sub, Publish(d, s) PROVE TypeOK'
  BY <1>2, DrainMoves DEF Relay, Publish
<1>3. ASSUME NEW s \in Sub, Mark(d, s) PROVE TypeOK'
  BY <1>3, DrainMoves DEF Relay, Mark, MarkSent
<1>4. ASSUME NEW s \in Sub, Bump(d, s) PROVE TypeOK'
  BY <1>4, DrainMoves DEF Relay, Bump, BumpAttempts
<1> QED
  BY <1>1, <1>2, <1>3, <1>4 DEF Relay, RelayStep

LEMMA NotificationType ==
  ASSUME TypeOK, InHandIsUnacknowledged, NEW h \in Handler, Notification(h)
  PROVE  /\ TypeOK'
         /\ "notification" \in listening' =>
              \A s \in Sub : Cardinality(Unacked(s)') <= commands'[s]
<1> USE DEF TypeOK, TablesTypeOK, TransportTypeOK, RequestsTypeOK, RelayTypeOK, WorkerTypeOK,
            tableVars, transportVars, Fault, InHandIsUnacknowledged
<1> DEFINE CountOK == "notification" \in listening =>
                        \A s \in Sub : Cardinality(Unacked(s)) <= commands[s]
<1>1. ASSUME NEW s \in Sub, Consume(h, s) PROVE TypeOK' /\ CountOK'
  <2>1. TypeOK'
    BY <1>1 DEF Notification, Consume, HandlerTypeOK
  <2>2. Unacked(s)' = Unacked(s) \cup {h} /\ h \notin Unacked(s)
    BY <1>1 DEF Consume, Unacked, Busy, HandlerTypeOK
  <2>3. \A t \in Sub \ {s} : Unacked(t)' = Unacked(t)
    BY <1>1 DEF Consume, Unacked, Busy, HandlerTypeOK
  <2>4. Cardinality(Unacked(s)') = Cardinality(Unacked(s)) + 1
    BY <2>2, InHandFinite, FS_AddElement
  <2>5. ASSUME NEW t \in Sub PROVE Cardinality(Unacked(t)') <= commands'[t]
    BY <1>1, <2>3, <2>4, InHandFinite DEF Consume
  <2> QED
    BY <2>1, <2>5
<1>2. CASE SendEmail(h)
  <2>1. PICK success \in BOOLEAN, arrived \in BOOLEAN :
          /\ handler' = [handler EXCEPT ![h].pc = "replying", ![h].success = success]
          /\ mailed' = IF arrived THEN mailed \cup {handler[h].sub} ELSE mailed
          /\ bounced' = IF success THEN bounced ELSE bounced \cup {handler[h].sub}
    BY <1>2 DEF SendEmail
  <2>2. handler[h] \in [pc : {"sending", "replying"}, sub : Sub, success : BOOLEAN]
    BY <1>2 DEF SendEmail, HandlerTypeOK, IdleHandler
  <2>3. TypeOK'
    BY <1>2, <2>1, <2>2 DEF Notification, SendEmail, HandlerTypeOK
  <2>4. \A t \in Sub : Unacked(t)' = Unacked(t)
    BY <1>2, <2>1, <2>2 DEF SendEmail, Unacked, Busy, HandlerTypeOK
  <2> QED
    BY <1>2, <2>3, <2>4 DEF SendEmail
<1>3. CASE PublishReply(h)
  <2>1. PICK s \in Sub, r \in Reply :
          /\ handler[h].pc = "replying" /\ handler[h].sub = s
          /\ "notification" \in listening
          /\ handler' = [handler EXCEPT ![h] = IdleHandler]
          /\ replies' = [replies EXCEPT ![r] = @ + 1]
          /\ \/ commands' = [commands EXCEPT ![s] = @ - 1] /\ UNCHANGED <<listening, faults>>
             \/ /\ listening' = listening \ {"notification"}
                /\ faults' = faults + 1
                /\ UNCHANGED commands
          /\ UNCHANGED <<wire, mailed, bounced, lost>>
    <3>1. handler[h] \in [pc : {"sending", "replying"}, sub : Sub, success : BOOLEAN]
      BY <1>3 DEF PublishReply, HandlerTypeOK, IdleHandler
    <3>2. [saga |-> handler[h].sub, success |-> handler[h].success] \in Reply
      BY <3>1 DEF Reply
    <3> QED
      BY <1>3, <3>1, <3>2 DEF PublishReply
  <2>2. Unacked(s)' = Unacked(s) \ {h} /\ h \in Unacked(s)
    BY <2>1 DEF Unacked, Busy, HandlerTypeOK, IdleHandler
  <2>3. \A t \in Sub \ {s} : Unacked(t)' = Unacked(t)
    BY <2>1 DEF Unacked, Busy, HandlerTypeOK, IdleHandler
  <2>4. /\ Cardinality(Unacked(s)') = Cardinality(Unacked(s)) - 1
        /\ Cardinality(Unacked(s)) \in Nat \ {0}
    <3>1. IsFiniteSet(Unacked(s)) /\ Cardinality(Unacked(s)) \in Nat
      BY InHandFinite
    <3>2. Cardinality(Unacked(s)) # 0
      BY <2>2, <3>1, FS_EmptySet
    <3>3. Cardinality(Unacked(s) \ {h}) = Cardinality(Unacked(s)) - 1
      BY <2>2, <3>1, FS_RemoveElement
    <3> QED
      BY <2>2, <3>1, <3>2, <3>3
  <2>5. commands[s] \in Nat \ {0}
    BY <2>1, <2>4
  <2>6. HandlerTypeOK'
    BY <2>1 DEF HandlerTypeOK
  <2>7. commands' \in [Sub -> Nat] /\ replies' \in [Reply -> Nat]
    BY <2>1, <2>5
  <2>8. TypeOK'
    BY <1>3, <2>1, <2>6, <2>7 DEF Notification
  <2>9. ASSUME NEW t \in Sub, "notification" \in listening'
        PROVE  Cardinality(Unacked(t)') <= commands'[t]
    <3>1. commands' = [commands EXCEPT ![s] = @ - 1] /\ Cardinality(Unacked(t)) <= commands[t]
      BY <2>1, <2>9
    <3>2. Cardinality(Unacked(t)) \in Nat /\ commands \in [Sub -> Nat]
      BY InHandFinite
    <3> QED
      BY <2>3, <2>4, <3>1, <3>2
  <2> QED
    BY <2>8, <2>9
<1> QED
  BY <1>1, <1>2, <1>3 DEF Notification, NotificationStep

WorkerRecord ==
  [pc : Stage, by : {"reply", "sweep"}, sub : Sub, success : BOOLEAN, left : SUBSET Sub]

\* The shapes in which an activation goes on.
LEMMA WorkerMoves ==
  ASSUME WorkerTypeOK, NEW w \in Worker
  PROVE  /\ \A pc \in Stage : Active(w) /\ GotoStage(w, pc) => WorkerTypeOK'
         /\ \A rows \in SUBSET Sub : SweepNext(w, rows) => WorkerTypeOK'
         /\ Active(w) /\ Return(w) => WorkerTypeOK'
<1>1. ASSUME NEW pc \in Stage, Active(w), GotoStage(w, pc) PROVE WorkerTypeOK'
  <2>1. worker[w] \in WorkerRecord
    BY <1>1 DEF Active, WorkerTypeOK, IdleWorker, WorkerRecord
  <2> QED
    BY <1>1, <2>1 DEF GotoStage, WorkerTypeOK, WorkerRecord
<1>2. ASSUME NEW rows \in SUBSET Sub, SweepNext(w, rows) PROVE WorkerTypeOK'
  <2>1. ASSUME NEW s \in Sub
        PROVE  [pc |-> "delete", by |-> "sweep", sub |-> s, success |-> FALSE,
                left |-> rows \ {s}] \in WorkerRecord
    BY DEF WorkerRecord, Stage
  <2>2. PICK v \in {IdleWorker} \cup WorkerRecord : worker' = [worker EXCEPT ![w] = v]
    BY <1>2, <2>1 DEF SweepNext
  <2> QED
    BY <2>2 DEF WorkerTypeOK, WorkerRecord
<1>3. ASSUME Active(w), Return(w) PROVE WorkerTypeOK'
  <2>1. worker[w].left \in SUBSET Sub
    BY <1>3 DEF Active, WorkerTypeOK, IdleWorker
  <2> QED
    BY <1>1, <1>2, <1>3, <2>1 DEF Return, Stage
<1> QED
  BY <1>1, <1>2, <1>3

\* What an activation has in hand changes only when it takes a reply or settles
\* one: moving to another stage keeps it, and a sweep has no reply in hand.
LEMMA UnsettledKept ==
  ASSUME WorkerTypeOK, NEW w \in Worker, Active(w)
  PROVE  /\ \A pc \in Stage : GotoStage(w, pc) =>
              \A r \in Reply : Unsettled(r)' = Unsettled(r)
         /\ Return(w) => \A r \in Reply : Unsettled(r)' = Unsettled(r)
<1>1. worker[w] \in WorkerRecord
  BY DEF Active, WorkerTypeOK, IdleWorker, WorkerRecord
<1>2. ASSUME NEW pc \in Stage, GotoStage(w, pc), NEW r \in Reply
      PROVE  Unsettled(r)' = Unsettled(r)
  BY <1>1, <1>2 DEF GotoStage, Unsettled, Active, WorkerTypeOK, WorkerRecord, Stage
<1>3. ASSUME worker[w].by = "sweep", SweepNext(w, worker[w].left), NEW r \in Reply
      PROVE  Unsettled(r)' = Unsettled(r)
  BY <1>1, <1>3 DEF SweepNext, Unsettled, Active, WorkerTypeOK, WorkerRecord, IdleWorker
<1> QED
  BY <1>2, <1>3 DEF Return, Stage

LEMMA OrchestratorType ==
  ASSUME TypeOK, InHandIsUnacknowledged, NEW w \in Worker, Orchestrator(w)
  PROVE  /\ TypeOK'
         /\ "monolith" \in listening' =>
              \A r \in Reply : Cardinality(Unsettled(r)') <= replies'[r]
<1> DEFINE CountOK == "monolith" \in listening =>
                        \A r \in Reply : Cardinality(Unsettled(r)) <= replies[r]
<1> USE DEF TypeOK, TablesTypeOK, TransportTypeOK, RequestsTypeOK, RelayTypeOK, HandlerTypeOK,
            tableVars, transportVars, orchestratorTables, orchestratorTransport, Fault,
            InHandIsUnacknowledged
<1>1. ASSUME NEW r \in Reply, HandleReply(w, r) PROVE TypeOK' /\ CountOK'
  <2>1. PICK pc \in Stage : Take(w, r, pc)
    BY <1>1 DEF HandleReply, ReplyStage, Stage
  <2>2. WorkerTypeOK'
    BY <2>1 DEF Take, WorkerTypeOK, Reply
  <2>3. TypeOK'
    BY <1>1, <2>2 DEF Orchestrator, HandleReply
  <2>4. Unsettled(r)' = Unsettled(r) \cup {w} /\ w \notin Unsettled(r)
    BY <1>1, <2>1 DEF HandleReply, Take, Unsettled, Active, WorkerTypeOK, Stage
  <2>5. \A q \in Reply \ {r} : Unsettled(q)' = Unsettled(q)
    BY <1>1, <2>1 DEF HandleReply, Take, Unsettled, Active, WorkerTypeOK, Stage, Reply
  <2>6. Cardinality(Unsettled(r)') = Cardinality(Unsettled(r)) + 1
    BY <2>4, InHandFinite, FS_AddElement
  <2>7. ASSUME NEW q \in Reply PROVE Cardinality(Unsettled(q)') <= replies'[q]
    BY <1>1, <2>5, <2>6, InHandFinite DEF HandleReply
  <2> QED
    BY <2>3, <2>7
<1>2. CASE Complete(w)
  <2>1. Active(w) /\ (GotoStage(w, "ack") \/ GotoStage(w, "nack"))
    BY <1>2 DEF Complete, Active
  <2>2. WorkerTypeOK' /\ \A r \in Reply : Unsettled(r)' = Unsettled(r)
    BY <2>1, WorkerMoves, UnsettledKept DEF Stage
  <2>3. TypeOK'
    BY <1>2, <2>2 DEF Orchestrator, Complete, UpdateStatus, Terminal, WorkerTypeOK
  <2> QED
    BY <1>2, <2>2, <2>3 DEF Complete
<1>3. CASE SweepTimeouts(w)
  <2>1. WorkerTypeOK'
    BY <1>3, WorkerMoves DEF SweepTimeouts, FindStaleStarted
  <2>2. \A r \in Reply : Unsettled(r)' = Unsettled(r)
    BY <1>3 DEF SweepTimeouts, SweepNext, Unsettled, Active, WorkerTypeOK, IdleWorker
  <2> QED
    BY <1>3, <2>1, <2>2 DEF Orchestrator, SweepTimeouts
<1>4. CASE Compensate(w)
  <2>1. Active(w) /\ (GotoStage(w, "markCompensated") \/ GotoStage(w, "markFailed"))
    BY <1>4 DEF Compensate, Active
  <2>2. WorkerTypeOK' /\ \A r \in Reply : Unsettled(r)' = Unsettled(r)
    BY <2>1, WorkerMoves, UnsettledKept DEF Stage
  <2>3. TypeOK'
    BY <1>4, <2>2 DEF Orchestrator, Compensate, DeleteSubscription, RemovedRow, WorkerTypeOK
  <2> QED
    BY <1>4, <2>2, <2>3 DEF Compensate
<1>5. CASE MarkCompensated(w)
  <2>1. Active(w) /\ (Return(w) \/ GotoStage(w, "markFailed"))
    BY <1>5 DEF MarkCompensated, Active
  <2>2. WorkerTypeOK' /\ \A r \in Reply : Unsettled(r)' = Unsettled(r)
    BY <2>1, WorkerMoves, UnsettledKept DEF Stage
  <2>3. TypeOK'
    BY <1>5, <2>2 DEF Orchestrator, MarkCompensated, UpdateStatus, Terminal, WorkerTypeOK
  <2> QED
    BY <1>5, <2>2, <2>3 DEF MarkCompensated
<1>6. CASE MarkFailed(w)
  <2>1. Active(w) /\ (Return(w) \/ GotoStage(w, "nack"))
    BY <1>6 DEF MarkFailed, Active
  <2>2. WorkerTypeOK' /\ \A r \in Reply : Unsettled(r)' = Unsettled(r)
    BY <2>1, WorkerMoves, UnsettledKept DEF Stage
  <2>3. TypeOK'
    BY <1>6, <2>2 DEF Orchestrator, MarkFailed, UpdateStatus, Terminal, WorkerTypeOK
  <2> QED
    BY <1>6, <2>2, <2>3 DEF MarkFailed
<1>7. CASE Settle(w)
  <2>1. PICK s \in Sub, r \in Reply :
          /\ Active(w) /\ worker[w].by = "reply" /\ worker[w].sub = s
          /\ r.saga = s /\ worker[w].success = r.success
          /\ "monolith" \in listening
          /\ replies' = [replies EXCEPT ![r] = @ - 1]
          /\ lost' \in {lost, lost \cup {s}}
          /\ worker' = [worker EXCEPT ![w] = IdleWorker]
          /\ UNCHANGED <<tableVars, orchestratorTransport, faults>>
    <3>1. worker[w] \in WorkerRecord
      BY <1>7 DEF Settle, WorkerTypeOK, IdleWorker, WorkerRecord
    <3>2. [saga |-> worker[w].sub, success |-> worker[w].success] \in Reply
      BY <3>1 DEF Reply, WorkerRecord
    <3> QED
      BY <1>7, <3>1, <3>2 DEF Settle, WorkerRecord, Active
  <2>2. Unsettled(r)' = Unsettled(r) \ {w} /\ w \in Unsettled(r)
    BY <2>1 DEF Unsettled, Active, WorkerTypeOK, IdleWorker
  <2>3. \A q \in Reply \ {r} : Unsettled(q)' = Unsettled(q)
    BY <2>1 DEF Unsettled, Active, WorkerTypeOK, IdleWorker, Reply
  <2>4. /\ Cardinality(Unsettled(r)') = Cardinality(Unsettled(r)) - 1
        /\ Cardinality(Unsettled(r)) \in Nat \ {0}
    <3>1. IsFiniteSet(Unsettled(r)) /\ Cardinality(Unsettled(r)) \in Nat
      BY InHandFinite
    <3>2. Cardinality(Unsettled(r)) # 0
      BY <2>2, <3>1, FS_EmptySet
    <3>3. Cardinality(Unsettled(r) \ {w}) = Cardinality(Unsettled(r)) - 1
      BY <2>2, <3>1, FS_RemoveElement
    <3> QED
      BY <2>2, <3>1, <3>2, <3>3
  <2>5. replies[r] \in Nat \ {0}
    BY <2>1, <2>4
  <2>6. /\ WorkerTypeOK'
        /\ replies' \in [Reply -> Nat]
    <3>1. WorkerTypeOK'
      BY <2>1 DEF WorkerTypeOK
    <3>2. replies' \in [Reply -> Nat]
      <4>1. replies[r] - 1 \in Nat /\ replies \in [Reply -> Nat]
        BY <2>5
      <4>2. replies' = [replies EXCEPT ![r] = replies[r] - 1]
        BY <2>1
      <4> QED
        BY <4>1, <4>2
    <3> QED
      BY <3>1, <3>2
  <2>7. TypeOK'
    BY <1>7, <2>1, <2>6 DEF Orchestrator
  <2>8. ASSUME NEW q \in Reply PROVE Cardinality(Unsettled(q)') <= replies'[q]
    <3>1. Cardinality(Unsettled(q)) \in Nat /\ Cardinality(Unsettled(q)) <= replies[q]
      BY <2>1, InHandFinite
    <3> QED
      BY <2>1, <2>3, <2>4, <3>1
  <2> QED
    BY <2>7, <2>8
<1> QED
  BY <1>1, <1>2, <1>3, <1>4, <1>5, <1>6, <1>7 DEF Orchestrator, WorkerStep

LEMMA FailureType ==
  ASSUME TypeOK, NotificationFailure \/ MonolithFailure
  PROVE  TypeOK'
<1> USE DEF TypeOK, TablesTypeOK, TransportTypeOK, RequestsTypeOK, tableVars, Fault, Service
<1>1. CASE NotificationFailure /\ NotificationDisconnects
  BY <1>1 DEF NotificationFailure, NotificationDisconnects, RelayTypeOK, HandlerTypeOK, WorkerTypeOK
<1>2. CASE NotificationFailure /\ (NotificationCrash \/ NotificationUnhandledRejection)
  <2>1. NotificationRestarts /\ faults' \in Nat /\ UNCHANGED <<tableVars, http, relay, worker>>
    BY <1>2 DEF NotificationFailure, NotificationCrash, NotificationUnhandledRejection
  <2>2. HandlerTypeOK'
    BY <2>1 DEF NotificationRestarts, HandlerTypeOK
  <2>3. listening' \subseteq Service
    BY <2>1 DEF NotificationRestarts
  <2> QED
    BY <2>1, <2>2, <2>3 DEF NotificationRestarts, RelayTypeOK, WorkerTypeOK
<1>3. CASE MonolithDisconnects
  BY <1>3 DEF MonolithDisconnects, RelayTypeOK, HandlerTypeOK, WorkerTypeOK
<1>4. CASE MonolithCrash \/ MonolithUnhandledRejection
  <2>1. MonolithRestarts /\ faults' \in Nat
    BY <1>4 DEF MonolithCrash, MonolithUnhandledRejection
  <2>2. RelayTypeOK' /\ WorkerTypeOK'
    BY <2>1 DEF MonolithRestarts, RelayTypeOK, IdleDrain, WorkerTypeOK
  <2>3. listening' \subseteq Service /\ lost' \subseteq Sub /\ wire' \in [Sub -> Nat]
    BY <2>1 DEF MonolithRestarts
  <2> QED
    BY <2>1, <2>2, <2>3 DEF MonolithRestarts, HandlerTypeOK
<1> QED
  BY <1>1, <1>2, <1>3, <1>4 DEF NotificationFailure, MonolithFailure

\* Whoever restarts has nothing in hand, and whoever loses its channel is
\* promised nothing.
LEMMA FailureInHand ==
  ASSUME TypeOK, InHandIsUnacknowledged, NotificationFailure \/ MonolithFailure
  PROVE  InHandIsUnacknowledged'
<1> USE DEF InHandIsUnacknowledged, TypeOK, TransportTypeOK
<1>1. CASE NotificationFailure
  <2>1. worker' = worker /\ replies' = replies /\ commands' = commands
    BY <1>1 DEF NotificationFailure, NotificationDisconnects, NotificationCrash,
                NotificationUnhandledRejection, NotificationRestarts
  <2>2. "monolith" \in listening' => "monolith" \in listening
    BY <1>1 DEF NotificationFailure, NotificationDisconnects, NotificationCrash,
                NotificationUnhandledRejection, NotificationRestarts
  <2>3. \A r \in Reply : Unsettled(r)' = Unsettled(r)
    BY <2>1 DEF Unsettled, Active
  <2>4. "notification" \in listening' => \A s \in Sub : Unacked(s)' = {}
    BY <1>1 DEF NotificationFailure, NotificationDisconnects, NotificationCrash,
                NotificationUnhandledRejection, NotificationRestarts, Unacked, Busy, IdleHandler
  <2>5. "notification" \in listening' =>
          \A s \in Sub : Cardinality(Unacked(s)') <= commands'[s]
    BY <2>1, <2>4, FS_EmptySet
  <2> QED
    BY <2>1, <2>2, <2>3, <2>5
<1>2. CASE MonolithFailure
  <2>1. handler' = handler /\ replies' = replies /\ commands' = commands
    BY <1>2 DEF MonolithFailure, MonolithDisconnects, MonolithCrash,
                MonolithUnhandledRejection, MonolithRestarts
  <2>2. "notification" \in listening' => "notification" \in listening
    BY <1>2 DEF MonolithFailure, MonolithDisconnects, MonolithCrash,
                MonolithUnhandledRejection, MonolithRestarts
  <2>3. \A s \in Sub : Unacked(s)' = Unacked(s)
    BY <2>1 DEF Unacked, Busy
  <2>4. "monolith" \in listening' => \A r \in Reply : Unsettled(r)' = {}
    BY <1>2 DEF MonolithFailure, MonolithDisconnects, MonolithCrash,
                MonolithUnhandledRejection, MonolithRestarts, Unsettled, Active, IdleWorker
  <2>5. "monolith" \in listening' =>
          \A r \in Reply : Cardinality(Unsettled(r)') <= replies'[r]
    BY <2>1, <2>4, FS_EmptySet
  <2> QED
    BY <2>1, <2>2, <2>3, <2>5
<1> QED
  BY <1>1, <1>2

\* Steps that touch no message in hand.
LEMMA InHandKept ==
  ASSUME TypeOK, InHandIsUnacknowledged,
         UNCHANGED <<handler, worker, listening, replies>>,
         \A s \in Sub : commands'[s] >= commands[s], commands' \in [Sub -> Nat]
  PROVE  InHandIsUnacknowledged'
<1>1. \A s \in Sub : Unacked(s)' = Unacked(s)
  BY DEF Unacked, Busy
<1>2. \A r \in Reply : Unsettled(r)' = Unsettled(r)
  BY DEF Unsettled, Active
<1> QED
  BY <1>1, <1>2, InHandFinite DEF InHandIsUnacknowledged, TypeOK, TransportTypeOK

LEMMA InHandStep ==
  ASSUME TypeOK, InHandIsUnacknowledged, [Next]_vars
  PROVE  TypeOK' /\ InHandIsUnacknowledged'
<1>1. CASE Clock
  <2>1. TypeOK'
    BY <1>1 DEF Clock, TimePasses, TypeOK, TablesTypeOK, TransportTypeOK, transportVars,
                RequestsTypeOK, RelayTypeOK, HandlerTypeOK, WorkerTypeOK
  <2> QED
    BY <1>1, <2>1, InHandKept DEF Clock, TypeOK, TransportTypeOK, transportVars
<1>2. ASSUME NEW s \in Sub, Broker(s) PROVE TypeOK' /\ InHandIsUnacknowledged'
  <2>1. TypeOK'
    BY <1>2 DEF Broker, BrokerAccept, TypeOK, TablesTypeOK, TransportTypeOK, tableVars,
                RequestsTypeOK, RelayTypeOK, HandlerTypeOK, WorkerTypeOK
  <2> QED
    BY <1>2, <2>1, InHandKept DEF Broker, BrokerAccept, TypeOK, TransportTypeOK
<1>3. ASSUME NEW s \in Sub, Requests(s) PROVE TypeOK' /\ InHandIsUnacknowledged'
  <2>1. UNCHANGED transportVars
    BY <1>3 DEF Requests, RequestStep, CheckDuplicate, CommitSubscription, Start, FindByConfirmToken,
                Confirm, FindByUnsubscribeToken, Unsubscribe
  <2> QED
    BY <1>3, <2>1, RequestsType, InHandKept DEF Requests, TypeOK, TransportTypeOK, transportVars
<1>4. ASSUME NEW d \in Drain, Relay(d) PROVE TypeOK' /\ InHandIsUnacknowledged'
  <2>1. UNCHANGED relayTransport
    BY <1>4 DEF Relay, RelayStep, StartDrain, Publish, Mark, Bump, transportVars, relayTransport
  <2> QED
    BY <1>4, <2>1, RelayType, InHandKept DEF Relay, TypeOK, TransportTypeOK, relayTransport
<1>5. ASSUME NEW h \in Handler, Notification(h) PROVE TypeOK' /\ InHandIsUnacknowledged'
  <2>1. worker' = worker /\ ("monolith" \in listening' => "monolith" \in listening)
    BY <1>5 DEF Notification, NotificationStep, Consume, SendEmail, PublishReply, transportVars
  <2>2. ASSUME NEW r \in Reply PROVE replies'[r] >= replies[r]
    BY <1>5 DEF Notification, NotificationStep, Consume, SendEmail, PublishReply, transportVars,
                TypeOK, TransportTypeOK
  <2>3. \A r \in Reply : Unsettled(r)' = Unsettled(r)
    BY <2>1 DEF Unsettled, Active
  <2>4. TypeOK'
    BY <1>5, NotificationType
  <2>5. "monolith" \in listening' =>
          \A r \in Reply : Cardinality(Unsettled(r)') <= replies'[r]
    BY <2>1, <2>2, <2>3, <2>4, InHandFinite DEF InHandIsUnacknowledged, TypeOK, TransportTypeOK
  <2> QED
    BY <1>5, <2>4, <2>5, NotificationType DEF InHandIsUnacknowledged
<1>6. ASSUME NEW w \in Worker, Orchestrator(w) PROVE TypeOK' /\ InHandIsUnacknowledged'
  <2>1. UNCHANGED <<handler, commands, listening>>
    BY <1>6 DEF Orchestrator, WorkerStep, HandleReply, Complete, SweepTimeouts, Compensate,
                MarkCompensated, MarkFailed, Settle, orchestratorTransport, transportVars
  <2>2. \A s \in Sub : Unacked(s)' = Unacked(s)
    BY <2>1 DEF Unacked, Busy
  <2> QED
    BY <1>6, <2>1, <2>2, OrchestratorType DEF InHandIsUnacknowledged
<1>7. CASE NotificationFailure \/ MonolithFailure
  BY <1>7, FailureType, FailureInHand
<1>8. CASE UNCHANGED vars
  <2>1. TypeOK'
    BY <1>8 DEF vars, tableVars, transportVars, TypeOK, TablesTypeOK, TransportTypeOK,
                RequestsTypeOK, RelayTypeOK, HandlerTypeOK, WorkerTypeOK
  <2> QED
    BY <1>8, <2>1, InHandKept DEF vars, tableVars, transportVars, TypeOK, TransportTypeOK
<1> QED
  BY <1>1, <1>2, <1>3, <1>4, <1>5, <1>6, <1>7, <1>8 DEF Next

LEMMA InHandInit == Init => TypeOK /\ InHandIsUnacknowledged
<1> SUFFICES ASSUME Init PROVE TypeOK /\ InHandIsUnacknowledged
  OBVIOUS
<1> USE DEF Init, TablesInit, TransportInit, RequestsInit, RelayInit, HandlerInit, WorkerInit
<1>1. TypeOK
  BY DEF TypeOK, TablesTypeOK, TransportTypeOK, RequestsTypeOK, RelayTypeOK, HandlerTypeOK,
         WorkerTypeOK, IdleDrain
<1>2. /\ \A s \in Sub : Unacked(s) = {}
      /\ \A r \in Reply : Unsettled(r) = {}
  BY DEF Unacked, Busy, IdleHandler, Unsettled, Active, IdleWorker
<1>3. /\ \A s \in Sub : Cardinality(Unacked(s)) = 0 /\ commands[s] = 0
      /\ \A r \in Reply : Cardinality(Unsettled(r)) = 0 /\ replies[r] = 0
  <2>1. Cardinality({}) = 0
    BY FS_EmptySet
  <2> QED
    BY <1>2, <2>1
<1> QED
  BY <1>1, <1>3 DEF InHandIsUnacknowledged

\* Every variable keeps its type; no queue count falls below zero, which takes
\* the counting invariant.
THEOREM TypeCorrect == Spec => []TypeOK
<1> QED
  BY InHandInit, InHandStep, PTL DEF Spec

\* No message is acknowledged twice, for any number of handlers and workers.
THEOREM InHandCorrect == Spec => []InHandIsUnacknowledged
<1> QED
  BY InHandInit, InHandStep, PTL DEF Spec
=============================================================================
