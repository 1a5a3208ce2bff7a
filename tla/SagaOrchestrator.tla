-------------------------- MODULE SagaOrchestrator --------------------------
(* ConfirmationSaga.handleReply and sweepTimeouts, and the reply consumer   *)
(* around the first. Replies have no prefetch limit and the sweep timer does*)
(* not wait for the last sweep, so any number of these run at once, each    *)
(* acting on the status it read before its first write.                     *)
EXTENDS SagaTransport

CONSTANT Worker   \* bound on reply handlers and sweeps in progress at once

ASSUME WorkerAssumption == IsFiniteSet(Worker)

VARIABLE worker   \* per activation: the saga in hand and how far it is

orchestratorTables == <<outbox, attempts, createdAt, cutoff>>
orchestratorTransport == <<wire, commands, listening, mailed, bounced>>

IdleWorker == [pc |-> "idle"]
Stage == {"complete", "delete", "markCompensated", "markFailed", "ack", "nack"}
WorkerTypeOK ==
  worker \in [Worker -> {IdleWorker} \cup
                [pc : Stage, by : {"reply", "sweep"}, sub : Sub, success : BOOLEAN,
                 left : SUBSET Sub]]
WorkerInit == worker = [w \in Worker |-> IdleWorker]

Active(w) == worker[w].pc # "idle"
Unsettled(r) ==
  {w \in Worker :
     /\ Active(w) /\ worker[w].by = "reply"
     /\ worker[w].sub = r.saga /\ worker[w].success = r.success}

GotoStage(w, pc) == worker' = [worker EXCEPT ![w].pc = pc]

\* The next saga of the sweep's snapshot; the query names no order.
SweepNext(w, rows) ==
  \/ rows = {} /\ worker' = [worker EXCEPT ![w] = IdleWorker]
  \/ \E s \in rows :
       worker' = [worker EXCEPT ![w] =
         [pc |-> "delete", by |-> "sweep", sub |-> s, success |-> FALSE, left |-> rows \ {s}]]

\* compensateSaga has returned to its caller.
Return(w) ==
  \/ worker[w].by = "reply" /\ GotoStage(w, "ack")
  \/ worker[w].by = "sweep" /\ SweepNext(w, worker[w].left)

\* Faulty variant: the reply's success flag is not looked at.
ReplyStageIgnoresSuccess(r) ==
  IF saga[r.saga] \in {"none"} \cup Terminal THEN "ack" ELSE "complete"

\* What handleReply does about a reply, by the status findById returns.
ReplyStage(r) ==
  IF saga[r.saga] \in {"none"} \cup Terminal THEN "ack"
  ELSE IF r.success THEN "complete" ELSE "delete"

Take(w, r, pc) ==
  worker' = [worker EXCEPT ![w] =
    [pc |-> pc, by |-> "reply", sub |-> r.saga, success |-> r.success, left |-> {}]]

\* A delivery and its findById, which may fail.
HandleReply(w, r) ==
  /\ "monolith" \in listening
  /\ ~Active(w)
  /\ replies[r] > Cardinality(Unsettled(r))
  /\ \/ Take(w, r, ReplyStage(r)) /\ UNCHANGED faults
     \/ Take(w, r, "nack") /\ Fault
  /\ UNCHANGED <<tableVars, replies, lost, orchestratorTransport>>

Complete(w) ==
  /\ worker[w].pc = "complete"
  /\ \/ /\ UpdateStatus(worker[w].sub, "COMPLETED")
        /\ GotoStage(w, "ack")
        /\ UNCHANGED faults
     \/ Fault /\ GotoStage(w, "nack") /\ UNCHANGED saga
  /\ UNCHANGED <<row, replies, lost, orchestratorTables, orchestratorTransport>>

\* findStaleStarted; its rows are compensated later, on the strength of it.
SweepTimeouts(w) ==
  /\ ~Active(w)
  /\ FindStaleStarted # {}
  /\ SweepNext(w, FindStaleStarted)
  /\ UNCHANGED <<tableVars, transportVars>>

\* Faulty variants: deleting a row that is gone counts as a compensation; the row
\* is found by its (email, repo) pair rather than its id.
CompensateToleratesMissing(w) ==
  /\ worker[w].pc = "delete"
  /\ GotoStage(w, "markCompensated")
  /\ \/ Live(worker[w].sub) /\ DeleteSubscription(worker[w].sub, "compensated")
     \/ ~Live(worker[w].sub) /\ UNCHANGED row
  /\ UNCHANGED <<saga, replies, lost, faults, orchestratorTables, orchestratorTransport>>
CompensateByKey(w) ==
  /\ worker[w].pc = "delete"
  /\ \E s \in Sub :
       /\ Live(s) /\ KeyOf[s] = KeyOf[worker[w].sub]
       /\ DeleteSubscription(s, "compensated")
  /\ GotoStage(w, "markCompensated")
  /\ UNCHANGED <<saga, replies, lost, faults, orchestratorTables, orchestratorTransport>>

\* compensate() deletes by id, so it also throws when the row is gone.
Compensate(w) ==
  /\ worker[w].pc = "delete"
  /\ \/ /\ Live(worker[w].sub)
        /\ DeleteSubscription(worker[w].sub, "compensated")
        /\ GotoStage(w, "markCompensated")
        /\ UNCHANGED faults
     \/ /\ GotoStage(w, "markFailed")
        /\ \/ ~Live(worker[w].sub) /\ UNCHANGED faults
           \/ Live(worker[w].sub) /\ Fault
        /\ UNCHANGED row
  /\ UNCHANGED <<saga, replies, lost, orchestratorTables, orchestratorTransport>>

MarkCompensated(w) ==
  /\ worker[w].pc = "markCompensated"
  /\ \/ UpdateStatus(worker[w].sub, "COMPENSATED") /\ Return(w) /\ UNCHANGED faults
     \/ Fault /\ GotoStage(w, "markFailed") /\ UNCHANGED saga
  /\ UNCHANGED <<row, replies, lost, orchestratorTables, orchestratorTransport>>

\* An error here leaves compensateSaga as an exception.
MarkFailed(w) ==
  /\ worker[w].pc = "markFailed"
  /\ \/ UpdateStatus(worker[w].sub, "FAILED") /\ Return(w) /\ UNCHANGED faults
     \/ Fault /\ GotoStage(w, "nack") /\ UNCHANGED saga
  /\ UNCHANGED <<row, replies, lost, orchestratorTables, orchestratorTransport>>

\* The reply is acknowledged, or discarded: its queue dead-letters nowhere.
Settle(w) ==
  LET s == worker[w].sub
      r == [saga |-> s, success |-> worker[w].success]
  IN /\ worker[w].pc \in {"ack", "nack"}
     /\ worker[w].by = "reply"
     /\ "monolith" \in listening
     /\ replies' = [replies EXCEPT ![r] = @ - 1]
     /\ lost' = IF worker[w].pc = "nack" THEN lost \cup {s} ELSE lost
     /\ worker' = [worker EXCEPT ![w] = IdleWorker]
     /\ UNCHANGED <<tableVars, orchestratorTransport, faults>>

WorkerStep(w) ==
  \/ \E r \in Reply : HandleReply(w, r)
  \/ Complete(w)
  \/ SweepTimeouts(w)
  \/ Compensate(w)
  \/ MarkCompensated(w)
  \/ MarkFailed(w)
  \/ Settle(w)
=============================================================================
