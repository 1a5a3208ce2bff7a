---------------------------- MODULE OutboxRelay -----------------------------
(* OutboxRelay.drainOnce. The interval timer starts a drain whether or not  *)
(* the previous one has finished, so several drains walk their own snapshots*)
(* of the PENDING rows at once.                                             *)
EXTENDS SagaTransport

CONSTANT Drain   \* bound on drains in progress at once

VARIABLE relay   \* per drain: the next step and the rows of its snapshot left

relayTables == <<row, saga, createdAt, cutoff>>
relayTransport == <<commands, replies, listening, mailed, bounced, lost>>

IdleDrain == [pc |-> "idle", rows |-> {}]
RelayTypeOK ==
  relay \in [Drain -> [pc : {"idle", "publish", "mark", "bump"}, rows : SUBSET Sub]]
RelayInit == relay = [d \in Drain |-> IdleDrain]

\* Rows are walked in the order of the query: oldest first.
IsCurrent(d, s) ==
  /\ s \in relay[d].rows
  /\ \A t \in relay[d].rows : createdAt[s] <= createdAt[t]

Goto(d, pc) == relay' = [relay EXCEPT ![d].pc = pc]
NextRow(d, s) ==
  LET left == relay[d].rows \ {s}
  IN relay' = [relay EXCEPT ![d] =
       IF left = {} THEN IdleDrain ELSE [pc |-> "publish", rows |-> left]]

StartDrain(d) ==
  /\ relay[d].pc = "idle"
  /\ FindPending # {}
  /\ relay' = [relay EXCEPT ![d] = [pc |-> "publish", rows |-> FindPending]]
  /\ UNCHANGED <<tableVars, transportVars>>

\* Faulty variant: an error of publish is logged and the row marked all the same.
PublishSwallowsError(d, s) ==
  /\ relay[d].pc = "publish" /\ IsCurrent(d, s)
  /\ Goto(d, "mark")
  /\ \/ wire' = [wire EXCEPT ![s] = @ + 1] /\ UNCHANGED faults
     \/ Fault /\ UNCHANGED wire
  /\ UNCHANGED <<tableVars, relayTransport>>

\* channel.publish puts the command on the socket, or the channel cannot be had
\* and publish throws.
Publish(d, s) ==
  /\ relay[d].pc = "publish" /\ IsCurrent(d, s)
  /\ \/ /\ wire' = [wire EXCEPT ![s] = @ + 1]
        /\ Goto(d, "mark")
        /\ UNCHANGED faults
     \/ /\ Fault
        /\ Goto(d, "bump")
        /\ UNCHANGED wire
  /\ UNCHANGED <<tableVars, relayTransport>>

\* An error of markSent falls into the same catch as one of publish.
Mark(d, s) ==
  /\ relay[d].pc = "mark" /\ IsCurrent(d, s)
  /\ \/ MarkSent(s) /\ NextRow(d, s) /\ UNCHANGED faults
     \/ Fault /\ Goto(d, "bump") /\ UNCHANGED outbox
  /\ UNCHANGED <<relayTables, attempts, wire, relayTransport>>

\* An error of bumpAttempts is swallowed. maxAttempts only words the log line.
Bump(d, s) ==
  /\ relay[d].pc = "bump" /\ IsCurrent(d, s)
  /\ \/ BumpAttempts(s) /\ UNCHANGED faults
     \/ Fault /\ UNCHANGED attempts
  /\ NextRow(d, s)
  /\ UNCHANGED <<relayTables, outbox, wire, relayTransport>>

RelayStep(d) ==
  \/ StartDrain(d)
  \/ \E s \in Sub : Publish(d, s) \/ Mark(d, s) \/ Bump(d, s)
=============================================================================
