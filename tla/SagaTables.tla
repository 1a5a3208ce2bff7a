----------------------------- MODULE SagaTables -----------------------------
(* The Postgres tables of the confirmation flow and the repository calls on *)
(* them. One element of Sub stands for the three rows that one subscribe()  *)
(* transaction inserts: the subscription, its saga instance and its outbox  *)
(* message, each with the other's id. A repository call is one SQL          *)
(* statement, so it is atomic; everything between two calls can interleave. *)
EXTENDS Integers, FiniteSets

CONSTANTS
  Sub,        \* subscribe() transactions that may ever commit
  Key,        \* (email, repo) pairs
  KeyOf,      \* the pair a transaction subscribes
  BatchSize   \* OUTBOX_BATCH_SIZE

ASSUME TablesAssumption ==
  /\ IsFiniteSet(Sub)
  /\ KeyOf \in [Sub -> Key]
  /\ BatchSize \in Nat \ {0}

VARIABLES
  row,        \* subscriptions: absent, live, or removed (and by whom)
  saga,       \* saga_instances.status
  outbox,     \* outbox_messages.status
  attempts,   \* outbox_messages.attempts
  createdAt,  \* createdAt of the three rows, as their rank; 0 when absent
  cutoff      \* rows ranked up to here are older than SAGA_TIMEOUT_MS

tableVars == <<row, saga, outbox, attempts, createdAt, cutoff>>

LiveRow == {"unconfirmed", "confirmed"}
\* "compensated" and "unsubscribed" both mean that the row is deleted; which
\* caller deleted it is history.
RemovedRow == {"compensated", "unsubscribed"}
Terminal == {"COMPLETED", "COMPENSATED", "FAILED"}

TablesTypeOK ==
  /\ row \in [Sub -> {"none"} \cup LiveRow \cup RemovedRow]
  /\ saga \in [Sub -> {"none", "STARTED"} \cup Terminal]
  /\ outbox \in [Sub -> {"none", "PENDING", "SENT"}]
  /\ attempts \in [Sub -> Nat]
  /\ createdAt \in [Sub -> Nat]
  /\ cutoff \in Nat

TablesInit ==
  /\ row = [s \in Sub |-> "none"]
  /\ saga = [s \in Sub |-> "none"]
  /\ outbox = [s \in Sub |-> "none"]
  /\ attempts = [s \in Sub |-> 0]
  /\ createdAt = [s \in Sub |-> 0]
  /\ cutoff = 0

Live(s) == row[s] \in LiveRow
Inserted == Cardinality({s \in Sub : createdAt[s] # 0})

-----------------------------------------------------------------------------
(* SubscriptionRepository *)

\* findByEmailAndRepo, which is also what @@unique([email, repoId]) forbids.
KeyTaken(s) == \E t \in Sub : Live(t) /\ KeyOf[t] = KeyOf[s]

CreateSubscription(s) == row' = [row EXCEPT ![s] = "unconfirmed"]
ConfirmSubscription(s) == row' = [row EXCEPT ![s] = "confirmed"]
DeleteSubscription(s, by) == row' = [row EXCEPT ![s] = by]

(* SagaRepository *)

CreateSaga(s) == saga' = [saga EXCEPT ![s] = "STARTED"]
\* No condition on the status the row has by now.
UpdateStatus(s, status) == saga' = [saga EXCEPT ![s] = status]
\* Faulty variants: the sweep forgets the age of a saga, or misses the last one.
FindStaleStartedAnyAge == {s \in Sub : saga[s] = "STARTED"}
FindStaleStartedOffByOne == {s \in Sub : saga[s] = "STARTED" /\ createdAt[s] < cutoff}
FindStaleStarted == {s \in Sub : saga[s] = "STARTED" /\ createdAt[s] <= cutoff}

(* OutboxRepository *)

Enqueue(s) == outbox' = [outbox EXCEPT ![s] = "PENDING"]
\* Faulty variant: a row that has failed is not looked at again.
FindPendingGivesUp ==
  LET pending == {s \in Sub : outbox[s] = "PENDING" /\ attempts[s] = 0}
  IN {s \in pending :
        Cardinality({t \in pending : createdAt[t] < createdAt[s]}) < BatchSize}
\* The BatchSize oldest PENDING rows, whatever their attempts.
FindPending ==
  LET pending == {s \in Sub : outbox[s] = "PENDING"}
  IN {s \in pending :
        Cardinality({t \in pending : createdAt[t] < createdAt[s]}) < BatchSize}
MarkSent(s) == outbox' = [outbox EXCEPT ![s] = "SENT"]
BumpAttempts(s) == attempts' = [attempts EXCEPT ![s] = @ + 1]

\* ConfirmationSaga.start: the saga and its command, in the caller's transaction.
Start(s) == CreateSaga(s) /\ Enqueue(s)

\* The wall clock: one more row becomes older than the saga timeout.
TimePasses ==
  /\ cutoff < Inserted
  /\ cutoff' = cutoff + 1
  /\ UNCHANGED <<row, saga, outbox, attempts, createdAt>>
=============================================================================
