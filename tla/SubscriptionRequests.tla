------------------------ MODULE SubscriptionRequests ------------------------
(* SubscriptionService: subscribe, confirm and unsubscribe, each a read and *)
(* a later write with an await between them.                                *)
EXTENDS SagaTransport

VARIABLE http   \* requests between their read and their write

Request == [op : {"subscribe", "confirm", "unsubscribe"}, sub : Sub]
RequestsTypeOK == http \subseteq Request
RequestsInit == http = {}

Req(op, s) == [op |-> op, sub |-> s]

\* subscribe() has verified the repository and found no duplicate.
CheckDuplicate(s) ==
  /\ row[s] = "none"
  /\ ~KeyTaken(s)
  /\ http' = http \cup {Req("subscribe", s)}
  /\ UNCHANGED <<tableVars, transportVars>>

\* Faulty variant: the duplicate check is trusted and nothing enforces it.
CommitWithoutConstraint(s) ==
  /\ Req("subscribe", s) \in http
  /\ http' = http \ {Req("subscribe", s)}
  /\ CreateSubscription(s)
  /\ CreateSaga(s)
  /\ Enqueue(s)
  /\ createdAt' = [createdAt EXCEPT ![s] = Inserted + 1]
  /\ UNCHANGED <<attempts, cutoff, transportVars>>

\* The $transaction: subscription, saga and command commit together, or the
\* unique constraint rolls all of them back and the request fails.
CommitSubscription(s) ==
  /\ Req("subscribe", s) \in http
  /\ http' = http \ {Req("subscribe", s)}
  /\ \/ /\ ~KeyTaken(s)
        /\ CreateSubscription(s)
        /\ Start(s)
        /\ createdAt' = [createdAt EXCEPT ![s] = Inserted + 1]
        /\ UNCHANGED <<attempts, cutoff>>
     \/ /\ KeyTaken(s)
        /\ UNCHANGED tableVars
  /\ UNCHANGED transportVars

\* confirm() finds the row by the token of the e-mail; confirming clears it.
FindByConfirmToken(s) ==
  /\ s \in mailed
  /\ row[s] = "unconfirmed"
  /\ http' = http \cup {Req("confirm", s)}
  /\ UNCHANGED <<tableVars, transportVars>>

\* Faulty variant: confirm upserts the row it found.
ConfirmUpserts(s) ==
  /\ Req("confirm", s) \in http
  /\ http' = http \ {Req("confirm", s)}
  /\ ConfirmSubscription(s)
  /\ UNCHANGED <<saga, outbox, attempts, createdAt, cutoff, transportVars>>

\* The update by id throws when the row is gone by now.
Confirm(s) ==
  /\ Req("confirm", s) \in http
  /\ http' = http \ {Req("confirm", s)}
  /\ \/ Live(s) /\ ConfirmSubscription(s)
     \/ ~Live(s) /\ UNCHANGED row
  /\ UNCHANGED <<saga, outbox, attempts, createdAt, cutoff, transportVars>>

\* unsubscribe() finds the row by a token that only release e-mails carry, and
\* those go to confirmed subscriptions.
FindByUnsubscribeToken(s) ==
  /\ row[s] = "confirmed"
  /\ http' = http \cup {Req("unsubscribe", s)}
  /\ UNCHANGED <<tableVars, transportVars>>

\* The delete by id throws when the row is gone by now.
Unsubscribe(s) ==
  /\ Req("unsubscribe", s) \in http
  /\ http' = http \ {Req("unsubscribe", s)}
  /\ \/ Live(s) /\ DeleteSubscription(s, "unsubscribed")
     \/ ~Live(s) /\ UNCHANGED row
  /\ UNCHANGED <<saga, outbox, attempts, createdAt, cutoff, transportVars>>

RequestStep(s) ==
  \/ CheckDuplicate(s)
  \/ CommitSubscription(s)
  \/ FindByConfirmToken(s)
  \/ Confirm(s)
  \/ FindByUnsubscribeToken(s)
  \/ Unsubscribe(s)
=============================================================================
