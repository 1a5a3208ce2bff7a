---------------------------- MODULE SagaPromise -----------------------------
(* What the confirmation saga promises about a subscription, without the    *)
(* outbox, the broker, the two services or any of their failures: its row,  *)
(* the saga's verdict on it, and whether its confirmation e-mail arrived.   *)
CONSTANTS Sub, KeyOf   \* subscriptions, and the (email, repo) pair of each

VARIABLES row, saga, mailed

promiseVars == <<row, saga, mailed>>

Live == {s \in Sub : row[s] \in {"unconfirmed", "confirmed"}}

Init ==
  /\ row = [s \in Sub |-> "none"]
  /\ saga = [s \in Sub |-> "none"]
  /\ mailed = {}

\* A subscription and its saga appear together, one live row per pair.
Begin(s) ==
  /\ row[s] = "none"
  /\ \A t \in Live : KeyOf[t] # KeyOf[s]
  /\ row' = [row EXCEPT ![s] = "unconfirmed"]
  /\ saga' = [saga EXCEPT ![s] = "STARTED"]
  /\ UNCHANGED mailed

\* Nobody is mailed about a subscription that was never made.
Deliver(s) ==
  /\ saga[s] # "none"
  /\ mailed' = mailed \cup {s}
  /\ UNCHANGED <<row, saga>>

Confirm(s) ==
  /\ row[s] = "unconfirmed" /\ s \in mailed
  /\ row' = [row EXCEPT ![s] = "confirmed"]
  /\ UNCHANGED <<saga, mailed>>

\* Only a confirmed subscriber holds a token to leave with.
Leave(s) ==
  /\ row[s] = "confirmed"
  /\ row' = [row EXCEPT ![s] = "unsubscribed"]
  /\ UNCHANGED <<saga, mailed>>

Compensate(s) ==
  /\ s \in Live
  /\ row' = [row EXCEPT ![s] = "compensated"]
  /\ UNCHANGED <<saga, mailed>>

\* A verdict is true when it is given. The code can give a second one; what it
\* cannot do is take one back to STARTED.
Settle(s, verdict) ==
  /\ saga[s] # "none"
  /\ verdict = "COMPLETED" => s \in mailed
  /\ verdict = "COMPENSATED" => row[s] = "compensated"
  /\ saga' = [saga EXCEPT ![s] = verdict]
  /\ UNCHANGED <<row, mailed>>

Next == \E s \in Sub :
  \/ Begin(s)
  \/ Deliver(s)
  \/ Confirm(s)
  \/ Leave(s)
  \/ Compensate(s)
  \/ \E verdict \in {"COMPLETED", "COMPENSATED", "FAILED"} : Settle(s, verdict)

Spec == Init /\ [][Next]_promiseVars
=============================================================================
