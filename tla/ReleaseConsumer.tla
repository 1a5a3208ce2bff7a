-------------------------- MODULE ReleaseConsumer ---------------------------
(* Release messages in the notification service: RabbitMqConsumer over the  *)
(* main, retry and parking-lot queues of topology.ts, with the handler that *)
(* mails the subscribers of a message one after the other. A message has at *)
(* most one copy on this path, so it is its own process; only the parking   *)
(* lot, which is published to, can hold several.                            *)
EXTENDS Integers, FiniteSets

CONSTANTS
  Msg,          \* messages of the topic exchange
  Release,      \* those published as release.detected
  Size,         \* number of subscribers in a message
  MaxAttempts,  \* NOTIF_MAX_ATTEMPTS
  Prefetch,     \* the unacknowledged window
  ReturnKeys,   \* keys under which the broker returns an expired message
  MaxFaults     \* bound on crashes and lost connections

ASSUME ConsumerAssumption ==
  /\ Release \subseteq Msg
  /\ Size \in [Msg -> Nat]
  /\ MaxAttempts \in Nat /\ Prefetch \in Nat \ {0} /\ MaxFaults \in Nat
  /\ ReturnKeys \subseteq {"published", "retry"}

VARIABLES
  place,     \* where the broker has the message
  attempt,   \* count of the newest x-death entry
  hand,      \* the consumer callback of the message
  mails,     \* e-mails to each of its subscribers that may have arrived
  parked,    \* copies in the parking lot
  online,    \* the consumer is registered on a live channel
  faults

vars == <<place, attempt, hand, mails, parked, online, faults>>

Recipient(m) == 1 .. Size[m]
Idle == [pc |-> "idle"]
Mailing(k) == [pc |-> "mailing", to |-> k]
Settling(result) == [pc |-> "settling", result |-> result]
HandState ==
  {Idle} \cup [pc : {"mailing"}, to : Nat]
         \cup [pc : {"settling"}, result : {"ack", "retry", "reject"}]

TypeOK ==
  /\ place \in [Msg -> {"unpublished", "queue", "retry", "settled", "dropped"}]
  /\ attempt \in [Msg -> Nat]
  /\ hand \in [Msg -> HandState]
  /\ \A m \in Msg : hand[m].pc = "mailing" => hand[m].to \in Recipient(m)
  /\ DOMAIN mails = Msg /\ \A m \in Msg : mails[m] \in [Recipient(m) -> Nat]
  /\ parked \in [Msg -> Nat]
  /\ online \in BOOLEAN
  /\ faults \in Nat

Init ==
  /\ place = [m \in Msg |-> "unpublished"]
  /\ attempt = [m \in Msg |-> 0]
  /\ hand = [m \in Msg |-> Idle]
  /\ mails = [m \in Msg |-> [k \in Recipient(m) |-> 0]]
  /\ parked = [m \in Msg |-> 0]
  /\ online = TRUE
  /\ faults = 0

Fault == faults < MaxFaults /\ faults' = faults + 1
InHand == {m \in Msg : hand[m] # Idle}
Become(m, state) == hand' = [hand EXCEPT ![m] = state]

\* A bound key brings the message to the main queue.
Publish(m) ==
  /\ place[m] = "unpublished"
  /\ place' = [place EXCEPT ![m] = "queue"]
  /\ UNCHANGED <<attempt, hand, mails, parked, online, faults>>

\* Faulty variant: the loop is entered without looking for a subscriber.
FirstStageAssumesOne(m) == IF m \notin Release THEN Settling("reject") ELSE Mailing(1)

\* What the callback does first: the handler rejects every key but
\* release.detected, and a body that does not parse is treated alike.
FirstStage(m) ==
  IF m \notin Release THEN Settling("reject")
  ELSE IF Size[m] = 0 THEN Settling("ack") ELSE Mailing(1)

Deliver(m) ==
  /\ online
  /\ place[m] = "queue" /\ hand[m] = Idle
  /\ Cardinality(InHand) < Prefetch
  /\ Become(m, FirstStage(m))
  /\ UNCHANGED <<place, attempt, mails, parked, online, faults>>

\* Faulty variant: an error of one send is logged and the loop goes on.
SendEmailSkipsError(m) ==
  /\ hand[m].pc = "mailing"
  /\ LET k == hand[m].to IN
     /\ mails' \in {mails, [mails EXCEPT ![m][k] = @ + 1]}
     /\ Become(m, IF k = Size[m] THEN Settling("ack") ELSE Mailing(k + 1))
  /\ UNCHANGED <<place, attempt, parked, online, faults>>

\* The loop over the subscribers ends at the first send that throws, which says
\* nothing about that e-mail's arrival; a later delivery starts over.
SendEmail(m) ==
  /\ hand[m].pc = "mailing"
  /\ LET k == hand[m].to IN
     \/ /\ mails' = [mails EXCEPT ![m][k] = @ + 1]
        /\ \/ Become(m, IF k = Size[m] THEN Settling("ack") ELSE Mailing(k + 1))
           \/ Become(m, Settling("retry"))
     \/ /\ Become(m, Settling("retry"))
        /\ UNCHANGED mails
  /\ UNCHANGED <<place, attempt, parked, online, faults>>

\* Faulty variants: a delivery too few even for the documented limit, or no limit.
OutcomeParksEarly(m) ==
  LET result == hand[m].result IN
  IF result = "reject" \/ (result = "retry" /\ attempt[m] + 2 >= MaxAttempts)
  THEN "park" ELSE result
OutcomeNeverParks(m) == IF hand[m].result = "reject" THEN "park" ELSE hand[m].result

\* What becomes of the message by the handler's result. The first delivery has
\* attempt 0, so that a release is delivered MaxAttempts + 1 times before it is
\* parked, once more than the option's comment and the design say.
Outcome(m) ==
  LET result == hand[m].result IN
  IF result = "reject" \/ (result = "retry" /\ attempt[m] >= MaxAttempts) THEN "park" ELSE result

Park(m) == parked' = [parked EXCEPT ![m] = @ + 1]

\* Faulty variant: the ack is written before the copy.
SettleAcksFirst(m) ==
  /\ hand[m].pc = "settling" /\ online
  /\ Become(m, Idle)
  /\ \/ /\ place' = [place EXCEPT ![m] = IF Outcome(m) = "retry" THEN "retry" ELSE "settled"]
        /\ IF Outcome(m) = "park" THEN Park(m) ELSE UNCHANGED parked
        /\ UNCHANGED <<online, faults>>
     \/ /\ Fault
        /\ online' = FALSE
        /\ \/ Outcome(m) = "park" /\ place' = [place EXCEPT ![m] = "settled"]
           \/ UNCHANGED place
        /\ UNCHANGED parked
  /\ UNCHANGED <<attempt, mails>>

\* The frames written in one go: a copy to the parking lot and the ack, or the
\* ack, or the nack that dead-letters to the retry queue. When the connection
\* goes first, the broker has read none of them or only the copy.
Settle(m) ==
  /\ hand[m].pc = "settling" /\ online
  /\ Become(m, Idle)
  /\ \/ /\ place' = [place EXCEPT ![m] = IF Outcome(m) = "retry" THEN "retry" ELSE "settled"]
        /\ IF Outcome(m) = "park" THEN Park(m) ELSE UNCHANGED parked
        /\ UNCHANGED <<online, faults>>
     \/ /\ Fault
        /\ online' = FALSE
        /\ \/ Outcome(m) = "park" /\ Park(m)
           \/ UNCHANGED parked
        /\ UNCHANGED place
  /\ UNCHANGED <<attempt, mails>>

\* Faulty variant: the retry queue has no TTL.
NeverExpire(m) == FALSE /\ UNCHANGED vars

\* The retry queue's TTL. It names no dead-letter key. Under the key of its
\* publication the message comes back; under the key the main queue gave it when
\* it was nacked, no binding of the exchange takes it.
Expire(m) ==
  /\ place[m] = "retry"
  /\ \E key \in ReturnKeys :
       \/ /\ key = "published"
          /\ place' = [place EXCEPT ![m] = "queue"]
          /\ attempt' = [attempt EXCEPT ![m] = @ + 1]
       \/ /\ key = "retry"
          /\ place' = [place EXCEPT ![m] = "dropped"]
          /\ UNCHANGED attempt
  /\ UNCHANGED <<hand, mails, parked, online, faults>>

\* The close event only clears the fields of RabbitMqConnection; start() has run
\* and nothing calls it again. Callbacks in progress carry on.
Disconnect ==
  /\ online /\ Fault
  /\ online' = FALSE
  /\ UNCHANGED <<place, attempt, hand, mails, parked>>

\* What is not acknowledged is delivered again, with the x-death it had.
Restart ==
  /\ hand' = [m \in Msg |-> Idle]
  /\ online' = TRUE
  /\ UNCHANGED <<place, attempt, mails, parked>>
Crash == Fault /\ Restart

\* ack and nack throw on a dead channel, outside of any try: the rejection is
\* unhandled and ends the process.
UnhandledRejection ==
  /\ ~online /\ \E m \in Msg : hand[m].pc = "settling"
  /\ Restart
  /\ UNCHANGED faults

Next ==
  \/ \E m \in Msg : Publish(m) \/ Deliver(m) \/ SendEmail(m) \/ Settle(m) \/ Expire(m)
  \/ Disconnect
  \/ Crash
  \/ UnhandledRejection

Spec == Init /\ [][Next]_vars

\* The broker delivers what waits and its TTL fires, callbacks run on, a send is
\* answered or times out, and a process with an unhandled rejection exits.
Fairness ==
  /\ \A m \in Msg :
       WF_vars(Deliver(m)) /\ WF_vars(SendEmail(m)) /\ WF_vars(Settle(m)) /\ WF_vars(Expire(m))
  /\ WF_vars(UnhandledRejection)
FairSpec == Spec /\ Fairness

-----------------------------------------------------------------------------
(* Properties *)

\* A message leaves the main queue for good only when each of its subscribers
\* has been mailed or a copy is parked, whatever was retried or redelivered.
HandledOrParked ==
  \A m \in Msg : place[m] = "settled" =>
    parked[m] > 0 \/ (m \in Release /\ \A k \in Recipient(m) : mails[m][k] > 0)

\* Retries are counted by the broker and redeliveries are not, and each starts
\* over with the first subscriber; still nobody is mailed more often than the
\* deliveries, which are one more than MaxAttempts, and the faults account for.
EmailsAreBounded ==
  \A m \in Msg : \A k \in Recipient(m) : mails[m][k] <= MaxAttempts + 1 + faults

\* A release is given up only once the documented number of deliveries has failed,
\* this one included: neither a crash, a redelivery, a copy parked twice nor the
\* counting in the broker costs it an attempt it was promised.
ParkedWhenExhausted ==
  \A m \in Release : parked[m] > 0 => attempt[m] + 1 >= MaxAttempts

\* What makes these so. A message in hand is still the main queue's; the loop has
\* mailed everybody before the subscriber it is at; only other messages are
\* rejected; the broker counts no attempt beyond the limit; and an e-mail is paid
\* for by its delivery, each delivery by an attempt or by the fault that cost the
\* one before, which a callback on a lost connection already owes.
HeldByQueue == \A m \in Msg : hand[m] # Idle => place[m] = "queue"
MailedInOrder ==
  \A m \in Msg :
    /\ hand[m].pc = "mailing" => m \in Release /\ \A k \in 1 .. hand[m].to - 1 : mails[m][k] > 0
    /\ hand[m] = Settling("ack") => m \in Release /\ \A k \in Recipient(m) : mails[m][k] > 0
    /\ hand[m] = Settling("reject") => m \notin Release
AttemptsAreBounded ==
  \A m \in Msg : attempt[m] <= MaxAttempts /\ (place[m] = "retry" => attempt[m] < MaxAttempts)
Visited(m, k) ==
  \/ place[m] \notin {"unpublished", "queue"}
  \/ hand[m].pc = "settling"
  \/ hand[m].pc = "mailing" /\ k < hand[m].to
Owed(m) == ~online /\ hand[m] # Idle
Paid(m, k) ==
  mails[m][k] + (IF Owed(m) THEN 1 ELSE 0) <= attempt[m] + faults + (IF Visited(m, k) THEN 1 ELSE 0)
ConsumerInvariant ==
  /\ HeldByQueue /\ MailedInOrder /\ AttemptsAreBounded
  /\ \A m \in Msg : \A k \in Recipient(m) : Paid(m, k)
  /\ HandledOrParked /\ ParkedWhenExhausted

\* A message does not stay in the queues for ever, unless the consumer is deaf.
EveryMessageLeaves ==
  \A m \in Msg : place[m] = "queue" ~> place[m] \in {"settled", "dropped"} \/ ~online

\* topology.ts: an expired message is routed back "via the original routing key,
\* which amqp preserves in the message on dead-letter".
RetryComesBack == \A m \in Msg : place[m] # "dropped"

\* rabbitmq-connection.ts: "reconnects on connection close (unless we asked it
\* to close)".
ConsumerComesBack == ~online ~> online
=============================================================================
