----------------------- MODULE ReleaseConsumerProofs ------------------------
(* Proofs about ReleaseConsumer, for all messages, sizes, limits and windows. *)
EXTENDS ReleaseConsumer, TLAPS

-----------------------------------------------------------------------------
(* Types *)

\* What the callback is doing is a state of it, and the loop is at a subscriber.
LEMMA FirstStageType ==
  ASSUME NEW m \in Msg
  PROVE  FirstStage(m) \in HandState /\ (FirstStage(m).pc = "mailing" => FirstStage(m).to \in Recipient(m))
<1>1. Size[m] \in Nat
  BY ConsumerAssumption
<1>2. Settling("reject") \in HandState /\ Settling("ack") \in HandState /\ Mailing(1) \in HandState
  BY DEF HandState, Settling, Mailing
<1>3. Settling("reject").pc # "mailing" /\ Settling("ack").pc # "mailing" /\ Mailing(1).to = 1
  BY DEF Settling, Mailing
<1>4. Size[m] # 0 => 1 \in Recipient(m)
  BY <1>1 DEF Recipient
<1> QED
  BY <1>2, <1>3, <1>4 DEF FirstStage

LEMMA TypeStep ==
  ASSUME TypeOK, [Next]_vars
  PROVE  TypeOK'
<1> USE DEF TypeOK
<1>1. ASSUME NEW m \in Msg, Publish(m) PROVE TypeOK'
  BY <1>1 DEF Publish
<1>2. ASSUME NEW m \in Msg, Deliver(m) PROVE TypeOK'
  BY <1>2, FirstStageType DEF Deliver, Become
<1>3. ASSUME NEW m \in Msg, SendEmail(m) PROVE TypeOK'
  <2>1. hand[m].to \in Recipient(m) /\ Size[m] \in Nat /\ hand[m].to \in Nat
    BY <1>3, ConsumerAssumption DEF SendEmail, Recipient
  <2>2. hand' \in [Msg -> HandState]
    BY <1>3, <2>1 DEF SendEmail, Become, HandState, Settling, Mailing
  <2>3. \A n \in Msg : hand'[n].pc = "mailing" => hand'[n].to \in Recipient(n)
    BY <1>3, <2>1 DEF SendEmail, Become, Recipient, Settling, Mailing
  <2>4. DOMAIN mails' = Msg /\ \A n \in Msg : mails'[n] \in [Recipient(n) -> Nat]
    BY <1>3, <2>1 DEF SendEmail
  <2> QED
    BY <1>3, <2>2, <2>3, <2>4 DEF SendEmail
<1>4. ASSUME NEW m \in Msg, Settle(m) PROVE TypeOK'
  <2>1. place' \in [Msg -> {"unpublished", "queue", "retry", "settled", "dropped"}]
    BY <1>4 DEF Settle
  <2>2. parked' \in [Msg -> Nat]
    <3>1. parked' = parked \/ Park(m)
      BY <1>4, Zenon DEF Settle
    <3> QED
      BY <3>1 DEF Park
  <2>3. online' \in BOOLEAN
    BY <1>4, Zenon DEF Settle
  <2>4. faults' \in Nat /\ mails' = mails /\ attempt' = attempt
    <3>1. faults' = faults \/ Fault
      BY <1>4, Zenon DEF Settle
    <3> QED
      BY <1>4, <3>1 DEF Settle, Fault
  <2>5. hand' = [hand EXCEPT ![m] = Idle] /\ Idle \in HandState /\ Idle.pc # "mailing"
    BY <1>4 DEF Settle, Become, HandState, Idle
  <2> QED
    BY <2>1, <2>2, <2>3, <2>4, <2>5
<1>5. ASSUME NEW m \in Msg, Expire(m) PROVE TypeOK'
  BY <1>5 DEF Expire
<1>6. CASE Disconnect
  <2>1. online' \in BOOLEAN /\ UNCHANGED <<place, attempt, hand, mails, parked>>
    BY <1>6, Zenon DEF Disconnect
  <2>2. faults' \in Nat
    BY <1>6 DEF Disconnect, Fault
  <2> QED
    BY <2>1, <2>2
<1>7. CASE Crash
  BY <1>7 DEF Crash, Restart, Fault, HandState, Idle
<1>8. CASE UnhandledRejection
  BY <1>8 DEF UnhandledRejection, Restart, HandState, Idle
<1>9. CASE UNCHANGED vars
  BY <1>9 DEF vars
<1> QED
  BY <1>1, <1>2, <1>3, <1>4, <1>5, <1>6, <1>7, <1>8, <1>9 DEF Next

\* Every reachable state of the queues and the consumer is well-typed.
THEOREM TypeCorrect == Spec => []TypeOK
<1>1. Init => TypeOK
  BY DEF Init, TypeOK, HandState, Idle
<1>2. TypeOK /\ [Next]_vars => TypeOK'
  BY TypeStep
<1> QED
  BY <1>1, <1>2, PTL DEF Spec

-----------------------------------------------------------------------------
(* Steps *)

\* The steps on message m leave the others alone.
LEMMA OthersKept ==
  ASSUME TypeOK, NEW m \in Msg, Publish(m) \/ Deliver(m) \/ SendEmail(m) \/ Settle(m) \/ Expire(m),
         NEW n \in Msg, n # m
  PROVE  /\ place'[n] = place[n] /\ attempt'[n] = attempt[n] /\ hand'[n] = hand[n]
         /\ mails'[n] = mails[n] /\ parked'[n] = parked[n]
<1> USE DEF TypeOK
<1>1. place'[n] = place[n]
  BY DEF Publish, Deliver, SendEmail, Settle, Expire
<1>2. attempt'[n] = attempt[n]
  BY DEF Publish, Deliver, SendEmail, Settle, Expire
<1>3. hand'[n] = hand[n]
  BY DEF Publish, Deliver, SendEmail, Settle, Expire, Become
<1>4. mails'[n] = mails[n]
  BY DEF Publish, Deliver, SendEmail, Settle, Expire
<1>5. parked'[n] = parked[n]
  BY DEF Publish, Deliver, SendEmail, Settle, Expire, Park
<1> QED
  BY <1>1, <1>2, <1>3, <1>4, <1>5

\* Faults only add up, and the connection is lost by one.
LEMMA FaultsGrow ==
  ASSUME TypeOK, [Next]_vars
  PROVE  /\ faults' \in Nat /\ faults' >= faults
         /\ (online /\ ~online') => faults' = faults + 1
<1>1. faults' \in Nat
  BY TypeStep DEF TypeOK
<1>2. faults' = faults \/ Fault
  BY Zenon DEF Next, vars, Publish, Deliver, SendEmail, Settle, Expire, Disconnect, Crash, UnhandledRejection
<1>3. online' = online \/ online' \/ Fault
  BY Zenon DEF Next, vars, Publish, Deliver, SendEmail, Settle, Expire, Disconnect, Crash,
               UnhandledRejection, Restart
<1>4. Fault => faults' = faults + 1
  BY DEF Fault
<1> QED
  BY <1>1, <1>2, <1>3, <1>4 DEF TypeOK

\* Where a callback that finished has gone.
LEMMA SettleOutcome ==
  ASSUME TypeOK, NEW m \in Msg, Settle(m)
  PROVE  /\ hand[m] = Settling(hand[m].result) /\ hand[m].result \in {"ack", "retry", "reject"}
         /\ hand'[m] = Idle
         /\ \/ place' = place
            \/ place'[m] = "retry" /\ Outcome(m) = "retry"
            \/ place'[m] = "settled" /\ Outcome(m) = "ack"
            \/ place'[m] = "settled" /\ Outcome(m) = "park" /\ Park(m)
         /\ parked' = parked \/ (Outcome(m) = "park" /\ Park(m))
<1>1. hand[m] = Settling(hand[m].result) /\ hand[m].result \in {"ack", "retry", "reject"}
  BY DEF Settle, TypeOK, HandState, Settling, Idle
<1>2. hand'[m] = Idle
  BY DEF Settle, Become, TypeOK
<1>3. Outcome(m) \in {"ack", "retry", "park"}
  BY <1>1 DEF Outcome
<1>4. parked' = parked \/ (Outcome(m) = "park" /\ Park(m))
  BY Zenon DEF Settle
<1>5. \/ place' = place
      \/ /\ place' = [place EXCEPT ![m] = IF Outcome(m) = "retry" THEN "retry" ELSE "settled"]
         /\ Outcome(m) = "park" => Park(m)
  BY Zenon DEF Settle
<1>6. place \in [Msg -> {"unpublished", "queue", "retry", "settled", "dropped"}]
  BY DEF TypeOK
<1> QED
  BY <1>1, <1>2, <1>3, <1>4, <1>5, <1>6

-----------------------------------------------------------------------------
(* The invariant *)

\* What every step but those on one message does.
LEMMA Elsewhere ==
  ASSUME [Next]_vars,
         ~\E m \in Msg : Publish(m) \/ Deliver(m) \/ SendEmail(m) \/ Settle(m) \/ Expire(m)
  PROVE  /\ UNCHANGED <<place, attempt, mails, parked>>
         /\ hand' = hand \/ \A m \in Msg : hand'[m] = Idle
BY DEF Next, Disconnect, Crash, UnhandledRejection, Restart, vars

LEMMA HeldByQueueKept ==
  ASSUME TypeOK, HeldByQueue, [Next]_vars
  PROVE  HeldByQueue'
<1> USE DEF HeldByQueue
<1> SUFFICES ASSUME NEW n \in Msg, hand'[n] # Idle PROVE place'[n] = "queue"
  OBVIOUS
<1>1. ASSUME NEW m \in Msg, Publish(m) \/ Deliver(m) \/ SendEmail(m) \/ Settle(m) \/ Expire(m)
      PROVE  place'[n] = "queue"
  <2>1. CASE n # m
    BY <1>1, <2>1, OthersKept
  <2>2. CASE n = m /\ Settle(m)
    BY <2>2, SettleOutcome
  <2>3. CASE n = m /\ (Publish(m) \/ Deliver(m) \/ SendEmail(m) \/ Expire(m))
    BY <2>3 DEF Publish, Deliver, SendEmail, Expire, TypeOK, Idle
  <2> QED
    BY <1>1, <2>1, <2>2, <2>3
<1> QED
  BY <1>1, Elsewhere

LEMMA AttemptsKept ==
  ASSUME TypeOK, AttemptsAreBounded, [Next]_vars
  PROVE  AttemptsAreBounded'
<1> USE DEF AttemptsAreBounded
<1>1. MaxAttempts \in Nat /\ attempt \in [Msg -> Nat]
  BY ConsumerAssumption DEF TypeOK
<1> SUFFICES ASSUME NEW n \in Msg
             PROVE  attempt'[n] <= MaxAttempts /\ (place'[n] = "retry" => attempt'[n] < MaxAttempts)
  OBVIOUS
<1> DEFINE Bounded == attempt'[n] <= MaxAttempts /\ (place'[n] = "retry" => attempt'[n] < MaxAttempts)
<1>2. ASSUME NEW m \in Msg, Publish(m) \/ Deliver(m) \/ SendEmail(m) \/ Settle(m) \/ Expire(m)
      PROVE  Bounded
  <2>1. CASE n # m
    BY <1>2, <2>1, OthersKept
  <2>2. CASE n = m /\ Settle(m)
    <3>1. Outcome(m) = "retry" => attempt[m] < MaxAttempts
      BY <1>1, <2>2, SettleOutcome DEF Outcome
    <3>2. attempt' = attempt
      BY <2>2 DEF Settle
    <3> QED
      BY <2>2, <3>1, <3>2, SettleOutcome
  <2>3. CASE n = m /\ Expire(m)
    BY <1>1, <2>3 DEF Expire, TypeOK
  <2>4. CASE n = m /\ (Publish(m) \/ Deliver(m) \/ SendEmail(m))
    BY <2>4 DEF Publish, Deliver, SendEmail, TypeOK
  <2> QED
    BY <1>2, <2>1, <2>2, <2>3, <2>4
<1> QED
  BY <1>2, Elsewhere

\* The e-mails of a message only add up, and only one subscriber's at a time.
LEMMA MailsGrow ==
  ASSUME TypeOK, NEW m \in Msg, SendEmail(m)
  PROVE  /\ hand[m].to \in Recipient(m)
         /\ \A k \in Recipient(m) : mails'[m][k] \in Nat /\ mails'[m][k] >= mails[m][k]
         /\ \A k \in Recipient(m) \ {hand[m].to} : mails'[m][k] = mails[m][k]
         /\ \A k \in Recipient(m) : mails'[m][k] <= mails[m][k] + 1
         /\ \/ hand'[m] = Settling("retry")
            \/ /\ mails'[m][hand[m].to] > 0
               /\ hand'[m] = IF hand[m].to = Size[m] THEN Settling("ack") ELSE Mailing(hand[m].to + 1)
<1>1. hand[m].to \in Recipient(m) /\ mails[m] \in [Recipient(m) -> Nat]
  BY DEF SendEmail, TypeOK
<1>2. mails' = mails \/ mails' = [mails EXCEPT ![m][hand[m].to] = @ + 1]
  BY DEF SendEmail
<1>3. \/ mails'[m] = mails[m]
      \/ mails'[m] = [mails[m] EXCEPT ![hand[m].to] = @ + 1]
  BY <1>2 DEF TypeOK
<1>4. \/ hand'[m] = Settling("retry")
      \/ /\ mails' = [mails EXCEPT ![m][hand[m].to] = @ + 1]
         /\ hand'[m] = IF hand[m].to = Size[m] THEN Settling("ack") ELSE Mailing(hand[m].to + 1)
  BY DEF SendEmail, Become, TypeOK
<1>5. mails' = [mails EXCEPT ![m][hand[m].to] = @ + 1] => mails'[m][hand[m].to] > 0
  BY <1>1 DEF TypeOK
<1> QED
  BY <1>1, <1>3, <1>4, <1>5

\* A subscriber is one of those the loop comes to.
LEMMA RecipientRange ==
  ASSUME NEW m \in Msg
  PROVE  /\ Size[m] \in Nat /\ \A k \in Recipient(m) : k \in Int /\ 1 <= k /\ k <= Size[m]
         /\ \A k \in Int : 1 <= k /\ k <= Size[m] => k \in Recipient(m)
BY ConsumerAssumption DEF Recipient

LEMMA MailedInOrderKept ==
  ASSUME TypeOK, HeldByQueue, MailedInOrder, [Next]_vars
  PROVE  MailedInOrder'
<1> DEFINE InOrder(h, sent, n) ==
      /\ h.pc = "mailing" => n \in Release /\ \A k \in 1 .. h.to - 1 : sent[k] > 0
      /\ h = Settling("ack") => n \in Release /\ \A k \in Recipient(n) : sent[k] > 0
      /\ h = Settling("reject") => n \notin Release
<1> SUFFICES ASSUME NEW n \in Msg PROVE InOrder(hand'[n], mails'[n], n)
  BY DEF MailedInOrder
<1>1. InOrder(hand[n], mails[n], n)
  BY DEF MailedInOrder
<1>2. \A sent : InOrder(Idle, sent, n)
  BY DEF Idle, Settling
<1>3. ASSUME NEW m \in Msg, Publish(m) \/ Deliver(m) \/ SendEmail(m) \/ Settle(m) \/ Expire(m)
      PROVE  InOrder(hand'[n], mails'[n], n)
  <2>1. CASE n # m
    BY <1>1, <1>3, <2>1, OthersKept
  <2>2. CASE n = m /\ (Publish(m) \/ Expire(m))
    <3>1. hand' = hand /\ mails' = mails
      BY <2>2 DEF Publish, Expire
    <3> QED
      BY <1>1, <3>1
  <2>3. CASE n = m /\ Settle(m)
    BY <1>2, <2>3, SettleOutcome
  <2>4. CASE n = m /\ Deliver(m)
    <3>1. hand'[n] = FirstStage(n)
      BY <2>4 DEF Deliver, Become, TypeOK
    <3>2. \/ FirstStage(n) = Settling("reject") /\ n \notin Release
          \/ FirstStage(n) = Settling("ack") /\ n \in Release /\ Recipient(n) = {}
          \/ FirstStage(n) = Mailing(1) /\ n \in Release
      BY RecipientRange DEF FirstStage, Recipient
    <3> QED
      BY <3>1, <3>2 DEF Settling, Mailing
  <2>5. CASE n = m /\ SendEmail(m)
    <3>1. /\ n \in Release /\ hand[n].to \in Recipient(n)
          /\ \A k \in 1 .. hand[n].to - 1 : mails[n][k] > 0
      BY <1>1, <2>5, MailsGrow DEF SendEmail
    <3>2. \A k \in 1 .. hand[n].to - 1 : mails'[n][k] > 0
      BY <2>5, <3>1, MailsGrow, RecipientRange
    <3>3. CASE hand'[n] = Settling("retry")
      BY <3>3 DEF Settling
    <3>4. CASE /\ mails'[n][hand[n].to] > 0
               /\ hand'[n] = IF hand[n].to = Size[n] THEN Settling("ack") ELSE Mailing(hand[n].to + 1)
      <4>1. \A k \in Int : 1 <= k /\ k <= hand[n].to => mails'[n][k] > 0
        BY <3>1, <3>2, <3>4, RecipientRange
      <4>2. CASE hand[n].to = Size[n]
        BY <3>1, <3>4, <4>1, <4>2, RecipientRange DEF Settling
      <4>3. CASE hand[n].to # Size[n]
        BY <3>1, <3>4, <4>1, <4>3, RecipientRange DEF Settling, Mailing
      <4> QED
        BY <4>2, <4>3
    <3> QED
      BY <2>5, <3>3, <3>4, MailsGrow
  <2> QED
    BY <1>3, <2>1, <2>2, <2>3, <2>4, <2>5
<1> QED
  BY <1>1, <1>2, <1>3, Elsewhere

LEMMA PaidKept ==
  ASSUME TypeOK, HeldByQueue, \A m \in Msg : \A k \in Recipient(m) : Paid(m, k), [Next]_vars
  PROVE  (\A m \in Msg : \A k \in Recipient(m) : Paid(m, k))'
<1> SUFFICES ASSUME NEW n \in Msg, NEW k \in Recipient(n) PROVE Paid(n, k)'
  BY DEF Recipient
<1>1. /\ mails[n][k] \in Nat /\ attempt[n] \in Nat /\ faults \in Nat /\ k \in Int
      /\ mails'[n][k] \in Nat /\ attempt'[n] \in Nat /\ faults' \in Nat
      /\ faults' >= faults /\ (online /\ ~online' => faults' = faults + 1)
  BY TypeStep, FaultsGrow, RecipientRange DEF TypeOK
<1>2. Paid(n, k)
  OBVIOUS
<1>3. hand[n] # Idle => place[n] = "queue"
  BY DEF HeldByQueue
<1>4. ASSUME NEW m \in Msg, Publish(m) \/ Deliver(m) \/ SendEmail(m) \/ Settle(m) \/ Expire(m)
      PROVE  Paid(n, k)'
  <2>1. online' => online
    BY <1>4, Zenon DEF Publish, Deliver, SendEmail, Settle, Expire
  <2>2. CASE n # m
    BY <1>1, <1>2, <1>4, <2>1, <2>2, OthersKept DEF Paid, Owed, Visited
  <2>3. CASE n = m /\ Publish(m)
    BY <1>1, <1>2, <1>3, <2>3 DEF Publish, Paid, Owed, Visited, TypeOK, Idle
  <2>4. CASE n = m /\ Deliver(m)
    <3>1. mails'[n][k] <= attempt[n] + faults
      BY <1>1, <1>2, <2>4 DEF Deliver, Paid, Owed, Visited, Idle
    <3>2. ~Owed(n)' /\ attempt' = attempt /\ faults' = faults
      BY <2>4 DEF Deliver, Owed
    <3> QED
      BY <1>1, <3>1, <3>2 DEF Paid
  <2>5. CASE n = m /\ SendEmail(m)
    <3>1. /\ attempt' = attempt /\ faults' = faults /\ online' = online /\ place' = place
          /\ hand[n].pc = "mailing" /\ hand[n] # Idle /\ hand[n].to \in Int
      BY <2>5, MailsGrow, RecipientRange DEF SendEmail, Idle
    <3>2. \/ hand'[n].pc = "settling"
          \/ hand'[n].pc = "mailing" /\ hand'[n].to = hand[n].to + 1
      <4>1. \/ hand'[n] = Settling("retry") \/ hand'[n] = Settling("ack")
            \/ hand'[n] = Mailing(hand[n].to + 1)
        BY <2>5, MailsGrow
      <4> QED
        BY <4>1 DEF Settling, Mailing
    <3>3. Owed(n)' => Owed(n)
      BY <3>1 DEF Owed
    <3>4. Visited(n, k) => Visited(n, k)'
      BY <1>1, <3>1, <3>2 DEF Visited
    <3>5. CASE k = hand[n].to
      <4>1. ~Visited(n, k)
        BY <1>1, <1>3, <3>1, <3>5 DEF Visited
      <4>2. Visited(n, k)'
        BY <1>1, <3>1, <3>2, <3>5 DEF Visited
      <4>3. mails'[n][k] <= mails[n][k] + 1
        BY <2>5, MailsGrow
      <4> QED
        BY <1>1, <1>2, <3>1, <3>3, <4>1, <4>2, <4>3 DEF Paid
    <3>6. CASE k # hand[n].to
      <4>1. mails'[n][k] = mails[n][k]
        BY <2>5, <3>6, MailsGrow
      <4> QED
        BY <1>1, <1>2, <3>1, <3>3, <3>4, <4>1 DEF Paid
    <3> QED
      BY <3>5, <3>6
  <2>6. CASE n = m /\ Settle(m)
    <3>1. ~Owed(n) /\ ~Owed(n)' /\ mails' = mails /\ attempt' = attempt
      BY <2>6, SettleOutcome DEF Settle, Owed
    <3>2. mails[n][k] <= attempt[n] + faults + 1
      BY <1>1, <1>2, <3>1 DEF Paid
    <3>3. CASE place' = place
      <4>1. place[n] = "queue"
        BY <1>3, <2>6 DEF Settle, Idle
      <4>2. place' # [place EXCEPT ![m] = IF Outcome(m) = "retry" THEN "retry" ELSE "settled"]
        BY <2>6, <3>3, <4>1 DEF TypeOK
      <4>3. Fault
        BY <2>6, <4>2, Zenon DEF Settle
      <4> QED
        BY <1>1, <3>1, <3>2, <4>3 DEF Paid, Fault
    <3>4. CASE place'[n] \in {"retry", "settled"}
      BY <1>1, <3>1, <3>2, <3>4 DEF Paid, Visited
    <3> QED
      BY <2>6, <3>3, <3>4, SettleOutcome
  <2>7. CASE n = m /\ Expire(m)
    <3>1. hand[n] = Idle /\ hand' = hand /\ mails' = mails /\ faults' = faults
      BY <1>3, <2>7 DEF Expire
    <3>2. mails[n][k] <= attempt[n] + faults + 1
      BY <1>1, <1>2, <3>1 DEF Paid, Owed
    <3>3. \/ place'[n] = "queue" /\ attempt'[n] = attempt[n] + 1
          \/ place'[n] = "dropped" /\ attempt'[n] = attempt[n]
      BY <2>7 DEF Expire, TypeOK
    <3> QED
      BY <1>1, <3>1, <3>2, <3>3 DEF Paid, Owed, Visited
  <2> QED
    BY <1>4, <2>2, <2>3, <2>4, <2>5, <2>6, <2>7
<1>5. ASSUME Restart, faults' = faults + 1 \/ ~online PROVE Paid(n, k)'
  <2>1. hand'[n] = Idle /\ place' = place /\ attempt' = attempt /\ mails' = mails
    BY <1>5 DEF Restart
  <2>2. ~Owed(n)'
    BY <2>1 DEF Owed
  <2>3. CASE place[n] = "queue"
    BY <1>1, <1>2, <1>5, <2>1, <2>2, <2>3 DEF Paid, Owed, Visited, Idle
  <2>4. CASE place[n] # "queue"
    BY <1>1, <1>2, <1>3, <2>1, <2>2, <2>4 DEF Paid, Owed, Visited, Idle
  <2> QED
    BY <2>3, <2>4
<1>6. CASE Disconnect
  <2>1. faults' = faults + 1 /\ hand' = hand /\ place' = place /\ attempt' = attempt /\ mails' = mails
    BY <1>6 DEF Disconnect, Fault
  <2>2. Visited(n, k)' <=> Visited(n, k)
    BY <2>1 DEF Visited
  <2>3. ~Owed(n)
    BY <1>6 DEF Disconnect, Owed
  <2> QED
    BY <1>1, <1>2, <2>1, <2>2, <2>3 DEF Paid
<1>7. CASE Crash
  BY <1>5, <1>7 DEF Crash, Fault
<1>8. CASE UnhandledRejection
  BY <1>5, <1>8 DEF UnhandledRejection
<1>9. CASE UNCHANGED vars
  BY <1>2, <1>9 DEF vars, Paid, Owed, Visited
<1> QED
  BY <1>4, <1>6, <1>7, <1>8, <1>9 DEF Next

LEMMA HandledKept ==
  ASSUME TypeOK, HeldByQueue, MailedInOrder, HandledOrParked, [Next]_vars
  PROVE  HandledOrParked'
<1> DEFINE Handled(n, sent, copies) == copies > 0 \/ (n \in Release /\ \A k \in Recipient(n) : sent[k] > 0)
<1> SUFFICES ASSUME NEW n \in Msg, place'[n] = "settled" PROVE Handled(n, mails'[n], parked'[n])
  BY DEF HandledOrParked
<1>1. place[n] = "settled" => Handled(n, mails[n], parked[n])
  BY DEF HandledOrParked
<1>2. ASSUME NEW m \in Msg, Publish(m) \/ Deliver(m) \/ SendEmail(m) \/ Settle(m) \/ Expire(m)
      PROVE  Handled(n, mails'[n], parked'[n])
  <2>1. CASE n # m
    BY <1>1, <1>2, <2>1, OthersKept
  <2>2. CASE n = m /\ (Publish(m) \/ Deliver(m) \/ SendEmail(m) \/ Expire(m))
    BY <2>2 DEF HeldByQueue, Publish, Deliver, SendEmail, Expire, TypeOK, Idle
  <2>3. CASE n = m /\ Settle(m)
    <3>1. place[n] = "queue" /\ mails' = mails
      BY <2>3 DEF Settle, HeldByQueue, Idle
    <3>2. CASE Outcome(m) = "ack"
      <4>1. hand[m] = Settling("ack")
        BY <2>3, <3>2, SettleOutcome DEF Outcome
      <4> QED
        BY <2>3, <3>1, <4>1 DEF MailedInOrder
    <3>3. CASE Outcome(m) = "park" /\ Park(m)
      BY <2>3, <3>3 DEF Park, TypeOK
    <3> QED
      BY <2>3, <3>1, <3>2, <3>3, SettleOutcome
  <2> QED
    BY <1>2, <2>1, <2>2, <2>3
<1> QED
  BY <1>1, <1>2, Elsewhere

LEMMA ParkedKept ==
  ASSUME TypeOK, MailedInOrder, ParkedWhenExhausted, [Next]_vars
  PROVE  ParkedWhenExhausted'
<1> SUFFICES ASSUME NEW n \in Release, parked'[n] > 0 PROVE attempt'[n] + 1 >= MaxAttempts
  BY DEF ParkedWhenExhausted
<1>1. n \in Msg /\ MaxAttempts \in Nat /\ attempt \in [Msg -> Nat]
  BY ConsumerAssumption DEF TypeOK
<1>2. parked[n] > 0 => attempt[n] + 1 >= MaxAttempts
  BY DEF ParkedWhenExhausted
<1>3. ASSUME NEW m \in Msg, Publish(m) \/ Deliver(m) \/ SendEmail(m) \/ Settle(m) \/ Expire(m)
      PROVE  attempt'[n] + 1 >= MaxAttempts
  <2>1. CASE n # m
    BY <1>1, <1>2, <1>3, <2>1, OthersKept
  <2>2. CASE n = m /\ (Publish(m) \/ Deliver(m) \/ SendEmail(m))
    BY <1>2, <2>2 DEF Publish, Deliver, SendEmail
  <2>3. CASE n = m /\ Expire(m)
    <3>1. parked' = parked /\ (attempt' = attempt \/ attempt'[n] = attempt[n] + 1)
      BY <1>1, <2>3 DEF Expire
    <3> QED
      BY <1>1, <1>2, <3>1
  <2>4. CASE n = m /\ Settle(m)
    <3>1. attempt' = attempt
      BY <2>4 DEF Settle
    <3>2. CASE Outcome(m) = "park"
      <4>1. hand[m].result # "reject"
        BY <1>1, <2>4, SettleOutcome DEF MailedInOrder
      <4> QED
        BY <1>1, <2>4, <3>1, <3>2, <4>1, SettleOutcome DEF Outcome
    <3>3. CASE parked' = parked
      BY <1>2, <3>1, <3>3
    <3> QED
      BY <2>4, <3>2, <3>3, SettleOutcome
  <2> QED
    BY <1>3, <2>1, <2>2, <2>3, <2>4
<1> QED
  BY <1>2, <1>3, Elsewhere

\* The queues, the callbacks and the e-mails agree: the strengthening of the three
\* safety properties is inductive.
THEOREM ConsumerInvariantCorrect == Spec => []ConsumerInvariant
<1>1. Init => ConsumerInvariant
  BY ConsumerAssumption DEF Init, ConsumerInvariant, HeldByQueue, MailedInOrder, AttemptsAreBounded,
     Paid, Owed, Visited, HandledOrParked, ParkedWhenExhausted, Idle, Settling
<1>2. TypeOK /\ ConsumerInvariant /\ [Next]_vars => ConsumerInvariant'
  BY HeldByQueueKept, MailedInOrderKept, AttemptsKept, PaidKept, HandledKept, ParkedKept
     DEF ConsumerInvariant
<1> QED
  BY <1>1, <1>2, TypeCorrect, PTL DEF Spec

\* A message that has left the main queue for good was mailed to each of its
\* subscribers or is parked.
THEOREM HandledCorrect == Spec => []HandledOrParked
<1>1. ConsumerInvariant => HandledOrParked
  BY DEF ConsumerInvariant
<1> QED
  BY <1>1, ConsumerInvariantCorrect, PTL

\* A release is parked only after the documented number of failed deliveries.
THEOREM ParkedCorrect == Spec => []ParkedWhenExhausted
<1>1. ConsumerInvariant => ParkedWhenExhausted
  BY DEF ConsumerInvariant
<1> QED
  BY <1>1, ConsumerInvariantCorrect, PTL

\* Nobody is mailed more often than the attempts and the faults account for.
THEOREM EmailsCorrect == Spec => []EmailsAreBounded
<1>1. TypeOK /\ ConsumerInvariant => EmailsAreBounded
  <2> SUFFICES ASSUME TypeOK, ConsumerInvariant, NEW m \in Msg, NEW k \in Recipient(m)
               PROVE  mails[m][k] <= MaxAttempts + 1 + faults
    BY DEF EmailsAreBounded
  <2>1. Paid(m, k) /\ attempt[m] <= MaxAttempts
    BY DEF ConsumerInvariant, AttemptsAreBounded
  <2>2. mails[m][k] \in Nat /\ attempt[m] \in Nat /\ faults \in Nat /\ MaxAttempts \in Nat
    BY ConsumerAssumption DEF TypeOK
  <2> QED
    BY <2>1, <2>2 DEF Paid
<1> QED
  BY <1>1, TypeCorrect, ConsumerInvariantCorrect, PTL
=============================================================================
