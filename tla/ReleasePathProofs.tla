------------------------- MODULE ReleasePathProofs --------------------------
(* Proofs about ReleasePath. Every run of the path is one of the scan and   *)
(* one of the notification service, so that what is proved of each holds of *)
(* it; the rest is what happens to a message between the two.               *)
EXTENDS ReleasePath, ReleaseAccountProofs

MailP == INSTANCE ReleaseConsumerProofs WITH
  Msg <- Announcement, Release <- Announcement, Size <- Addressees,
  faults <- mailFaults, MaxFaults <- MaxMailFaults

-----------------------------------------------------------------------------
(* The parts *)

LEMMA MessageType ==
  ASSUME NEW m \in Announcement
  PROVE  /\ m.id \in Repo /\ m.tag \in Tag /\ m.tag \in Nat /\ m.tag # 0 /\ m.copy \in 1 .. MaxFaults + 1
         /\ m.copy \in Nat
         /\ Len(m.to) \in Nat /\ DOMAIN m.to = 1 .. Len(m.to)
         /\ \A k \in DOMAIN m.to : m.to[k] \in Sub
         /\ \A i, k \in DOMAIN m.to : m.to[i] = m.to[k] => i = k
<1>1. m.id \in Repo /\ m.tag \in 1 .. MaxTag /\ m.to \in Listing /\ m.copy \in 1 .. MaxFaults + 1
  BY DEF Announcement
<1>2. PICK n \in 0 .. Cardinality(Sub) : m.to \in [1 .. n -> Sub]
  BY <1>1 DEF Listing
<1>3. n \in Nat
  OBVIOUS
<1>4. m.to \in Seq(Sub) /\ Len(m.to) = n /\ DOMAIN m.to = 1 .. n
  BY <1>2, <1>3
<1>5. \A i, k \in DOMAIN m.to : m.to[i] = m.to[k] => i = k
  BY <1>1 DEF Listing
<1>6. m.copy \in Nat /\ m.tag \in Nat /\ m.tag \in Tag /\ m.tag # 0
  BY <1>1, GatewayAssumption DEF Tag
<1> QED BY <1>1, <1>2, <1>3, <1>4, <1>5, <1>6

\* The consumer's assumption holds of the messages of the scan.
LEMMA ConsumerParameters == MailP!ConsumerAssumption
<1>1. Addressees \in [Announcement -> Nat]
  BY MessageType DEF Addressees
<1> QED BY <1>1, PathAssumption DEF MailP!ConsumerAssumption

LEMMA SameConsumer ==
  /\ Mail!Init <=> MailP!Init
  /\ \A m \in Announcement : Mail!Recipient(m) = DOMAIN m.to /\ MailP!Recipient(m) = DOMAIN m.to
<1>1. \A m \in Announcement : Mail!Recipient(m) = DOMAIN m.to /\ MailP!Recipient(m) = DOMAIN m.to
  BY MessageType DEF Mail!Recipient, MailP!Recipient, Addressees
<1>2. [m \in Announcement |-> [k \in Mail!Recipient(m) |-> 0]] =
        [m \in Announcement |-> [k \in MailP!Recipient(m) |-> 0]]
  BY <1>1
<1>3. Mail!Idle = MailP!Idle
  BY DEF Mail!Idle, MailP!Idle
<1>4. Mail!Init <=> MailP!Init
  BY <1>2, <1>3 DEF Mail!Init, MailP!Init
<1> QED BY <1>1, <1>4

LEMMA SameActions ==
  ASSUME NEW m \in Announcement
  PROVE  /\ Mail!Publish(m) <=> MailP!Publish(m)
         /\ Mail!Deliver(m) <=> MailP!Deliver(m)
         /\ Mail!SendEmail(m) <=> MailP!SendEmail(m)
         /\ Mail!Settle(m) <=> MailP!Settle(m)
         /\ Mail!Expire(m) <=> MailP!Expire(m)
<1>1. Mail!Publish(m) <=> MailP!Publish(m)
  BY DEF Mail!Publish, MailP!Publish
<1>2. Mail!Deliver(m) <=> MailP!Deliver(m)
  <2>1. Mail!Idle = MailP!Idle /\ Mail!InHand = MailP!InHand
    BY DEF Mail!InHand, MailP!InHand, Mail!Idle, MailP!Idle
  <2>2. Mail!FirstStage(m) = MailP!FirstStage(m)
    BY DEF Mail!FirstStage, MailP!FirstStage, Mail!Settling, MailP!Settling, Mail!Mailing, MailP!Mailing
  <2>3. \A S : Mail!Cardinality(S) = MailP!Cardinality(S)
    BY DEF Mail!Cardinality, MailP!Cardinality
  <2> QED BY <2>1, <2>2, <2>3 DEF Mail!Deliver, MailP!Deliver, Mail!Become, MailP!Become
<1>3. Mail!SendEmail(m) <=> MailP!SendEmail(m)
  BY DEF Mail!SendEmail, MailP!SendEmail, Mail!Become, MailP!Become,
         Mail!Settling, MailP!Settling, Mail!Mailing, MailP!Mailing
<1>4. Mail!Settle(m) <=> MailP!Settle(m)
  BY DEF Mail!Settle, MailP!Settle, Mail!Become, MailP!Become, Mail!Outcome, MailP!Outcome,
         Mail!Park, MailP!Park, Mail!Fault, MailP!Fault, Mail!Idle, MailP!Idle
<1>5. Mail!Expire(m) <=> MailP!Expire(m)
  BY DEF Mail!Expire, MailP!Expire
<1> QED BY <1>1, <1>2, <1>3, <1>4, <1>5

LEMMA SameFailures ==
  /\ Mail!Disconnect <=> MailP!Disconnect
  /\ Mail!Crash <=> MailP!Crash
  /\ Mail!UnhandledRejection <=> MailP!UnhandledRejection
BY DEF Mail!Disconnect, MailP!Disconnect, Mail!Crash, MailP!Crash, Mail!UnhandledRejection,
       MailP!UnhandledRejection, Mail!Restart, MailP!Restart, Mail!Fault, MailP!Fault,
       Mail!Idle, MailP!Idle

LEMMA PathSteps ==
  ASSUME [PathNext]_pathVars
  PROVE  /\ [Next]_vars /\ [Mail!Next]_(Mail!vars) /\ [MailP!Next]_(MailP!vars)
<1>1. CASE Next /\ Exchange
  <2>1. CASE UNCHANGED mailVars
    BY <1>1, <2>1 DEF mailVars, Mail!vars, MailP!vars
  <2>2. ASSUME NEW m \in Announcement, Mail!Publish(m) PROVE Mail!Next /\ MailP!Next
    BY <2>2, SameActions DEF Mail!Next, MailP!Next
  <2> QED BY <1>1, <2>1, <2>2 DEF Exchange
<1>2. CASE UNCHANGED vars
  <2>1. ASSUME NEW m \in Announcement, Handle(m) PROVE Mail!Next /\ MailP!Next
    BY <2>1, SameActions DEF Mail!Next, MailP!Next, Handle
  <2>2. Mail!Disconnect \/ Mail!Crash \/ Mail!UnhandledRejection => Mail!Next /\ MailP!Next
    BY SameFailures DEF Mail!Next, MailP!Next
  <2>3. CASE Next /\ Exchange
    BY <1>1, <2>3
  <2>4. CASE UNCHANGED mailVars
    BY <1>2, <2>4 DEF mailVars, Mail!vars, MailP!vars
  <2> QED BY <1>2, <2>1, <2>2, <2>3, <2>4 DEF PathNext, pathVars
<1> QED BY <1>1, <1>2 DEF PathNext, pathVars

\* Every run of the path is one of the scan with its gateway and one of the
\* notification service: composing the two takes nothing away that is proved of
\* either, the promise of the scan and the bounds of the consumer included.
THEOREM PartsCorrect == PathSpec => Spec /\ Mail!Spec
<1>1. PathInit => Init /\ Mail!Init
  BY DEF PathInit
<1>2. [PathNext]_pathVars => [Next]_vars /\ [Mail!Next]_(Mail!vars)
  BY PathSteps
<1> QED BY <1>1, <1>2, PTL DEF PathSpec, Spec, Mail!Spec

LEMMA ConsumerOfPath == PathSpec => MailP!Spec
<1>1. PathInit => MailP!Init
  BY SameConsumer DEF PathInit
<1>2. [PathNext]_pathVars => [MailP!Next]_(MailP!vars)
  BY PathSteps
<1> QED BY <1>1, <1>2, PTL DEF PathSpec, MailP!Spec

\* What the two have proved, in the terms of the path.
PartsInvariant ==
  /\ TypeOK /\ ScanInvariant /\ Accounts /\ AnnouncedOnce
  /\ Mail!TypeOK /\ Mail!HeldByQueue /\ Mail!HandledOrParked /\ Mail!EmailsAreBounded

LEMMA SameInvariants ==
  /\ MailP!TypeOK => Mail!TypeOK
  /\ MailP!HeldByQueue => Mail!HeldByQueue
  /\ MailP!HandledOrParked => Mail!HandledOrParked
  /\ MailP!EmailsAreBounded => Mail!EmailsAreBounded
<1>1. MailP!TypeOK => Mail!TypeOK
  BY SameConsumer DEF MailP!TypeOK, Mail!TypeOK, MailP!HandState, Mail!HandState, MailP!Idle, Mail!Idle
<1>2. MailP!HeldByQueue => Mail!HeldByQueue
  BY DEF MailP!HeldByQueue, Mail!HeldByQueue, MailP!Idle, Mail!Idle
<1>3. MailP!HandledOrParked => Mail!HandledOrParked
  BY SameConsumer DEF MailP!HandledOrParked, Mail!HandledOrParked
<1>4. MailP!EmailsAreBounded => Mail!EmailsAreBounded
  BY SameConsumer DEF MailP!EmailsAreBounded, Mail!EmailsAreBounded
<1> QED BY <1>1, <1>2, <1>3, <1>4

LEMMA PartsInvariantCorrect == PathSpec => []PartsInvariant
<1>1. MailP!Spec => []MailP!TypeOK
  BY MailP!TypeCorrect, ConsumerParameters DEF MailP!TypeCorrect
<1>2. MailP!Spec => []MailP!ConsumerInvariant
  BY MailP!ConsumerInvariantCorrect, ConsumerParameters DEF MailP!ConsumerInvariantCorrect
<1>3. MailP!Spec => []MailP!EmailsAreBounded
  BY MailP!EmailsCorrect, ConsumerParameters DEF MailP!EmailsCorrect
<1>4. MailP!ConsumerInvariant => MailP!HeldByQueue /\ MailP!HandledOrParked
  BY DEF MailP!ConsumerInvariant
<1>5. TypeOK /\ ScanInvariant /\ Accounts /\ AnnouncedOnce /\ MailP!TypeOK /\ MailP!ConsumerInvariant
        /\ MailP!EmailsAreBounded => PartsInvariant
  BY <1>4, SameInvariants DEF PartsInvariant
<1> QED BY <1>1, <1>2, <1>3, <1>5, PartsCorrect, ConsumerOfPath, TypeCorrect, ScanInvariantCorrect,
           AccountsCorrect, AnnouncedOnceCorrect, PTL

\* The state of the scan, the gateway and the notification service stays well-typed
\* when the messages of the one are those of the other.
THEOREM PathTypeCorrect == PathSpec => []PathTypeOK
<1>1. PartsInvariant => PathTypeOK
  BY DEF PartsInvariant, PathTypeOK
<1> QED BY <1>1, PartsInvariantCorrect, PTL

-----------------------------------------------------------------------------
(* What a step does to the messages *)

Messages == [Announcement -> {"unpublished", "queue", "retry", "settled", "dropped"}]

LEMMA HandlingKeeps ==
  ASSUME Mail!TypeOK, Mail!HeldByQueue, NEW m \in Announcement, Handle(m), NEW n \in Announcement
  PROVE  /\ Published(n)' <=> Published(n)
         /\ ~Published(n) => mails'[n] = mails[n]
<1>1. place \in Messages /\ DOMAIN mails = Announcement
  BY DEF Mail!TypeOK, Messages
<1>2. hand[m].pc \in {"mailing", "settling"} => place[m] = "queue"
  BY DEF Mail!HeldByQueue, Mail!Idle
<1>3. CASE Mail!Deliver(m)
  BY <1>3 DEF Mail!Deliver, Published
<1>4. CASE Mail!SendEmail(m)
  <2>1. place' = place /\ (n # m => mails'[n] = mails[n])
    BY <1>1, <1>4 DEF Mail!SendEmail
  <2> QED BY <1>2, <1>4, <2>1 DEF Mail!SendEmail, Published
<1>5. CASE Mail!Settle(m)
  <2>1. mails' = mails /\ place[m] = "queue"
    BY <1>2, <1>5 DEF Mail!Settle
  <2>2. place' = place \/ \E q \in {"retry", "settled"} : place' = [place EXCEPT ![m] = q]
    BY <1>5 DEF Mail!Settle
  <2> QED BY <1>1, <2>1, <2>2 DEF Published, Messages
<1>6. CASE Mail!Expire(m)
  <2>1. mails' = mails /\ place[m] = "retry"
    BY <1>6 DEF Mail!Expire
  <2>2. \E q \in {"queue", "dropped"} : place' = [place EXCEPT ![m] = q]
    BY <1>6 DEF Mail!Expire
  <2> QED BY <1>1, <2>1, <2>2 DEF Published, Messages
<1> QED BY <1>3, <1>4, <1>5, <1>6 DEF Handle

\* A step of the scan either tells nobody anything or brings the broker the
\* message of its one job.
LEMMA TellStep ==
  ASSUME TypeOK, ScanInvariant, Next, Exchange
  PROVE  \/ UNCHANGED <<told, announced>> /\ UNCHANGED mailVars
         \/ \E j \in Job, m \in Announcement :
              /\ scan[j].pc = "notifying" /\ Carries(m, j) /\ Mail!Publish(m)
              /\ Publish(j) /\ UNCHANGED lost
              /\ announced' = [announced EXCEPT ![<<m.id, m.tag>>] = @ + 1]
              /\ told' = [s \in Sub |-> IF s \in scan[j].to THEN told[s] \cup {scan[j].tag} ELSE told[s]]
<1>1. (\E j \in Job : Publish(j)) \/ UNCHANGED <<told, announced>>
  BY DEF Next, Environment, Confirm, Unsubscribe, StartScan, ScanStep, GetLatestRelease, Receive,
         Skip, FindSubscribers, Drain, ChannelDies, UpdateLastSeenTag, MonolithCrash, history
<1>2. ASSUME NEW j \in Job, Publish(j)
      PROVE  /\ scan[j].pc = "notifying" /\ scan[j] # Idle
             /\ \/ UNCHANGED <<told, announced>>
                \/ /\ UNCHANGED lost
                   /\ announced' = [announced EXCEPT ![<<scan[j].id, scan[j].tag>>] = @ + 1]
                   /\ told' = [s \in Sub |-> IF s \in scan[j].to THEN told[s] \cup {scan[j].tag} ELSE told[s]]
  BY <1>2 DEF Publish, Idle
<1>3. ASSUME NEW i \in Repo \X Tag, announced' = [announced EXCEPT ![i] = @ + 1] PROVE announced' # announced
  <2>1. announced[i] \in Nat /\ announced'[i] = announced[i] + 1
    BY <1>3 DEF TypeOK
  <2> QED BY <2>1
<1>4. CASE announced' = announced /\ UNCHANGED mailVars
  <2>1. ASSUME NEW j \in Job, Publish(j) PROVE UNCHANGED told
    <3>1. <<scan[j].id, scan[j].tag>> \in Repo \X Tag
      BY <1>2, <2>1, ScanShape DEF TypeOK
    <3> QED BY <1>2, <1>3, <1>4, <2>1, <3>1
  <2> QED BY <1>1, <1>4, <2>1
<1>5. ASSUME NEW j \in Job, NEW m \in Announcement, scan[j].pc = "notifying", Carries(m, j),
             announced' = [announced EXCEPT ![<<m.id, m.tag>>] = @ + 1], Mail!Publish(m)
      PROVE  /\ told' = [s \in Sub |-> IF s \in scan[j].to THEN told[s] \cup {scan[j].tag} ELSE told[s]]
             /\ Publish(j) /\ UNCHANGED lost
  <2>1. announced' # announced
    <3>1. <<m.id, m.tag>> \in Repo \X Tag
      BY MessageType
    <3> QED BY <1>3, <1>5, <3>1
  <2>2. PICK k \in Job : Publish(k)
    BY <1>1, <2>1
  <2>3. scan[j] # Idle
    BY <1>5 DEF Idle
  <2>4. scan[k] # Idle
    BY <1>2, <2>2
  <2>5. k = j
    BY <2>3, <2>4 DEF ScanInvariant, OneScan
  <2> QED BY <1>2, <2>1, <2>2, <2>5
<1> QED BY <1>4, <1>5 DEF Exchange

\* Who has come does not become unknown, and GitHub keeps its releases.
LEMMA PeopleStay ==
  ASSUME TypeOK, [Next]_vars
  PROVE  /\ confirmed \cup gone \subseteq confirmed' \cup gone'
         /\ \A r \in Repo, t \in Tag : t <= latest[r] => t <= latest'[r]
<1>1. UNCHANGED people \/ \E s \in Sub : Confirm(s) \/ Unsubscribe(s)
  BY DEF Next, Environment, StartScan, ScanStep, GetLatestRelease, Receive,
         Skip, FindSubscribers, Publish, Drain, ChannelDies, UpdateLastSeenTag, MonolithCrash, vars, people
<1>2. confirmed \cup gone \subseteq confirmed' \cup gone'
  BY <1>1 DEF people, Confirm, Unsubscribe
<1>3. \A r \in Repo, t \in Tag : t <= latest[r] => t <= latest'[r]
  BY Forward DEF Tag
<1> QED BY <1>2, <1>3

\* The message a job hands over is new to the broker and is about a release that
\* there is; after the step the broker has it.
LEMMA PublishStep ==
  ASSUME PartsInvariant, NEW j \in Job, NEW m \in Announcement, scan[j].pc = "notifying", Carries(m, j),
         Mail!Publish(m)
  PROVE  /\ ~Published(m) /\ mails' = mails
         /\ \A n \in Announcement : Published(n)' <=> n = m \/ Published(n)
         /\ m.tag <= latest[m.id]
         /\ \A k \in DOMAIN m.to : m.to[k] \in confirmed \cup gone /\ RepoOf[m.to[k]] = m.id
<1>1. place \in Messages
  BY DEF PartsInvariant, Mail!TypeOK, Messages
<1>2. /\ ~Published(m) /\ mails' = mails
      /\ \A n \in Announcement : Published(n)' <=> n = m \/ Published(n)
  BY <1>1 DEF Mail!Publish, Published, Messages
<1>3. m.tag <= latest[m.id]
  BY DEF PartsInvariant, ScanInvariant, Released, Carries
<1>4. \A k \in DOMAIN m.to : m.to[k] \in scan[j].to
  BY DEF Carries
<1>5. scan[j].to \subseteq {s \in confirmed \cup gone : RepoOf[s] = scan[j].id}
  BY DEF PartsInvariant, ScanInvariant, Addressed
<1> QED BY <1>2, <1>3, <1>4, <1>5 DEF Carries

-----------------------------------------------------------------------------
(* Between the two *)

LEMMA Elsewise ==
  ASSUME PartsInvariant, [PathNext]_pathVars
  PROVE  \/ /\ UNCHANGED <<told, announced>>
            /\ \A n \in Announcement : Published(n)' <=> Published(n)
            /\ \A n \in Announcement : ~Published(n) => mails'[n] = mails[n]
         \/ \E j \in Job, m \in Announcement :
              /\ scan[j].pc = "notifying" /\ Carries(m, j) /\ Mail!Publish(m)
              /\ Publish(j) /\ UNCHANGED lost
              /\ announced' = [announced EXCEPT ![<<m.id, m.tag>>] = @ + 1]
              /\ told' = [s \in Sub |-> IF s \in scan[j].to THEN told[s] \cup {scan[j].tag} ELSE told[s]]
<1>1. CASE Next /\ Exchange
  BY <1>1, TellStep DEF PartsInvariant, mailVars, Published
<1>2. CASE UNCHANGED vars
  <2>1. UNCHANGED <<told, announced>>
    BY <1>2 DEF vars
  <2>2. CASE Next /\ Exchange
    BY <1>1, <2>2
  <2>3. ASSUME NEW m \in Announcement, Handle(m)
        PROVE  /\ \A n \in Announcement : Published(n)' <=> Published(n)
               /\ \A n \in Announcement : ~Published(n) => mails'[n] = mails[n]
    BY <2>3, HandlingKeeps DEF PartsInvariant
  <2>4. Mail!Disconnect \/ Mail!Crash \/ Mail!UnhandledRejection => UNCHANGED <<place, mails>>
    BY DEF Mail!Disconnect, Mail!Crash, Mail!UnhandledRejection, Mail!Restart
  <2>5. UNCHANGED mailVars => UNCHANGED <<place, mails>>
    BY DEF mailVars
  <2>6. UNCHANGED <<place, mails>> =>
          /\ \A n \in Announcement : Published(n)' <=> Published(n)
          /\ \A n \in Announcement : ~Published(n) => mails'[n] = mails[n]
    BY DEF Published
  <2> QED BY <1>2, <2>1, <2>2, <2>3, <2>4, <2>5, <2>6 DEF PathNext, pathVars
<1> QED BY <1>1, <1>2 DEF PathNext, pathVars

LEMMA DeliveredKept ==
  ASSUME PartsInvariant, LinkInvariant, [PathNext]_pathVars
  PROVE  Delivered'
<1> SUFFICES ASSUME NEW s \in Sub, NEW t, t \in told'[s]
             PROVE  \E n \in Announcement : About(n, s, t) /\ Published(n)'
  BY DEF Delivered, About
<1>1. ASSUME t \in told[s] PROVE \E n \in Announcement : About(n, s, t) /\ Published(n)
  BY <1>1 DEF LinkInvariant, Delivered
<1>2. ASSUME NEW j \in Job, NEW m \in Announcement, scan[j].pc = "notifying", Carries(m, j), Mail!Publish(m),
             told' = [q \in Sub |-> IF q \in scan[j].to THEN told[q] \cup {scan[j].tag} ELSE told[q]]
      PROVE  \E n \in Announcement : About(n, s, t) /\ Published(n)'
  <2>1. \A n \in Announcement : Published(n)' <=> n = m \/ Published(n)
    BY <1>2, PublishStep
  <2>2. CASE t \in told[s]
    BY <1>1, <2>1, <2>2
  <2>3. CASE s \in scan[j].to /\ t = scan[j].tag
    <3>1. About(m, s, t)
      BY <1>2, <2>3, PublishStep DEF Carries, About
    <3> QED BY <2>1, <3>1
  <2> QED BY <1>2, <2>2, <2>3
<1> QED BY <1>1, <1>2, Elsewise

LEMMA NumberedKept ==
  ASSUME PartsInvariant, LinkInvariant, [PathNext]_pathVars
  PROVE  Numbered'
<1> SUFFICES ASSUME NEW a \in Announcement, Published(a)'
             PROVE  /\ a.copy <= announced'[<<a.id, a.tag>>]
                    /\ \A b \in Announcement :
                         Published(b)' /\ a.id = b.id /\ a.tag = b.tag /\ a.copy = b.copy => a = b
  BY DEF Numbered
<1>1. \A b \in Announcement : announced[<<b.id, b.tag>>] \in Nat /\ b.copy \in Nat
  BY MessageType DEF PartsInvariant, TypeOK
<1>2. \A b, c \in Announcement :
        /\ Published(b) => b.copy <= announced[<<b.id, b.tag>>]
        /\ Published(b) /\ Published(c) /\ b.id = c.id /\ b.tag = c.tag /\ b.copy = c.copy => b = c
  BY DEF LinkInvariant, Numbered
<1>3. CASE UNCHANGED announced /\ \A n \in Announcement : Published(n)' <=> Published(n)
  BY <1>2, <1>3
<1>4. ASSUME NEW j \in Job, NEW m \in Announcement, scan[j].pc = "notifying", Carries(m, j), Mail!Publish(m),
             announced' = [announced EXCEPT ![<<m.id, m.tag>>] = @ + 1]
      PROVE  /\ a.copy <= announced'[<<a.id, a.tag>>]
             /\ \A b \in Announcement :
                  Published(b)' /\ a.id = b.id /\ a.tag = b.tag /\ a.copy = b.copy => a = b
  <2>1. \A n \in Announcement : Published(n)' <=> n = m \/ Published(n)
    BY <1>4, PublishStep
  <2>2. m.copy = announced[<<m.id, m.tag>>] + 1
    BY <1>4 DEF Carries
  <2>3. ASSUME NEW b \in Announcement
        PROVE  announced'[<<b.id, b.tag>>] =
                 announced[<<b.id, b.tag>>] + (IF b.id = m.id /\ b.tag = m.tag THEN 1 ELSE 0)
    <3>1. <<b.id, b.tag>> \in DOMAIN announced
      BY MessageType DEF PartsInvariant, TypeOK
    <3> QED BY <1>1, <1>4, <3>1
  <2>4. a.copy <= announced'[<<a.id, a.tag>>]
    BY <1>1, <1>2, <2>1, <2>2, <2>3
  <2>5. ASSUME NEW b \in Announcement, Published(b), b.id = m.id, b.tag = m.tag PROVE b.copy # m.copy
    BY <1>1, <1>2, <2>2, <2>5
  <2> QED BY <1>2, <2>1, <2>4, <2>5
<1> QED BY <1>3, <1>4, Elsewise

LEMMA UnsentKept ==
  ASSUME PartsInvariant, LinkInvariant, [PathNext]_pathVars
  PROVE  Unsent'
<1>1. ASSUME NEW n \in Announcement, ~Published(n)' PROVE ~Published(n) /\ mails'[n] = mails[n]
  BY <1>1, Elsewise, PublishStep
<1> QED BY <1>1 DEF LinkInvariant, Unsent

LEMMA ToldKept ==
  ASSUME PartsInvariant, LinkInvariant, [PathNext]_pathVars
  PROVE  Told'
<1>1. TypeOK /\ [Next]_vars
  BY PathSteps DEF PartsInvariant
<1> SUFFICES ASSUME NEW n \in Announcement, Published(n)'
             PROVE  /\ n.tag <= latest'[n.id]
                    /\ \A k \in DOMAIN n.to : n.to[k] \in confirmed' \cup gone' /\ RepoOf[n.to[k]] = n.id
  BY DEF Told
<1>2. /\ n.tag <= latest[n.id]
      /\ \A k \in DOMAIN n.to : n.to[k] \in confirmed \cup gone /\ RepoOf[n.to[k]] = n.id
  BY Elsewise, PublishStep DEF LinkInvariant, Told
<1> QED BY <1>1, <1>2, PeopleStay, MessageType

\* Whatever the scan and the queue do, an announced release is a message of its own.
LEMMA LinkInvariantCorrect == PathSpec => []LinkInvariant
<1>1. PathInit => LinkInvariant
  <2> SUFFICES ASSUME PathInit PROVE LinkInvariant
    OBVIOUS
  <2>1. \A s \in Sub : told[s] = {}
    BY DEF PathInit, Init
  <2>2. \A m \in Announcement : ~Published(m)
    BY DEF PathInit, Mail!Init, Published
  <2>3. \A m \in Announcement : \A k \in DOMAIN m.to : mails[m][k] = 0
    BY SameConsumer DEF PathInit, Mail!Init
  <2> QED BY <2>1, <2>2, <2>3 DEF LinkInvariant, Delivered, Numbered, Unsent, Told
<1>2. PartsInvariant /\ LinkInvariant /\ [PathNext]_pathVars => LinkInvariant'
  BY DeliveredKept, NumberedKept, UnsentKept, ToldKept DEF LinkInvariant
<1> QED BY <1>1, <1>2, PartsInvariantCorrect, PTL DEF PathSpec

-----------------------------------------------------------------------------
(* From the tag to the letter *)

\* Who was told of a release has its message, and who has its message is in the
\* queues with it, mailed, or given up for all to see.
LEMMA ToldReaches ==
  ASSUME PartsInvariant, LinkInvariant, NEW s \in Sub, NEW t \in told[s]
  PROVE  <<s, t>> \in Outstanding \cup Reached \cup Failed
<1>1. PICK m \in Announcement : About(m, s, t) /\ Published(m)
  BY DEF LinkInvariant, Delivered
<1>2. place[m] \in {"queue", "retry", "settled", "dropped"}
  BY <1>1 DEF PartsInvariant, Mail!TypeOK, Published
<1>3. ASSUME place[m] = "settled", ~(parked[m] > 0) PROVE Mailed(m, s)
  <2>1. \A k \in DOMAIN m.to : mails[m][k] > 0
    BY <1>3, SameConsumer DEF PartsInvariant, Mail!HandledOrParked
  <2> QED BY <1>1, <2>1 DEF About, Mailed
<1>4. InQueues(m) \/ Mailed(m, s) \/ GivenUp(m)
  BY <1>2, <1>3 DEF InQueues, GivenUp
<1>5. <<s, t>> \in Sub \X Tag
  BY <1>1, MessageType DEF About
<1> QED BY <1>1, <1>4, <1>5 DEF Outstanding, Reached, Failed

LEMMA DeliveredReaches ==
  ASSUME PartsInvariant, LinkInvariant
  PROVE  RecordedReaches
<1>1. \A s \in confirmed : s \in Sub
  BY DEF PartsInvariant, TypeOK
<1>2. \A s \in confirmed : lastSeen[RepoOf[s]] > since[s] =>
        lastSeen[RepoOf[s]] \in told[s] \/ <<RepoOf[s], lastSeen[RepoOf[s]]>> \in lost
  BY DEF PartsInvariant, ScanInvariant, RecordedWasTold
<1> QED BY <1>1, <1>2, ToldReaches DEF RecordedReaches

\* A tag is recorded only when everybody it concerns has the release, or its message
\* is in the queues, parked or dropped, or was lost on the socket.
THEOREM RecordedReachesCorrect == PathSpec => []RecordedReaches
<1>1. PartsInvariant /\ LinkInvariant => RecordedReaches
  BY DeliveredReaches
<1> QED BY <1>1, PartsInvariantCorrect, LinkInvariantCorrect, PTL

\* Letters go to those who asked for them, about releases that there are.
THEOREM OnlySubscribersCorrect == PathSpec => []OnlySubscribersAreMailed
<1>1. ASSUME PartsInvariant, LinkInvariant PROVE OnlySubscribersAreMailed
  <2>1. ASSUME NEW m \in Announcement, NEW k \in DOMAIN m.to, mails[m][k] > 0 PROVE Published(m)
    BY <1>1, <2>1 DEF LinkInvariant, Unsent
  <2> QED BY <1>1, <2>1 DEF LinkInvariant, Told, OnlySubscribersAreMailed
<1> QED BY <1>1, PartsInvariantCorrect, LinkInvariantCorrect, PTL

-----------------------------------------------------------------------------
(* How many letters *)

LEMMA PairsCounted ==
  ASSUME NEW a \in Nat, NEW b \in Nat
  PROVE  /\ IsFiniteSet((1 .. a) \X (1 .. b))
         /\ Cardinality((1 .. a) \X (1 .. b)) = a * b
<1>1. IsFiniteSet(1 .. a) /\ Cardinality(1 .. a) = a
  <2>1. Cardinality(1 .. a) = IF 1 > a THEN 0 ELSE a - 1 + 1
    BY FS_Interval
  <2> QED BY <2>1, FS_Interval
<1>2. IsFiniteSet(1 .. b) /\ Cardinality(1 .. b) = b
  <2>1. Cardinality(1 .. b) = IF 1 > b THEN 0 ELSE b - 1 + 1
    BY FS_Interval
  <2> QED BY <2>1, FS_Interval
<1>3. /\ IsFiniteSet((1 .. a) \X (1 .. b))
      /\ Cardinality((1 .. a) \X (1 .. b)) = Cardinality(1 .. a) * Cardinality(1 .. b)
  BY <1>1, <1>2, FS_Product
<1> QED BY <1>1, <1>2, <1>3

\* A letter is one of a message that there is, sent by one of its deliveries.
LEMMA LetterOf ==
  ASSUME PartsInvariant, LinkInvariant, NEW s \in Sub, NEW t \in Tag, NEW x \in Letters(s, t)
  PROVE  /\ x = <<x[1], x[2]>> /\ x[1] \in Announcement /\ About(x[1], s, t) /\ Published(x[1])
         /\ x[1].copy \in 1 .. 1 + faults
         /\ x[2] \in 1 .. MaxAttempts + 1 + mailFaults
<1>1. PICK m \in Announcement : About(m, s, t) /\ x \in {m} \X Sendings(m, s)
  BY DEF Letters
<1>2. x = <<x[1], x[2]>> /\ x[1] = m /\ x[2] \in Sendings(m, s)
  BY <1>1
<1>3. PICK k \in DOMAIN m.to : x[2] \in 1 .. mails[m][k]
  BY <1>2 DEF Sendings
<1>4. /\ mails[m][k] \in Nat /\ mails[m][k] <= MaxAttempts + 1 + mailFaults
      /\ mailFaults \in Nat
  BY SameConsumer DEF PartsInvariant, Mail!TypeOK, Mail!EmailsAreBounded
<1>5. Published(m)
  BY <1>3, <1>4 DEF LinkInvariant, Unsent
<1>6. m.copy <= announced[<<m.id, m.tag>>]
  BY <1>5 DEF LinkInvariant, Numbered
<1>7. /\ announced[<<m.id, m.tag>>] \in Nat /\ announced[<<m.id, m.tag>>] <= 1 + faults
      /\ faults \in Nat /\ m.copy \in 1 .. MaxFaults + 1
  BY MessageType DEF PartsInvariant, TypeOK, GatewayTypeOK, AnnouncedOnce
<1>8. m.copy \in 1 .. 1 + faults
  BY <1>6, <1>7
<1>9. x[2] \in 1 .. MaxAttempts + 1 + mailFaults
  BY <1>3, <1>4, PathAssumption
<1> QED BY <1>1, <1>2, <1>5, <1>8, <1>9

LEMMA LettersCounted ==
  ASSUME PartsInvariant, LinkInvariant, NEW s \in Sub, NEW t \in Tag
  PROVE  Cardinality(Letters(s, t)) <= (1 + faults) * (MaxAttempts + 1 + mailFaults)
<1> DEFINE F == 1 + faults
           M == MaxAttempts + 1 + mailFaults
           f == [x \in Letters(s, t) |-> <<x[1].copy, x[2]>>]
<1>1. F \in Nat /\ M \in Nat
  BY PathAssumption DEF PartsInvariant, TypeOK, GatewayTypeOK, Mail!TypeOK
<1>2. f \in [Letters(s, t) -> (1 .. F) \X (1 .. M)]
  BY LetterOf
<1>3. ASSUME NEW x \in Letters(s, t), NEW y \in Letters(s, t), f[x] = f[y] PROVE x = y
  <2>1. x[1].copy = y[1].copy /\ x[2] = y[2]
    BY <1>3
  <2>2. /\ x[1] \in Announcement /\ y[1] \in Announcement /\ Published(x[1]) /\ Published(y[1])
        /\ x[1].id = y[1].id /\ x[1].tag = y[1].tag
        /\ x = <<x[1], x[2]>> /\ y = <<y[1], y[2]>>
    BY LetterOf DEF About
  <2>3. x[1] = y[1]
    BY <2>1, <2>2 DEF LinkInvariant, Numbered
  <2> QED BY <2>1, <2>2, <2>3
<1> HIDE DEF f, F, M
<1>4. f \in Injection(Letters(s, t), (1 .. F) \X (1 .. M))
  <2>1. DOMAIN f = Letters(s, t)
    BY <1>2
  <2> QED BY <1>2, <1>3, <2>1 DEF Injection, IsInjective
<1>5. IsFiniteSet((1 .. F) \X (1 .. M)) /\ Cardinality((1 .. F) \X (1 .. M)) = F * M
  BY <1>1, PairsCounted
<1>6. Cardinality(Letters(s, t)) <= F * M
  BY <1>4, <1>5, FS_Injection
<1> QED BY <1>6 DEF F, M

\* However often the scan fails and the queue redelivers, a subscriber gets at most
\* the attempts of each announcement, and an announcement more for each failure.
THEOREM LettersBoundedCorrect == PathSpec => []LettersAreBounded
<1>1. PartsInvariant /\ LinkInvariant => LettersAreBounded
  BY LettersCounted DEF LettersAreBounded
<1> QED BY <1>1, PartsInvariantCorrect, LinkInvariantCorrect, PTL

-----------------------------------------------------------------------------
(* What the broker still takes *)

FewFaults == faults <= MaxFaults

LEMMA FaultsCorrect == Spec => []FewFaults
<1> USE DEF FewFaults
<1>1. Init => FewFaults
  BY GatewayAssumption DEF Init, GatewayInit
<1>2. ASSUME TypeOK, [Next]_vars PROVE faults' = faults \/ Fault
  BY <1>2 DEF Next, Environment, Confirm, Unsubscribe, NewRelease, StartScan, ScanStep, GetLatestRelease,
     Request, Receive, Skip, FindSubscribers, Publish, Drain, ChannelDies, UpdateLastSeenTag, GatewayStep, ReadCache, Fetch,
     Store, Expire, GatewayCrash, MonolithCrash, gatewayVars, vars
<1>3. TypeOK /\ FewFaults /\ [Next]_vars => FewFaults'
  <2> SUFFICES ASSUME TypeOK, FewFaults, [Next]_vars PROVE FewFaults'
    OBVIOUS
  <2>1. faults' = faults \/ (faults < MaxFaults /\ faults' = faults + 1)
    BY <1>2 DEF Fault
  <2> QED BY <2>1, GatewayAssumption DEF TypeOK, GatewayTypeOK
<1> HIDE DEF FewFaults
<1> QED BY <1>1, <1>3, TypeCorrect, PTL DEF Spec

\* A job that is about to announce has a failure left to account for it.
LEMMA RoomToAnnounce ==
  ASSUME PartsInvariant, FewFaults, NEW j \in Job, scan[j].pc = "notifying"
  PROVE  /\ scan[j].id \in Repo /\ scan[j].tag \in Tag \ {0} /\ scan[j].to \subseteq Sub
         /\ announced[<<scan[j].id, scan[j].tag>>] + 1 \in 1 .. MaxFaults + 1
<1> DEFINE r == scan[j].id
           t == scan[j].tag
<1>1. r \in Repo /\ t \in Tag /\ scan[j].to \subseteq Sub /\ t # 0
  BY ScanShape DEF PartsInvariant, TypeOK, ScanInvariant, Addressed
<1>2. /\ TypeOK /\ Released /\ Matched /\ Account /\ FewOrphans /\ Snapshots
  BY DEF PartsInvariant, ScanInvariant, Accounts
<1>3. Way(r, lastSeen[r], t, cache[r])
  BY DEF Way
<1>4. Spent(r, t) + Visits(t, lastSeen[r], t, cache[r], latest[r]) <= 1 + faults
  BY <1>1, <1>2, <1>3, AccountOf
<1>5. lastSeen[r] \in Tag /\ cache[r] \in Tag \cup {Miss} /\ latest[r] \in Tag /\ faults \in Nat /\ 0 \in Tag
  BY <1>1, <1>2, GatewayAssumption DEF TypeOK, GatewayTypeOK, Tag
<1>6. t # lastSeen[r]
  BY <1>2 DEF Snapshots
<1>7. Visits(t, t, 0, cache[r], latest[r]) + 1 <= Visits(t, lastSeen[r], t, cache[r], latest[r])
  BY <1>1, <1>5, <1>6, VisitsAnnounced
<1>8. /\ Visits(t, t, 0, cache[r], latest[r]) \in Nat
      /\ Visits(t, lastSeen[r], t, cache[r], latest[r]) \in Nat
  BY <1>1, <1>5, VisitsOf
<1>9. announced[<<r, t>>] \in Nat /\ announced[<<r, t>>] <= Spent(r, t) /\ Spent(r, t) \in Nat
  BY <1>1, <1>2, SpentType DEF Spent
<1> HIDE DEF Spent, Visits, r, t
<1>10. announced[<<r, t>>] + 1 \in 1 .. MaxFaults + 1
  BY <1>4, <1>5, <1>7, <1>8, <1>9, GatewayAssumption DEF FewFaults
<1> QED BY <1>1, <1>10 DEF r, t

\* Some subscribers can be listed.
LEMMA Listed ==
  ASSUME NEW S \in SUBSET Sub
  PROVE  \E l \in Listing : {l[k] : k \in DOMAIN l} = S
<1>1. IsFiniteSet(S) /\ Cardinality(S) <= Cardinality(Sub) /\ Cardinality(Sub) \in Nat
  BY PathAssumption, FS_Subset, FS_CardinalityType
<1>2. PICK n \in Nat : ExistsBijection(1 .. n, S)
  BY <1>1, FS_NatBijection
<1>3. n \in 0 .. Cardinality(Sub)
  BY <1>1, <1>2, FS_CountingElements
<1>4. PICK l \in Bijection(1 .. n, S) : TRUE
  BY <1>2 DEF ExistsBijection
<1>5. l \in [1 .. n -> S] /\ (\A i, k \in 1 .. n : l[i] = l[k] => i = k) /\ (\A s \in S : \E k \in 1 .. n : l[k] = s)
  BY <1>4 DEF Bijection, Injection, Surjection, IsInjective
<1>6. l \in [1 .. n -> Sub] /\ DOMAIN l = 1 .. n
  BY <1>5
<1>7. l \in Listing
  BY <1>3, <1>5, <1>6 DEF Listing
<1> QED BY <1>5, <1>6, <1>7

\* The scan never waits for the notification service: whatever a job is to announce,
\* the message it would make is one that the broker has not had.
THEOREM NothingHoldsUpCorrect == PathSpec => []NothingHoldsUp
<1>1. ASSUME PartsInvariant, LinkInvariant, FewFaults, NEW j \in Job, scan[j].pc = "notifying"
      PROVE  \E m \in Announcement : Carries(m, j) /\ ~Published(m)
  <2> DEFINE next == announced[<<scan[j].id, scan[j].tag>>] + 1
  <2>1. /\ scan[j].id \in Repo /\ scan[j].tag \in Tag \ {0} /\ scan[j].to \subseteq Sub
        /\ next \in 1 .. MaxFaults + 1
    BY <1>1, RoomToAnnounce
  <2>2. PICK l \in Listing : {l[k] : k \in DOMAIN l} = scan[j].to
    BY <2>1, Listed
  <2> DEFINE m == [id |-> scan[j].id, tag |-> scan[j].tag, to |-> l, copy |-> next]
  <2>3. scan[j].tag \in 1 .. MaxTag
    BY <2>1, GatewayAssumption DEF Tag
  <2>4. m \in Announcement
    BY <2>1, <2>2, <2>3 DEF Announcement
  <2>5. Carries(m, j)
    BY <2>2 DEF Carries
  <2>6. ~Published(m)
    <3>1. announced[<<scan[j].id, scan[j].tag>>] \in Nat
      BY <1>1, <2>1 DEF PartsInvariant, TypeOK
    <3>2. Published(m) => m.copy <= announced[<<m.id, m.tag>>]
      BY <1>1, <2>4 DEF LinkInvariant, Numbered
    <3> QED BY <3>1, <3>2
  <2> QED BY <2>4, <2>5, <2>6
<1>2. PartsInvariant /\ LinkInvariant /\ FewFaults => NothingHoldsUp
  BY <1>1 DEF NothingHoldsUp
<1>3. PathSpec => []FewFaults
  BY PartsCorrect, FaultsCorrect, PTL
<1> QED BY <1>2, <1>3, PartsInvariantCorrect, LinkInvariantCorrect, PTL

-----------------------------------------------------------------------------
(* The promise *)

\* A step of the callback of a message or of its queues, other than a send.
LEMMA Closing ==
  ASSUME PartsInvariant, PartsInvariant', NEW m \in Announcement,
         Mail!Deliver(m) \/ Mail!Settle(m) \/ Mail!Expire(m), NEW n \in Announcement
  PROVE  /\ mails' = mails
         /\ InQueues(n)' => InQueues(n)
         /\ GivenUp(n) => GivenUp(n)'
         /\ GivenUp(n)' => GivenUp(n) \/ InQueues(n)
         /\ InQueues(n) => InQueues(n)' \/ GivenUp(n)' \/ \A k \in DOMAIN n.to : mails[n][k] > 0
<1>1. /\ place \in Messages /\ place' \in Messages
      /\ parked[n] \in Nat /\ parked'[n] \in Nat /\ DOMAIN parked = Announcement
  BY DEF PartsInvariant, Mail!TypeOK, Messages
<1>2. hand[m].pc = "settling" => place[m] = "queue"
  BY DEF PartsInvariant, Mail!HeldByQueue, Mail!Idle
<1>3. mails' = mails
  BY DEF Mail!Deliver, Mail!Settle, Mail!Expire
<1>4. \/ place' = place /\ parked' = parked
      \/ /\ place[m] = "queue"
         /\ place' = place \/ \E q \in {"retry", "settled"} : place' = [place EXCEPT ![m] = q]
         /\ parked' = parked \/ parked' = [parked EXCEPT ![m] = @ + 1]
      \/ /\ place[m] = "retry" /\ parked' = parked
         /\ \E q \in {"queue", "dropped"} : place' = [place EXCEPT ![m] = q]
  <2>1. CASE Mail!Deliver(m)
    BY <2>1 DEF Mail!Deliver
  <2>2. CASE Mail!Settle(m)
    BY <1>2, <2>2 DEF Mail!Settle, Mail!Park
  <2>3. CASE Mail!Expire(m)
    BY <2>3 DEF Mail!Expire
  <2> QED BY <2>1, <2>2, <2>3
<1>5. (InQueues(n)' => InQueues(n)) /\ (InQueues(n) => place'[n] # "unpublished")
  BY <1>1, <1>4 DEF InQueues, Messages
<1>6. parked'[n] = parked[n] \/ (n = m /\ place[m] = "queue" /\ parked'[n] = parked[n] + 1)
  BY <1>1, <1>4
<1>7. place[n] = "dropped" => place'[n] = "dropped"
  BY <1>1, <1>4 DEF Messages
<1>8. place'[n] = "dropped" => place[n] \in {"dropped", "retry"}
  BY <1>1, <1>4 DEF Messages
<1>9. (GivenUp(n) => GivenUp(n)') /\ (GivenUp(n)' => GivenUp(n) \/ InQueues(n))
  BY <1>1, <1>6, <1>7, <1>8 DEF GivenUp, InQueues
<1>10. ASSUME InQueues(n), ~InQueues(n)', ~GivenUp(n)' PROVE \A k \in DOMAIN n.to : mails[n][k] > 0
  <2>1. place'[n] = "settled" /\ ~(parked'[n] > 0)
    BY <1>1, <1>5, <1>10 DEF InQueues, GivenUp, Messages
  <2>2. \A k \in DOMAIN n.to : mails'[n][k] > 0
    BY <2>1, SameConsumer DEF PartsInvariant, Mail!HandledOrParked
  <2> QED BY <1>3, <2>2
<1> QED BY <1>3, <1>5, <1>9, <1>10

LEMMA ClosingKeepsPromise ==
  ASSUME PartsInvariant, PartsInvariant', NEW m \in Announcement,
         Mail!Deliver(m) \/ Mail!Settle(m) \/ Mail!Expire(m), UNCHANGED vars
  PROVE  News!Next
<1> DEFINE done == Outstanding \ Outstanding'
           hopeless == Failed' \ Failed
<1>1. \A n \in Announcement :
        /\ mails' = mails
        /\ InQueues(n)' => InQueues(n)
        /\ GivenUp(n) => GivenUp(n)'
        /\ GivenUp(n)' => GivenUp(n) \/ InQueues(n)
        /\ InQueues(n) => InQueues(n)' \/ GivenUp(n)' \/ \A k \in DOMAIN n.to : mails[n][k] > 0
  BY Closing
<1>2. Reached' = Reached
  BY <1>1 DEF Reached, Mailed, About
<1>3. Outstanding' \subseteq Outstanding /\ Failed \subseteq Failed' /\ hopeless \subseteq Outstanding
  BY <1>1 DEF Outstanding, Failed, About
<1>4. done \subseteq Reached \cup Failed'
  BY <1>1 DEF Outstanding, Failed, Reached, About, Mailed
<1>5. UNCHANGED <<latest, lastSeen, confirmed, gone, since, lost>>
  BY DEF vars
<1>6. Failed' = Failed \cup hopeless /\ Outstanding' = Outstanding \ done
  BY <1>3
<1>7. done \subseteq Reached \cup Failed \cup hopeless
  BY <1>4
<1>8. News!Close(hopeless, done)
  BY <1>2, <1>5, <1>6, <1>7 DEF News!Close
<1>9. hopeless \in SUBSET Outstanding /\ done \in SUBSET Outstanding
  BY <1>3
<1> QED BY <1>8, <1>9 DEF News!Next

LEMMA SendingKeepsPromise ==
  ASSUME PartsInvariant, LinkInvariant, NEW m \in Announcement, Mail!SendEmail(m), UNCHANGED vars
  PROVE  [News!Next]_(News!promiseVars)
<1> DEFINE k == hand[m].to
           letter == <<m.to[k], m.tag>>
<1>1. hand[m].pc = "mailing" /\ UNCHANGED <<place, parked>>
  BY DEF Mail!SendEmail
<1>2. Outstanding' = Outstanding /\ Failed' = Failed
  BY <1>1 DEF Outstanding, Failed, InQueues, GivenUp, About
<1>3. UNCHANGED <<latest, lastSeen, confirmed, gone, since, lost>>
  BY DEF vars
<1>4. CASE mails' = mails
  <2>1. Reached' = Reached
    BY <1>4 DEF Reached, Mailed, About
  <2> QED BY <1>2, <1>3, <2>1 DEF News!promiseVars
<1>5. CASE mails' = [mails EXCEPT ![m][k] = @ + 1]
  <2>1. place[m] = "queue" /\ Published(m)
    BY <1>1 DEF PartsInvariant, Mail!HeldByQueue, Mail!Idle, Published
  <2>2. k \in DOMAIN m.to /\ DOMAIN mails = Announcement
    BY <1>1, SameConsumer DEF PartsInvariant, Mail!TypeOK
  <2>3. \A n \in Announcement : mails[n] \in [DOMAIN n.to -> Nat]
    BY SameConsumer DEF PartsInvariant, Mail!TypeOK
  <2>4. m.to[k] \in Sub /\ RepoOf[m.to[k]] = m.id /\ m.tag \in Tag
    BY <2>1, <2>2, MessageType DEF LinkInvariant, Told
  <2>5. letter \in Outstanding
    BY <2>1, <2>2, <2>4 DEF Outstanding, InQueues, About
  <2>6. ASSUME NEW n \in Announcement, NEW i \in DOMAIN n.to
        PROVE  (mails'[n][i] > 0) <=> (mails[n][i] > 0 \/ (n = m /\ i = k))
    <3>1. mails[n][i] \in Nat
      BY <2>3, <2>6
    <3>2. mails'[n][i] = IF n = m /\ i = k THEN mails[n][i] + 1 ELSE mails[n][i]
      BY <1>5, <2>2, <2>3, <2>6
    <3> QED BY <3>1, <3>2
  <2>7. Reached' = Reached \cup {letter}
    <3>1. \A n \in Announcement, s \in Sub :
            Mailed(n, s)' <=> Mailed(n, s) \/ (n = m /\ s = m.to[k])
      BY <2>2, <2>6 DEF Mailed
    <3>2. \A s \in Sub, t \in Tag : About(m, s, t) /\ s = m.to[k] <=> <<s, t>> = letter
      BY <2>2, <2>4 DEF About
    <3> HIDE DEF letter, k
    <3>3. \A s \in Sub, t \in Tag : <<s, t>> \in Reached' <=> <<s, t>> \in Reached \/ <<s, t>> = letter
      BY <3>1, <3>2 DEF Reached, About
    <3>4. letter \in Sub \X Tag
      BY <2>4 DEF letter
    <3> QED BY <3>3, <3>4 DEF Reached
  <2>8. News!Mail(letter)
    BY <1>2, <1>3, <2>7 DEF News!Mail
  <2> QED BY <2>5, <2>8 DEF News!Next
<1> QED BY <1>4, <1>5 DEF Mail!SendEmail

\* Failures of the notification service keep its messages where they are.
LEMMA HandlingKeepsPromise ==
  ASSUME PartsInvariant, LinkInvariant, PartsInvariant', UNCHANGED vars,
         (\E m \in Announcement : Handle(m)) \/ Mail!Disconnect \/ Mail!Crash \/ Mail!UnhandledRejection
  PROVE  [News!Next]_(News!promiseVars)
<1>1. ASSUME NEW m \in Announcement, Handle(m) PROVE [News!Next]_(News!promiseVars)
  BY <1>1, ClosingKeepsPromise, SendingKeepsPromise DEF Handle
<1>2. CASE Mail!Disconnect \/ Mail!Crash \/ Mail!UnhandledRejection
  <2>1. UNCHANGED <<place, mails, parked>>
    BY <1>2 DEF Mail!Disconnect, Mail!Crash, Mail!UnhandledRejection, Mail!Restart
  <2>2. UNCHANGED <<Outstanding, Reached, Failed>>
    BY <2>1 DEF Outstanding, Reached, Failed, InQueues, Mailed, GivenUp, About
  <2> QED BY <2>2 DEF News!promiseVars, vars
<1> QED BY <1>1, <1>2

\* A message that the broker reads makes its letters due.
LEMMA AnnouncingKeepsPromise ==
  ASSUME PartsInvariant, NEW j \in Job, NEW m \in Announcement, scan[j].pc = "notifying", Carries(m, j),
         Mail!Publish(m), Publish(j), UNCHANGED lost
  PROVE  News!Next
<1> DEFINE r == scan[j].id
           t == scan[j].tag
<1>1. r \in Repo /\ t \in Tag /\ t # 0 /\ t <= latest[r] /\ scan[j].to \subseteq Sub
  BY ScanShape DEF PartsInvariant, TypeOK, ScanInvariant, Addressed, Released
<1>2. t \in 1 .. latest[r]
  <2>1. latest[r] \in Nat
    BY <1>1 DEF PartsInvariant, TypeOK, GatewayTypeOK, Tag
  <2> QED BY <1>1, <2>1 DEF Tag
<1>3. scan[j].to \in SUBSET {s \in confirmed \cup gone : RepoOf[s] = r}
  BY DEF PartsInvariant, ScanInvariant, Addressed
<1>4. News!Audience(r, t) \subseteq scan[j].to
  BY DEF PartsInvariant, ScanInvariant, Covered, Concerned, News!Audience, TypeOK
<1>5. place \in Messages /\ place[m] = "unpublished" /\ place' = [place EXCEPT ![m] = "queue"]
      /\ UNCHANGED <<mails, parked>>
  BY DEF PartsInvariant, Mail!TypeOK, Messages, Mail!Publish
<1>6. \A n \in Announcement : (InQueues(n)' <=> InQueues(n) \/ n = m) /\ (GivenUp(n)' <=> GivenUp(n))
  BY <1>5 DEF Messages, InQueues, GivenUp
<1>7. Reached' = Reached /\ Failed' = Failed
  BY <1>5, <1>6 DEF Reached, Failed, Mailed, About
<1>8. \A s \in Sub, u \in Tag : About(m, s, u) <=> s \in scan[j].to /\ u = t
  BY <1>3 DEF About, Carries
<1>9. Outstanding' = Outstanding \cup (scan[j].to \X {t})
  <2>1. \A s \in Sub, u \in Tag :
          <<s, u>> \in Outstanding' <=> <<s, u>> \in Outstanding \/ (s \in scan[j].to /\ u = t)
    BY <1>6, <1>8 DEF Outstanding, About
  <2>2. scan[j].to \X {t} \subseteq Sub \X Tag
    BY <1>1
  <2> QED BY <2>1, <2>2 DEF Outstanding
<1>10. UNCHANGED <<latest, lastSeen, confirmed, gone, since, lost>>
  BY DEF Publish, people
<1>11. News!Announce(r, t)
  BY <1>3, <1>4, <1>7, <1>9, <1>10 DEF News!Announce
<1> QED BY <1>1, <1>2, <1>11 DEF News!Next

\* Of what the scan promises, the rest is promised here as well.
LEMMA ScanningKeepsPromise ==
  ASSUME PartsInvariant, LinkInvariant, [Next]_vars, UNCHANGED told, UNCHANGED mailVars
  PROVE  [News!Next]_(News!promiseVars)
<1>1. UNCHANGED <<Outstanding, Reached, Failed>>
  BY DEF mailVars, Outstanding, Reached, Failed, InQueues, Mailed, GivenUp, About
<1>2. CASE UNCHANGED Promise!promiseVars
  BY <1>1, <1>2 DEF Promise!promiseVars, News!promiseVars
<1>3. ASSUME NEW r \in Repo, Promise!Appear(r) PROVE News!Next
  BY <1>1, <1>3 DEF Promise!Appear, News!Appear, News!Next
<1>4. ASSUME NEW s \in Sub, Promise!Join(s) \/ Promise!Leave(s) PROVE News!Next
  BY <1>1, <1>4 DEF Promise!Join, News!Join, Promise!Leave, News!Leave, News!Next
<1>5. ASSUME NEW r \in Repo, NEW t \in 1 .. latest[r], Promise!Announce(r, t)
      PROVE  UNCHANGED News!promiseVars
  BY <1>1, <1>5 DEF Promise!Announce, News!promiseVars
<1>6. ASSUME NEW r \in Repo, NEW t \in 1 .. latest[r], Promise!Lose(r, t) PROVE News!Next
  <2>1. News!Lose(r, t)
    BY <1>1, <1>6 DEF Promise!Lose, News!Lose
  <2> QED BY <2>1 DEF News!Next
<1>7. ASSUME NEW r \in Repo, NEW t \in 1 .. latest[r], Promise!Record(r, t) PROVE News!Next
  <2>1. Promise!Audience(r, t) = News!Audience(r, t) /\ News!Audience(r, t) \subseteq Sub
    BY DEF Promise!Audience, News!Audience, PartsInvariant, TypeOK
  <2>2. \A s \in News!Audience(r, t) : t \in told[s] => <<s, t>> \in Outstanding \cup Reached \cup Failed
    BY <2>1, ToldReaches
  <2>3. <<r, t>> \in lost \/ News!Audience(r, t) \X {t} \subseteq Outstanding \cup Reached \cup Failed
    BY <1>7, <2>1, <2>2 DEF Promise!Record
  <2>4. News!Record(r, t)
    BY <1>1, <1>7, <2>3 DEF Promise!Record, News!Record
  <2> QED BY <2>4 DEF News!Next
<1>8. [Promise!Next]_(Promise!promiseVars)
  BY StepKeepsPromise DEF PartsInvariant
<1> QED BY <1>2, <1>3, <1>4, <1>5, <1>6, <1>7, <1>8 DEF Promise!Next

\* The scan, its gateway, the exchange, the queues and the mailer, each with its
\* failures, implement the promise: whatever they do is a step of it, or nothing that
\* a subscriber, the table or an operator who looks at the parking lot could tell.
THEOREM NewsPromiseKept == PathSpec => KeepsNewsPromise
<1>1. PathInit => News!Init
  <2> SUFFICES ASSUME PathInit PROVE News!Init
    OBVIOUS
  <2>1. \A m \in Announcement : ~InQueues(m) /\ ~GivenUp(m)
    BY DEF PathInit, Mail!Init, InQueues, GivenUp
  <2>2. \A m \in Announcement, s \in Sub : ~Mailed(m, s)
    <3>1. \A m \in Announcement : \A k \in DOMAIN m.to : mails[m][k] = 0
      BY SameConsumer DEF PathInit, Mail!Init
    <3> QED BY <3>1 DEF Mailed
  <2>3. Outstanding = {} /\ Reached = {} /\ Failed = {}
    BY <2>1, <2>2 DEF Outstanding, Reached, Failed
  <2> QED BY <2>3 DEF PathInit, Init, GatewayInit, News!Init
<1>2. PartsInvariant /\ LinkInvariant /\ PartsInvariant' /\ [PathNext]_pathVars
        => [News!Next]_(News!promiseVars)
  <2> SUFFICES ASSUME PartsInvariant, LinkInvariant, PartsInvariant', [PathNext]_pathVars
               PROVE  [News!Next]_(News!promiseVars)
    OBVIOUS
  <2>1. CASE Next /\ Exchange
    <3>1. TypeOK /\ ScanInvariant
      BY DEF PartsInvariant
    <3>2. CASE UNCHANGED told /\ UNCHANGED mailVars
      BY <2>1, <3>2, ScanningKeepsPromise
    <3>3. ASSUME NEW j \in Job, NEW m \in Announcement, scan[j].pc = "notifying", Carries(m, j),
                 Mail!Publish(m), Publish(j), UNCHANGED lost
          PROVE  News!Next
      BY <3>3, AnnouncingKeepsPromise
    <3> QED BY <2>1, <3>1, <3>2, <3>3, TellStep
  <2>2. CASE UNCHANGED vars /\ UNCHANGED mailVars
    <3>1. UNCHANGED told /\ [Next]_vars
      BY <2>2 DEF vars
    <3> QED BY <2>2, <3>1, ScanningKeepsPromise
  <2>3. CASE /\ (\E m \in Announcement : Handle(m)) \/ Mail!Disconnect \/ Mail!Crash \/ Mail!UnhandledRejection
             /\ UNCHANGED vars
    BY <2>3, HandlingKeepsPromise
  <2> QED BY <2>1, <2>2, <2>3 DEF PathNext, pathVars
<1> QED BY <1>1, <1>2, PartsInvariantCorrect, LinkInvariantCorrect, PTL
        DEF PathSpec, KeepsNewsPromise, News!Spec

\* What the promise is worth, with the types that its reading takes: a letter never
\* comes to be forgotten, and none is about what did not happen.
NewsGives ==
  /\ \A r \in Repo : latest[r] \in Nat /\ lastSeen[r] \in Nat /\ lastSeen[r] <= latest[r]
  /\ \A s \in Sub : since[s] \in Nat
  /\ DOMAIN latest = Repo /\ DOMAIN lastSeen = Repo /\ DOMAIN since = Sub
  /\ confirmed \subseteq Sub /\ gone \subseteq Sub
  /\ RecordedReaches
  /\ \A s \in Sub, t \in Tag : <<s, t>> \in Outstanding \cup Reached \cup Failed =>
       s \in confirmed \cup gone /\ t \in 1 .. latest[RepoOf[s]]

LEMMA NewsGivesStep ==
  ASSUME NewsGives, [News!Next]_(News!promiseVars)
  PROVE  NewsGives'
<1> USE ScannerAssumption DEF NewsGives, RecordedReaches
<1> HIDE DEF Outstanding, Reached, Failed
<1>1. CASE UNCHANGED News!promiseVars
  BY <1>1 DEF News!promiseVars
<1>2. ASSUME NEW r \in Repo, News!Appear(r) PROVE NewsGives'
  BY <1>2 DEF News!Appear
<1>3. ASSUME NEW r \in Repo, NEW t \in 1 .. latest[r], News!Announce(r, t) PROVE NewsGives'
  BY <1>3 DEF News!Announce
<1>4. ASSUME NEW r \in Repo, NEW t \in 1 .. latest[r], News!Lose(r, t) PROVE NewsGives'
  BY <1>4 DEF News!Lose
<1>5. ASSUME NEW r \in Repo, NEW t \in 1 .. latest[r], News!Record(r, t) PROVE NewsGives'
  BY <1>5 DEF News!Record, News!Audience
<1>6. ASSUME NEW s \in Sub, News!Join(s) PROVE NewsGives'
  BY <1>6 DEF News!Join
<1>7. ASSUME NEW s \in Sub, News!Leave(s) PROVE NewsGives'
  BY <1>7 DEF News!Leave
<1>8. ASSUME NEW letter \in Outstanding, News!Mail(letter) PROVE NewsGives'
  BY <1>8 DEF News!Mail
<1>9. ASSUME NEW hopeless \in SUBSET Outstanding, NEW done \in SUBSET Outstanding,
             News!Close(hopeless, done)
      PROVE  NewsGives'
  BY <1>9 DEF News!Close
<1> QED BY <1>1, <1>2, <1>3, <1>4, <1>5, <1>6, <1>7, <1>8, <1>9 DEF News!Next

\* NewsPromise is strong enough to be what the whole path is judged by: that a
\* recorded release reaches everybody it concerns, unless something is lost, parked
\* or dropped, follows from it alone, whatever lies between GitHub and the mailbox.
THEOREM NewsSuffices == KeepsNewsPromise => []RecordedReaches
<1>1. News!Init => NewsGives
  BY ScannerAssumption DEF News!Init, NewsGives, RecordedReaches
<1>2. NewsGives /\ [News!Next]_(News!promiseVars) => NewsGives'
  BY NewsGivesStep
<1>3. NewsGives => RecordedReaches
  BY DEF NewsGives
<1> QED
  BY <1>1, <1>2, <1>3, PTL DEF KeepsNewsPromise, News!Spec
=============================================================================
