---------------------------- MODULE ReleasePath -----------------------------
(* A release from GitHub to its subscribers: the scan and its gateway in    *)
(* the monolith, and the notification service from its queue on. They meet  *)
(* at the topic exchange, where each message that the scan publishes is one *)
(* that the notification service has to deal with.                          *)
EXTENDS ReleaseScanner, Sequences

CONSTANTS
  MaxAttempts, Prefetch, ReturnKeys,  \* of ReleaseConsumer
  MaxMailFaults                       \* its MaxFaults: the two processes fail apart

ASSUME PathAssumption ==
  /\ IsFiniteSet(Sub)
  /\ MaxAttempts \in Nat /\ Prefetch \in Nat \ {0} /\ MaxMailFaults \in Nat
  /\ ReturnKeys \subseteq {"published", "retry"}

VARIABLES place, attempt, hand, mails, parked, online,  \* of ReleaseConsumer
          mailFaults                                     \* its faults

\* The subscribers of a message are in the order of the rows that a query found.
Listing == {l \in UNION {[1 .. n -> Sub] : n \in 0 .. Cardinality(Sub)} :
              \A i, k \in DOMAIN l : l[i] = l[k] => i = k}

\* A release.detected message; the copies of a release are told apart by number.
Announcement == [id : Repo, tag : 1 .. MaxTag, to : Listing, copy : 1 .. MaxFaults + 1]
Addressees == [m \in Announcement |-> Len(m.to)]

Mail == INSTANCE ReleaseConsumer WITH
  Msg <- Announcement, Release <- Announcement, Size <- Addressees,
  faults <- mailFaults, MaxFaults <- MaxMailFaults

mailVars == <<place, attempt, hand, mails, parked, online, mailFaults>>
pathVars == <<vars, mailVars>>

PathTypeOK == TypeOK /\ Mail!TypeOK
PathInit == Init /\ Mail!Init

\* What the publisher makes of a job's event.
Carries(m, j) ==
  /\ m.id = scan[j].id /\ m.tag = scan[j].tag
  /\ {m.to[k] : k \in DOMAIN m.to} = scan[j].to
  /\ m.copy = announced[<<m.id, m.tag>>] + 1

\* What a step of the monolith means for the queue: a publish that the broker
\* has read brings one message there, and nothing else does.
Exchange ==
  \/ announced' = announced /\ UNCHANGED mailVars
  \/ \E j \in Job, m \in Announcement :
       /\ scan[j].pc = "notifying" /\ Carries(m, j)
       /\ announced' = [announced EXCEPT ![<<m.id, m.tag>>] = @ + 1]
       /\ Mail!Publish(m)

Handle(m) == Mail!Deliver(m) \/ Mail!SendEmail(m) \/ Mail!Settle(m) \/ Mail!Expire(m)

PathNext ==
  \/ Next /\ Exchange
  \/ /\ \/ \E m \in Announcement : Handle(m)
        \/ Mail!Disconnect \/ Mail!Crash \/ Mail!UnhandledRejection
     /\ UNCHANGED vars

PathSpec == PathInit /\ [][PathNext]_pathVars

\* As each part's.
PathFairness ==
  /\ WF_pathVars((\E j \in Job : StartScan(j) \/ ScanStep(j)) /\ Exchange)
  /\ \A c \in Call :
       WF_pathVars(GatewayStep(c) /\ UNCHANGED <<lastSeen, people, scan, drain, history, mailVars>>)
  /\ \A r \in Repo :
       WF_pathVars(Expire(r) /\ UNCHANGED <<lastSeen, people, scan, drain, history, mailVars>>)
  /\ \A m \in Announcement :
       /\ WF_pathVars(Mail!Deliver(m) /\ UNCHANGED vars)
       /\ WF_pathVars(Mail!SendEmail(m) /\ UNCHANGED vars)
       /\ WF_pathVars(Mail!Settle(m) /\ UNCHANGED vars)
       /\ WF_pathVars(Mail!Expire(m) /\ UNCHANGED vars)
  /\ WF_pathVars(Mail!UnhandledRejection /\ UNCHANGED vars)
PathFairSpec == PathSpec /\ PathFairness

-----------------------------------------------------------------------------
(* Properties *)

About(m, s, t) == m.id = RepoOf[s] /\ m.tag = t /\ \E k \in DOMAIN m.to : m.to[k] = s
Mailed(m, s) == \E k \in DOMAIN m.to : m.to[k] = s /\ mails[m][k] > 0
InQueues(m) == place[m] \in {"queue", "retry"}
GivenUp(m) == place[m] = "dropped" \/ parked[m] > 0

\* A letter is a subscriber and a release. It is outstanding while a message in the
\* queues will see to it, then sent, or given up with its message.
Outstanding ==
  {x \in Sub \X Tag : \E m \in Announcement : About(m, x[1], x[2]) /\ InQueues(m)}
Reached ==
  {x \in Sub \X Tag : \E m \in Announcement : About(m, x[1], x[2]) /\ Mailed(m, x[1])}
Failed ==
  {x \in Sub \X Tag : \E m \in Announcement : About(m, x[1], x[2]) /\ GivenUp(m)}

\* lastSeenTag is only ever a release of which everybody who was confirmed before
\* it appeared and still is has an e-mail, or a message is in the queues that
\* will see to it, unless one was lost on the socket, parked or dropped: the tag
\* is saved on one side of the broker, the message handled on the other, and no
\* failure of either leaves a subscriber out in silence.
RecordedReaches ==
  \A s \in confirmed :
    LET r == RepoOf[s] IN
    lastSeen[r] > since[s] =>
      <<r, lastSeen[r]>> \in lost \/ <<s, lastSeen[r]>> \in Outstanding \cup Reached \cup Failed

\* What makes it so, besides what each part has by itself: a release that somebody
\* was told of is one the queue was given; no message is given to it twice; and
\* nobody is mailed before it has the message.
Published(m) == place[m] # "unpublished"
Delivered ==
  \A s \in Sub : \A t \in told[s] : \E m \in Announcement : About(m, s, t) /\ Published(m)
Numbered ==
  \A m, n \in Announcement :
    /\ Published(m) => m.copy <= announced[<<m.id, m.tag>>]
    /\ Published(m) /\ Published(n) /\ m.id = n.id /\ m.tag = n.tag /\ m.copy = n.copy => m = n
Unsent == \A m \in Announcement : ~Published(m) => \A k \in DOMAIN m.to : mails[m][k] = 0
Told ==
  \A m \in Announcement : Published(m) =>
    /\ m.tag <= latest[m.id]
    /\ \A k \in DOMAIN m.to : m.to[k] \in confirmed \cup gone /\ RepoOf[m.to[k]] = m.id
LinkInvariant == Delivered /\ Numbered /\ Unsent /\ Told

\* The exchange is a queue and no rendezvous: whatever a job has to announce, it is
\* a message that the broker has not seen.
NothingHoldsUp ==
  \A j \in Job : scan[j].pc = "notifying" =>
    \E m \in Announcement : Carries(m, j) /\ ~Published(m)

\* Nobody gets a letter about a release that GitHub does not have, or about a
\* repository other than the one he has confirmed, even if he left it since.
OnlySubscribersAreMailed ==
  \A m \in Announcement : \A k \in DOMAIN m.to : mails[m][k] > 0 =>
    /\ m.tag <= latest[m.id]
    /\ m.to[k] \in confirmed \cup gone /\ RepoOf[m.to[k]] = m.id

\* The failures of the two processes multiply, and no more: a scan that failed
\* announces a release again, and every announcement is redelivered by itself.
Sendings(m, s) == UNION {1 .. mails[m][k] : k \in {i \in DOMAIN m.to : m.to[i] = s}}
Letters(s, t) == UNION {{m} \X Sendings(m, s) : m \in {a \in Announcement : About(a, s, t)}}
LettersAreBounded ==
  \A s \in Sub, t \in Tag :
    Cardinality(Letters(s, t)) <= (1 + faults) * (MaxAttempts + 1 + mailFaults)

\* Whoever is confirmed is mailed of the latest release sooner or later, unless its
\* message was lost, parked or dropped, the subscription ends, the consumer is deaf or
\* a scan hangs on its publish.
Awaits(s) ==
  LET t == latest[RepoOf[s]] IN
  /\ s \in confirmed /\ t > since[s] /\ online /\ ~Hangs
  /\ <<RepoOf[s], t>> \notin lost /\ <<s, t>> \notin Reached \cup Failed
NewsArrive == \A s \in Sub : Awaits(s) ~> ~Awaits(s)

\* The two processes, their queues and their failures do together what NewsPromise
\* says: every step of either is one of its steps or changes nothing about a letter.
News == INSTANCE NewsPromise WITH
  recorded <- lastSeen, due <- Outstanding, mailed <- Reached, failed <- Failed
KeepsNewsPromise == News!Spec
=============================================================================
