--------------------------- MODULE ReleaseScanner ---------------------------
(* The scan job: ScannerService.scanAllRepos over the github-service, the   *)
(* Repo and Subscription tables and the release publisher. A job stands at  *)
(* one of its awaits. It awaits its publish for as long as the publisher    *)
(* waits for the 'drain' of a full buffer, which may be for ever.           *)
EXTENDS GitHubGateway

CONSTANTS
  Sub,     \* subscriptions
  RepoOf,  \* the repository of a subscription
  Job      \* scan jobs

ASSUME ScannerAssumption == RepoOf \in [Sub -> Repo]

VARIABLES
  lastSeen,   \* Repo.lastSeenTag
  confirmed,  \* confirmed subscriptions
  gone,       \* unsubscribed ones
  since,      \* GitHub's latest release when a subscription was confirmed (history)
  scan,       \* each job
  drain,      \* what its publisher waits for, if anything
  announced,  \* how often a release message was published (history)
  told,       \* the releases whose message named a subscription (history)
  lost        \* release messages buffered and never sent (history)

people == <<confirmed, gone, since>>
history == <<announced, told, lost>>
vars == <<latest, cache, call, faults, lastSeen, confirmed, gone, since, scan, drain, announced, told, lost>>

Idle == [pc |-> "idle"]
Row == [id : Repo, lastSeenTag : Tag]
ScanState ==
  {Idle} \cup [pc : {"next"}, left : SUBSET Row]
         \cup [pc : {"waiting"}, left : SUBSET Row, repo : Row, call : Call]
         \cup [pc : {"found", "saving"}, left : SUBSET Row, id : Repo, tag : Tag]
         \cup [pc : {"notifying"}, left : SUBSET Row, id : Repo, tag : Tag, to : SUBSET Sub]

TypeOK ==
  /\ GatewayTypeOK
  /\ lastSeen \in [Repo -> Tag]
  /\ confirmed \subseteq Sub /\ gone \subseteq Sub
  /\ since \in [Sub -> Tag]
  /\ scan \in [Job -> ScanState]
  /\ drain \in [Job -> {"none", "due", "never"}]
  /\ announced \in [Repo \X Tag -> Nat]
  /\ told \in [Sub -> SUBSET Tag]
  /\ lost \subseteq Repo \X Tag

Init ==
  /\ GatewayInit
  /\ lastSeen = [r \in Repo |-> 0]
  /\ confirmed = {} /\ gone = {}
  /\ since = [s \in Sub |-> 0]
  /\ scan = [j \in Job |-> Idle]
  /\ drain = [j \in Job |-> "none"]
  /\ announced = [m \in Repo \X Tag |-> 0]
  /\ told = [s \in Sub |-> {}]
  /\ lost = {}

Confirm(s) ==
  /\ s \notin confirmed \cup gone
  /\ confirmed' = confirmed \cup {s}
  /\ since' = [since EXCEPT ![s] = latest[RepoOf[s]]]
  /\ UNCHANGED <<gatewayVars, lastSeen, gone, scan, drain, history>>

Unsubscribe(s) ==
  /\ s \in confirmed
  /\ confirmed' = confirmed \ {s}
  /\ gone' = gone \cup {s}
  /\ UNCHANGED <<gatewayVars, lastSeen, since, scan, drain, history>>

\* The loop goes on with the repositories of its snapshot, or the job is done.
Proceed(j) ==
  scan' = [scan EXCEPT ![j] =
    IF @.left = {} THEN Idle ELSE [pc |-> "next", left |-> @.left]]

\* The rows with a confirmed subscription.
FindDistinctConfirmed ==
  {[id |-> RepoOf[s], lastSeenTag |-> lastSeen[RepoOf[s]]] : s \in confirmed}

\* Faulty variant: jobs overlap.
StartScanOverlapping(j) ==
  /\ scan[j] = Idle
  /\ FindDistinctConfirmed # {}
  /\ scan' = [scan EXCEPT ![j] = [pc |-> "next", left |-> FindDistinctConfirmed]]
  /\ UNCHANGED <<gatewayVars, lastSeen, people, drain, history>>

\* The worker runs one job at a time.
StartScan(j) ==
  /\ \A k \in Job : scan[k] = Idle
  /\ FindDistinctConfirmed # {}
  /\ scan' = [scan EXCEPT ![j] = [pc |-> "next", left |-> FindDistinctConfirmed]]
  /\ UNCHANGED <<gatewayVars, lastSeen, people, drain, history>>

GetLatestRelease(j) ==
  /\ scan[j].pc = "next"
  /\ \E repo \in scan[j].left, c \in Call :
       /\ Request(c, repo.id)
       /\ scan' = [scan EXCEPT ![j] =
            [pc |-> "waiting", left |-> @.left \ {repo}, repo |-> repo, call |-> c]]
  /\ UNCHANGED <<latest, cache, faults, lastSeen, people, drain, history>>

\* What follows from the answer: nothing to do, the end of the scan on a rate
\* limit, the next repository on any other error, or a tag that is not lastSeenTag.
Receive(j) ==
  /\ scan[j].pc = "waiting"
  /\ LET c == scan[j].call
         repo == scan[j].repo
         reply == call[c].reply
     IN /\ call[c].pc = "answered"
        /\ call' = [call EXCEPT ![c] = Free]
        /\ \/ /\ reply.error # "none" /\ Remote(reply.error) = "RateLimitError"
              /\ scan' = [scan EXCEPT ![j] = Idle]
           \/ /\ reply.error # "none" /\ Remote(reply.error) # "RateLimitError"
              /\ Proceed(j)
           \/ /\ reply.error = "none" /\ reply.release \in {0, repo.lastSeenTag}
              /\ Proceed(j)
           \/ /\ reply.error = "none" /\ reply.release \notin {0, repo.lastSeenTag}
              /\ scan' = [scan EXCEPT ![j] =
                   [pc |-> "found", left |-> @.left, id |-> repo.id, tag |-> reply.release]]
  /\ UNCHANGED <<latest, cache, faults, lastSeen, people, drain, history>>

\* A failing query or publish is an error of this repository only.
Skip(j) ==
  /\ scan[j].pc \in {"found", "notifying", "saving"}
  /\ drain[j] = "none"
  /\ Fault
  /\ Proceed(j)
  /\ UNCHANGED <<latest, cache, call, lastSeen, people, drain, history>>

FindSubscribers(j) ==
  /\ scan[j].pc = "found"
  /\ scan' = [scan EXCEPT ![j] =
       [pc |-> "notifying", left |-> @.left, id |-> @.id, tag |-> @.tag,
        to |-> {s \in confirmed : RepoOf[s] = @.id}]]
  /\ UNCHANGED <<gatewayVars, lastSeen, people, drain, history>>

\* Faulty variant: the event bus swallows the error of its handler.
PublishSwallowsError(j) ==
  /\ scan[j].pc = "notifying"
  /\ LET message == <<scan[j].id, scan[j].tag>> IN
     \/ /\ announced' = [announced EXCEPT ![message] = @ + 1]
        /\ told' = [s \in Sub |-> IF s \in scan[j].to THEN told[s] \cup {scan[j].tag} ELSE told[s]]
        /\ UNCHANGED <<lost, faults>>
     \/ Fault /\ UNCHANGED history
  /\ scan' = [scan EXCEPT ![j] =
       [pc |-> "saving", left |-> @.left, id |-> @.id, tag |-> @.tag]]
  /\ UNCHANGED <<latest, cache, call, lastSeen, people, drain>>

\* The event bus awaits the broker publisher, which returns once the message is
\* buffered and, when that made the buffer full, its channel says 'drain'. A
\* connection that drops may take the message along, and the 'drain' with it.
Publish(j) ==
  /\ scan[j].pc = "notifying"
  /\ LET message == <<scan[j].id, scan[j].tag>> IN
     \/ /\ announced' = [announced EXCEPT ![message] = @ + 1]
        /\ told' = [s \in Sub |-> IF s \in scan[j].to THEN told[s] \cup {scan[j].tag} ELSE told[s]]
        /\ drain' \in {[drain EXCEPT ![j] = wait] : wait \in {"none", "due"}}
        /\ UNCHANGED <<lost, faults>>
     \/ /\ Fault
        /\ lost' = lost \cup {message}
        /\ drain' \in {[drain EXCEPT ![j] = wait] : wait \in {"none", "never"}}
        /\ UNCHANGED <<announced, told>>
  /\ scan' = [scan EXCEPT ![j] =
       [pc |-> "saving", left |-> @.left, id |-> @.id, tag |-> @.tag]]
  /\ UNCHANGED <<latest, cache, call, lastSeen, people>>

Drain(j) ==
  /\ drain[j] = "due"
  /\ drain' = [drain EXCEPT ![j] = "none"]
  /\ UNCHANGED <<gatewayVars, lastSeen, people, scan, history>>

\* The channel of a publish that waits is gone with its connection: nothing
\* settles the promise any more, and the job hangs.
ChannelDies(j) ==
  /\ drain[j] = "due"
  /\ Fault
  /\ drain' = [drain EXCEPT ![j] = "never"]
  /\ UNCHANGED <<latest, cache, call, lastSeen, people, scan, history>>

\* Faulty variant: the tag is not saved.
UpdateForgotten(j) ==
  /\ scan[j].pc = "saving" /\ drain[j] = "none"
  /\ Proceed(j)
  /\ UNCHANGED <<gatewayVars, lastSeen, people, drain, history>>

UpdateLastSeenTag(j) ==
  /\ scan[j].pc = "saving" /\ drain[j] = "none"
  /\ lastSeen' = [lastSeen EXCEPT ![scan[j].id] = scan[j].tag]
  /\ Proceed(j)
  /\ UNCHANGED <<gatewayVars, people, drain, history>>

\* The job is started anew by the next process; the gateway's handlers run on.
MonolithCrash ==
  /\ Fault
  /\ scan' = [j \in Job |-> Idle]
  /\ drain' = [j \in Job |-> "none"]
  /\ Abandon
  /\ UNCHANGED <<latest, cache, lastSeen, people, history>>

ScanStep(j) ==
  \/ GetLatestRelease(j)
  \/ Receive(j)
  \/ Skip(j)
  \/ FindSubscribers(j)
  \/ Publish(j)
  \/ Drain(j)
  \/ UpdateLastSeenTag(j)

Environment ==
  \/ \E s \in Sub : Confirm(s) \/ Unsubscribe(s)
  \/ \E r \in Repo : NewRelease(r) /\ UNCHANGED <<lastSeen, people, scan, drain, history>>

Next ==
  \/ Environment
  \/ \E j \in Job : StartScan(j) \/ ScanStep(j) \/ ChannelDies(j)
  \/ \E c \in Call : GatewayStep(c) /\ UNCHANGED <<lastSeen, people, scan, drain, history>>
  \/ \E r \in Repo : Expire(r) /\ UNCHANGED <<lastSeen, people, scan, drain, history>>
  \/ GatewayCrash /\ UNCHANGED <<lastSeen, people, scan, drain, history>>
  \/ MonolithCrash

Spec == Init /\ [][Next]_vars

\* Jobs come at their interval, promises that settle continue, a live channel
\* drains, GitHub and Redis answer or fail, and the TTL fires. A job that hangs has
\* no step, and with a concurrency of 1 no other job starts.
Fairness ==
  /\ WF_vars(\E j \in Job : StartScan(j) \/ ScanStep(j))
  /\ \A c \in Call : WF_vars(GatewayStep(c) /\ UNCHANGED <<lastSeen, people, scan, drain, history>>)
  /\ \A r \in Repo : WF_vars(Expire(r) /\ UNCHANGED <<lastSeen, people, scan, drain, history>>)
FairSpec == Spec /\ Fairness

-----------------------------------------------------------------------------
(* Properties *)

\* lastSeenTag is only ever a release whose message went to everybody who was
\* confirmed before the release appeared and still is, or was lost on the socket:
\* no failure, crash or stale answer records a release and leaves somebody out.
RecordedWasTold ==
  \A s \in confirmed :
    LET r == RepoOf[s] IN
    lastSeen[r] > since[s] => lastSeen[r] \in told[s] \/ <<r, lastSeen[r]>> \in lost

\* What makes it so. One job at a time; nothing in a table, a cache, a call or a
\* job is a release that GitHub does not have yet; a job waits for the call it
\* made; and what a job has read or published still covers everybody it should,
\* whoever came or went meanwhile, and nobody it should not.
OneScan == \A j, k \in Job : scan[j] # Idle /\ scan[k] # Idle => j = k
Released ==
  /\ \A r \in Repo : lastSeen[r] <= latest[r] /\ cache[r] <= latest[r]
  /\ \A c \in Call :
       /\ call[c].pc = "storing" => call[c].tag <= latest[call[c].repo]
       /\ call[c].pc = "answered" => call[c].reply.release <= latest[call[c].repo]
  /\ \A j \in Job :
       scan[j].pc \in {"found", "notifying", "saving"} => scan[j].tag <= latest[scan[j].id]
Matched ==
  \A j \in Job : scan[j].pc = "waiting" =>
    LET own == call[scan[j].call] IN
    /\ own.pc # "free" /\ own.repo = scan[j].repo.id
    /\ own.pc # "answered" => own.awaited
Concerned(s, r, t) == s \in confirmed /\ RepoOf[s] = r /\ since[s] < t
Covered ==
  \A j \in Job, s \in Sub :
    /\ scan[j].pc = "notifying" /\ Concerned(s, scan[j].id, scan[j].tag) => s \in scan[j].to
    /\ scan[j].pc = "saving" /\ Concerned(s, scan[j].id, scan[j].tag) =>
         scan[j].tag \in told[s] \/ <<scan[j].id, scan[j].tag>> \in lost
Addressed ==
  \A j \in Job :
    /\ scan[j].pc \in {"found", "notifying", "saving"} => scan[j].tag # 0
    /\ scan[j].pc = "notifying" => scan[j].to \subseteq {s \in confirmed \cup gone : RepoOf[s] = scan[j].id}
ScanInvariant == OneScan /\ Released /\ Matched /\ Covered /\ Addressed /\ RecordedWasTold

\* A release is announced once, and once more at the most for each failure.
AnnouncedOnce == \A m \in Repo \X Tag : announced[m] <= 1 + faults

\* Unless something fails, lastSeenTag never goes back to an older release,
\* though releases come out of a cache whose entries expire at any time.
TagsMoveForward == [][faults = 0 => \A r \in Repo : lastSeen'[r] >= lastSeen[r]]_vars

\* A refusal by GitHub ends the scan that met it, though the error crosses the
\* service's response and the monolith's client.
RefusalEndsScan ==
  [][\A j \in Job :
       scan[j].pc = "waiting" /\ scan'[j] # scan[j] =>
         LET answer == call[scan[j].call] IN
         (answer.pc = "answered" /\ answer.reply.error = "RateLimitError") => scan'[j] = Idle]_vars

\* Whoever is confirmed for a repository is told of its latest release sooner or
\* later, unless the message is lost or the subscription ends, or a job hangs on its
\* publish, which stops scanning for good.
Hangs == \E j \in Job : drain[j] = "never"
Due(s) ==
  LET r == RepoOf[s] IN
  /\ s \in confirmed /\ ~Hangs
  /\ latest[r] > since[s] /\ latest[r] \notin told[s] /\ <<r, latest[r]>> \notin lost
NewReleaseIsAnnounced == \A s \in Sub : Due(s) ~> ~Due(s)

\* The letter a subscriber gets about a release says what GitHub said of it: its
\* name, or its tag where there is none, its date and its page, though null and ""
\* do not survive the gRPC response and fields are renamed at every hop.
LettersAreTrue ==
  \A s \in Sub : \A t \in told[s] :
    LET release == Content[RepoOf[s], t] IN
    Letter(Payload(Received(release))) = Letter(Payload(release))

\* The scan over its gateway does what ReleasePromise says: the steps in between
\* change nothing that a subscriber or the table could tell.
Promise == INSTANCE ReleasePromise WITH
  Repo <- Repo, Sub <- Sub, RepoOf <- RepoOf,
  latest <- latest, recorded <- lastSeen, confirmed <- confirmed, gone <- gone,
  since <- since, told <- told, lost <- lost
KeepsReleasePromise == Promise!Spec
=============================================================================
