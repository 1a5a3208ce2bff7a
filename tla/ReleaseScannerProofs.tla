------------------------ MODULE ReleaseScannerProofs ------------------------
(* Proofs about ReleaseScanner, for any repositories, subscriptions, calls  *)
(* and jobs, either transport and any number of faults.                     *)
EXTENDS ReleaseScanner, TLAPS

-----------------------------------------------------------------------------
(* The wire *)

\* A message whose fields are those of its base comes out as it went in.
LEMMA CarriedUnchanged ==
  ASSUME NEW base, NEW message, message = [f \in DOMAIN base |-> message[f]]
  PROVE  Carried(base, message) = message
<1>1. \A f \in DOMAIN base : Carried(base, message)[f] = message[f]
  BY DEF Carried, Decode, Encode
<1>2. Carried(base, message) = [f \in DOMAIN base |-> Carried(base, message)[f]]
  BY DEF Carried, Decode
<1> QED
  BY <1>1, <1>2

\* The service is asked about the scanner's repository, and to use its cache.
LEMMA AskedRight ==
  ASSUME NEW r
  PROVE  Asked(r) = [repo |-> r, bypassCache |-> FALSE]
<1> DEFINE request == [repo |-> r, bypassCache |-> FALSE]
<1>1. request = [f \in DOMAIN GetLatestReleaseRequest |-> request[f]]
  BY DEF GetLatestReleaseRequest
<1>2. Carried(GetLatestReleaseRequest, request) = request
  BY <1>1, CarriedUnchanged
<1> QED
  BY <1>2 DEF Asked

LEMMA RequestAsks ==
  ASSUME NEW c, NEW r, Request(c, r)
  PROVE  /\ call[c] = Free
         /\ call' = [call EXCEPT ![c] = [pc |-> "reading", repo |-> r, awaited |-> TRUE]]
BY AskedRight DEF Request

\* Over gRPC a release keeps all but the difference of null and "".
LEMMA ReleaseOverGrpc ==
  ASSUME NEW release \in GitHubRelease, Transport = "grpc"
  PROVE  /\ Received(release).tag_name = release.tag_name
         /\ Received(release).html_url = release.html_url
         /\ Received(release).name = OrNull(OrEmpty(release.name))
         /\ Received(release).published_at = OrNull(OrEmpty(release.published_at))
<1> DEFINE response == ReleaseToProto(release)
           inner == response.release
<1>1. release # Null
  BY TextAssumption
<1>2. response = [found |-> TRUE, release |-> inner]
      /\ inner = [id |-> release.id, tagName |-> release.tag_name, name |-> OrEmpty(release.name),
                   body |-> OrEmpty(release.body), htmlUrl |-> release.html_url,
                   publishedAt |-> OrEmpty(release.published_at),
                   draft |-> release.draft, prerelease |-> release.prerelease]
  BY <1>1 DEF ReleaseToProto
<1>3. \A text \in Optional : OrEmpty(text) \in Written
  BY DEF Optional, Written, OrEmpty
<1>4. release.tag_name \in Written /\ release.html_url \in Written
  BY DEF GitHubRelease, Written
<1>5. inner \in ReleaseMessage
  BY <1>2, <1>3, <1>4 DEF GitHubRelease, ReleaseMessage
<1>6. inner # Null
  BY <1>5, TextAssumption
<1>7. Carried(GetLatestReleaseResponse, response) = response
  <2>1. response = [f \in DOMAIN GetLatestReleaseResponse |-> response[f]]
    BY <1>2 DEF GetLatestReleaseResponse
  <2> QED
    BY <2>1, CarriedUnchanged
<1>8. Carried(Release, inner) = inner
  <2>1. inner = [f \in DOMAIN Release |-> inner[f]]
    BY <1>2 DEF Release
  <2> QED
    BY <2>1, CarriedUnchanged
<1>9. OverTheWire(response) = response
  BY <1>2, <1>6, <1>7, <1>8 DEF OverTheWire
<1>10. Received(release) = FromProto(response)
  BY <1>9 DEF Received
<1> QED
  BY <1>2, <1>6, <1>10 DEF FromProto

\* Null and "" make the same letter.
LEMMA SameLetter ==
  ASSUME NEW release \in GitHubRelease
  PROVE  /\ Letter(Payload(Received(release))) = Letter(Payload(release))
         /\ Received(release).tag_name = release.tag_name
<1>1. CASE Transport = "grpc"
  <2>1. \A text \in Optional : OrEmpty(OrNull(OrEmpty(text))) = OrEmpty(text)
    BY TextAssumption DEF Optional, OrEmpty, OrNull, Written
  <2>2. \A text \in Optional : /\ OrNull(OrEmpty(text)) \in {Null, ""} <=> text \in {Null, ""}
                               /\ text \notin {Null, ""} => OrNull(OrEmpty(text)) = text
    BY TextAssumption DEF Optional, OrEmpty, OrNull, Written
  <2>3. release.name \in Optional /\ release.published_at \in Optional
    BY DEF GitHubRelease
  <2> QED
    BY <1>1, <2>1, <2>2, <2>3, ReleaseOverGrpc DEF Letter, Payload
<1>2. CASE Transport # "grpc"
  <2>1. release # Null
    BY TextAssumption
  <2> QED
    BY <1>2, <2>1 DEF Received, OverHttp
<1> QED
  BY <1>1, <1>2

-----------------------------------------------------------------------------
(* Types *)

LEMMA GatewayType ==
  ASSUME TypeOK, NEW c \in Call, GatewayStep(c)
  PROVE  GatewayTypeOK'
<1> USE DEF TypeOK, GatewayTypeOK, Answer, Answered, Success, Failure, Error, Fault, Free
<1>1. CASE ReadCache(c)
  BY <1>1 DEF ReadCache, Miss
<1>2. CASE Fetch(c)
  <2>1. 0 \in Tag /\ call[c].repo \in Repo /\ call[c].awaited \in BOOLEAN
    BY <1>2, GatewayAssumption DEF Fetch, Tag
  <2>2. latest[call[c].repo] \in Tag
    BY <2>1
  <2>3. CASE /\ call' = [call EXCEPT ![c] = [pc |-> "storing", repo |-> @.repo, awaited |-> @.awaited,
                                            tag |-> latest[@.repo]]]
             /\ UNCHANGED faults
    BY <1>2, <2>1, <2>2, <2>3 DEF Fetch
  <2>4. ASSUME NEW e \in {"RateLimitError", "AppError"}, Fault, Answer(c, Failure(e))
        PROVE  GatewayTypeOK'
    BY <1>2, <2>1, <2>4 DEF Fetch
  <2> QED
    BY <1>2, <2>3, <2>4 DEF Fetch
<1>3. CASE Store(c)
  BY <1>3 DEF Store
<1> QED
  BY <1>1, <1>2, <1>3 DEF GatewayStep

LEMMA EnvironmentType ==
  ASSUME TypeOK
  PROVE  /\ Environment => TypeOK'
         /\ \A r \in Repo : Expire(r) => GatewayTypeOK'
         /\ GatewayCrash => GatewayTypeOK'
         /\ Abandon => call' \in [Call ->
              {Free} \cup [pc : {"reading", "fetching"}, repo : Repo, awaited : BOOLEAN]
                \cup [pc : {"storing"}, repo : Repo, awaited : BOOLEAN, tag : Tag]]
<1> USE DEF TypeOK, GatewayTypeOK, gatewayVars, history
<1>1. ASSUME NEW s \in Sub, Confirm(s) PROVE TypeOK'
  BY <1>1, ScannerAssumption DEF Confirm
<1>2. ASSUME NEW s \in Sub, Unsubscribe(s) PROVE TypeOK'
  BY <1>2 DEF Unsubscribe
<1>3. ASSUME NEW r \in Repo, NewRelease(r), UNCHANGED <<lastSeen, people, scan, drain, history>>
      PROVE  TypeOK'
  <2>1. latest[r] \in 0 .. MaxTag /\ Releases[r] \in 0 .. MaxTag /\ latest[r] < Releases[r]
    BY <1>3, GatewayAssumption DEF NewRelease, Tag
  <2>2. latest[r] + 1 \in Tag
    BY <2>1, GatewayAssumption DEF Tag
  <2> QED
    BY <1>3, <2>2 DEF NewRelease, people
<1>4. ASSUME NEW r \in Repo, Expire(r) PROVE GatewayTypeOK'
  BY <1>4 DEF Expire
<1>5. ASSUME GatewayCrash PROVE GatewayTypeOK'
  BY <1>5, GatewayAssumption DEF GatewayCrash, Fault, Answered, Failure, Error, Free, Tag
<1>6. ASSUME Abandon PROVE call' \in [Call ->
              {Free} \cup [pc : {"reading", "fetching"}, repo : Repo, awaited : BOOLEAN]
                \cup [pc : {"storing"}, repo : Repo, awaited : BOOLEAN, tag : Tag]]
  <2> SUFFICES ASSUME NEW c \in Call PROVE call'[c] \in
              {Free} \cup [pc : {"reading", "fetching"}, repo : Repo, awaited : BOOLEAN]
                \cup [pc : {"storing"}, repo : Repo, awaited : BOOLEAN, tag : Tag]
    BY <1>6 DEF Abandon
  <2>1. CASE call[c].pc \in {"free", "answered"}
    BY <1>6, <2>1 DEF Abandon
  <2>2. CASE call[c] \in [pc : {"reading", "fetching"}, repo : Repo, awaited : BOOLEAN]
    BY <1>6, <2>2 DEF Abandon
  <2>3. CASE call[c] \in [pc : {"storing"}, repo : Repo, awaited : BOOLEAN, tag : Tag]
    BY <1>6, <2>3 DEF Abandon
  <2> QED
    BY <2>1, <2>2, <2>3 DEF Free
<1> QED
  BY <1>1, <1>2, <1>3, <1>4, <1>5, <1>6 DEF Environment

LEMMA ProceedType ==
  ASSUME TypeOK, NEW j \in Job, scan[j] # Idle, Proceed(j)
  PROVE  scan' \in [Job -> ScanState]
BY DEF TypeOK, Proceed, ScanState, Idle, Row

LEMMA AnswerType ==
  ASSUME GatewayTypeOK, NEW c \in Call, call[c].pc = "answered"
  PROVE  call[c].reply \in [error : Error \cup {"none"}, release : Tag]
<1> DEFINE other == {Free} \cup [pc : {"reading", "fetching"}, repo : Repo, awaited : BOOLEAN]
                    \cup [pc : {"storing"}, repo : Repo, awaited : BOOLEAN, tag : Tag]
           answered == [pc : {"answered"}, repo : Repo,
                        reply : [error : Error \cup {"none"}, release : Tag]]
<1>1. call[c] \in other \cup answered
  BY DEF GatewayTypeOK
<1>2. call[c] \notin other
  BY DEF Free
<1>3. call[c] \in answered
  BY <1>1, <1>2
<1> QED
  BY <1>3

LEMMA ScanType ==
  ASSUME TypeOK, NEW j \in Job, StartScan(j) \/ ScanStep(j)
  PROVE  TypeOK'
<1> USE DEF TypeOK, GatewayTypeOK, gatewayVars, history, people
<1>1. CASE StartScan(j)
  <2>1. FindDistinctConfirmed \subseteq Row
    BY ScannerAssumption DEF FindDistinctConfirmed, Row
  <2> QED
    BY <1>1, <2>1 DEF StartScan, ScanState
<1>2. CASE GetLatestRelease(j)
  <2>1. scan[j].pc = "next" /\ scan[j].left \in SUBSET Row
    BY <1>2 DEF GetLatestRelease, ScanState, Idle
  <2>2. PICK repo \in scan[j].left, c \in Call :
          /\ Request(c, repo.id)
          /\ scan' = [scan EXCEPT ![j] =
               [pc |-> "waiting", left |-> @.left \ {repo}, repo |-> repo, call |-> c]]
    BY <1>2 DEF GetLatestRelease
  <2>3. repo \in Row /\ repo.id \in Repo
    BY <2>1 DEF Row
  <2>4. call' = [call EXCEPT ![c] = [pc |-> "reading", repo |-> repo.id, awaited |-> TRUE]]
    BY <2>2, <2>3, RequestAsks
  <2>5. scan' \in [Job -> ScanState]
    BY <2>1, <2>2, <2>3 DEF ScanState
  <2>6. GatewayTypeOK'
    BY <1>2, <2>3, <2>4 DEF GetLatestRelease
  <2> QED
    BY <1>2, <2>5, <2>6 DEF GetLatestRelease
<1>3. CASE Receive(j)
  <2>1. scan[j] # Idle
    BY <1>3 DEF Receive, Idle
  <2>2. Proceed(j) => scan' \in [Job -> ScanState]
    BY <2>1, ProceedType
  <2>3. scan[j].call \in Call /\ scan[j].repo \in Row /\ scan[j].left \in SUBSET Row
    BY <1>3 DEF Receive, ScanState, Idle
  <2>4. call[scan[j].call].reply.release \in Tag
    <3>1. call[scan[j].call].pc = "answered"
      BY <1>3 DEF Receive
    <3> QED
      BY <2>3, <3>1, AnswerType
  <2>5. scan' \in [Job -> ScanState]
    BY <1>3, <2>2, <2>3, <2>4 DEF Receive, ScanState, Row
  <2>6. GatewayTypeOK'
    BY <1>3, <2>3 DEF Receive, Free
  <2> QED
    BY <1>3, <2>5, <2>6 DEF Receive
<1>4. CASE Skip(j)
  BY <1>4, ProceedType DEF Skip, Fault, Idle
<1>5. CASE FindSubscribers(j)
  <2>1. scan[j].left \in SUBSET Row /\ scan[j].id \in Repo /\ scan[j].tag \in Tag
    BY <1>5 DEF FindSubscribers, ScanState, Idle
  <2>2. scan' \in [Job -> ScanState]
    BY <1>5, <2>1 DEF FindSubscribers, ScanState
  <2> QED
    BY <1>5, <2>2 DEF FindSubscribers
<1>6. CASE Publish(j)
  <2>1. scan[j].tag \in Tag /\ scan[j].id \in Repo /\ scan[j].left \in SUBSET Row
    BY <1>6 DEF Publish, ScanState, Idle
  <2> QED
    <3>1. scan' \in [Job -> ScanState]
      <4>1. scan' = [scan EXCEPT ![j] =
               [pc |-> "saving", left |-> @.left, id |-> @.id, tag |-> @.tag]]
        BY <1>6 DEF Publish
      <4> QED
        BY <2>1, <4>1 DEF ScanState
    <3>2. <<scan[j].id, scan[j].tag>> \in Repo \X Tag
      BY <2>1
    <3>3. announced' \in [Repo \X Tag -> Nat]
      <4> DEFINE message == <<scan[j].id, scan[j].tag>>
      <4>1. \/ announced' = [announced EXCEPT ![message] = @ + 1]
            \/ announced' = announced
        BY <1>6 DEF Publish
      <4>2. announced[message] + 1 \in Nat
        BY <3>2
      <4> QED
        BY <3>2, <4>1, <4>2
    <3>4. told' \in [Sub -> SUBSET Tag]
      <4>1. \/ told' = [s \in Sub |-> IF s \in scan[j].to THEN told[s] \cup {scan[j].tag} ELSE told[s]]
            \/ told' = told
        BY <1>6 DEF Publish
      <4> QED
        BY <2>1, <4>1
    <3>5. lost' \subseteq Repo \X Tag
      BY <1>6, <3>2 DEF Publish
    <3>6. GatewayTypeOK'
      BY <1>6 DEF Publish, Fault
    <3>7. drain' \in [Job -> {"none", "due", "never"}]
      BY <1>6 DEF Publish
    <3> QED
      BY <1>6, <3>1, <3>3, <3>4, <3>5, <3>6, <3>7 DEF Publish
<1>7. CASE UpdateLastSeenTag(j)
  <2>1. scan[j].tag \in Tag /\ scan[j] # Idle
    BY <1>7 DEF UpdateLastSeenTag, ScanState, Idle
  <2> QED
    BY <1>7, <2>1, ProceedType DEF UpdateLastSeenTag
<1>8. CASE Drain(j)
  BY <1>8 DEF Drain
<1> QED
  BY <1>1, <1>2, <1>3, <1>4, <1>5, <1>6, <1>7, <1>8 DEF ScanStep

LEMMA TypeStep ==
  ASSUME TypeOK, [Next]_vars
  PROVE  TypeOK'
<1>1. CASE UNCHANGED vars
  BY <1>1 DEF TypeOK, GatewayTypeOK, vars
<1>2. CASE Environment
  BY <1>2, EnvironmentType
<1>3. ASSUME NEW j \in Job, StartScan(j) \/ ScanStep(j) PROVE TypeOK'
  BY <1>3, ScanType
<1>4. ASSUME NEW c \in Call, GatewayStep(c), UNCHANGED <<lastSeen, people, scan, drain, history>>
      PROVE  TypeOK'
  BY <1>4, GatewayType DEF TypeOK, people, history
<1>5. ASSUME NEW r \in Repo, Expire(r), UNCHANGED <<lastSeen, people, scan, drain, history>>
      PROVE  TypeOK'
  BY <1>5, EnvironmentType DEF TypeOK, people, history
<1>6. CASE GatewayCrash /\ UNCHANGED <<lastSeen, people, scan, drain, history>>
  BY <1>6, EnvironmentType DEF TypeOK, people, history
<1>7. CASE MonolithCrash
  BY <1>7, EnvironmentType DEF MonolithCrash, TypeOK, GatewayTypeOK, people, history, Fault, ScanState
<1>8. ASSUME NEW j \in Job, ChannelDies(j) PROVE TypeOK'
  BY <1>8 DEF ChannelDies, TypeOK, GatewayTypeOK, people, history, Fault
<1> QED
  BY <1>1, <1>2, <1>3, <1>4, <1>5, <1>6, <1>7, <1>8 DEF Next

\* Every variable keeps its type; in particular every tag that moves through the
\* cache, a call, a job and the table stays a release of GitHub's.
THEOREM TypeCorrect == Spec => []TypeOK
<1>1. Init => TypeOK
  BY GatewayAssumption DEF Init, GatewayInit, TypeOK, GatewayTypeOK, Tag, Miss, ScanState
<1>2. TypeOK /\ [Next]_vars => TypeOK'
  BY TypeStep
<1> QED
  BY <1>1, <1>2, PTL DEF Spec

-----------------------------------------------------------------------------
(* The scan *)

\* GitHub's latest release only moves forward; only a confirmation adds to those
\* concerned by a release, and none that GitHub already has.
LEMMA Forward ==
  ASSUME TypeOK, [Next]_vars
  PROVE  /\ \A r \in Repo : latest[r] \in Nat /\ latest'[r] \in Nat /\ latest'[r] >= latest[r]
         /\ \A s \in Sub, t \in Tag :
              t <= latest[RepoOf[s]] /\ s \in confirmed' /\ since'[s] < t =>
                Concerned(s, RepoOf[s], t)
         /\ \A s \in Sub : told[s] \subseteq told'[s]
         /\ lost \subseteq lost'
<1> USE DEF vars, gatewayVars, people, history
<1>0. TypeOK'
  BY TypeStep
<1>1. \A r \in Repo : latest[r] \in Nat /\ latest'[r] \in Nat
  BY <1>0 DEF TypeOK, GatewayTypeOK, Tag
<1>2. \A r \in Repo : latest'[r] >= latest[r]
  <2>1. ASSUME NEW q \in Repo, NewRelease(q) PROVE \A r \in Repo : latest'[r] >= latest[r]
    BY <1>1, <2>1 DEF NewRelease, TypeOK, GatewayTypeOK
  <2>2. latest' = latest \/ \E q \in Repo : NewRelease(q)
    BY DEF Next, Environment, Confirm, Unsubscribe, StartScan, ScanStep, GetLatestRelease, Receive,
           Skip, FindSubscribers, Publish, Drain, ChannelDies, UpdateLastSeenTag, GatewayStep, ReadCache, Fetch, Store,
           Expire, GatewayCrash, MonolithCrash
  <2> QED
    BY <1>1, <2>1, <2>2
<1>3. \/ \E s \in Sub : Confirm(s) \/ Unsubscribe(s)
      \/ UNCHANGED people
  BY DEF Next, Environment, StartScan, ScanStep, GetLatestRelease, Receive,
         Skip, FindSubscribers, Publish, Drain, ChannelDies, UpdateLastSeenTag, MonolithCrash
<1>4. ASSUME NEW s \in Sub, NEW t \in Tag, t <= latest[RepoOf[s]],
             s \in confirmed', since'[s] < t
      PROVE  Concerned(s, RepoOf[s], t)
  <2>1. CASE UNCHANGED people
    BY <1>4, <2>1 DEF Concerned
  <2>2. ASSUME NEW q \in Sub, Unsubscribe(q) PROVE Concerned(s, RepoOf[s], t)
    BY <1>4, <2>2 DEF Concerned, Unsubscribe
  <2>3. ASSUME NEW q \in Sub, Confirm(q) PROVE Concerned(s, RepoOf[s], t)
    <3>1. CASE q = s
      <4>1. since'[s] = latest[RepoOf[s]]
        BY <2>3, <3>1 DEF Confirm, TypeOK
      <4>2. latest[RepoOf[s]] \in Nat /\ t \in Nat
        BY <1>1, ScannerAssumption DEF Tag
      <4> QED
        BY <1>4, <4>1, <4>2 DEF Concerned
    <3>2. CASE q # s
      BY <1>4, <2>3, <3>2 DEF Concerned, Confirm, TypeOK
    <3> QED
      BY <3>1, <3>2
  <2> QED
    BY <1>3, <2>1, <2>2, <2>3
<1>5. (\E j \in Job : Publish(j)) \/ UNCHANGED <<told, lost>>
  BY DEF Next, Environment, Confirm, Unsubscribe, StartScan, ScanStep, GetLatestRelease, Receive,
         Skip, FindSubscribers, Drain, ChannelDies, UpdateLastSeenTag, MonolithCrash
<1>6. (\A s \in Sub : told[s] \subseteq told'[s]) /\ lost \subseteq lost'
  BY <1>5 DEF Publish
<1> QED
  BY <1>1, <1>2, <1>4, <1>6

LEMMA ScanShape ==
  ASSUME NEW x \in ScanState
  PROVE  /\ x.pc \in {"found", "notifying", "saving"} => x.tag \in Tag /\ x.id \in Repo
         /\ x.pc = "waiting" => x.call \in Call /\ x.repo \in Row
         /\ x.pc = "notifying" => x.to \subseteq Sub
         /\ x.pc = "idle" => x = Idle
<1>1. CASE x = Idle
  BY <1>1 DEF Idle
<1>2. CASE x \in [pc : {"next"}, left : SUBSET Row]
  BY <1>2
<1>3. CASE x \in [pc : {"waiting"}, left : SUBSET Row, repo : Row, call : Call]
  BY <1>3
<1>4. CASE x \in [pc : {"found", "saving"}, left : SUBSET Row, id : Repo, tag : Tag]
  BY <1>4
<1>5. CASE x \in [pc : {"notifying"}, left : SUBSET Row, id : Repo, tag : Tag, to : SUBSET Sub]
  BY <1>5
<1> QED
  BY <1>1, <1>2, <1>3, <1>4, <1>5 DEF ScanState

\* A job moves by its own steps, or a crash ends it.
LEMMA ScanMoves ==
  ASSUME TypeOK, [Next]_vars, NEW j \in Job
  PROVE  scan'[j] = scan[j] \/ StartScan(j) \/ ScanStep(j) \/ (MonolithCrash /\ scan'[j] = Idle)
<1>1. ASSUME NEW k \in Job, k # j, StartScan(k) \/ ScanStep(k) PROVE scan'[j] = scan[j]
  BY <1>1 DEF StartScan, ScanStep, GetLatestRelease, Receive, Skip, FindSubscribers, Publish,
              Drain, UpdateLastSeenTag, Proceed, TypeOK
<1>2. ASSUME MonolithCrash PROVE scan'[j] = Idle
  BY <1>2 DEF MonolithCrash
<1>3. UNCHANGED scan \/ MonolithCrash \/ \E k \in Job : StartScan(k) \/ ScanStep(k)
  BY DEF Next, Environment, Confirm, Unsubscribe, ChannelDies, vars
<1> QED
  BY <1>1, <1>2, <1>3

\* Where the steps of a job lead.
LEMMA ScanStages ==
  ASSUME TypeOK, NEW j \in Job
  PROVE  /\ StartScan(j) => scan'[j].pc = "next"
         /\ GetLatestRelease(j) => scan'[j].pc = "waiting"
         /\ Receive(j) => scan'[j].pc \in {"idle", "next", "found"}
         /\ Skip(j) \/ UpdateLastSeenTag(j) => scan'[j].pc \in {"idle", "next"}
         /\ FindSubscribers(j) => scan'[j].pc = "notifying"
         /\ Publish(j) => scan'[j].pc = "saving"
         /\ Drain(j) => scan'[j] = scan[j]
BY DEF StartScan, GetLatestRelease, Receive, Skip, UpdateLastSeenTag, FindSubscribers, Publish,
       Drain, Proceed, Idle, TypeOK

LEMMA OneScanKept ==
  ASSUME TypeOK, OneScan, [Next]_vars
  PROVE  OneScan'
<1> USE DEF OneScan, TypeOK, people, gatewayVars
<1>1. CASE UNCHANGED scan
  BY <1>1
<1>2. ASSUME NEW j \in Job, StartScan(j) PROVE OneScan'
  BY <1>2 DEF StartScan
<1>3. ASSUME NEW j \in Job, ScanStep(j) PROVE OneScan'
  <2>1. CASE Drain(j)
    BY <1>1, <2>1 DEF Drain
  <2>2. CASE ~Drain(j)
    <3>1. scan[j] # Idle /\ \A k \in Job \ {j} : scan'[k] = scan[k]
      BY <1>3, <2>2 DEF ScanStep, GetLatestRelease, Receive, Skip, FindSubscribers, Publish,
                        UpdateLastSeenTag, Proceed, Idle
    <3> QED
      BY <3>1
  <2> QED
    BY <2>1, <2>2
<1>4. CASE MonolithCrash
  BY <1>4 DEF MonolithCrash
<1> QED
  BY <1>1, <1>2, <1>3, <1>4 DEF Next, Environment, Confirm, Unsubscribe, ChannelDies, vars

\* A call's step answers with a release that GitHub has, and hands its caller an
\* answer about the repository it asked for.
LEMMA CallStep ==
  ASSUME TypeOK, Released, NEW c \in Call, GatewayStep(c)
  PROVE  /\ latest' = latest
         /\ \A r \in Repo : cache'[r] <= latest[r]
         /\ \A d \in Call \ {c} : call'[d] = call[d]
         /\ call[c].pc \in {"reading", "fetching", "storing"}
         /\ call'[c] = Free \/ call'[c].repo = call[c].repo
         /\ call'[c].pc = "storing" => call'[c].tag <= latest[call[c].repo]
         /\ call'[c].pc = "answered" => call'[c].reply.release <= latest[call[c].repo]
         /\ call[c].awaited => call'[c].pc # "free" /\ (call'[c].pc # "answered" => call'[c].awaited)
<1> USE DEF Released, TypeOK, GatewayTypeOK, Answer, Answered, Success, Failure, Free
<1>1. /\ call[c].pc \in {"reading", "fetching", "storing"} /\ call[c].repo \in Repo
      /\ latest' = latest /\ \A d \in Call \ {c} : call'[d] = call[d]
  BY DEF GatewayStep, ReadCache, Fetch, Store
<1>2. latest[call[c].repo] \in Nat /\ latest[call[c].repo] >= 0
  BY <1>1 DEF Tag
<1>3. CASE ReadCache(c)
  BY <1>1, <1>2, <1>3 DEF ReadCache
<1>4. CASE Fetch(c)
  BY <1>1, <1>2, <1>4 DEF Fetch
<1>5. CASE Store(c)
  BY <1>1, <1>2, <1>5 DEF Store
<1> QED
  BY <1>3, <1>4, <1>5, <1>1 DEF GatewayStep

LEMMA ReleasedKept ==
  ASSUME TypeOK, Released, Matched, [Next]_vars
  PROVE  Released'
<1>1. TypeOK' /\ \A r \in Repo : latest[r] \in Nat /\ latest'[r] \in Nat /\ latest'[r] >= latest[r]
  BY TypeStep, Forward
<1>2. Tag \subseteq Nat
  BY DEF Tag
<1> USE DEF vars, people, history, gatewayVars
<1>3. \A r \in Repo : lastSeen'[r] <= latest'[r]
  <2>1. ASSUME NEW j \in Job, UpdateLastSeenTag(j) PROVE \A r \in Repo : lastSeen'[r] <= latest[r]
    BY <2>1, <1>1 DEF UpdateLastSeenTag, Released, TypeOK, ScanState, Idle
  <2>2. lastSeen' = lastSeen \/ \E j \in Job : UpdateLastSeenTag(j)
    BY DEF Next, Environment, Confirm, Unsubscribe, StartScan, ScanStep, GetLatestRelease, Receive,
           Skip, FindSubscribers, Publish, Drain, ChannelDies, MonolithCrash
  <2>3. \A r \in Repo : lastSeen'[r] <= latest[r]
    BY <2>1, <2>2 DEF Released
  <2>4. \A r \in Repo : lastSeen'[r] \in Nat
    BY <1>1, <1>2 DEF TypeOK
  <2> QED
    BY <1>1, <2>3, <2>4
<1>4. \A r \in Repo : cache'[r] <= latest'[r]
  <2>1. ASSUME NEW q \in Repo, Expire(q) PROVE \A r \in Repo : cache'[r] <= latest[r]
    BY <2>1, <1>1 DEF Expire, Released, TypeOK, GatewayTypeOK, Miss
  <2>2. \/ cache' = cache \/ (\E q \in Repo : Expire(q)) \/ (\E c \in Call : GatewayStep(c))
    BY DEF Next, Environment, Confirm, Unsubscribe, NewRelease, StartScan, ScanStep, GetLatestRelease,
           Receive, Skip, FindSubscribers, Publish, Drain, ChannelDies, UpdateLastSeenTag, MonolithCrash, GatewayCrash
  <2>3. \A r \in Repo : cache'[r] <= latest[r]
    BY <2>1, <2>2, CallStep DEF Released
  <2>4. \A r \in Repo : cache'[r] \in Int
    <3>1. Tag \cup {Miss} \subseteq Int
      BY DEF Tag, Miss
    <3>2. cache' \in [Repo -> Tag \cup {Miss}]
      BY <1>1 DEF TypeOK, GatewayTypeOK
    <3> QED
      BY <3>1, <3>2
  <2> QED
    BY <1>1, <2>3, <2>4
<1>5. ASSUME NEW c \in Call
      PROVE  /\ call'[c].pc = "storing" => call'[c].tag <= latest'[call'[c].repo]
             /\ call'[c].pc = "answered" => call'[c].reply.release <= latest'[call'[c].repo]
  <2> DEFINE Fine(x, f) == /\ x.pc = "storing" => x.tag <= f[x.repo]
                           /\ x.pc = "answered" => x.reply.release <= f[x.repo]
  <2>1. Fine(call[c], latest)
    BY DEF Released
  <2>2. Fine(call[c], latest')
    <3>1. CASE call[c].pc = "storing"
      <4>1. call[c].tag \in Tag /\ call[c].repo \in Repo
        BY <3>1 DEF TypeOK, GatewayTypeOK, Free
      <4>2. call[c].tag <= latest[call[c].repo]
        BY <2>1, <3>1
      <4>3. latest[call[c].repo] \in Nat /\ latest'[call[c].repo] \in Nat
            /\ latest'[call[c].repo] >= latest[call[c].repo]
        BY <1>1, <4>1
      <4>4. call[c].tag \in Nat
        BY <1>2, <4>1
      <4>5. call[c].tag <= latest'[call[c].repo]
        BY <4>2, <4>3, <4>4
      <4> QED
        BY <3>1, <4>5
    <3>2. CASE call[c].pc = "answered"
      <4>1. call[c].reply.release \in Tag /\ call[c].repo \in Repo
        <5>1. call[c].repo \in Repo
          BY <3>2 DEF TypeOK, GatewayTypeOK, Free
        <5> QED
          BY <3>2, <5>1, AnswerType DEF TypeOK
      <4>2. call[c].reply.release <= latest[call[c].repo]
        BY <2>1, <3>2
      <4>3. latest[call[c].repo] \in Nat /\ latest'[call[c].repo] \in Nat
            /\ latest'[call[c].repo] >= latest[call[c].repo]
        BY <1>1, <4>1
      <4>4. call[c].reply.release \in Nat
        BY <1>2, <4>1
      <4>5. call[c].reply.release <= latest'[call[c].repo]
        BY <4>2, <4>3, <4>4
      <4> QED
        BY <3>2, <4>5
    <3> QED
      BY <3>1, <3>2
  <2>3. CASE call'[c] = call[c]
    BY <2>2, <2>3
  <2>4. ASSUME NEW d \in Call, GatewayStep(d) PROVE Fine(call'[c], latest')
    <3>1. CASE d = c
      BY <2>4, <3>1, CallStep DEF Free
    <3>2. CASE d # c
      BY <2>2, <2>4, <3>2, CallStep
    <3> QED
      BY <3>1, <3>2
  <2>5. ASSUME NEW j \in Job, GetLatestRelease(j) PROVE Fine(call'[c], latest')
    BY <2>2, <2>5, RequestAsks DEF GetLatestRelease, TypeOK, GatewayTypeOK
  <2>6. ASSUME NEW j \in Job, Receive(j) PROVE Fine(call'[c], latest')
    BY <2>2, <2>6 DEF Receive, TypeOK, GatewayTypeOK, Free
  <2>7. CASE GatewayCrash
    <3>1. call'[c].pc # "storing"
      BY <2>7 DEF GatewayCrash, Answered, Free, TypeOK, GatewayTypeOK
    <3>2. CASE call[c].pc \in {"free", "answered"}
      BY <2>2, <2>7, <3>2 DEF GatewayCrash
    <3>3. CASE call[c].pc \notin {"free", "answered"}
      <4>1. call[c].repo \in Repo /\ latest'[call[c].repo] \in Nat
        BY <1>1, <3>3 DEF TypeOK, GatewayTypeOK, Free
      <4> QED
        BY <2>7, <3>1, <3>3, <4>1 DEF GatewayCrash, Answered, Failure, Free
    <3> QED
      BY <3>2, <3>3
  <2>8. CASE MonolithCrash
    <3>1. CASE call[c].pc \in {"free", "answered"}
      BY <2>8, <3>1 DEF MonolithCrash, Abandon, Free
    <3>2. CASE call[c].pc \notin {"free", "answered"}
      BY <2>2, <2>8, <3>2 DEF MonolithCrash, Abandon, TypeOK, GatewayTypeOK, Free
    <3> QED
      BY <3>1, <3>2
  <2>9. \/ call' = call \/ (\E d \in Call : GatewayStep(d)) \/ GatewayCrash \/ MonolithCrash
        \/ \E j \in Job : GetLatestRelease(j) \/ Receive(j)
    BY DEF Next, Environment, Confirm, Unsubscribe, NewRelease, StartScan, ScanStep,
           Skip, FindSubscribers, Publish, Drain, ChannelDies, UpdateLastSeenTag, Expire
  <2> QED
    BY <2>3, <2>4, <2>5, <2>6, <2>7, <2>8, <2>9
<1>6. ASSUME NEW j \in Job, scan'[j].pc \in {"found", "notifying", "saving"}
      PROVE  scan'[j].tag <= latest'[scan'[j].id]
  <2>1. scan'[j].tag \in Nat /\ scan'[j].id \in Repo
    BY <1>1, <1>2, <1>6, ScanShape DEF TypeOK
  <2> SUFFICES scan'[j].tag <= latest[scan'[j].id]
    BY <1>1, <2>1
  <2>2. CASE scan'[j] = scan[j]
    BY <1>6, <2>2 DEF Released
  <2>3. CASE Receive(j)
    <3>1. scan[j].repo.id = call[scan[j].call].repo /\ scan[j].call \in Call /\ scan[j].pc = "waiting"
      BY <2>3 DEF Receive, Matched, TypeOK, ScanState, Idle
    <3>2. scan'[j].tag = call[scan[j].call].reply.release /\ scan'[j].id = scan[j].repo.id
      BY <1>6, <2>3 DEF Receive, Proceed, TypeOK, Idle
    <3> QED
      BY <2>3, <3>1, <3>2 DEF Receive, Released
  <2>4. CASE FindSubscribers(j) \/ Publish(j)
    BY <2>4 DEF FindSubscribers, Publish, Released, TypeOK
  <2>5. \/ scan'[j] = scan[j] \/ scan'[j].pc \notin {"found", "notifying", "saving"}
        \/ Receive(j) \/ FindSubscribers(j) \/ Publish(j)
    BY ScanMoves, ScanStages DEF ScanStep, Idle
  <2> QED
    BY <1>6, <2>2, <2>3, <2>4, <2>5
<1> QED
  BY <1>3, <1>4, <1>5, <1>6 DEF Released

LEMMA MatchedKept ==
  ASSUME TypeOK, Released, Matched, OneScan, [Next]_vars
  PROVE  Matched'
<1> USE DEF vars, people, history, gatewayVars
<1>1. SUFFICES ASSUME NEW j \in Job, scan'[j].pc = "waiting"
               PROVE  LET own == call'[scan'[j].call] IN
                      /\ own.pc # "free" /\ own.repo = scan'[j].repo.id
                      /\ own.pc # "answered" => own.awaited
  BY DEF Matched
<1>2. CASE GetLatestRelease(j)
  BY <1>1, <1>2, RequestAsks DEF GetLatestRelease, TypeOK, GatewayTypeOK
<1>3. ASSUME ~GetLatestRelease(j)
      PROVE  scan'[j] = scan[j]
  BY <1>1, <1>3, ScanMoves, ScanStages DEF ScanStep, Idle
<1>4. CASE scan'[j] = scan[j]
  <2> DEFINE c == scan[j].call
  <2>1. /\ c \in Call /\ call[c].pc # "free" /\ call[c].repo = scan[j].repo.id
        /\ call[c].pc # "answered" => call[c].awaited
    BY <1>1, <1>4 DEF Matched, TypeOK, ScanState, Idle
  <2>2. CASE call'[c] = call[c]
    BY <1>4, <2>1, <2>2
  <2>3. ASSUME NEW d \in Call, GatewayStep(d) PROVE call'[c] = call[c] \/ d = c
    BY <2>1, <2>3, CallStep
  <2>4. CASE GatewayStep(c)
    <3>1. /\ call[c].pc \in {"reading", "fetching", "storing"}
          /\ call'[c] = Free \/ call'[c].repo = call[c].repo
          /\ call[c].awaited => call'[c].pc # "free" /\ (call'[c].pc # "answered" => call'[c].awaited)
      BY <2>1, <2>4, CallStep
    <3> QED
      BY <1>4, <2>1, <3>1 DEF Free
  <2>5. CASE GatewayCrash
    BY <1>4, <2>1, <2>5 DEF GatewayCrash, Answered, Free
  <2>6. ~MonolithCrash
    BY <1>1 DEF MonolithCrash, Idle
  <2>7. ASSUME NEW k \in Job, Receive(k) PROVE FALSE
    <3>1. k = j
      BY <1>1, <1>4, <2>7 DEF OneScan, Receive, Idle
    <3> QED
      BY <1>1, <2>7, <3>1 DEF Receive, Proceed, Idle, TypeOK
  <2>8. ASSUME NEW k \in Job, GetLatestRelease(k) PROVE call'[c] = call[c]
    BY <2>1, <2>8, RequestAsks DEF GetLatestRelease, Free, TypeOK, GatewayTypeOK
  <2>9. \/ call' = call \/ (\E d \in Call : GatewayStep(d)) \/ GatewayCrash \/ MonolithCrash
        \/ \E k \in Job : GetLatestRelease(k) \/ Receive(k)
    BY DEF Next, Environment, Confirm, Unsubscribe, NewRelease, StartScan, ScanStep,
           Skip, FindSubscribers, Publish, Drain, ChannelDies, UpdateLastSeenTag, Expire
  <2> QED
    BY <2>2, <2>3, <2>4, <2>5, <2>6, <2>7, <2>8, <2>9
<1> QED
  BY <1>2, <1>3, <1>4

LEMMA CoveredKept ==
  ASSUME TypeOK, Released, Covered, [Next]_vars
  PROVE  Covered'
<1> USE DEF vars, people, history, gatewayVars
<1>1. TypeOK'
  BY TypeStep
<1>2. SUFFICES ASSUME NEW j \in Job, NEW s \in Sub, scan'[j].pc \in {"notifying", "saving"},
                      s \in confirmed', RepoOf[s] = scan'[j].id, since'[s] < scan'[j].tag
               PROVE  /\ scan'[j].pc = "notifying" => s \in scan'[j].to
                      /\ scan'[j].pc = "saving" =>
                           scan'[j].tag \in told'[s] \/ <<scan'[j].id, scan'[j].tag>> \in lost'
  BY DEF Covered, Concerned
<1> DEFINE t == scan'[j].tag
<1>3. t \in Tag
  BY <1>1, <1>2, ScanShape DEF TypeOK
<1>4. scan'[j] = scan[j] \/ FindSubscribers(j) \/ Publish(j)
  BY <1>2, ScanMoves, ScanStages DEF ScanStep, Idle
<1>5. scan[j].pc \in {"found", "notifying", "saving"} /\ scan[j].id = scan'[j].id /\ scan[j].tag = t
  BY <1>2, <1>4 DEF FindSubscribers, Publish, TypeOK
<1>6. t <= latest[RepoOf[s]]
  BY <1>2, <1>5 DEF Released
<1>7. Concerned(s, RepoOf[s], t)
  BY <1>2, <1>3, <1>6, Forward
<1>8. CASE scan'[j] = scan[j]
  <2>1. /\ scan[j].pc = "notifying" => s \in scan[j].to
        /\ scan[j].pc = "saving" => t \in told[s] \/ <<scan[j].id, t>> \in lost
    BY <1>2, <1>7, <1>8 DEF Covered
  <2> QED
    BY <1>8, <2>1, Forward
<1>9. CASE FindSubscribers(j)
  BY <1>2, <1>7, <1>9 DEF FindSubscribers, Concerned, TypeOK
<1>10. CASE Publish(j)
  <2>1. s \in scan[j].to
    BY <1>2, <1>5, <1>7, <1>10 DEF Covered, Publish
  <2> QED
    BY <1>5, <1>10, <2>1 DEF Publish, TypeOK
<1> QED
  BY <1>4, <1>8, <1>9, <1>10

LEMMA AddressedKept ==
  ASSUME TypeOK, Addressed, [Next]_vars
  PROVE  Addressed'
<1> USE DEF vars, people, history, gatewayVars
<1>1. confirmed \cup gone \subseteq confirmed' \cup gone'
  BY DEF Next, Environment, Confirm, Unsubscribe, StartScan, ScanStep, GetLatestRelease, Receive,
         Skip, FindSubscribers, Publish, Drain, ChannelDies, UpdateLastSeenTag, MonolithCrash
<1>2. SUFFICES ASSUME NEW j \in Job, scan'[j].pc \in {"found", "notifying", "saving"}
               PROVE  /\ scan'[j].tag # 0
                      /\ scan'[j].pc = "notifying" =>
                           scan'[j].to \subseteq {s \in confirmed' \cup gone' : RepoOf[s] = scan'[j].id}
  BY DEF Addressed
<1>3. \/ scan'[j] = scan[j] \/ Receive(j) \/ FindSubscribers(j) \/ Publish(j)
  BY <1>2, ScanMoves, ScanStages DEF ScanStep, Idle
<1>4. CASE scan'[j] = scan[j]
  BY <1>1, <1>2, <1>4 DEF Addressed
<1>5. CASE Receive(j)
  <2>1. scan'[j].pc \in {"idle", "next", "found"}
    BY <1>5, ScanStages
  <2> QED
    BY <1>2, <1>5, <2>1 DEF Receive, Proceed, Idle, TypeOK
<1>6. CASE FindSubscribers(j)
  BY <1>1, <1>6 DEF FindSubscribers, Addressed, TypeOK
<1>7. CASE Publish(j)
  BY <1>7 DEF Publish, Addressed, TypeOK
<1> QED
  BY <1>3, <1>4, <1>5, <1>6, <1>7

LEMMA RecordedKept ==
  ASSUME TypeOK, Released, Covered, RecordedWasTold, [Next]_vars
  PROVE  RecordedWasTold'
<1> USE DEF vars, people, history, gatewayVars
<1>1. TypeOK'
  BY TypeStep
<1>2. SUFFICES ASSUME NEW s \in Sub, s \in confirmed', lastSeen'[RepoOf[s]] > since'[s]
               PROVE  \/ lastSeen'[RepoOf[s]] \in told'[s]
                      \/ <<RepoOf[s], lastSeen'[RepoOf[s]]>> \in lost'
  BY <1>1 DEF RecordedWasTold, TypeOK
<1> DEFINE r == RepoOf[s]
           t == lastSeen'[r]
<1>3. r \in Repo /\ t \in Tag
  BY <1>1, ScannerAssumption DEF TypeOK
<1>4. since'[s] < t
  BY <1>1, <1>2, <1>3 DEF TypeOK, Tag
<1>5. CASE t = lastSeen[r]
  <2>1. t <= latest[r]
    BY <1>3, <1>5 DEF Released
  <2>2. Concerned(s, r, t)
    BY <1>2, <1>3, <1>4, <2>1, Forward
  <2>3. s \in confirmed /\ lastSeen[r] > since[s]
    BY <1>3, <1>5, <2>2 DEF Concerned, TypeOK, Tag
  <2>4. t \in told[s] \/ <<r, t>> \in lost
    BY <1>5, <2>3 DEF RecordedWasTold
  <2> QED
    BY <2>4, Forward
<1>6. ASSUME NEW j \in Job, UpdateLastSeenTag(j), t # lastSeen[r]
      PROVE  t \in told'[s] \/ <<r, t>> \in lost'
  <2>1. scan[j].pc = "saving" /\ scan[j].id = r /\ scan[j].tag = t
    BY <1>3, <1>6 DEF UpdateLastSeenTag, TypeOK
  <2>2. t <= latest[r]
    BY <2>1 DEF Released
  <2>3. Concerned(s, r, t)
    BY <1>2, <1>3, <1>4, <2>2, Forward
  <2>4. t \in told[s] \/ <<r, t>> \in lost
    BY <2>1, <2>3 DEF Covered
  <2> QED
    BY <2>4, Forward
<1>7. lastSeen' = lastSeen \/ \E j \in Job : UpdateLastSeenTag(j)
  BY DEF Next, Environment, Confirm, Unsubscribe, StartScan, ScanStep, GetLatestRelease, Receive,
         Skip, FindSubscribers, Publish, Drain, ChannelDies, MonolithCrash
<1> QED
  BY <1>5, <1>6, <1>7

\* One job at a time, no release from the future, each job with its own call, and
\* what a job has read or published still covers everybody concerned: the
\* strengthening of RecordedWasTold is inductive.
THEOREM ScanInvariantCorrect == Spec => []ScanInvariant
<1>1. Init => ScanInvariant
  BY GatewayAssumption, ScannerAssumption
     DEF Init, GatewayInit, ScanInvariant, OneScan, Released, Matched, Covered, Addressed, RecordedWasTold,
         Idle, Free, Miss
<1>2. TypeOK /\ ScanInvariant /\ [Next]_vars => ScanInvariant'
  BY OneScanKept, ReleasedKept, MatchedKept, CoveredKept, AddressedKept, RecordedKept DEF ScanInvariant
<1> QED
  BY <1>1, <1>2, TypeCorrect, PTL DEF Spec

\* The tag of the Repo row was published to everybody who was confirmed before the
\* release and still is, unless its message was lost in the socket's buffer:
\* through stale answers, failing calls, crashes and orphaned handlers.
THEOREM RecordedCorrect == Spec => []RecordedWasTold
<1>1. ScanInvariant => RecordedWasTold
  BY DEF ScanInvariant
<1> QED
  BY <1>1, ScanInvariantCorrect, PTL

\* Over gRPC as over HTTP a RateLimitError is one again in the monolith, so that
\* the scan which met it makes no further call.
THEOREM RefusalCorrect == Spec => RefusalEndsScan
<1>1. Remote("RateLimitError") = "RateLimitError"
  BY TransportAssumption DEF Remote, StatusCode, GrpcStatus, MapGrpcError, ThrowFromResponse
<1>2. ASSUME TypeOK, OneScan, [Next]_vars, NEW j \in Job, scan[j].pc = "waiting", scan'[j] # scan[j],
             call[scan[j].call].pc = "answered", call[scan[j].call].reply.error = "RateLimitError"
      PROVE  scan'[j] = Idle
  <2>1. Receive(j) \/ MonolithCrash
    <3>1. ScanStep(j) => Receive(j)
      BY <1>2 DEF ScanStep, GetLatestRelease, Skip, FindSubscribers, Publish, Drain, UpdateLastSeenTag
    <3>2. scan[j] # Idle
      BY <1>2 DEF Idle
    <3> QED
      BY <1>2, <3>1, <3>2, ScanMoves DEF StartScan
  <2>2. CASE Receive(j)
    BY <1>1, <1>2, <2>2 DEF Receive, TypeOK
  <2>3. CASE MonolithCrash
    BY <2>3 DEF MonolithCrash
  <2> QED
    BY <2>1, <2>2, <2>3
<1>3. TypeOK /\ ScanInvariant /\ [Next]_vars =>
        [\A j \in Job :
          scan[j].pc = "waiting" /\ scan'[j] # scan[j] =>
            LET answer == call[scan[j].call] IN
            (answer.pc = "answered" /\ answer.reply.error = "RateLimitError") => scan'[j] = Idle]_vars
  BY <1>2 DEF ScanInvariant
<1> QED
  BY <1>3, TypeCorrect, ScanInvariantCorrect, PTL DEF Spec, RefusalEndsScan

\* What a subscriber is told about a release is what GitHub says of it, for every
\* release GitHub can describe and over either transport.
THEOREM LettersCorrect == Spec => []LettersAreTrue
<1>1. TypeOK => LettersAreTrue
  <2>1. ASSUME TypeOK, NEW s \in Sub, NEW t \in told[s]
        PROVE  Content[RepoOf[s], t] \in GitHubRelease
    <3>1. RepoOf[s] \in Repo /\ t \in 0 .. MaxTag
      BY <2>1, ScannerAssumption DEF TypeOK, Tag
    <3>2. <<RepoOf[s], t>> \in Repo \X (0 .. MaxTag)
      BY <3>1
    <3> QED
      BY <3>2, GatewayAssumption
  <2> QED
    BY <2>1, SameLetter DEF LettersAreTrue
<1> QED
  BY <1>1, TypeCorrect, PTL

-----------------------------------------------------------------------------
(* Refinement *)

\* A step of a job is a step of the promise, or nothing that it speaks of changes.
LEMMA JobKeepsPromise ==
  ASSUME TypeOK, ScanInvariant, NEW j \in Job, ScanStep(j)
  PROVE  \/ Promise!Next
         \/ UNCHANGED Promise!promiseVars
<1> USE DEF gatewayVars, people, history, Promise!promiseVars
<1>1. CASE GetLatestRelease(j) \/ Receive(j) \/ Skip(j) \/ FindSubscribers(j) \/ Drain(j)
  BY <1>1 DEF GetLatestRelease, Receive, Skip, FindSubscribers, Drain
<1> DEFINE r == scan[j].id
           t == scan[j].tag
<1>2. ASSUME scan[j].pc \in {"notifying", "saving"}
      PROVE  r \in Repo /\ t \in 1 .. latest[r] /\ <<r, t>> \in Repo \X Tag
  <2>1. r \in Repo /\ t \in Tag /\ t # 0 /\ t <= latest[r]
    BY <1>2, ScanShape DEF TypeOK, ScanInvariant, Addressed, Released
  <2>2. latest[r] \in Nat
    BY <2>1 DEF TypeOK, GatewayTypeOK, Tag
  <2> QED
    BY <2>1, <2>2 DEF Tag
<1>3. CASE Publish(j)
  <2>1. scan[j].pc = "notifying"
    BY <1>3 DEF Publish
  <2>2. CASE /\ told' = [s \in Sub |-> IF s \in scan[j].to THEN told[s] \cup {t} ELSE told[s]]
             /\ UNCHANGED lost
    <3>1. scan[j].to \in SUBSET {s \in confirmed \cup gone : RepoOf[s] = r}
      BY <2>1 DEF ScanInvariant, Addressed
    <3>2. Promise!Audience(r, t) \subseteq scan[j].to
      BY <2>1 DEF ScanInvariant, Covered, Concerned, Promise!Audience, TypeOK
    <3>3. Promise!Announce(r, t)
      BY <1>2, <1>3, <2>1, <2>2, <3>1, <3>2 DEF Promise!Announce, Publish
    <3> QED
      BY <1>2, <2>1, <3>3 DEF Promise!Next
  <2>3. CASE lost' = lost \cup {<<r, t>>} /\ UNCHANGED told
    <3>1. Promise!Lose(r, t)
      BY <1>2, <1>3, <2>1, <2>3 DEF Promise!Lose, Publish
    <3> QED
      BY <1>2, <2>1, <3>1 DEF Promise!Next
  <2> QED
    BY <1>3, <2>2, <2>3 DEF Publish
<1>4. CASE UpdateLastSeenTag(j)
  <2>1. scan[j].pc = "saving"
    BY <1>4 DEF UpdateLastSeenTag
  <2>2. <<r, t>> \in lost \/ \A s \in Promise!Audience(r, t) : t \in told[s]
    BY <2>1 DEF ScanInvariant, Covered, Concerned, Promise!Audience, TypeOK
  <2>3. Promise!Record(r, t)
    BY <1>2, <1>4, <2>1, <2>2 DEF Promise!Record, UpdateLastSeenTag
  <2> QED
    BY <1>2, <2>1, <2>3 DEF Promise!Next
<1> QED
  BY <1>1, <1>3, <1>4 DEF ScanStep

LEMMA StepKeepsPromise ==
  ASSUME TypeOK, ScanInvariant, [Next]_vars
  PROVE  [Promise!Next]_(Promise!promiseVars)
<1> USE DEF gatewayVars, people, history, Promise!promiseVars
<1>1. CASE UNCHANGED vars
  BY <1>1 DEF vars
<1>2. ASSUME NEW s \in Sub, Confirm(s) PROVE Promise!Next
  BY <1>2 DEF Confirm, Promise!Join, Promise!Next
<1>3. ASSUME NEW s \in Sub, Unsubscribe(s) PROVE Promise!Next
  BY <1>3 DEF Unsubscribe, Promise!Leave, Promise!Next
<1>4. ASSUME NEW r \in Repo, NewRelease(r), UNCHANGED <<lastSeen, people, scan, drain, history>>
      PROVE  Promise!Next
  BY <1>4 DEF NewRelease, Promise!Appear, Promise!Next
<1>5. ASSUME NEW j \in Job, ScanStep(j) PROVE [Promise!Next]_(Promise!promiseVars)
  BY <1>5, JobKeepsPromise
<1>6. ASSUME NEW j \in Job, StartScan(j) PROVE UNCHANGED Promise!promiseVars
  BY <1>6 DEF StartScan
<1>7. ASSUME NEW c \in Call, GatewayStep(c), UNCHANGED <<lastSeen, people, scan, drain, history>>
      PROVE  UNCHANGED Promise!promiseVars
  BY <1>7 DEF GatewayStep, ReadCache, Fetch, Store
<1>8. ASSUME NEW r \in Repo, Expire(r), UNCHANGED <<lastSeen, people, scan, drain, history>>
      PROVE  UNCHANGED Promise!promiseVars
  BY <1>8 DEF Expire
<1>9. CASE GatewayCrash /\ UNCHANGED <<lastSeen, people, scan, drain, history>>
  BY <1>9 DEF GatewayCrash
<1>10. CASE MonolithCrash
  BY <1>10 DEF MonolithCrash
<1>11. ASSUME NEW j \in Job, ChannelDies(j) PROVE UNCHANGED Promise!promiseVars
  BY <1>11 DEF ChannelDies
<1> QED
  BY <1>1, <1>2, <1>3, <1>4, <1>5, <1>6, <1>7, <1>8, <1>9, <1>10, <1>11 DEF Next, Environment

\* The scan over its gateway implements the promise, with any number of
\* repositories, subscriptions, calls and jobs, whatever fails.
THEOREM ScanKeepsPromise == Spec => KeepsReleasePromise
<1>1. Init => Promise!Init
  BY DEF Init, GatewayInit, Promise!Init
<1>2. TypeOK /\ ScanInvariant /\ [Next]_vars => [Promise!Next]_(Promise!promiseVars)
  BY StepKeepsPromise
<1> QED
  BY <1>1, <1>2, TypeCorrect, ScanInvariantCorrect, PTL DEF Spec, KeepsReleasePromise, Promise!Spec

\* What the promise is worth, with the types that its reading takes.
PromiseGives ==
  /\ \A r \in Repo : latest[r] \in Nat /\ lastSeen[r] \in Nat /\ lastSeen[r] <= latest[r]
  /\ \A s \in Sub : since[s] \in Nat
  /\ DOMAIN latest = Repo /\ DOMAIN lastSeen = Repo /\ DOMAIN since = Sub /\ DOMAIN told = Sub
  /\ confirmed \subseteq Sub
  /\ RecordedWasTold

LEMMA PromiseGivesStep ==
  ASSUME PromiseGives, [Promise!Next]_(Promise!promiseVars)
  PROVE  PromiseGives'
<1> USE ScannerAssumption DEF PromiseGives, RecordedWasTold
<1>1. CASE UNCHANGED Promise!promiseVars
  BY <1>1 DEF Promise!promiseVars
<1>2. ASSUME NEW r \in Repo, Promise!Appear(r) PROVE PromiseGives'
  BY <1>2 DEF Promise!Appear
<1>3. ASSUME NEW r \in Repo, NEW t \in 1 .. latest[r], Promise!Announce(r, t) PROVE PromiseGives'
  BY <1>3 DEF Promise!Announce
<1>4. ASSUME NEW r \in Repo, NEW t \in 1 .. latest[r], Promise!Lose(r, t) PROVE PromiseGives'
  BY <1>4 DEF Promise!Lose
<1>5. ASSUME NEW r \in Repo, NEW t \in 1 .. latest[r], Promise!Record(r, t) PROVE PromiseGives'
  BY <1>5 DEF Promise!Record, Promise!Audience
<1>6. ASSUME NEW s \in Sub, Promise!Join(s) PROVE PromiseGives'
  BY <1>6 DEF Promise!Join
<1>7. ASSUME NEW s \in Sub, Promise!Leave(s) PROVE PromiseGives'
  BY <1>7 DEF Promise!Leave
<1> QED BY <1>1, <1>2, <1>3, <1>4, <1>5, <1>6, <1>7 DEF Promise!Next

\* ReleasePromise is strong enough to be what a scan is judged by: that a recorded
\* release was told to everybody it concerns, or lost, follows from it alone.
THEOREM PromiseSuffices == KeepsReleasePromise => []RecordedWasTold
<1>1. Promise!Init => PromiseGives
  BY ScannerAssumption DEF Promise!Init, PromiseGives, RecordedWasTold
<1>2. PromiseGives /\ [Promise!Next]_(Promise!promiseVars) => PromiseGives'
  BY PromiseGivesStep
<1>3. PromiseGives => RecordedWasTold
  BY DEF PromiseGives
<1> QED
  BY <1>1, <1>2, <1>3, PTL DEF KeepsReleasePromise, Promise!Spec
=============================================================================
