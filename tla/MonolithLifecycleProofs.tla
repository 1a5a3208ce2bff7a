---------------------- MODULE MonolithLifecycleProofs -----------------------
(* Proofs about MonolithLifecycle: its type invariant, its safety           *)
(* properties, and the action property NobodyIsCut.                         *)
EXTENDS MonolithLifecycle, FiniteSetTheorems, TLAPS

-----------------------------------------------------------------------------
(* The inductive invariant *)

\* What a request asks fits the await at which its handler stands, and a row that
\* was found has been created.
Staged ==
  \A c \in Client : request[c] # Free =>
    LET q == request[c].q
        pc == request[c].pc
    IN
    /\ pc \in {"verifying", "upserting", "inserting", "checking", "creating"} =>
         q.op = "subscribe" /\ ParseRepo(q.slug) \in Repository
    /\ pc \in {"finding", "writing"} => q.op \in {"confirm", "unsubscribe"} /\ q.row \in Row
    /\ pc = "writing" => subscription[q.row].state # "unused"
    /\ pc = "listing" => q.op = "getSubscriptions"

\* A request is on the gauge as long as an HTTP client waits for it.
Counted ==
  \A c \in Client : request[c] # Free =>
    (request[c].counted <=> request[c].awaited /\ request[c].q.via # "grpc")

\* The unique constraint.
OnePerPair ==
  \A i, k \in Row :
    /\ subscription[i].state \in {"pending", "confirmed"}
    /\ subscription[k].state \in {"pending", "confirmed"}
    /\ subscription[i].email = subscription[k].email
    /\ subscription[i].repo = subscription[k].repo
    => i = k

\* What main and the shutdown have done by the stage they stand at.
JobsOfStage ==
  /\ stage = "scheduling" => repeatable = {}
  /\ stage \in {"serving", "running", "draining", "closing worker"} => repeatable = {interval}
  /\ scanning => stage \in WorkerOn \cup {"closing worker"}
  /\ Waiting # {} => stage \in {"running", "draining"}

-----------------------------------------------------------------------------
(* Errors and statuses *)

\* Every outcome has its status on each way.
LEMMA ToldIsStatus ==
  ASSUME NEW e \in Outcome
  PROVE  /\ HttpStatus(e) \in Status
         /\ MapAppErrorToGrpcStatus(e) \in GrpcCode
         /\ GrpcToHttp(MapAppErrorToGrpcStatus(e)) = HttpStatus(e)
<1>1. \/ e = "none" \/ e = "ValidationError" \/ e = "Unauthorized" \/ e = "NotFoundError"
      \/ e = "Conflict" \/ e = "RateLimitError" \/ e = "AppError" \/ e = "RepoExists"
  BY DEF Outcome, Error
<1>2. CASE e = "none"
  BY <1>2 DEF HttpStatus, MapAppErrorToGrpcStatus, GrpcToHttp, Status, GrpcCode
<1>3. CASE e = "ValidationError"
  BY <1>3 DEF HttpStatus, MapAppErrorToGrpcStatus, GrpcToHttp, Status, GrpcCode, StatusCode, GrpcStatus
<1>4. CASE e = "Unauthorized"
  BY <1>4 DEF HttpStatus, MapAppErrorToGrpcStatus, GrpcToHttp, Status, GrpcCode, StatusCode, GrpcStatus
<1>5. CASE e = "NotFoundError"
  BY <1>5 DEF HttpStatus, MapAppErrorToGrpcStatus, GrpcToHttp, Status, GrpcCode, StatusCode, GrpcStatus
<1>6. CASE e = "Conflict"
  BY <1>6 DEF HttpStatus, MapAppErrorToGrpcStatus, GrpcToHttp, Status, GrpcCode, StatusCode, GrpcStatus
<1>7. CASE e = "RateLimitError"
  BY <1>7 DEF HttpStatus, MapAppErrorToGrpcStatus, GrpcToHttp, Status, GrpcCode, StatusCode, GrpcStatus
<1>8. CASE e = "AppError"
  BY <1>8 DEF HttpStatus, MapAppErrorToGrpcStatus, GrpcToHttp, Status, GrpcCode, StatusCode, GrpcStatus
<1>9. CASE e = "RepoExists"
  BY <1>9 DEF HttpStatus, MapAppErrorToGrpcStatus, GrpcToHttp, Status, GrpcCode, StatusCode, GrpcStatus
<1> QED BY <1>1, <1>2, <1>3, <1>4, <1>5, <1>6, <1>7, <1>8, <1>9

\* The errors of verifyRepo come out of the client as they went into the service.
LEMMA RemoteIsFaithful ==
  ASSUME NEW e \in {"NotFoundError", "RateLimitError", "AppError"}
  PROVE  Remote(e) = e
<1>1. CASE e = "NotFoundError"
  BY <1>1, TransportAssumption
  DEF Remote, MapGrpcError, ThrowFromResponse, GrpcStatus, StatusCode
<1>2. CASE e = "RateLimitError"
  BY <1>2, TransportAssumption
  DEF Remote, MapGrpcError, ThrowFromResponse, GrpcStatus, StatusCode
<1>3. CASE e = "AppError"
  BY <1>3, TransportAssumption
  DEF Remote, MapGrpcError, ThrowFromResponse, GrpcStatus, StatusCode
<1> QED BY <1>1, <1>2, <1>3

\* A check that stops a request answers with one of three errors, and with an
\* internal one only if the body is none.
LEMMA CheckErrors ==
  ASSUME NEW q \in Request
  PROVE  /\ Check(q) \in {"none", "ValidationError", "Unauthorized", "AppError"}
         /\ Check(q) = "AppError" => q.body # "whole"
         /\ Check(q) = "none" => ServiceAccepts(q) /\ q.op # "other"
<1>1. /\ q.body \in Body /\ q.via \in {"http", "grpc", "proxy"}
      /\ q.op = "other" => q.via = "proxy"
  BY ApiAssumption
<1>2. /\ HttpCheck(q) \in {"none", "ValidationError", "Unauthorized", "AppError"}
      /\ HttpCheck(q) = "AppError" => q.body # "whole"
  BY DEF HttpCheck
<1>3. GrpcCheck(q) \in {"none", "Unauthorized"}
  BY DEF GrpcCheck
<1>4. /\ ProxyCheck(q) \in {"none", "ValidationError", "Unauthorized", "AppError"}
      /\ ProxyCheck(q) = "AppError" => q.body # "whole"
      /\ ProxyCheck(q) = "none" => q.op # "other"
  <2>1. CASE q.body = "garbled"
    BY <2>1 DEF ProxyCheck
  <2>2. CASE q.body # "garbled" /\ ~ApiKeyGuard(q)
    BY <2>2 DEF ProxyCheck
  <2>3. CASE q.body = "none" /\ ApiKeyGuard(q)
    BY <2>3 DEF ProxyCheck
  <2>4. CASE q.body \in {"whole", "unfit"} /\ ApiKeyGuard(q)
    <3>1. ProxyCheck(q) = IF q.op = "other" THEN "ValidationError"
                          ELSE IF q.body = "unfit" THEN "AppError" ELSE GrpcCheck(q)
      BY <2>4 DEF ProxyCheck
    <3> QED BY <1>3, <3>1
  <2> QED BY <1>1, <2>1, <2>2, <2>3, <2>4 DEF Body
<1> HIDE DEF HttpCheck, GrpcCheck, ProxyCheck
<1> DEFINE early == CASE q.via = "http" -> HttpCheck(q) [] q.via = "grpc" -> GrpcCheck(q)
                      [] OTHER -> ProxyCheck(q)
<1>5. /\ early \in {"none", "ValidationError", "Unauthorized", "AppError"}
      /\ early = "AppError" => q.body # "whole"
      /\ early = "none" => q.op # "other"
  BY <1>1, <1>2, <1>3, <1>4
<1>6. Check(q) = IF early # "none" THEN early
                 ELSE IF ServiceAccepts(q) THEN "none" ELSE "ValidationError"
  BY DEF Check
<1> HIDE DEF early
<1> QED BY <1>5, <1>6

\* What a request that passes the checks asks.
LEMMA Checked ==
  ASSUME NEW q \in Request, Check(q) = "none"
  PROVE  /\ q.op \in Method
         /\ q.op = "subscribe" => ParseRepo(q.slug) \in Repository
         /\ q.op \in {"confirm", "unsubscribe"} => q.row \in Row
<1>1. ServiceAccepts(q) /\ q.op # "other"
  BY CheckErrors
<1>2. q.op \in Method \cup {"other"} /\ q.slug \in SlugInput
  BY ApiAssumption
<1>3. q.op = "subscribe" => q.slug # "bad"
  BY <1>1 DEF ServiceAccepts
<1>4. q.op \in {"confirm", "unsubscribe"} => q.row \in Row
  BY <1>1 DEF ServiceAccepts
<1> QED BY <1>1, <1>2, <1>3, <1>4 DEF ParseRepo, Repository, SlugInput

\* A client is told a status, and the one its way has for the error.
LEMMA AnswerIsTyped ==
  ASSUME NEW q \in Request, NEW e \in Outcome
  PROVE  /\ \/ [q |-> q, error |-> e, told |-> ToldOver(q.via, e)] \in Answers(FALSE, Status)
            \/ [q |-> q, error |-> e, told |-> ToldOver(q.via, e)] \in Answers(TRUE, GrpcCode)
         /\ [q |-> q, error |-> e, told |-> ToldOver(q.via, e)] # None
         /\ q.via # "grpc" => ToldOver(q.via, e) = HttpStatus(e)
         /\ q.via = "grpc" => GrpcToHttp(ToldOver(q.via, e)) = HttpStatus(e)
<1>1. q.via \in {"http", "grpc", "proxy"}
  BY ApiAssumption
<1>2. /\ HttpStatus(e) \in Status
      /\ MapAppErrorToGrpcStatus(e) \in GrpcCode
      /\ GrpcToHttp(MapAppErrorToGrpcStatus(e)) = HttpStatus(e)
  BY ToldIsStatus
<1>3. CASE q.via = "grpc"
  <2>1. ToldOver(q.via, e) = MapAppErrorToGrpcStatus(e)
    BY <1>3 DEF ToldOver
  <2> QED BY <1>2, <1>3, <2>1, NoneAssumption DEF Answers
<1>4. CASE q.via # "grpc"
  <2>1. ToldOver(q.via, e) = HttpStatus(e)
    BY <1>1, <1>2, <1>4 DEF ToldOver
  <2> QED BY <1>2, <1>4, <2>1, NoneAssumption DEF Answers
<1> QED BY <1>3, <1>4

-----------------------------------------------------------------------------
(* What a step does to the requests *)

Pc == {"verifying", "upserting", "inserting", "checking", "creating", "finding", "writing", "listing"}

\* A handler that has started is in progress, and is not free.
LEMMA InProgress ==
  ASSUME TypeOK, NEW c \in Client
  PROVE  /\ request[c] # Free => request[c] \in Progress
         /\ request[c].pc \in Pc => request[c] \in Progress
         /\ request[c] \in Progress => request[c] # Free /\ request[c].pc \in Pc
BY DEF TypeOK, ApiTypeOK, Progress, Free, Pc

\* A step of a handler answers, or brings it to its next await.
LEMMA HandlerShape ==
  ASSUME TypeOK, NEW c \in Client, HandlerStep(c)
  PROVE  /\ request[c] \in Progress
         /\ \/ \E e \in Outcome : Answer(c, e)
            \/ \E pc \in Pc : Goes(c, pc)
<1>1. request[c].pc \in Pc
  BY DEF HandlerStep, VerifyRepo, FindOrCreate, CreateRepo, AssertNotDuplicate, Create, Find, Write, FindAllByEmail, Pc
<1>2. request[c] \in Progress
  BY <1>1, InProgress
<1>3. DatabaseFails(c) => \E e \in Outcome : Answer(c, e)
  BY DEF DatabaseFails, Outcome, Error
<1>4. CASE VerifyRepo(c)
  <2>1. \/ Goes(c, "upserting")
        \/ Answer(c, Remote("NotFoundError"))
        \/ \E e \in {"RateLimitError", "AppError"} : Answer(c, Remote(e))
    BY <1>4, Zenon DEF VerifyRepo
  <2>2. \A e \in {"NotFoundError", "RateLimitError", "AppError"} : Remote(e) = e
    BY RemoteIsFaithful
  <2> QED BY <1>2, <2>1, <2>2 DEF Outcome, Error, Pc
<1>5. CASE FindOrCreate(c)
  BY <1>2, <1>3, <1>5 DEF FindOrCreate, Pc
<1>6. CASE AssertNotDuplicate(c)
  BY <1>2, <1>3, <1>6 DEF AssertNotDuplicate, Outcome, Error, Pc
<1>7. CASE Create(c)
  BY <1>2, <1>3, <1>7, Zenon DEF Create, Outcome, Error
<1>8. CASE Find(c)
  BY <1>2, <1>3, <1>8 DEF Find, Outcome, Error, Pc
<1>9. CASE Write(c)
  BY <1>2, <1>3, <1>9, Zenon DEF Write, Outcome, Error
<1>10. CASE FindAllByEmail(c)
  BY <1>2, <1>3, <1>10 DEF FindAllByEmail, Outcome
<1>11. CASE CreateRepo(c)
  BY <1>2, <1>3, <1>11, Zenon DEF CreateRepo, Outcome, Error, Pc
<1> QED BY <1>4, <1>5, <1>6, <1>7, <1>8, <1>9, <1>10, <1>11 DEF HandlerStep

\* Nothing happens to a request, or to its count.
Silent == request' = request /\ gauge' = gauge /\ answer' = None
Forgets == request' = [c \in Client |-> Free] /\ gauge' = 0 /\ answer' = None
Detaches == ForceShutdown /\ gauge' = gauge /\ answer' = None

\* The ways in which requests, gauge and answer can change.
LEMMA RequestShape ==
  ASSUME TypeOK, [Next]_vars
  PROVE  \/ \E c \in Client : request[c] \in Progress /\ \E e \in Outcome : Answer(c, e)
         \/ \E c \in Client : request[c] \in Progress /\ \E pc \in Pc : Goes(c, pc)
         \/ \E c \in Client, q \in Request : Serves(q) /\ Arrive(c, q)
         \/ \E c \in Client : Abort(c)
         \/ Silent \/ Detaches
         \/ Forgets /\ (stage = "closing stores" \/ faults' = faults + 1)
         \/ UNCHANGED <<request, gauge, answer>>
<1>1. CASE Main
  BY <1>1 DEF Main, Boot, CreateInfraInstances, BuildContainer, RemoveRepeatable, AddRepeatable,
              Listen, Becomes, Quiet, KeepsRequests, Silent
<1>2. CASE Signal
  BY <1>2 DEF Signal, Becomes, Quiet, KeepsRequests, Silent
<1>3. CASE Drained
  BY <1>3 DEF Drained, Becomes, Quiet, Detaches
<1>4. CASE WorkerClosed \/ SchedulerStopped \/ BrokersClosed
  BY <1>4 DEF WorkerClosed, SchedulerStopped, BrokersClosed, Becomes, Quiet, KeepsRequests, Silent
<1>5. CASE StoresClosed
  BY <1>5 DEF StoresClosed, Gone, Quiet, Forgets
<1>6. CASE Crash
  BY <1>6 DEF Crash, Fault, Gone, Quiet, Forgets
<1>7. CASE StartScan \/ FinishScan \/ ScanHangs
  BY <1>7 DEF StartScan, FinishScan, ScanHangs, Quiet, KeepsRequests, Silent
<1>8. CASE \E c \in Client, q \in Request : Serves(q) /\ Arrive(c, q)
  BY <1>8
<1>9. CASE \E c \in Client : HandlerStep(c)
  BY <1>9, HandlerShape
<1>10. CASE \E c \in Client : Abort(c)
  BY <1>10
<1>11. CASE \E i \in Row : Compensate(i)
  BY <1>11 DEF Compensate, Silent
<1>12. CASE UNCHANGED vars
  BY <1>12 DEF vars
<1> QED
  BY <1>1, <1>2, <1>3, <1>4, <1>5, <1>6, <1>7, <1>8, <1>9, <1>10, <1>11, <1>12 DEF Next, Shutdown

-----------------------------------------------------------------------------
(* The gauge *)

LEMMA WaitingIsFinite == IsFiniteSet(Waiting)
<1>1. Waiting \subseteq Client
  BY DEF Waiting
<1> QED BY <1>1, FS_Subset, ApiAssumption

\* A request that leaves takes what it has added to the gauge with it.
LEMMA GaugeLosesOne ==
  ASSUME Counted, GaugeCountsRequests, NEW c \in Client, request[c] # Free,
         request[c].q.via # "grpc", ReleaseInflight(c), Waiting' = Waiting \ {c}
  PROVE  GaugeCountsRequests'
<1>1. request[c].counted <=> c \in Waiting
  BY DEF Counted, Waiting
<1>2. IsFiniteSet(Waiting)
  BY WaitingIsFinite
<1>3. CASE c \in Waiting
  <2>1. Cardinality(Waiting \ {c}) = Cardinality(Waiting) - 1
    BY <1>2, <1>3, FS_RemoveElement
  <2>2. gauge' = gauge - 1
    BY <1>1, <1>3 DEF ReleaseInflight
  <2> QED BY <2>1, <2>2 DEF GaugeCountsRequests
<1>4. CASE c \notin Waiting
  <2>1. gauge' = gauge
    BY <1>1, <1>4 DEF ReleaseInflight
  <2>2. Waiting' = Waiting
    BY <1>4
  <2> QED BY <2>1, <2>2 DEF GaugeCountsRequests
<1> QED BY <1>3, <1>4

\* What is kept about the requests, step by step.
RequestsOK ==
  /\ request \in [Client -> {Free} \cup Progress]
  /\ gauge \in Int
  /\ answer = None \/ answer \in Answers(FALSE, Status) \/ answer \in Answers(TRUE, GrpcCode)
  /\ Counted
  /\ GaugeCountsRequests
  /\ AnswerSurvivesTheWay

LEMMA AnswerKeepsRequests ==
  ASSUME TypeOK, RequestsOK, NEW c \in Client, request[c] \in Progress, NEW e \in Outcome, Answer(c, e)
  PROVE  RequestsOK'
<1>1. request' = [request EXCEPT ![c] = Free]
  BY DEF Answer
<1>2. request[c].q \in Request /\ request[c] # Free
  BY InProgress DEF Progress
<1>3. request' \in [Client -> {Free} \cup Progress]
  BY <1>1 DEF RequestsOK
<1>4. gauge' \in Int
  BY DEF Answer, ReleaseInflight, RequestsOK
<1>5. /\ answer' = None \/ answer' \in Answers(FALSE, Status) \/ answer' \in Answers(TRUE, GrpcCode)
      /\ AnswerSurvivesTheWay'
  BY <1>2, AnswerIsTyped DEF Answer, AnswerSurvivesTheWay
<1>6. \A d \in Client : request'[d] = IF d = c THEN Free ELSE request[d]
  BY <1>1 DEF RequestsOK
<1>7. Counted'
  BY <1>6 DEF RequestsOK, Counted
<1>8. Waiting' = Waiting \ {c}
  BY <1>6 DEF Waiting
<1>9. GaugeCountsRequests'
  <2>1. CASE request[c].q.via = "grpc"
    BY <1>8, <2>1 DEF Answer, Waiting, GaugeCountsRequests, RequestsOK
  <2>2. CASE request[c].q.via # "grpc"
    BY <1>2, <1>8, <2>2, GaugeLosesOne DEF Answer, RequestsOK
  <2> QED BY <2>1, <2>2
<1> QED BY <1>3, <1>4, <1>5, <1>7, <1>9 DEF RequestsOK

LEMMA GoesKeepsRequests ==
  ASSUME TypeOK, RequestsOK, NEW c \in Client, request[c] \in Progress, NEW pc \in Pc, Goes(c, pc)
  PROVE  RequestsOK'
<1>1. request' = [request EXCEPT ![c].pc = pc] /\ gauge' = gauge /\ answer' = None
  BY DEF Goes
<1>2. [request[c] EXCEPT !.pc = pc] \in Progress
  BY DEF Progress, Pc
<1>3. request' \in [Client -> {Free} \cup Progress]
  BY <1>1, <1>2 DEF RequestsOK
<1>4. \A d \in Client : request'[d] = IF d = c THEN [request[c] EXCEPT !.pc = pc] ELSE request[d]
  BY <1>1 DEF RequestsOK
<1>5. /\ request[c] # Free /\ request'[c] # Free
      /\ request'[c].q = request[c].q
      /\ request'[c].awaited = request[c].awaited
      /\ request'[c].counted = request[c].counted
  BY <1>4 DEF Progress, Free, Pc
<1>6. Counted'
  BY <1>4, <1>5 DEF RequestsOK, Counted
<1>7. Waiting' = Waiting
  BY <1>4, <1>5 DEF Waiting
<1> QED BY <1>1, <1>3, <1>6, <1>7 DEF RequestsOK, GaugeCountsRequests, AnswerSurvivesTheWay

LEMMA AbortKeepsRequests ==
  ASSUME TypeOK, RequestsOK, NEW c \in Client, Abort(c)
  PROVE  RequestsOK'
<1>1. request' = [request EXCEPT ![c].awaited = FALSE, ![c].counted = FALSE] /\ answer' = None
  BY DEF Abort
<1>2. request[c] # Free /\ request[c] \in Progress
  BY InProgress DEF Abort
<1> DEFINE r == [request[c] EXCEPT !.awaited = FALSE, !.counted = FALSE]
<1>3. r \in Progress /\ r # Free
  BY <1>2 DEF Progress, Free
<1>4. request' = [request EXCEPT ![c] = r]
  BY <1>1, <1>2 DEF RequestsOK
<1>5. \A d \in Client : request'[d] = IF d = c THEN r ELSE request[d]
  BY <1>4 DEF RequestsOK
<1>6. request' \in [Client -> {Free} \cup Progress]
  BY <1>3, <1>4 DEF RequestsOK
<1>7. r.awaited = FALSE /\ r.counted = FALSE /\ r.q = request[c].q
  BY <1>2 DEF Progress
<1>8. Counted'
  BY <1>5, <1>7 DEF RequestsOK, Counted
<1>9. Waiting' = Waiting \ {c}
  BY <1>5, <1>7 DEF Waiting
<1>10. gauge' \in Int
  BY DEF Abort, ReleaseInflight, RequestsOK
<1>11. GaugeCountsRequests'
  <2>1. CASE request[c].q.via = "grpc"
    BY <1>9, <2>1 DEF Abort, Waiting, GaugeCountsRequests, RequestsOK
  <2>2. CASE request[c].q.via # "grpc"
    BY <1>2, <1>9, <2>2, GaugeLosesOne DEF Abort, RequestsOK
  <2> QED BY <2>1, <2>2
<1> QED BY <1>1, <1>6, <1>8, <1>10, <1>11 DEF RequestsOK, AnswerSurvivesTheWay

LEMMA ArriveKeepsRequests ==
  ASSUME TypeOK, RequestsOK, NEW c \in Client, NEW q \in Request, Arrive(c, q)
  PROVE  RequestsOK'
<1> DEFINE r == [pc |-> Entry(q.op), q |-> q, awaited |-> TRUE, counted |-> q.via # "grpc"]
<1>1. CASE Check(q) # "none"
  <2>1. /\ request' = request /\ gauge' = gauge
        /\ answer' = [q |-> q, error |-> Check(q), told |-> ToldOver(q.via, Check(q))]
    BY <1>1 DEF Arrive
  <2>2. Check(q) \in Outcome
    BY CheckErrors DEF Outcome, Error
  <2> QED BY <2>1, <2>2, AnswerIsTyped
          DEF RequestsOK, Counted, GaugeCountsRequests, Waiting, AnswerSurvivesTheWay
<1>2. CASE Check(q) = "none"
  <2>1. /\ request[c] = Free /\ answer' = None
        /\ request' = [request EXCEPT ![c] = r]
        /\ gauge' = IF q.via # "grpc" THEN gauge + 1 ELSE gauge
    BY <1>2 DEF Arrive
  <2>2. r \in Progress /\ r # Free
    <3>1. Entry(q.op) \in {"verifying", "listing", "finding"}
      BY DEF Entry
    <3>2. (q.via # "grpc") \in BOOLEAN
      OBVIOUS
    <3>3. r \in Progress
      BY <3>1, <3>2 DEF Progress
    <3> QED BY <3>1, <3>3 DEF Free
  <2>3. request' \in [Client -> {Free} \cup Progress]
    BY <2>1, <2>2 DEF RequestsOK
  <2>4. \A d \in Client : request'[d] = IF d = c THEN r ELSE request[d]
    BY <2>1 DEF RequestsOK
  <2>5. Counted'
    <3>1. r.q = q /\ r.awaited /\ (r.counted <=> q.via # "grpc")
      BY Zenon
    <3> HIDE DEF r
    <3> QED BY <2>4, <3>1 DEF RequestsOK, Counted
  <2>6. gauge' \in Int
    BY <2>1 DEF RequestsOK
  <2>7. GaugeCountsRequests'
    <3>1. CASE q.via = "grpc"
      <4>1. Waiting' = Waiting
        BY <2>1, <2>4, <3>1 DEF Waiting
      <4> QED BY <2>1, <3>1, <4>1 DEF RequestsOK, GaugeCountsRequests
    <3>2. CASE q.via # "grpc"
      <4>1. Waiting' = Waiting \cup {c} /\ c \notin Waiting
        BY <2>1, <2>2, <2>4, <3>2 DEF Waiting
      <4>2. Cardinality(Waiting \cup {c}) = Cardinality(Waiting) + 1
        BY <4>1, WaitingIsFinite, FS_AddElement
      <4> QED BY <2>1, <3>2, <4>1, <4>2 DEF RequestsOK, GaugeCountsRequests
    <3> QED BY <3>1, <3>2
  <2> QED BY <2>1, <2>3, <2>5, <2>6, <2>7 DEF RequestsOK, AnswerSurvivesTheWay
<1> QED BY <1>1, <1>2

\* The end of the gRPC server takes nobody off the gauge.
LEMMA DetachesKeepsRequests ==
  ASSUME TypeOK, RequestsOK, Detaches
  PROVE  RequestsOK'
<1>1. /\ request' = [c \in Client |->
           IF request[c] # Free /\ request[c].q.via = "grpc" THEN [request[c] EXCEPT !.awaited = FALSE]
           ELSE request[c]]
      /\ gauge' = gauge /\ answer' = None
  BY DEF Detaches, ForceShutdown
<1>2. \A r \in Progress : /\ [r EXCEPT !.awaited = FALSE] \in Progress
                          /\ [r EXCEPT !.awaited = FALSE] # Free
                          /\ [r EXCEPT !.awaited = FALSE].q = r.q
                          /\ [r EXCEPT !.awaited = FALSE].counted = r.counted
                          /\ [r EXCEPT !.awaited = FALSE].awaited = FALSE
  BY DEF Progress, Free
<1>3. \A c \in Client : request[c] # Free => request[c] \in Progress
  BY InProgress
<1>4. request' \in [Client -> {Free} \cup Progress]
  BY <1>1, <1>2, <1>3
<1>5. Counted'
  BY <1>1, <1>2, <1>3 DEF RequestsOK, Counted
<1>6. Waiting' = Waiting
  BY <1>1, <1>2, <1>3 DEF Waiting
<1> QED BY <1>1, <1>4, <1>5, <1>6 DEF RequestsOK, GaugeCountsRequests, AnswerSurvivesTheWay

LEMMA ForgetsKeepsRequests ==
  ASSUME Forgets
  PROVE  RequestsOK'
<1>1. \A c \in Client : request'[c] = Free
  BY DEF Forgets
<1>2. Waiting' = {}
  BY <1>1 DEF Waiting
<1>3. GaugeCountsRequests'
  BY <1>2, FS_EmptySet DEF Forgets, GaugeCountsRequests
<1> QED BY <1>1, <1>3 DEF Forgets, RequestsOK, Counted, AnswerSurvivesTheWay

-----------------------------------------------------------------------------
(* Rows and answers *)

DataOK ==
  /\ repos \subseteq Repository
  /\ subscription \in [Row -> SubscriptionRow]
  /\ faults \in Nat
  /\ Staged
  /\ OnePerPair
  /\ AnswerTellsTruth

\* AnswerTellsTruth, of one answer and case by case.
Holds(q, error) ==
  LET state == subscription[q.row].state IN
  /\ error = "none" /\ q.op = "subscribe" => Cardinality({i \in Row : SamePair(i, q)}) = 1
  /\ error = "none" /\ q.op = "confirm" => state = "confirmed"
  /\ error = "none" /\ q.op = "unsubscribe" => state = "gone"
  /\ error = "NotFoundError" /\ q.op = "subscribe" => ~Exists(q)
  /\ error = "NotFoundError" /\ q.op # "subscribe" => state \notin Live(q.op)
  /\ error = "RepoExists" => q.op = "subscribe" /\ ParseRepo(q.slug) \in repos
  /\ error = "AppError" /\ faults = 0 /\ q.body = "whole" /\ q.op = "subscribe" => Taken(q)
  /\ error = "AppError" /\ faults = 0 /\ q.body = "whole" /\ q.op # "subscribe" =>
       q.op \in {"confirm", "unsubscribe"} /\ state = "gone"

\* The answer of a handler is about its request.
LEMMA AnswerHolds ==
  ASSUME NEW c \in Client, NEW e \in Outcome, NEW q \in Request, q = request[c].q,
         Answer(c, e), Holds(q, e)'
  PROVE  AnswerTellsTruth'
<1> DEFINE state == subscription'[q.row].state
<1>1. e = "none" =>
        CASE q.op = "subscribe" -> Cardinality({i \in Row : SamePair(i, q)'}) = 1
          [] q.op = "confirm" -> state = "confirmed"
          [] q.op = "unsubscribe" -> state = "gone"
          [] OTHER -> TRUE
  BY Zenon DEF Holds
<1>2. e = "NotFoundError" =>
        CASE q.op = "subscribe" -> ~Exists(q)
          [] OTHER -> state \notin Live(q.op)
  BY Zenon DEF Holds
<1>3. e = "AppError" /\ faults' = 0 /\ q.body = "whole" =>
        CASE q.op = "subscribe" -> Taken(q)'
          [] OTHER -> q.op \in {"confirm", "unsubscribe"} /\ state = "gone"
  BY Zenon DEF Holds
<1>5. e = "RepoExists" => q.op = "subscribe" /\ ParseRepo(q.slug) \in repos'
  BY Zenon DEF Holds
<1>4. \/ answer' = None
      \/ answer'.q = q /\ answer'.error = e
  BY DEF Answer
<1> QED BY <1>1, <1>2, <1>3, <1>4, <1>5, Zenon DEF AnswerTellsTruth

\* Rows that exist go on existing.
RowsStay == \A i \in Row : subscription[i].state # "unused" => subscription'[i].state # "unused"

LEMMA AnswerKeepsStaged ==
  ASSUME TypeOK, Staged, RowsStay, NEW c \in Client, request' = [request EXCEPT ![c] = Free]
  PROVE  Staged'
<1>1. \A d \in Client : request'[d] = IF d = c THEN Free ELSE request[d]
  BY DEF TypeOK, ApiTypeOK
<1> QED BY <1>1 DEF Staged, RowsStay

LEMMA GoesKeepsStaged ==
  ASSUME TypeOK, Staged, RowsStay, NEW c \in Client, request[c] \in Progress, NEW pc \in Pc, Goes(c, pc),
         \/ /\ request[c].pc \in {"verifying", "upserting", "inserting", "checking"}
            /\ pc \in {"upserting", "inserting", "checking", "creating"}
         \/ /\ request[c].pc = "finding" /\ pc = "writing"
            /\ subscription'[request[c].q.row].state # "unused"
  PROVE  Staged'
<1>1. \A d \in Client : request'[d] = IF d = c THEN [request[c] EXCEPT !.pc = pc] ELSE request[d]
  BY DEF Goes, TypeOK, ApiTypeOK
<1>2. request'[c].pc = pc /\ request'[c].q = request[c].q /\ request[c] # Free
  BY <1>1, InProgress DEF Progress
<1> QED BY <1>1, <1>2 DEF Staged, RowsStay

\* A step of a handler that changes no subscription.
LEMMA AnswerKeepsData ==
  ASSUME TypeOK, DataOK, NEW c \in Client, request[c] \in Progress, NEW e \in Outcome,
         NEW q \in Request, q = request[c].q,
         Answer(c, e), Holds(q, e)', repos' \subseteq Repository, UNCHANGED subscription, faults' \in Nat
  PROVE  DataOK'
<1>1. AnswerTellsTruth'
  BY AnswerHolds
<1>2. Staged'
  BY AnswerKeepsStaged DEF DataOK, RowsStay, Answer
<1> QED BY <1>1, <1>2 DEF DataOK, OnePerPair

LEMMA GoesKeepsData ==
  ASSUME TypeOK, DataOK, NEW c \in Client, request[c] \in Progress, NEW pc \in Pc, Goes(c, pc),
         UNCHANGED subscription, repos' \subseteq Repository, faults' \in Nat,
         \/ /\ request[c].pc \in {"verifying", "upserting", "inserting", "checking"}
            /\ pc \in {"upserting", "inserting", "checking", "creating"}
         \/ /\ request[c].pc = "finding" /\ pc = "writing"
            /\ subscription[request[c].q.row].state # "unused"
  PROVE  DataOK'
<1>1. AnswerTellsTruth'
  BY DEF Goes, AnswerTellsTruth
<1>2. Staged'
  BY GoesKeepsStaged DEF DataOK, RowsStay
<1> QED BY <1>1, <1>2 DEF DataOK, OnePerPair

LEMMA FailureKeepsData ==
  ASSUME TypeOK, DataOK, NEW c \in Client, request[c] \in Progress,
         NEW q \in Request, q = request[c].q,
         NEW e \in {"RateLimitError", "AppError"}, Answer(c, e), Fault, UNCHANGED <<repos, subscription>>
  PROVE  DataOK'
<1>1. faults' \in Nat /\ faults' # 0
  BY DEF DataOK, Fault
<1>2. e \in Outcome
  BY DEF Outcome, Error
<1>3. Holds(q, e)'
  BY <1>1 DEF Holds
<1>4. repos' \subseteq Repository
  BY DEF DataOK
<1> QED BY <1>1, <1>2, <1>3, <1>4, AnswerKeepsData

\* What a handler asks at its await.
LEMMA Asks ==
  ASSUME DataOK, NEW c \in Client, request[c] \in Progress
  PROVE  /\ request[c].q \in Request /\ request[c] # Free
         /\ request[c].pc \in {"verifying", "upserting", "inserting", "checking", "creating"} =>
              request[c].q.op = "subscribe" /\ ParseRepo(request[c].q.slug) \in Repository
         /\ request[c].pc \in {"finding", "writing"} =>
              request[c].q.op \in {"confirm", "unsubscribe"} /\ request[c].q.row \in Row
         /\ request[c].pc = "writing" => subscription[request[c].q.row].state # "unused"
         /\ request[c].pc = "listing" => request[c].q.op = "getSubscriptions"
<1>1. request[c].q \in Request /\ request[c] # Free
  BY DEF Progress, Free
<1> QED BY <1>1 DEF DataOK, Staged

LEMMA VerifyRepoKeepsData ==
  ASSUME TypeOK, DataOK, NEW c \in Client, VerifyRepo(c)
  PROVE  DataOK'
<1>1. request[c].pc = "verifying" /\ UNCHANGED <<repos, subscription>>
  BY DEF VerifyRepo
<1>2. request[c] \in Progress
  BY <1>1, InProgress DEF Pc
<1>3. PICK q \in Request : q = request[c].q /\ q.op = "subscribe"
  BY <1>1, <1>2, Asks
<1>4. \A e \in {"NotFoundError", "RateLimitError", "AppError"} : Remote(e) = e
  BY RemoteIsFaithful
<1>5. \/ Goes(c, "upserting") /\ UNCHANGED faults
      \/ ~Exists(q) /\ Answer(c, Remote("NotFoundError")) /\ UNCHANGED faults
      \/ Fault /\ \E e \in {"RateLimitError", "AppError"} : Answer(c, Remote(e))
  BY <1>3, Zenon DEF VerifyRepo
<1>6. faults \in Nat /\ repos \subseteq Repository
  BY DEF DataOK
<1>7. CASE Goes(c, "upserting") /\ UNCHANGED faults
  BY <1>1, <1>2, <1>6, <1>7, GoesKeepsData DEF Pc, DataOK
<1>8. CASE ~Exists(q) /\ Answer(c, Remote("NotFoundError")) /\ UNCHANGED faults
  <2>1. Answer(c, "NotFoundError")
    BY <1>4, <1>8
  <2>2. Holds(q, "NotFoundError")'
    BY <1>3, <1>8 DEF Holds
  <2> QED BY <1>1, <1>2, <1>3, <1>6, <1>8, <2>1, <2>2, AnswerKeepsData DEF Outcome, Error
<1>9. CASE Fault /\ \E e \in {"RateLimitError", "AppError"} : Answer(c, Remote(e))
  <2>1. PICK e \in {"RateLimitError", "AppError"} : Answer(c, e)
    BY <1>4, <1>9
  <2> QED BY <1>1, <1>2, <1>3, <1>9, <2>1, FailureKeepsData
<1> QED BY <1>5, <1>7, <1>8, <1>9

\* An error of the database, at any await.
LEMMA DatabaseFailsKeepsData ==
  ASSUME TypeOK, DataOK, NEW c \in Client, request[c] \in Progress, DatabaseFails(c)
  PROVE  DataOK'
<1>1. Fault /\ Answer(c, "AppError") /\ UNCHANGED <<repos, subscription>>
  BY DEF DatabaseFails
<1>2. request[c].q \in Request
  BY Asks
<1> QED BY <1>1, <1>2, FailureKeepsData

LEMMA FindOrCreateKeepsData ==
  ASSUME TypeOK, DataOK, NEW c \in Client, FindOrCreate(c)
  PROVE  DataOK'
<1>1. request[c].pc = "upserting"
  BY DEF FindOrCreate
<1>2. request[c] \in Progress
  BY <1>1, InProgress DEF Pc
<1>3. ASSUME NEW pc \in {"inserting", "checking"}, Goes(c, pc), UNCHANGED <<repos, subscription, faults>>
      PROVE  DataOK'
  BY <1>1, <1>2, <1>3, GoesKeepsData DEF Pc, DataOK
<1> QED BY <1>2, <1>3, DatabaseFailsKeepsData DEF FindOrCreate

LEMMA CreateRepoKeepsData ==
  ASSUME TypeOK, DataOK, NEW c \in Client, CreateRepo(c)
  PROVE  DataOK'
<1>1. request[c].pc = "inserting"
  BY DEF CreateRepo
<1>2. request[c] \in Progress
  BY <1>1, InProgress DEF Pc
<1>3. PICK q \in Request : q = request[c].q /\ q.op = "subscribe" /\ ParseRepo(q.slug) \in Repository
  BY <1>1, <1>2, Asks
<1> DEFINE repo == ParseRepo(q.slug)
<1>4. faults \in Nat /\ repos \cup {repo} \subseteq Repository
  BY <1>3 DEF DataOK
<1>5. CASE repos' = repos \cup {repo} /\ Goes(c, "checking") /\ UNCHANGED <<subscription, faults>>
  BY <1>1, <1>2, <1>4, <1>5, GoesKeepsData DEF Pc
<1>6. CASE Fault /\ repos' = repos \cup {repo} /\ Answer(c, "AppError") /\ UNCHANGED subscription
  <2>1. faults' \in Nat /\ faults' # 0
    BY <1>4, <1>6 DEF Fault
  <2>2. Holds(q, "AppError")'
    BY <2>1 DEF Holds
  <2> QED BY <1>2, <1>3, <1>4, <1>6, <2>1, <2>2, AnswerKeepsData DEF Outcome, Error
<1>7. CASE repo \in repos /\ Answer(c, "RepoExists") /\ UNCHANGED <<repos, subscription, faults>>
  <2>1. Holds(q, "RepoExists")'
    BY <1>3, <1>7 DEF Holds
  <2> QED BY <1>2, <1>3, <1>4, <1>7, <2>1, AnswerKeepsData DEF Outcome, DataOK
<1>8. CASE DatabaseFails(c)
  BY <1>2, <1>8, DatabaseFailsKeepsData
<1> QED BY <1>3, <1>5, <1>6, <1>7, <1>8, Zenon DEF CreateRepo

LEMMA AssertNotDuplicateKeepsData ==
  ASSUME TypeOK, DataOK, NEW c \in Client, AssertNotDuplicate(c)
  PROVE  DataOK'
<1>1. request[c].pc = "checking"
  BY DEF AssertNotDuplicate
<1>2. request[c] \in Progress
  BY <1>1, InProgress DEF Pc
<1>3. PICK q \in Request : q = request[c].q
  BY <1>2, Asks
<1>4. CASE Answer(c, "Conflict") /\ UNCHANGED <<repos, subscription, faults>>
  <2>1. Holds(q, "Conflict")'
    BY DEF Holds
  <2> QED BY <1>2, <1>3, <1>4, <2>1, AnswerKeepsData DEF Outcome, Error, DataOK
<1>5. CASE Goes(c, "creating") /\ UNCHANGED <<repos, subscription, faults>>
  BY <1>1, <1>2, <1>5, GoesKeepsData DEF Pc, DataOK
<1> QED BY <1>2, <1>4, <1>5, DatabaseFailsKeepsData DEF AssertNotDuplicate

LEMMA FindKeepsData ==
  ASSUME TypeOK, DataOK, NEW c \in Client, Find(c)
  PROVE  DataOK'
<1>1. request[c].pc = "finding"
  BY DEF Find
<1>2. request[c] \in Progress
  BY <1>1, InProgress DEF Pc
<1>3. PICK q \in Request : q = request[c].q /\ q.op \in {"confirm", "unsubscribe"} /\ q.row \in Row
  BY <1>1, <1>2, Asks
<1>4. CASE /\ subscription[q.row].state \in Live(q.op)
           /\ Goes(c, "writing") /\ UNCHANGED <<repos, subscription, faults>>
  BY <1>1, <1>2, <1>3, <1>4, GoesKeepsData DEF Pc, DataOK, Live
<1>5. CASE /\ subscription[q.row].state \notin Live(q.op)
           /\ Answer(c, "NotFoundError") /\ UNCHANGED <<repos, subscription, faults>>
  <2>1. Holds(q, "NotFoundError")'
    BY <1>3, <1>5 DEF Holds
  <2> QED BY <1>2, <1>3, <1>5, <2>1, AnswerKeepsData DEF Outcome, Error, DataOK
<1>6. CASE DatabaseFails(c)
  BY <1>2, <1>6, DatabaseFailsKeepsData
<1> QED BY <1>3, <1>4, <1>5, <1>6, Zenon DEF Find

LEMMA FindAllByEmailKeepsData ==
  ASSUME TypeOK, DataOK, NEW c \in Client, FindAllByEmail(c)
  PROVE  DataOK'
<1>1. request[c].pc = "listing"
  BY DEF FindAllByEmail
<1>2. request[c] \in Progress
  BY <1>1, InProgress DEF Pc
<1>3. PICK q \in Request : q = request[c].q /\ q.op = "getSubscriptions"
  BY <1>1, <1>2, Asks
<1>4. CASE Answer(c, "none") /\ UNCHANGED <<repos, subscription, faults>>
  <2>1. Holds(q, "none")'
    BY <1>3 DEF Holds
  <2> QED BY <1>2, <1>3, <1>4, <2>1, AnswerKeepsData DEF Outcome, DataOK
<1> QED BY <1>2, <1>4, DatabaseFailsKeepsData DEF FindAllByEmail

\* The row of a subscription is the only one of its pair.
LEMMA InsertKeepsRows ==
  ASSUME DataOK, NEW q \in Request, ParseRepo(q.slug) \in Repository, ~Taken(q), Insert(q)
  PROVE  /\ (subscription \in [Row -> SubscriptionRow])'
         /\ RowsStay
         /\ OnePerPair'
         /\ (Cardinality({k \in Row : SamePair(k, q)}) = 1)'
<1> DEFINE row == [state |-> "pending", email |-> q.email, repo |-> ParseRepo(q.slug)]
<1>1. PICK i \in Row : subscription[i] = Unused /\ subscription' = [subscription EXCEPT ![i] = row]
  BY DEF Insert
<1>2. row \in SubscriptionRow
  BY ApiAssumption DEF SubscriptionRow
<1>3. \A k \in Row : subscription'[k] = IF k = i THEN row ELSE subscription[k]
  BY <1>1 DEF DataOK
<1>4. RowsStay
  BY <1>1, <1>3 DEF RowsStay, Unused
<1>5. \A k \in Row : ~SamePair(k, q)
  BY DEF Taken
<1>6. OnePerPair'
  BY <1>3, <1>5 DEF DataOK, OnePerPair, SamePair
<1>7. {k \in Row : SamePair(k, q)'} = {i}
  BY <1>3, <1>5 DEF SamePair
<1>8. Cardinality({i}) = 1
  BY FS_Singleton
<1>9. subscription' \in [Row -> SubscriptionRow]
  BY <1>1, <1>2 DEF DataOK
<1> QED BY <1>4, <1>6, <1>7, <1>8, <1>9

\* An answer after the rows have changed.
LEMMA AnswerAfterWrite ==
  ASSUME TypeOK, DataOK, NEW c \in Client, request[c] \in Progress, NEW e \in Outcome,
         NEW q \in Request, q = request[c].q,
         Answer(c, e), Holds(q, e)', UNCHANGED repos, faults' \in Nat,
         (subscription \in [Row -> SubscriptionRow])', RowsStay, OnePerPair'
  PROVE  DataOK'
<1>1. AnswerTellsTruth'
  BY AnswerHolds
<1>2. Staged'
  BY AnswerKeepsStaged DEF DataOK, Answer
<1> QED BY <1>1, <1>2 DEF DataOK

LEMMA CreateKeepsData ==
  ASSUME TypeOK, DataOK, NEW c \in Client, Create(c)
  PROVE  DataOK'
<1>1. request[c].pc = "creating"
  BY DEF Create
<1>2. request[c] \in Progress
  BY <1>1, InProgress DEF Pc
<1>3. PICK q \in Request : q = request[c].q /\ q.op = "subscribe" /\ ParseRepo(q.slug) \in Repository
  BY <1>1, <1>2, Asks
<1>4. CASE ~Taken(q) /\ Insert(q) /\ Answer(c, "none") /\ UNCHANGED <<repos, faults>>
  <2>1. /\ (subscription \in [Row -> SubscriptionRow])' /\ RowsStay /\ OnePerPair'
        /\ (Cardinality({k \in Row : SamePair(k, q)}) = 1)'
    BY <1>3, <1>4, InsertKeepsRows
  <2>2. Holds(q, "none")'
    BY <1>3, <2>1 DEF Holds
  <2> QED BY <1>2, <1>3, <1>4, <2>1, <2>2, AnswerAfterWrite DEF Outcome, DataOK
<1>5. CASE ~Taken(q) /\ Fault /\ Insert(q) /\ Answer(c, "AppError") /\ UNCHANGED repos
  <2>1. (subscription \in [Row -> SubscriptionRow])' /\ RowsStay /\ OnePerPair'
    BY <1>3, <1>5, InsertKeepsRows
  <2>2. faults' \in Nat /\ faults' # 0
    BY <1>5 DEF Fault, DataOK
  <2>3. Holds(q, "AppError")'
    BY <2>2 DEF Holds
  <2> QED BY <1>2, <1>3, <1>5, <2>1, <2>2, <2>3, AnswerAfterWrite DEF Outcome, Error
<1>6. CASE Taken(q) /\ Answer(c, "AppError") /\ UNCHANGED <<repos, subscription, faults>>
  <2>1. Holds(q, "AppError")'
    BY <1>3, <1>6 DEF Holds, Taken, SamePair
  <2> QED BY <1>2, <1>3, <1>6, <2>1, AnswerKeepsData DEF Outcome, Error, DataOK
<1>7. CASE DatabaseFails(c)
  BY <1>2, <1>7, DatabaseFailsKeepsData
<1> QED BY <1>3, <1>4, <1>5, <1>6, <1>7, Zenon DEF Create

\* A row that is there is confirmed or goes.
LEMMA WriteKeepsRows ==
  ASSUME DataOK, NEW i \in Row, subscription[i].state \in {"pending", "confirmed"},
         NEW s \in {"confirmed", "gone"}, subscription' = [subscription EXCEPT ![i].state = s]
  PROVE  /\ (subscription \in [Row -> SubscriptionRow])'
         /\ RowsStay
         /\ OnePerPair'
         /\ subscription'[i].state = s
<1> DEFINE row == [subscription[i] EXCEPT !.state = s]
<1>1. subscription[i] \in SubscriptionRow /\ subscription[i] # Unused
  BY DEF DataOK, Unused
<1>2. /\ row \in SubscriptionRow /\ row.state = s
      /\ row.email = subscription[i].email /\ row.repo = subscription[i].repo
  BY <1>1 DEF SubscriptionRow
<1>3. \A k \in Row : subscription'[k] = IF k = i THEN row ELSE subscription[k]
  BY DEF DataOK
<1> HIDE DEF row
<1>4. RowsStay
  BY <1>2, <1>3 DEF RowsStay
<1>5. OnePerPair'
  BY <1>2, <1>3 DEF DataOK, OnePerPair
<1>6. subscription' \in [Row -> SubscriptionRow]
  BY <1>2, <1>3 DEF DataOK
<1> QED BY <1>2, <1>3, <1>4, <1>5, <1>6

LEMMA WriteKeepsData ==
  ASSUME TypeOK, DataOK, NEW c \in Client, Write(c)
  PROVE  DataOK'
<1>1. request[c].pc = "writing"
  BY DEF Write
<1>2. request[c] \in Progress
  BY <1>1, InProgress DEF Pc
<1>3. PICK q \in Request : /\ q = request[c].q /\ q.op \in {"confirm", "unsubscribe"} /\ q.row \in Row
                           /\ subscription[q.row].state # "unused"
  BY <1>1, <1>2, Asks
<1> DEFINE written == [subscription EXCEPT ![q.row].state = IF q.op = "confirm" THEN "confirmed" ELSE "gone"]
           gone == subscription[q.row].state = "gone"
<1>4. ~gone => subscription[q.row].state \in {"pending", "confirmed"}
  BY <1>3 DEF DataOK, SubscriptionRow, Unused
<1>5. ~gone /\ subscription' = written =>
        /\ (subscription \in [Row -> SubscriptionRow])' /\ RowsStay /\ OnePerPair'
        /\ subscription'[q.row].state = IF q.op = "confirm" THEN "confirmed" ELSE "gone"
  BY <1>3, <1>4, WriteKeepsRows
<1>6. CASE ~gone /\ subscription' = written /\ Answer(c, "none") /\ UNCHANGED <<repos, faults>>
  <2>1. Holds(q, "none")'
    BY <1>3, <1>5, <1>6 DEF Holds
  <2> QED BY <1>2, <1>3, <1>5, <1>6, <2>1, AnswerAfterWrite DEF Outcome, DataOK
<1>7. CASE ~gone /\ Fault /\ subscription' = written /\ Answer(c, "AppError") /\ UNCHANGED repos
  <2>1. faults' \in Nat /\ faults' # 0
    BY <1>7 DEF Fault, DataOK
  <2>2. Holds(q, "AppError")'
    BY <2>1 DEF Holds
  <2> QED BY <1>2, <1>3, <1>5, <1>7, <2>1, <2>2, AnswerAfterWrite DEF Outcome, Error
<1>8. CASE gone /\ Answer(c, "AppError") /\ UNCHANGED <<repos, subscription, faults>>
  <2>1. Holds(q, "AppError")'
    BY <1>3, <1>8 DEF Holds
  <2> QED BY <1>2, <1>3, <1>8, <2>1, AnswerKeepsData DEF Outcome, Error, DataOK
<1>9. CASE DatabaseFails(c)
  BY <1>2, <1>9, DatabaseFailsKeepsData
<1> QED BY <1>3, <1>6, <1>7, <1>8, <1>9, Zenon DEF Write

LEMMA HandlerKeepsData ==
  ASSUME TypeOK, DataOK, NEW c \in Client, HandlerStep(c)
  PROVE  DataOK'
BY VerifyRepoKeepsData, FindOrCreateKeepsData, CreateRepoKeepsData, AssertNotDuplicateKeepsData, CreateKeepsData,
   FindKeepsData, WriteKeepsData, FindAllByEmailKeepsData DEF HandlerStep

LEMMA ArriveKeepsData ==
  ASSUME TypeOK, DataOK, NEW c \in Client, NEW q \in Request, Arrive(c, q)
  PROVE  DataOK'
<1>1. UNCHANGED <<repos, subscription, faults>>
  BY DEF Arrive
<1>2. CASE Check(q) # "none"
  <2>1. /\ request' = request
        /\ answer' = [q |-> q, error |-> Check(q), told |-> ToldOver(q.via, Check(q))]
    BY <1>2 DEF Arrive
  <2>2. /\ Check(q) \in {"ValidationError", "Unauthorized", "AppError"}
        /\ Check(q) = "AppError" => q.body # "whole"
    BY <1>2, CheckErrors
  <2>3. /\ answer'.error \in {"ValidationError", "Unauthorized", "AppError"}
        /\ answer'.error = "AppError" => answer'.q.body # "whole"
    BY <2>1, <2>2
  <2>4. AnswerTellsTruth'
    BY <2>3 DEF AnswerTellsTruth
  <2> QED BY <1>1, <2>1, <2>4 DEF DataOK, Staged, OnePerPair
<1>3. CASE Check(q) = "none"
  <2>1. /\ answer' = None
        /\ request' = [request EXCEPT ![c] =
             [pc |-> Entry(q.op), q |-> q, awaited |-> TRUE, counted |-> q.via # "grpc"]]
    BY <1>3 DEF Arrive
  <2>2. \A d \in Client : d # c => request'[d] = request[d]
    BY <2>1 DEF TypeOK, ApiTypeOK
  <2>3. request'[c].pc = Entry(q.op) /\ request'[c].q = q
    BY <2>1 DEF TypeOK, ApiTypeOK
  <2>4. /\ q.op = "subscribe" => Entry(q.op) = "verifying" /\ ParseRepo(q.slug) \in Repository
        /\ q.op = "getSubscriptions" => Entry(q.op) = "listing"
        /\ q.op \in {"confirm", "unsubscribe"} => Entry(q.op) = "finding" /\ q.row \in Row
        /\ q.op \in Method
    BY <1>3, Checked DEF Entry
  <2>5. Staged'
    BY <1>1, <2>2, <2>3, <2>4 DEF DataOK, Staged, Method
  <2> QED BY <1>1, <2>1, <2>5 DEF DataOK, OnePerPair, AnswerTellsTruth
<1> QED BY <1>2, <1>3

LEMMA AbortKeepsData ==
  ASSUME TypeOK, DataOK, NEW c \in Client, Abort(c)
  PROVE  DataOK'
<1>1. UNCHANGED <<repos, subscription, faults>> /\ answer' = None
  BY DEF Abort
<1>2. request' = [request EXCEPT ![c].awaited = FALSE, ![c].counted = FALSE]
  BY DEF Abort
<1>3. request[c] \in Progress
  BY InProgress DEF Abort
<1>4. \A d \in Client : d # c => request'[d] = request[d]
  BY <1>2 DEF TypeOK, ApiTypeOK
<1>5. request'[c].pc = request[c].pc /\ request'[c].q = request[c].q /\ request[c] # Free
  BY <1>2, <1>3, InProgress DEF TypeOK, ApiTypeOK, Progress
<1>6. Staged
  BY DEF DataOK
<1>7. Staged'
  BY <1>1, <1>4, <1>5, <1>6, Zenon DEF Staged
<1> QED BY <1>1, <1>7 DEF DataOK, OnePerPair, AnswerTellsTruth

LEMMA CompensateKeepsData ==
  ASSUME TypeOK, DataOK, NEW i \in Row, Compensate(i)
  PROVE  DataOK'
<1>1. /\ subscription[i].state \in {"pending", "confirmed"} /\ answer' = None
      /\ UNCHANGED <<repos, request, faults>>
      /\ subscription' = [subscription EXCEPT ![i].state = "gone"]
  BY DEF Compensate
<1>2. (subscription \in [Row -> SubscriptionRow])' /\ RowsStay /\ OnePerPair'
  BY <1>1, WriteKeepsRows
<1>3. Staged'
  BY <1>1, <1>2 DEF DataOK, Staged, RowsStay
<1> QED BY <1>1, <1>2, <1>3 DEF DataOK, AnswerTellsTruth

LEMMA DetachesKeepsData ==
  ASSUME TypeOK, DataOK, Detaches, UNCHANGED <<repos, subscription, faults>>
  PROVE  DataOK'
<1>1. \A c \in Client : request'[c] =
        IF request[c] # Free /\ request[c].q.via = "grpc" THEN [request[c] EXCEPT !.awaited = FALSE]
        ELSE request[c]
  BY DEF Detaches, ForceShutdown
<1>2. \A r \in Progress : [r EXCEPT !.awaited = FALSE].pc = r.pc /\ [r EXCEPT !.awaited = FALSE].q = r.q
  BY DEF Progress
<1>3. \A c \in Client : request[c] # Free => request[c] \in Progress
  BY InProgress
<1>4. \A c \in Client : /\ request'[c].pc = request[c].pc \/ request[c] = Free
                        /\ request'[c].q = request[c].q \/ request[c] = Free
                        /\ request'[c] # Free => request[c] # Free
  BY <1>1, <1>2, <1>3
<1>5. Staged'
  BY <1>4 DEF DataOK, Staged
<1> QED BY <1>5 DEF DataOK, OnePerPair, AnswerTellsTruth, Detaches

LEMMA ForgetsKeepsData ==
  ASSUME DataOK, Forgets, UNCHANGED <<repos, subscription>>, faults' \in Nat
  PROVE  DataOK'
<1>1. \A c \in Client : request'[c] = Free
  BY DEF Forgets
<1> QED BY <1>1 DEF DataOK, Staged, OnePerPair, AnswerTellsTruth, Forgets

LEMMA SilenceKeepsData ==
  ASSUME DataOK, Silent, UNCHANGED <<repos, subscription>>, faults' \in Nat
  PROVE  DataOK'
BY DEF DataOK, Staged, OnePerPair, AnswerTellsTruth, Silent

-----------------------------------------------------------------------------
(* The process *)

ProcessOK ==
  /\ stage \in Stage
  /\ interval \in Interval
  /\ repeatable \subseteq Interval
  /\ scanning \in BOOLEAN
  /\ hung \in BOOLEAN
  /\ JobsOfStage

IInv == RequestsOK /\ DataOK /\ ProcessOK

LEMMA InvariantTypes == IInv => TypeOK
BY DEF IInv, RequestsOK, DataOK, ProcessOK, TypeOK, ApiTypeOK

\* Nobody starts to wait except by a request that is served.
LEMMA WaitersLeave ==
  ASSUME TypeOK, NEW c \in Client, HandlerStep(c) \/ Abort(c)
  PROVE  Waiting' \subseteq Waiting
<1>1. CASE \E e \in Outcome : Answer(c, e)
  <2>1. \A d \in Client : request'[d] = IF d = c THEN Free ELSE request[d]
    BY <1>1 DEF Answer, TypeOK, ApiTypeOK
  <2> QED BY <2>1 DEF Waiting
<1>2. CASE request[c] \in Progress /\ \E pc \in Pc : Goes(c, pc)
  <2>1. /\ \A d \in Client : d # c => request'[d] = request[d]
        /\ request'[c].q = request[c].q /\ request'[c].awaited = request[c].awaited
    BY <1>2 DEF Goes, TypeOK, ApiTypeOK, Progress
  <2> QED BY <1>2, <2>1, InProgress DEF Waiting
<1>3. CASE Abort(c)
  <2>1. request[c] \in Progress
    BY <1>3, InProgress DEF Abort
  <2>2. /\ \A d \in Client : d # c => request'[d] = request[d]
        /\ request'[c].awaited = FALSE
    BY <1>3, <2>1 DEF Abort, TypeOK, ApiTypeOK, Progress
  <2> QED BY <2>2 DEF Waiting
<1> QED BY <1>1, <1>2, <1>3, HandlerShape

LEMMA WaitersArrive ==
  ASSUME TypeOK, NEW c \in Client, NEW q \in Request, Serves(q), Arrive(c, q)
  PROVE  Waiting' \subseteq Waiting \/ stage = "running"
<1>1. CASE request' = request
  BY <1>1 DEF Waiting
<1>2. CASE request' = [request EXCEPT ![c] =
             [pc |-> Entry(q.op), q |-> q, awaited |-> TRUE, counted |-> q.via # "grpc"]]
  <2>1. (\A d \in Client : d # c => request'[d] = request[d]) /\ request'[c].q = q
    BY <1>2 DEF TypeOK, ApiTypeOK
  <2> QED BY <2>1 DEF Waiting, Serves, HttpOn
<1> QED BY <1>1, <1>2, Zenon DEF Arrive

\* A step that leaves the process alone.
LEMMA RequestsKeepProcess ==
  ASSUME ProcessOK, UNCHANGED processVars, Waiting' \subseteq Waiting \/ stage = "running"
  PROVE  ProcessOK'
BY DEF ProcessOK, JobsOfStage, processVars

\* Main, the shutdown and the scan job.
LEMMA ProcessKeepsProcess ==
  ASSUME ProcessOK,
         Main \/ Signal \/ Drained \/ WorkerClosed \/ SchedulerStopped \/ BrokersClosed
              \/ StartScan \/ FinishScan \/ ScanHangs,
         Waiting' = Waiting
  PROVE  ProcessOK'
<1> USE DEF ProcessOK, JobsOfStage, Becomes, WorkerOn
<1>1. CASE Boot
  BY <1>1 DEF Boot, Stage, Starting
<1>2. CASE CreateInfraInstances
  BY <1>2 DEF CreateInfraInstances, Stage, Starting
<1>3. CASE BuildContainer
  BY <1>3 DEF BuildContainer, Stage, Starting
<1>4. CASE RemoveRepeatable
  BY <1>4 DEF RemoveRepeatable, Stage, Starting
<1>5. CASE AddRepeatable
  BY <1>5 DEF AddRepeatable, Stage, Starting
<1>6. CASE Listen
  BY <1>6 DEF Listen, Stage
<1>7. CASE Signal
  BY <1>7 DEF Signal, Stage, Stopping
<1>8. CASE Drained
  BY <1>8 DEF Drained, Stage, Stopping
<1>9. CASE WorkerClosed
  BY <1>9 DEF WorkerClosed, Stage, Stopping
<1>10. CASE SchedulerStopped
  BY <1>10 DEF SchedulerStopped, Stage, Stopping
<1>11. CASE BrokersClosed
  BY <1>11 DEF BrokersClosed, Stage, Stopping
<1>12. CASE StartScan
  BY <1>12 DEF StartScan
<1>13. CASE FinishScan
  BY <1>13 DEF FinishScan
<1>14. CASE ScanHangs
  BY <1>14 DEF ScanHangs
<1> QED BY <1>1, <1>2, <1>3, <1>4, <1>5, <1>6, <1>7, <1>8, <1>9, <1>10, <1>11, <1>12, <1>13, <1>14 DEF Main

LEMMA GoneKeepsProcess ==
  ASSUME ProcessOK, Gone
  PROVE  ProcessOK'
<1>1. Waiting' = {}
  BY DEF Gone, Waiting
<1> QED BY <1>1 DEF Gone, ProcessOK, JobsOfStage, Stage

-----------------------------------------------------------------------------
(* The invariant holds of every behaviour *)

LEMMA InitEstablishes == Init => IInv
<1> SUFFICES ASSUME Init PROVE IInv
  OBVIOUS
<1>1. Waiting = {}
  BY DEF Init, ApiInit, Waiting
<1>2. RequestsOK
  BY <1>1, FS_EmptySet
  DEF Init, ApiInit, RequestsOK, Counted, GaugeCountsRequests, AnswerSurvivesTheWay
<1>3. DataOK
  BY DEF Init, ApiInit, DataOK, Staged, OnePerPair, AnswerTellsTruth, SubscriptionRow, Unused
<1>4. ProcessOK
  BY <1>1 DEF Init, ProcessOK, JobsOfStage, Stage
<1> QED BY <1>2, <1>3, <1>4 DEF IInv

LEMMA NextKeepsRequests ==
  ASSUME IInv, [Next]_vars
  PROVE  RequestsOK'
<1>1. TypeOK /\ RequestsOK
  BY InvariantTypes DEF IInv
<1>2. CASE Silent \/ UNCHANGED <<request, gauge, answer>>
  BY <1>1, <1>2 DEF RequestsOK, Counted, GaugeCountsRequests, Waiting, AnswerSurvivesTheWay, Silent
<1> QED BY <1>1, <1>2, RequestShape, AnswerKeepsRequests, GoesKeepsRequests, ArriveKeepsRequests,
           AbortKeepsRequests, DetachesKeepsRequests, ForgetsKeepsRequests

LEMMA NextKeepsTheRest ==
  ASSUME IInv, [Next]_vars
  PROVE  DataOK' /\ ProcessOK'
<1>1. TypeOK /\ DataOK /\ ProcessOK
  BY InvariantTypes DEF IInv
<1>2. CASE Main \/ Signal \/ WorkerClosed \/ SchedulerStopped \/ BrokersClosed
           \/ StartScan \/ FinishScan \/ ScanHangs
  <2>1. Silent /\ UNCHANGED <<repos, subscription, request>> /\ (UNCHANGED faults \/ faults' = faults + 1)
    BY <1>2 DEF Main, Boot, CreateInfraInstances, BuildContainer, RemoveRepeatable, AddRepeatable, Listen,
                Signal, WorkerClosed, SchedulerStopped, BrokersClosed, StartScan, FinishScan, ScanHangs,
                Fault, Becomes, Quiet, KeepsRequests, Silent
  <2>3. faults' \in Nat
    BY <1>1, <2>1 DEF DataOK
  <2>2. Waiting' = Waiting
    BY <2>1 DEF Waiting
  <2> QED BY <1>1, <1>2, <2>1, <2>2, <2>3, SilenceKeepsData, ProcessKeepsProcess
<1>3. CASE Drained
  <2>1. Detaches /\ UNCHANGED <<repos, subscription, faults>> /\ Waiting = {}
    BY <1>3 DEF Drained, Detaches, Becomes, Quiet
  <2>2. \A c \in Client : request[c] # Free => request[c] \in Progress
    BY <1>1, InProgress
  <2>3. Waiting' = Waiting
    <3>1. \A c \in Client : request'[c] = request[c] \/ request'[c].awaited = FALSE
      BY <2>1, <2>2 DEF Detaches, ForceShutdown, Progress
    <3> QED BY <2>1, <3>1 DEF Waiting
  <2> QED BY <1>1, <1>3, <2>1, <2>3, DetachesKeepsData, ProcessKeepsProcess
<1>4. CASE StoresClosed \/ Crash
  <2>1. Gone /\ (UNCHANGED faults \/ faults' = faults + 1)
    BY <1>4, Zenon DEF StoresClosed, Crash, Fault
  <2>3. faults' \in Nat
    BY <1>1, <2>1 DEF DataOK
  <2>2. Forgets /\ UNCHANGED <<repos, subscription>>
    BY <2>1 DEF Gone, Quiet, Forgets
  <2> QED BY <1>1, <2>1, <2>2, <2>3, ForgetsKeepsData, GoneKeepsProcess
<1>5. CASE \E c \in Client, q \in Request : Serves(q) /\ Arrive(c, q) /\ UNCHANGED processVars
  BY <1>1, <1>5, ArriveKeepsData, WaitersArrive, RequestsKeepProcess
<1>6. CASE \E c \in Client : (HandlerStep(c) \/ Abort(c)) /\ UNCHANGED processVars
  BY <1>1, <1>6, HandlerKeepsData, AbortKeepsData, WaitersLeave, RequestsKeepProcess
<1>7. CASE \E i \in Row : Compensate(i) /\ UNCHANGED processVars
  <2>1. Waiting' = Waiting
    BY <1>7 DEF Compensate, Waiting
  <2> QED BY <1>1, <1>7, <2>1, CompensateKeepsData, RequestsKeepProcess
<1>8. CASE UNCHANGED vars
  <2>1. UNCHANGED <<repos, subscription, request, gauge, answer, faults>> /\ UNCHANGED processVars
    BY <1>8 DEF vars, processVars
  <2>2. DataOK'
    BY <1>1, <2>1 DEF DataOK, Staged, OnePerPair, AnswerTellsTruth, SamePair, Taken
  <2>3. Waiting' = Waiting
    BY <2>1 DEF Waiting
  <2> QED BY <1>1, <2>1, <2>2, <2>3, RequestsKeepProcess
<1> QED BY <1>2, <1>3, <1>4, <1>5, <1>6, <1>7, <1>8 DEF Next, Shutdown

THEOREM Invariant == Spec => []IInv
<1>1. Init => IInv
  BY InitEstablishes
<1>2. IInv /\ [Next]_vars => IInv'
  BY NextKeepsRequests, NextKeepsTheRest DEF IInv
<1> QED BY <1>1, <1>2, PTL DEF Spec

-----------------------------------------------------------------------------
(* What follows from it *)

\* The type invariant: tables, requests, gauge, answers and the process stay in
\* their types, for any set of clients and requests and any number of rows.
THEOREM TypeCorrect == Spec => []TypeOK
BY Invariant, InvariantTypes, PTL

\* http_requests_in_flight counts exactly the HTTP requests whose client waits:
\* metricsPlugin's flag takes each off once, however answers and aborts race.
THEOREM GaugeCorrect == Spec => []GaugeCountsRequests
<1>1. IInv => GaugeCountsRequests
  BY DEF IInv, RequestsOK
<1> QED BY <1>1, Invariant, PTL

\* A status read through the proxy, whose errors are mapped to gRPC and back, is
\* the one HTTP gives for the same error.
THEOREM StatusCorrect == Spec => []AnswerSurvivesTheWay
<1>1. IInv => AnswerSurvivesTheWay
  BY DEF IInv, RequestsOK
<1> QED BY <1>1, Invariant, PTL

\* What SubscriptionService tells a client holds at that moment, whatever other
\* requests, the deletions of the saga, which spare no status, and failures did
\* between the awaits of its handler; and an internal error has its reason, the lost
\* race for a row of Repo and a body that is none among them.
THEOREM AnswersCorrect == Spec => []AnswerTellsTruth
<1>1. IInv => AnswerTellsTruth
  BY DEF IInv, DataOK
<1> QED BY <1>1, Invariant, PTL

\* The order of the shutdown closes nothing that a waiting HTTP client or a scan
\* under way still needs.
THEOREM StoresCorrect == Spec => []UsersHaveStores
<1>1. IInv => UsersHaveStores
  BY DEF IInv, ProcessOK, JobsOfStage, UsersHaveStores, BrokersOpen
<1> QED BY <1>1, Invariant, PTL

\* A process that serves has one repeatable scan job, of its own interval, whatever
\* crashed starts and shutdowns left in Redis.
THEOREM RepeatableCorrect == Spec => []OneRepeatable
<1>1. IInv => OneRepeatable
  BY DEF IInv, ProcessOK, JobsOfStage, OneRepeatable
<1> QED BY <1>1, Invariant, PTL

\* A step of a process that has not failed leaves a waiting client's request as it
\* is, or answers it: no shutdown cuts it.
LEMMA WaiterIsServed ==
  ASSUME IInv, [Next]_vars, NEW c \in Waiting
  PROVE  \/ request'[c] # Free /\ request'[c].q = request[c].q
         \/ answer' # None /\ answer'.q = request[c].q
         \/ faults' > faults
<1>1. TypeOK /\ faults \in Nat
  BY InvariantTypes DEF IInv, DataOK
<1>2. c \in Client /\ request[c] # Free /\ request[c].awaited
  BY DEF Waiting
<1>3. request[c] \in Progress /\ request[c].q \in Request
  BY <1>1, <1>2, InProgress DEF Progress
<1>4. ASSUME NEW d \in Client, NEW e \in Outcome, Answer(d, e)
      PROVE  \/ request'[c] = request[c]
             \/ answer' # None /\ answer'.q = request[c].q
  <2>1. CASE d # c
    BY <1>1, <1>2, <1>4, <2>1 DEF Answer, TypeOK, ApiTypeOK
  <2>2. CASE d = c
    <3>1. answer' = [q |-> request[c].q, error |-> e, told |-> ToldOver(request[c].q.via, e)]
      BY <1>2, <1>4, <2>2 DEF Answer
    <3> QED BY <1>3, <3>1, AnswerIsTyped
  <2> QED BY <2>1, <2>2
<1>5. ASSUME NEW d \in Client, NEW pc \in Pc, Goes(d, pc)
      PROVE  request'[c] # Free /\ request'[c].q = request[c].q
  BY <1>1, <1>2, <1>3, <1>5 DEF Goes, TypeOK, ApiTypeOK, Progress, Free
<1>6. ASSUME NEW d \in Client, NEW q \in Request, Arrive(d, q)
      PROVE  request'[c] = request[c]
  <2>1. d # c
    BY <1>2, <1>6 DEF Arrive
  <2>2. \/ request' = request
        \/ request' = [request EXCEPT ![d] =
             [pc |-> Entry(q.op), q |-> q, awaited |-> TRUE, counted |-> q.via # "grpc"]]
    BY <1>6, Zenon DEF Arrive
  <2> QED BY <1>1, <1>2, <2>1, <2>2 DEF TypeOK, ApiTypeOK
<1>7. ASSUME NEW d \in Client, Abort(d)
      PROVE  request'[c] # Free /\ request'[c].q = request[c].q
  BY <1>1, <1>2, <1>3, <1>7 DEF Abort, TypeOK, ApiTypeOK, Progress, Free
<1>8. CASE Detaches
  BY <1>2, <1>3, <1>8 DEF Detaches, ForceShutdown, Progress, Free
<1>9. CASE Silent \/ UNCHANGED <<request, gauge, answer>>
  BY <1>2, <1>9 DEF Silent
<1>10. CASE Forgets /\ (stage = "closing stores" \/ faults' = faults + 1)
  <2>1. stage \in {"running", "draining"}
    BY DEF IInv, ProcessOK, JobsOfStage
  <2>2. faults' = faults + 1
    BY <1>10, <2>1
  <2> QED BY <1>1, <2>2
<1> QED BY <1>1, <1>2, <1>4, <1>5, <1>6, <1>7, <1>8, <1>9, <1>10, RequestShape

\* A waiting HTTP client is answered unless the process fails, in every step and
\* through the whole shutdown: app.close comes before everything it needs.
THEOREM NobodyIsCutCorrect == Spec => NobodyIsCut
<1>1. IInv /\ [Next]_vars =>
        [\A c \in Waiting :
           \/ request'[c] # Free /\ request'[c].q = request[c].q
           \/ answer' # None /\ answer'.q = request[c].q
           \/ faults' > faults]_vars
  BY WaiterIsServed
<1> QED BY <1>1, Invariant, PTL DEF Spec, NobodyIsCut
=============================================================================
