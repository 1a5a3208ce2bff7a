-------------------------- MODULE SubscriptionApi ---------------------------
(* The subscription requests of the monolith, from the three ways in (HTTP,  *)
(* gRPC, and the HTTP proxy in front of gRPC) through key and input checks,  *)
(* SubscriptionService and its tables, back to the status the client reads.  *)
(* A request stands at an await of its handler; the saga that may delete a   *)
(* subscription is ConfirmationSaga.                                         *)
EXTENDS GatewayErrors, FiniteSets

CONSTANTS
  Client,
  Request,     \* what clients ask: [via, op, key, body, email, slug, row]
  MaxRows,     \* bound on subscriptions, numbered as they are created
  OnGitHub,    \* the repositories that exist
  MaxFaults,   \* bound on failures and crashes
  None

Method == {"subscribe", "confirm", "unsubscribe", "getSubscriptions"}
Row == 1 .. MaxRows
\* Inputs by who accepts them: "odd" passes the service but not the HTTP schema.
\* A repository has several spellings. Row 0 is a token of the wrong shape. Any
\* address that is not "bad" is text that the database can hold.
EmailInput == {"good", "odd", "bad"}
SlugInput == {"plain", "url", "odd", "unknown", "bad"}
\* A body that cannot be parsed, one that is no object, and one whose payload makes
\* no message of its method.
Body == {"whole", "garbled", "none", "unfit"}

ASSUME ApiAssumption ==
  /\ MaxRows \in Nat /\ MaxFaults \in Nat
  /\ OnGitHub \subseteq {"plain", "odd", "unknown"}
  /\ Request \subseteq [via : {"http", "grpc", "proxy"}, op : Method \cup {"other"}, key : BOOLEAN,
                        body : Body, email : EmailInput, slug : SlugInput, row : 0 .. MaxRows]
  /\ \A q \in Request :
       /\ q.op = "other" => q.via = "proxy"
       /\ q.body = "unfit" => q.via = "proxy"
       /\ q.body # "whole" => q.via = "proxy" \/ (q.via = "http" /\ q.op = "subscribe")
  /\ IsFiniteSet(Client)

VARIABLES
  repos,         \* rows of Repo
  subscription,  \* rows of Subscription
  request,       \* what each client's request has come to
  gauge,         \* http_requests_in_flight
  answer,        \* the answer given in the last step, if any (history)
  faults

apiVars == <<repos, subscription, request, gauge, answer, faults>>

\* parseRepo: a URL and its owner/name are one repository.
ParseRepo(slug) == IF slug = "url" THEN "plain" ELSE slug
Repository == {"plain", "odd", "unknown"}

Unused == [state |-> "unused"]
SubscriptionRow ==
  {Unused} \cup [state : {"pending", "confirmed", "gone"}, email : EmailInput, repo : Repository]
Free == [pc |-> "free"]
Progress ==
  [pc : {"verifying", "upserting", "inserting", "checking", "creating", "finding", "writing", "listing"},
   q : Request, awaited : BOOLEAN, counted : BOOLEAN]
\* Errors by class; the loser of a race for a row of Repo has one of its own.
Outcome == Error \cup {"none", "RepoExists"}
Status == {200, 400, 401, 404, 409, 429, 500}
GrpcCode == {GrpcStatus[code] : code \in Status \ {200}} \cup {"OK"}
Answers(over, told) == [q : {q \in Request : (q.via = "grpc") = over}, error : Outcome, told : told]

ASSUME NoneAssumption == None \notin Answers(FALSE, Status) \cup Answers(TRUE, GrpcCode)

ApiTypeOK ==
  /\ repos \subseteq Repository
  /\ subscription \in [Row -> SubscriptionRow]
  /\ request \in [Client -> {Free} \cup Progress]
  /\ gauge \in Int
  /\ \/ answer = None
     \/ answer \in Answers(FALSE, Status)
     \/ answer \in Answers(TRUE, GrpcCode)
  /\ faults \in Nat

ApiInit ==
  /\ repos = {}
  /\ subscription = [i \in Row |-> Unused]
  /\ request = [c \in Client |-> Free]
  /\ gauge = 0
  /\ answer = None
  /\ faults = 0

Fault == faults < MaxFaults /\ faults' = faults + 1

-----------------------------------------------------------------------------
(* Checks, in the order in which a request meets them *)

SchemaAccepts(q) ==
  CASE q.op = "subscribe" -> q.email = "good" /\ q.slug \in {"plain", "url", "unknown"}
    [] q.op = "getSubscriptions" -> q.email = "good"
    [] OTHER -> q.row \in Row

\* SubscriptionValidator.
ServiceAccepts(q) ==
  CASE q.op = "subscribe" -> q.email # "bad" /\ q.slug # "bad"
    [] q.op = "getSubscriptions" -> q.email # "bad"
    [] OTHER -> q.row \in Row

ApiKeyGuard(q) == q.key
KeyedMethod(q) == q.op \in {"subscribe", "getSubscriptions"}

\* Fastify parses, then validates, then the guard runs. What the parser throws has
\* no class and no validation result: the error handler makes it a 500.
HttpCheck(q) ==
  IF q.body = "garbled" THEN "AppError"
  ELSE IF q.body = "none" \/ ~SchemaAccepts(q) THEN "ValidationError"
  ELSE IF KeyedMethod(q) /\ ~ApiKeyGuard(q) THEN "Unauthorized" ELSE "none"

GrpcCheck(q) == IF KeyedMethod(q) /\ ~q.key THEN "Unauthorized" ELSE "none"

\* The proxy's route has no schema: the handler takes method and payload out of
\* whatever there is, and the gRPC client makes a message of it.
ProxyCheck(q) ==
  CASE q.body = "garbled" -> "AppError"
    [] q.body # "garbled" /\ ~ApiKeyGuard(q) -> "Unauthorized"
    [] q.body = "none" /\ ApiKeyGuard(q) -> "AppError"
    [] q.body \in {"whole", "unfit"} /\ ApiKeyGuard(q) ->
         IF q.op = "other" THEN "ValidationError"
         ELSE IF q.body = "unfit" THEN "AppError" ELSE GrpcCheck(q)

\* What stops a request before its handler awaits anything.
Check(q) ==
  LET early == CASE q.via = "http" -> HttpCheck(q) [] q.via = "grpc" -> GrpcCheck(q)
                 [] OTHER -> ProxyCheck(q)
  IN IF early # "none" THEN early
     ELSE IF ServiceAccepts(q) THEN "none" ELSE "ValidationError"

-----------------------------------------------------------------------------
(* Answers *)

\* Faulty variant: the status the design document has for a success.
HttpStatusAsDesigned(error) == IF error = "none" THEN 201 ELSE StatusCode(error)

HttpStatus(error) == IF error = "none" THEN 200 ELSE StatusCode(error)
MapAppErrorToGrpcStatus(error) == IF error = "none" THEN "OK" ELSE GrpcStatus[StatusCode(error)]

\* Faulty variant: a status is missing, and every unknown one is internal.
GrpcToHttpWithoutConflict(status) ==
  CASE status = "OK" -> 200 [] status = "INVALID_ARGUMENT" -> 400 [] status = "UNAUTHENTICATED" -> 401
    [] status = "NOT_FOUND" -> 404 [] status = "RESOURCE_EXHAUSTED" -> 429 [] OTHER -> 500

GrpcToHttp(status) ==
  CASE status = "OK" -> 200 [] status = "INVALID_ARGUMENT" -> 400 [] status = "UNAUTHENTICATED" -> 401
    [] status = "NOT_FOUND" -> 404 [] status = "ALREADY_EXISTS" -> 409
    [] status = "RESOURCE_EXHAUSTED" -> 429 [] OTHER -> 500

ToldOver(via, error) ==
  CASE via = "http" -> HttpStatus(error)
    [] via = "grpc" -> MapAppErrorToGrpcStatus(error)
    [] OTHER -> GrpcToHttp(MapAppErrorToGrpcStatus(error))

\* Faulty variant: nobody remembers what has been counted.
ReleaseInflightAlways(c) == gauge' = gauge - 1

\* The flag keeps onResponse and onRequestAbort from both taking the request off.
ReleaseInflight(c) == gauge' = IF request[c].counted THEN gauge - 1 ELSE gauge

\* The handler is over. An answer to a client that is gone goes nowhere, but
\* onResponse runs for it as well.
Answer(c, error) ==
  LET r == request[c] IN
  /\ request' = [request EXCEPT ![c] = Free]
  /\ IF r.q.via = "grpc" THEN gauge' = gauge ELSE ReleaseInflight(c)
  /\ answer' = IF r.awaited THEN [q |-> r.q, error |-> error, told |-> ToldOver(r.q.via, error)]
               ELSE None

\* The handler stands at its next await.
Goes(c, pc) ==
  /\ request' = [request EXCEPT ![c].pc = pc]
  /\ answer' = None
  /\ UNCHANGED gauge

\* An error of Prisma is no AppError.
DatabaseFails(c) ==
  /\ Fault
  /\ Answer(c, "AppError")
  /\ UNCHANGED <<repos, subscription>>

-----------------------------------------------------------------------------
(* Handlers *)

Entry(op) ==
  CASE op = "subscribe" -> "verifying" [] op = "getSubscriptions" -> "listing" [] OTHER -> "finding"

\* The bound: every subscribe under way may still need a row.
Room(q) ==
  q.op = "subscribe" =>
    Cardinality({c \in Client : request[c] # Free /\ request[c].q.op = "subscribe"})
      < Cardinality({i \in Row : subscription[i] = Unused})

\* A request that a check stops is answered, and on and off the gauge, at once.
Arrive(c, q) ==
  /\ request[c] = Free
  /\ LET counted == q.via # "grpc" IN
     \/ /\ Check(q) # "none"
        /\ answer' = [q |-> q, error |-> Check(q), told |-> ToldOver(q.via, Check(q))]
        /\ UNCHANGED <<request, gauge>>
     \/ /\ Check(q) = "none" /\ Room(q)
        /\ request' = [request EXCEPT ![c] =
             [pc |-> Entry(q.op), q |-> q, awaited |-> TRUE, counted |-> counted]]
        /\ gauge' = IF counted THEN gauge + 1 ELSE gauge
        /\ answer' = None
  /\ UNCHANGED <<repos, subscription, faults>>

\* The client hangs up; over HTTP that is onRequestAbort. The handler runs on.
Abort(c) ==
  /\ request[c] # Free
  /\ request[c].awaited
  /\ IF request[c].q.via = "grpc" THEN gauge' = gauge ELSE ReleaseInflight(c)
  /\ request' = [request EXCEPT ![c].awaited = FALSE, ![c].counted = FALSE]
  /\ answer' = None
  /\ UNCHANGED <<repos, subscription, faults>>

VerifyRepoRequest == [repo |-> ""]   \* repo stands for owner and name

\* The repository the github-service is asked about.
Asked(q) ==
  LET message == [repo |-> ParseRepo(q.slug)] IN
  IF Transport = "grpc" THEN Carried(VerifyRepoRequest, message) ELSE message

\* It asks its cache, which holds only repositories that exist, or GitHub.
Exists(q) == Asked(q).repo \in OnGitHub

\* A 404 is an answer; a refusal and any other failure is a fault.
VerifyRepo(c) ==
  /\ request[c].pc = "verifying"
  /\ LET q == request[c].q IN
     \/ Exists(q) /\ Goes(c, "upserting") /\ UNCHANGED faults
     \/ ~Exists(q) /\ Answer(c, Remote("NotFoundError")) /\ UNCHANGED faults
     \/ Fault /\ \E e \in {"RateLimitError", "AppError"} : Answer(c, Remote(e))
  /\ UNCHANGED <<repos, subscription>>

\* findOrCreate is an upsert with nothing to update, which Prisma does in two steps:
\* it looks for the row,
FindOrCreate(c) ==
  LET repo == ParseRepo(request[c].q.slug) IN
  /\ request[c].pc = "upserting"
  /\ \/ repo \in repos /\ Goes(c, "checking") /\ UNCHANGED <<repos, subscription, faults>>
     \/ repo \notin repos /\ Goes(c, "inserting") /\ UNCHANGED <<repos, subscription, faults>>
     \/ DatabaseFails(c)

\* and creates it, which violates the unique constraint if another request has done
\* so meanwhile. The connection can be lost after the commit.
CreateRepo(c) ==
  LET repo == ParseRepo(request[c].q.slug) IN
  /\ request[c].pc = "inserting"
  /\ \/ repo \notin repos /\ repos' = repos \cup {repo} /\ Goes(c, "checking") /\ UNCHANGED <<subscription, faults>>
     \/ repo \notin repos /\ Fault /\ repos' = repos \cup {repo} /\ Answer(c, "AppError") /\ UNCHANGED subscription
     \/ repo \in repos /\ Answer(c, "RepoExists") /\ UNCHANGED <<repos, subscription, faults>>
     \/ DatabaseFails(c)

SamePair(i, q) ==
  /\ subscription[i].state \in {"pending", "confirmed"}
  /\ subscription[i].email = q.email /\ subscription[i].repo = ParseRepo(q.slug)
Taken(q) == \E i \in Row : SamePair(i, q)

\* Faulty variant: the conflict is noticed, and nobody is told.
AssertNotDuplicateInSilence(c) ==
  /\ request[c].pc = "checking"
  /\ ~Taken(request[c].q)
  /\ Goes(c, "creating")
  /\ UNCHANGED <<repos, subscription, faults>>

AssertNotDuplicate(c) ==
  /\ request[c].pc = "checking"
  /\ \/ Taken(request[c].q) /\ Answer(c, "Conflict") /\ UNCHANGED <<repos, subscription, faults>>
     \/ ~Taken(request[c].q) /\ Goes(c, "creating") /\ UNCHANGED <<repos, subscription, faults>>
     \/ DatabaseFails(c)

Insert(q) ==
  \E i \in Row :
    /\ subscription[i] = Unused
    /\ \A k \in Row : k < i => subscription[k] # Unused
    /\ subscription' = [subscription EXCEPT ![i] =
         [state |-> "pending", email |-> q.email, repo |-> ParseRepo(q.slug)]]

\* The $transaction; a second row of the pair violates the unique constraint, and
\* a connection can be lost before or after the commit.
Create(c) ==
  LET q == request[c].q IN
  /\ request[c].pc = "creating"
  /\ \/ ~Taken(q) /\ Insert(q) /\ Answer(c, "none") /\ UNCHANGED <<repos, faults>>
     \/ ~Taken(q) /\ Fault /\ Insert(q) /\ Answer(c, "AppError") /\ UNCHANGED <<repos>>
     \/ Taken(q) /\ Answer(c, "AppError") /\ UNCHANGED <<repos, subscription, faults>>
     \/ DatabaseFails(c)

\* The rows a token finds: confirming clears the confirm token.
Live(op) == IF op = "confirm" THEN {"pending"} ELSE {"pending", "confirmed"}

Find(c) ==
  LET q == request[c].q IN
  /\ request[c].pc = "finding"
  /\ \/ subscription[q.row].state \in Live(q.op) /\ Goes(c, "writing") /\ UNCHANGED <<repos, subscription, faults>>
     \/ /\ subscription[q.row].state \notin Live(q.op)
        /\ Answer(c, "NotFoundError")
        /\ UNCHANGED <<repos, subscription, faults>>
     \/ DatabaseFails(c)

\* Faulty variant: a write that meets no row is taken for done.
WriteMany(c) ==
  LET q == request[c].q
      gone == subscription[q.row].state = "gone"
  IN
  /\ request[c].pc = "writing"
  /\ subscription' = [subscription EXCEPT ![q.row].state =
       IF q.op = "confirm" /\ ~gone THEN "confirmed" ELSE "gone"]
  /\ Answer(c, "none")
  /\ UNCHANGED <<repos, faults>>

\* update and delete by id; Prisma throws when the row is gone.
Write(c) ==
  LET q == request[c].q
      gone == subscription[q.row].state = "gone"
      written == [subscription EXCEPT ![q.row].state =
                    IF q.op = "confirm" THEN "confirmed" ELSE "gone"]
  IN
  /\ request[c].pc = "writing"
  /\ \/ ~gone /\ subscription' = written /\ Answer(c, "none") /\ UNCHANGED <<repos, faults>>
     \/ ~gone /\ Fault /\ subscription' = written /\ Answer(c, "AppError") /\ UNCHANGED <<repos>>
     \/ gone /\ Answer(c, "AppError") /\ UNCHANGED <<repos, subscription, faults>>
     \/ DatabaseFails(c)

FindAllByEmail(c) ==
  /\ request[c].pc = "listing"
  /\ \/ Answer(c, "none") /\ UNCHANGED <<repos, subscription, faults>>
     \/ DatabaseFails(c)

HandlerStep(c) ==
  \/ VerifyRepo(c)
  \/ FindOrCreate(c)
  \/ CreateRepo(c)
  \/ AssertNotDuplicate(c)
  \/ Create(c)
  \/ Find(c)
  \/ Write(c)
  \/ FindAllByEmail(c)

\* The saga gives a subscription up: it deletes by id, whatever the status.
Compensate(i) ==
  /\ subscription[i].state \in {"pending", "confirmed"}
  /\ subscription' = [subscription EXCEPT ![i].state = "gone"]
  /\ answer' = None
  /\ UNCHANGED <<repos, request, gauge, faults>>

-----------------------------------------------------------------------------
(* Properties *)

\* Whatever requests, sagas and failures are about, what a client is told holds:
\* a success of the row it is about, "not found" of a token that will never be
\* good again or a repository that is not on GitHub. And nobody is told of an
\* internal error without a reason: a failure, a body that is none, a row that is
\* gone by now, or a pair or a repository that is there by now.
AnswerTellsTruth ==
  answer # None =>
    LET q == answer.q
        state == subscription[q.row].state
    IN
    /\ answer.error = "none" =>
         CASE q.op = "subscribe" -> Cardinality({i \in Row : SamePair(i, q)}) = 1
           [] q.op = "confirm" -> state = "confirmed"
           [] q.op = "unsubscribe" -> state = "gone"
           [] OTHER -> TRUE
    /\ answer.error = "NotFoundError" =>
         CASE q.op = "subscribe" -> ~Exists(q)
           [] OTHER -> state \notin Live(q.op)
    /\ answer.error = "RepoExists" => q.op = "subscribe" /\ ParseRepo(q.slug) \in repos
    /\ answer.error = "AppError" /\ faults = 0 /\ q.body = "whole" =>
         CASE q.op = "subscribe" -> Taken(q)
           [] OTHER -> q.op \in {"confirm", "unsubscribe"} /\ state = "gone"

\* A client reads the same status for the same error whichever way it came, the
\* proxy's two mappings included.
AnswerSurvivesTheWay ==
  answer # None =>
    /\ answer.q.via # "grpc" => answer.told = HttpStatus(answer.error)
    /\ answer.q.via = "grpc" => GrpcToHttp(answer.told) = HttpStatus(answer.error)

\* The gauge counts the HTTP requests whose client waits, whatever answers and
\* aborts come in whatever order: it never drifts.
Waiting == {c \in Client : request[c] # Free /\ request[c].awaited /\ request[c].q.via # "grpc"}
GaugeCountsRequests == gauge = Cardinality(Waiting)
=============================================================================
