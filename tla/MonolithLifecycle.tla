------------------------- MODULE MonolithLifecycle --------------------------
(* The process of the monolith from main() to the end of its shutdown, around *)
(* the requests of SubscriptionApi and the scan job. The process stands at an *)
(* await of main or of the shutdown; the repeatable job outlives it in Redis. *)
EXTENDS SubscriptionApi

CONSTANT Interval   \* values of SCAN_INTERVAL_MS, chosen anew at each start

VARIABLES
  stage,       \* where main or the shutdown stands
  interval,    \* SCAN_INTERVAL_MS of this process
  repeatable,  \* repeatable jobs of the queue, one per interval
  scanning,    \* the worker has a job
  hung         \* its publish waits for a 'drain' that will not come

processVars == <<stage, interval, repeatable, scanning, hung>>
vars == <<repos, subscription, request, gauge, answer, faults, stage, interval, repeatable, scanning, hung>>

Starting == {"connecting", "consuming", "unscheduling", "scheduling", "serving"}
Stopping == {"draining", "closing worker", "closing scheduler", "closing brokers", "closing stores"}
Stage == {"down", "running"} \cup Starting \cup Stopping

\* What is open at which stage.
WorkerOn == {"consuming", "unscheduling", "scheduling", "serving", "running", "draining"}
GrpcOn == {"running", "draining"}
HttpOn == {"running"}
BrokersOpen == WorkerOn \cup {"closing worker", "closing scheduler"}

TypeOK ==
  /\ ApiTypeOK
  /\ stage \in Stage
  /\ interval \in Interval
  /\ repeatable \subseteq Interval
  /\ scanning \in BOOLEAN
  /\ hung \in BOOLEAN

Init ==
  /\ ApiInit
  /\ stage = "down"
  /\ interval \in Interval
  /\ repeatable = {}
  /\ scanning = FALSE
  /\ hung = FALSE

Quiet == answer' = None
Becomes(s) == stage' = s /\ Quiet
KeepsRequests == UNCHANGED <<repos, subscription, request, gauge>>

-----------------------------------------------------------------------------
(* main *)

\* The migrations have run; the stores are connected next.
Boot ==
  /\ stage = "down"
  /\ interval' \in Interval
  /\ Becomes("connecting")
  /\ KeepsRequests
  /\ UNCHANGED <<faults, repeatable, scanning, hung>>

CreateInfraInstances ==
  /\ stage = "connecting"
  /\ Becomes("consuming")
  /\ KeepsRequests
  /\ UNCHANGED <<faults, interval, repeatable, scanning, hung>>

\* The worker and the relay run while the reply consumer is started, before anything
\* is scheduled or served.
BuildContainer ==
  /\ stage = "consuming"
  /\ Becomes("unscheduling")
  /\ KeepsRequests
  /\ UNCHANGED <<faults, interval, repeatable, scanning, hung>>

\* Faulty variant: old jobs stay.
RemoveNothing ==
  /\ stage = "unscheduling"
  /\ Becomes("scheduling")
  /\ KeepsRequests
  /\ UNCHANGED <<faults, interval, repeatable, scanning, hung>>

\* scheduleRepeatable removes what an earlier process left, job by job, and then
\* adds its own.
RemoveRepeatable ==
  /\ stage = "unscheduling"
  /\ \/ \E job \in repeatable : repeatable' = repeatable \ {job} /\ UNCHANGED stage /\ Quiet
     \/ repeatable = {} /\ Becomes("scheduling") /\ UNCHANGED repeatable
  /\ KeepsRequests
  /\ UNCHANGED <<faults, interval, scanning, hung>>

AddRepeatable ==
  /\ stage = "scheduling"
  /\ repeatable' = repeatable \cup {interval}
  /\ Becomes("serving")
  /\ KeepsRequests
  /\ UNCHANGED <<faults, interval, scanning, hung>>

\* buildApp, the gRPC server, then HTTP; the signal handlers are the last to come.
Listen ==
  /\ stage = "serving"
  /\ Becomes("running")
  /\ KeepsRequests
  /\ UNCHANGED <<faults, interval, repeatable, scanning, hung>>

\* The process is gone, and what it had under way with it: a crash, a signal before
\* the handlers are installed, or a step of main or of the shutdown that fails.
Gone ==
  /\ stage' = "down"
  /\ request' = [c \in Client |-> Free]
  /\ gauge' = 0
  /\ scanning' = FALSE /\ hung' = FALSE
  /\ Quiet
  /\ UNCHANGED <<repos, subscription, interval, repeatable>>

Crash == stage # "down" /\ Fault /\ Gone

-----------------------------------------------------------------------------
(* Shutdown *)

\* A second signal is ignored. app.close refuses new requests at once.
Signal ==
  /\ stage = "running"
  /\ Becomes("draining")
  /\ KeepsRequests
  /\ UNCHANGED <<faults, interval, repeatable, scanning, hung>>

\* gRPC clients lose their call; its handler runs on.
ForceShutdown ==
  request' = [c \in Client |->
    IF request[c] # Free /\ request[c].q.via = "grpc" THEN [request[c] EXCEPT !.awaited = FALSE]
    ELSE request[c]]

\* Faulty variant: gRPC goes down first.
DrainedInTheWrongOrder ==
  /\ stage = "draining"
  /\ ForceShutdown
  /\ Becomes("closing worker")
  /\ UNCHANGED <<repos, subscription, gauge, faults, interval, repeatable, scanning, hung>>

\* app.close resolves when no client waits over HTTP, the proxy's included, which
\* the gRPC server still has to answer.
Drained ==
  /\ stage = "draining"
  /\ Waiting = {}
  /\ ForceShutdown
  /\ Becomes("closing worker")
  /\ UNCHANGED <<repos, subscription, gauge, faults, interval, repeatable, scanning, hung>>

\* Faulty variant: nobody waits for the job.
WorkerClosedAtOnce ==
  /\ stage = "closing worker"
  /\ Becomes("closing scheduler")
  /\ KeepsRequests
  /\ UNCHANGED <<faults, interval, repeatable, scanning, hung>>

\* Faulty variant: the worker waits for an empty queue, which comes later.
WorkerClosedOnEmptyQueue ==
  /\ stage = "closing worker"
  /\ ~scanning /\ repeatable = {}
  /\ Becomes("closing scheduler")
  /\ KeepsRequests
  /\ UNCHANGED <<faults, interval, repeatable, scanning, hung>>

\* The worker finishes its job, for which it waits without a limit.
WorkerClosed ==
  /\ stage = "closing worker"
  /\ ~scanning
  /\ Becomes("closing scheduler")
  /\ KeepsRequests
  /\ UNCHANGED <<faults, interval, repeatable, scanning, hung>>

\* The scheduler's jobs go; relay and sweep are stopped, and nobody waits for what
\* they have under way.
SchedulerStopped ==
  /\ stage = "closing scheduler"
  /\ \/ \E job \in repeatable : repeatable' = repeatable \ {job} /\ UNCHANGED stage /\ Quiet
     \/ repeatable = {} /\ Becomes("closing brokers") /\ UNCHANGED repeatable
  /\ KeepsRequests
  /\ UNCHANGED <<faults, interval, scanning, hung>>

BrokersClosed ==
  /\ stage = "closing brokers"
  /\ Becomes("closing stores")
  /\ KeepsRequests
  /\ UNCHANGED <<faults, interval, repeatable, scanning, hung>>

\* BullMQ's connection, Redis and the database; then the process exits.
StoresClosed == stage = "closing stores" /\ Gone /\ UNCHANGED faults

-----------------------------------------------------------------------------
(* The worker and the requests *)

StartScan ==
  /\ stage \in WorkerOn
  /\ ~scanning
  /\ repeatable # {}
  /\ scanning' = TRUE
  /\ Quiet
  /\ KeepsRequests
  /\ UNCHANGED <<faults, stage, interval, repeatable, hung>>

FinishScan ==
  /\ scanning /\ ~hung
  /\ scanning' = FALSE
  /\ Quiet
  /\ KeepsRequests
  /\ UNCHANGED <<faults, stage, interval, repeatable, hung>>

\* The channel dies on which the scan's publisher waits for 'drain': nothing settles
\* that promise, and nothing but the end of the process ends the job.
ScanHangs ==
  /\ scanning /\ ~hung
  /\ Fault
  /\ hung' = TRUE
  /\ Quiet
  /\ KeepsRequests
  /\ UNCHANGED <<stage, interval, repeatable, scanning>>

Serves(q) == IF q.via = "grpc" THEN stage \in GrpcOn ELSE stage \in HttpOn

Main == Boot \/ CreateInfraInstances \/ BuildContainer \/ RemoveRepeatable \/ AddRepeatable \/ Listen
Shutdown == Drained \/ WorkerClosed \/ SchedulerStopped \/ BrokersClosed \/ StoresClosed

Next ==
  \/ Main \/ Signal \/ Shutdown \/ Crash
  \/ StartScan \/ FinishScan \/ ScanHangs
  \/ \E c \in Client, q \in Request : Serves(q) /\ Arrive(c, q) /\ UNCHANGED processVars
  \/ \E c \in Client : (HandlerStep(c) \/ Abort(c)) /\ UNCHANGED processVars
  \/ \E i \in Row : stage \notin {"down", "connecting"} /\ Compensate(i) /\ UNCHANGED processVars

Spec == Init /\ [][Next]_vars

\* Promises of handlers and closes settle, and those of a job that does not hang.
Fairness ==
  /\ WF_vars(Main)
  /\ WF_vars(Shutdown)
  /\ WF_vars(FinishScan)
  /\ \A c \in Client : WF_vars(HandlerStep(c) /\ UNCHANGED processVars)
FairSpec == Spec /\ Fairness

-----------------------------------------------------------------------------
(* Properties *)

\* As long as somebody waits for an HTTP answer or a scan is under way, what they
\* need is open: the order of the shutdown takes nothing away from its users, though
\* a proxied request needs the gRPC server, and a scan the broker and the database.
UsersHaveStores ==
  /\ Waiting # {} => stage \in {"running", "draining"}
  /\ scanning => stage \in BrokersOpen

\* Whatever a crash left in Redis in the middle of a start or a shutdown, and
\* whatever the interval was then, a running process has one scan job, its own.
OneRepeatable == stage = "running" => repeatable = {interval}

\* A request made over HTTP is answered unless its client hangs up or the process
\* fails; a shutdown does not cut it, and no step changes what a request asks.
NobodyIsCut ==
  [][\A c \in Waiting :
       \/ request'[c] # Free /\ request'[c].q = request[c].q
       \/ answer' # None /\ answer'.q = request[c].q
       \/ faults' > faults]_vars

\* Every request comes to an end, and a process that was told to stop does stop,
\* unless a scan hangs: worker.close() waits for it for ever.
EveryRequestEnds == \A c \in Client : request[c] # Free ~> request[c] = Free
StopIsFinished == stage \in Stopping ~> stage = "down" \/ hung
=============================================================================
