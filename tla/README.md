# TLA+ models of the GitHub release notifier

The service lets people subscribe an e-mail address to a GitHub repository,
confirms the address by e-mail, scans GitHub for new releases and mails them
out. It runs as a monolith (HTTP and gRPC API, outbox relay, saga orchestrator,
scanner), a notification service (sends the e-mails), a GitHub gateway, and
Postgres, Redis and RabbitMQ. This directory holds TLA+ models of its protocols,
the TLC instances that check them, and TLAPS proofs about them.

Paths below are relative to the repository; `SRC` is its `src/` directory.

## 1. Inventory

| Component | State | Operations | What is hard about it | What makes it correct |
|---|---|---|---|---|
| Tables (`prisma/schema.prisma`, `*.repository.ts`) | `Subscription`, `SagaInstance`, `OutboxMessage`, `Repo` | single SQL statements; one `$transaction` | unconditional `updateStatus`, delete by id that throws when the row is gone, one row per (email, repo) | uniqueness; a verdict that agrees with the row |
| Subscription service (`SRC/modules/subscriptions`) | none of its own | subscribe, confirm, unsubscribe, list | each reads, awaits and writes by what it read; the upsert of a `Repo` row is a read and a create | no duplicate row; no removed row comes back |
| Outbox relay (`SRC/shared/outbox`) | timer, snapshots of drains | `drainOnce`: find, publish, mark, bump | drains overlap; publish is not confirmed; any call may fail | at-least-once publication |
| Saga orchestrator (`SRC/modules/saga`) | `SagaInstance.status`, activations in progress | `handleReply`, `sweepTimeouts`, `compensateSaga` | reads the status, awaits, writes without a condition; sweeps overlap replies and each other | verdicts that are true; every saga decided |
| Notification saga consumer (`SRC/services/notification/saga-*.ts`) | up to 10 commands in hand | consume, mail, reply, ack | redelivery, lost connection between reply and ack, unhandled rejection | a reply tells what the send came to; one ack per copy |
| RabbitMQ connection (`SRC/shared/messaging/rabbitmq/rabbitmq-connection.ts`) | connection, channel, `closing` | `getChannel`, `close`, close event | concurrent `getChannel` connects twice; the close event of any connection clears the fields of the newest; a wait for 'drain' that nobody ends | nobody gets a dead channel for good; what leaks is bounded; outbox rows still go out |
| Release consumer (`rabbitmq-consumer.ts`, `topology.ts`, `services/notification/consumer.ts`) | main, retry and parking-lot queues, `x-death` | consume, retry, park, ack | attempts read from a header, dead-letter routing, half-sent batches | every message is acknowledged, retried or parked |
| Scanner (`SRC/modules/scanner`) | `Repo.lastSeenTag`, snapshot of a scan | `scanAllRepos`, `scanSingleRepo` | publish before save, a wait for 'drain' that may never end, cached answers, rate limit in the middle | a release is announced, and once |
| GitHub client and cache (`SRC/modules/github`) | Redis entries with a TTL | `verifyRepo`, `getLatestRelease` | expiry, handlers that outlive their caller, rate limit | a cached answer was once true |
| GitHub gateway (`SRC/services/github`, `SRC/modules/github/remote`, `github.proto`) | none | two transports: gRPC and HTTP | errors become statuses and errors again; proto3 has no null and drops defaults | the same error and the same release on both sides |
| API (`SRC/modules/subscriptions/*.routes.ts`, `SRC/modules/grpc`, `SRC/app.ts`) | requests in progress, in-flight gauge | HTTP, gRPC, and an HTTP proxy in front of gRPC | awaits between check and write, three error mappings, aborted requests | an answer that is true when it is given; a gauge that does not drift |
| Process lifecycle (`SRC/main.ts`, `SRC/composition`) | stage of start and shutdown | `main`, signal, `shutdown` | work under way during a shutdown; a crash in the middle of either | nobody's stores close under him; no client is cut |
| Job queue (`SRC/shared/queue/bullmq`, `SRC/modules/scanner/scanner.scheduler.ts`) | repeatable jobs in Redis | schedule, remove, process | jobs outlive the process, and its interval may change | one scan job per running process |
| Letters (`SRC/services/notification/internal/templates`) | none | subject and text of an e-mail | null, "" and missing fields along the way | a letter that says what GitHub said |

Components interact through the tables (service, relay and orchestrator share
them without locks), through RabbitMQ (commands and replies of the saga;
release messages), and through in-process calls (scanner, event bus, publisher).

The hazards of each, at the line where they bite, are listed in `PROJECT.json`.

## 2. Modules

The confirmation flow is the core: it spans both services, and it is where rows
are deleted on the strength of messages. The release path comes in two parts,
the scan up to its publish, over the GitHub gateway, and the notification
service from its queue on; `ReleasePath` has them meet at the topic exchange. Two
more groups look at what these take for granted: the connection to the broker,
and the process with its requests.

Composition is by EXTENDS: `ConfirmationSaga` over its five parts, `ReleaseScanner`
over `GitHubGateway` over `ReleaseContent` over `GatewayErrors`, and
`MonolithLifecycle` over `SubscriptionApi` over `GatewayErrors`. `ReleasePath` extends
`ReleaseScanner` and takes the other process by INSTANCE, with its own messages for
those of `ReleaseConsumer` and a second count of faults. The three abstract
specifications are instantiated with a refinement mapping (`KeepsPromise`,
`KeepsReleasePromise`, `KeepsNewsPromise`).

| Module | Models | State | Actions |
|---|---|---|---|
| `SagaTables` | the three tables and the repositories | `row`, `saga`, `outbox`, `attempts`, `createdAt`, `cutoff` | one operator per repository call; `TimePasses` |
| `SagaTransport` | saga queues, socket, e-mail provider | `wire`, `commands`, `replies`, `listening`, `mailed`, `bounced`, `lost`, `faults` | `BrokerAccept` |
| `SubscriptionRequests` | `SubscriptionService` | `http` | `CheckDuplicate`, `CommitSubscription`, `FindByConfirmToken`, `Confirm`, `FindByUnsubscribeToken`, `Unsubscribe` |
| `OutboxRelay` | `OutboxRelay.drainOnce` | `relay` | `StartDrain`, `Publish`, `Mark`, `Bump` |
| `NotificationSagaConsumer` | `NotifSagaBroker.start`, `buildSagaCommandHandler` | `handler` | `Consume`, `SendEmail`, `PublishReply`, and the failures of the service |
| `SagaOrchestrator` | `ConfirmationSaga`, `SagaBroker.consumeReplies` | `worker` | `HandleReply`, `Complete`, `SweepTimeouts`, `Compensate`, `MarkCompensated`, `MarkFailed`, `Settle` |
| `ConfirmationSaga` | all of these together, with the failures of the monolith | | `Next`, `Spec`, `FairSpec`, the properties |
| `SagaPromise` | abstract specification: what the flow does to a subscription | `row`, `saga`, `mailed` | `Begin`, `Deliver`, `Confirm`, `Leave`, `Compensate`, `Settle` |
| `MCConfirmationSaga` | instances for TLC | | |
| `GitHubGateway` | `GitHubService`, its Redis cache, `GitHubClient`, both transports to the monolith | `latest`, `cache`, `call`, `faults` | `Request`, `ReadCache`, `Fetch`, `Store`, `Expire`, `NewRelease`, `GatewayCrash`, `Abandon` |
| `ReleaseScanner` | `ScannerService`, its job, the event bus and `BrokerEventPublisher`; extends the gateway | `lastSeen`, `confirmed`, `gone`, `since`, `scan`, `drain`, `announced`, `told`, `lost` | `StartScan`, `GetLatestRelease`, `Receive`, `FindSubscribers`, `Publish`, `Drain`, `ChannelDies`, `UpdateLastSeenTag`, `Skip`, `MonolithCrash` |
| `ReleaseConsumer` | `RabbitMqConsumer`, `assertTopology`, the notification handler | `place`, `attempt`, `hand`, `mails`, `parked`, `online`, `faults` | `Publish`, `Deliver`, `SendEmail`, `Settle`, `Expire`, `Disconnect`, `Crash`, `UnhandledRejection` |
| `GatewayErrors` | error classes, their statuses, and the messages of `github.proto` on the wire | none: operators | |
| `ReleaseContent` | what becomes of a release from GitHub's answer to the letter; used by the gateway | none: operators | |
| `ReleasePromise` | abstract specification: what the scan promises subscribers | as the scanner, without gateway and jobs | `Appear`, `Join`, `Leave`, `Announce`, `Lose`, `Record` |
| `ReleasePath` | the two processes of the release path, joined at the topic exchange | those of both | a step of the scan with `Exchange`, or a step of the notification service (`Handle` and its failures) |
| `NewsPromise` | abstract specification: what a subscriber is promised from GitHub to the mailbox | `latest`, `recorded`, `confirmed`, `gone`, `since`, `lost`, `due`, `mailed`, `failed` | `Appear`, `Join`, `Leave`, `Announce`, `Lose`, `Record`, `Mail`, `Close` |
| `BrokerConnection` | `RabbitMqConnection` and `SagaBroker.publishCommand` under the polls of the relay | `up`, `cut`, `shut`, `model`, `channel`, `asserted`, `poll`, `dials`, `pending`, `closer` | `StartPoll`, `GetChannel`, `Connected`, `ChannelCreated`, `TopologyAsserted`, `Drained`, `MarkSent`, `Cut`, `CloseEvent`, `Shutdown`, `ChannelClosed`, `ModelClosed`, the failures |
| `SubscriptionApi` | the three ways in, validation, `SubscriptionService` with `verifyRepo` and the tables, the statuses, the gauge | `repos`, `subscription`, `request`, `gauge`, `answer` | `Arrive`, `Abort`, `VerifyRepo`, `FindOrCreate`, `CreateRepo`, `AssertNotDuplicate`, `Create`, `Find`, `Write`, `FindAllByEmail`, `Compensate` |
| `MonolithLifecycle` | `main`, the container, scheduler and worker, `shutdown`, around `SubscriptionApi` | `stage`, `interval`, `repeatable`, `scanning`, `hung` | `Boot` ... `Listen`, `Signal`, `Drained` ... `StoresClosed`, `StartScan`, `FinishScan`, `ScanHangs`, `Crash` |
| `MCReleaseScanner`, `MCReleaseConsumer`, `MCReleasePath`, `MCBrokerConnection`, `MCMonolithLifecycle` | instances for TLC | | |
| `ReleaseScannerProofs`, `ReleaseAccountProofs`, `ReleaseConsumerProofs`, `ReleasePathProofs`, `BrokerConnectionProofs`, `MonolithLifecycleProofs` | the theorems about these | | |
| `ConfirmationSagaProofs` | type correctness, counting of messages in hand | | |
| `ConfirmationSagaSafety` | `SagaInvariant` is inductive, the safety properties follow, and `SagaPromise` is implemented | | |

### How the state corresponds to the code

- One element of `Sub` is one `subscribe()` transaction. It inserts a
  subscription, a saga and an outbox message that carry each other's ids, so the
  three share one index. `KeyOf` gives the (email, repo) pair: two elements with
  the same pair are two attempts to subscribe the same thing.
- `row[s]` is absent, `"unconfirmed"`, `"confirmed"`, or deleted; for a deleted
  row the value says who deleted it, which the code does not store. Nothing in
  the code reads that: every guard asks only whether the row is live.
- A function with an `await` becomes one action per stretch between two awaits.
  `worker[w].pc`, `relay[d].pc` and `handler[h].pc` say at which await an
  activation is; the rest of the record is what its local variables hold.
- A SQL statement is atomic. A failing call is the same action with the call
  not done and `Fault` taken; `MaxFaults` bounds how many there are.
- `commands` and `replies` count copies in a queue, unacknowledged ones
  included: the broker drops its copy only on an acknowledgement, so a consumer
  can take a copy while there are more copies than takers. A crash or a lost
  connection therefore redelivers without any action of its own.
- `wire` is what `channel.publish` has buffered and the broker has not read.
  `listening` holds the services whose consumer is registered on a live channel:
  `getChannel` makes a new connection for a publisher, but `consume` is only
  called at start, so a service that lost its connection stays deaf until its
  process is restarted.
- Time is the rank of a row: `createdAt[s]` numbers the transactions in commit
  order and `cutoff` is the youngest rank older than `SAGA_TIMEOUT_MS`.
- A rejection in a `void` timer callback or in an asynchronous consumer callback
  is not handled anywhere, which ends the process under the Node versions of the
  Dockerfiles; compose restarts it (`restart: unless-stopped`). Hence
  `MonolithUnhandledRejection` and `NotificationUnhandledRejection`.
- `lost`, `mailed`, `bounced` and `faults` are history: no action of the program
  reads them, except that a confirm link is clicked only after its e-mail came.

On the release path:

- Releases of a repository are numbered in the order of their publication, so
  that "older" can be said; the code compares tags for equality only, and so do
  the actions. 0 is the `null` of the code, which the cache stores like a tag.
- `call[c]` is a `getLatestRelease` call inside the gateway. It has a life of its
  own: when the monolith crashes the handler runs on (`awaited` is false) and
  may still write the cache. A result crosses the service boundary as a status
  code; `Remote` is the composition of the two mappings of a transport.
- `scan[j]` is a job of the scanner's queue at one of its awaits. `left` is the
  rest of its snapshot of `Repo` rows, tags included: the comparison in
  `scanSingleRepo` is with the tag the snapshot had.
- `drain[j]` is what the publisher of job `j` waits for: a publish that fills the
  buffer waits for the channel's 'drain' (`"due"`), and when that channel dies first,
  for ever (`"never"`, which is `Hangs`). The scan then has no step left, and since
  the worker runs one job at a time no other starts until the process does.
  The dial and the topology of a publish succeed or are the failing publish of
  `Skip`; their awaits are in `BrokerConnection`.
- `told`, `announced`, `lost` and `since` are history.
- `place[m]` is the queue that has message `m`; unacknowledged messages stay in
  `"queue"`. `hand[m]` is the consumer callback of that message, `attempt[m]` the
  count of its newest `x-death` entry, which only the retry queue's TTL raises.
- `Settle` writes its frames in one go, since nothing is awaited between the
  `publish` to the parking lot and the `ack`. The broker may have read a prefix
  of them when the connection goes.
- An `ack` on a closed channel throws outside of any `try`. The process ends
  (`UnhandledRejection`) and starts again with a new channel. With nothing in hand
  nothing throws, and the consumer stays deaf.
- What a release says is apart from its number: `Content` gives every numbered
  release the fields GitHub has for it, and the protocol's steps need only the
  number. proto3 is modelled by what it does: a message is described by its base
  (`createBase...` in the generated code), `Encode` leaves out what is as in the
  base and `Decode` fills it in again, which is where null and "" become one.

Where the two parts meet, in `ReleasePath`:

- A message (`Announcement`) is a repository, a release, the list of subscribers
  that `findAllConfirmedByRepoId` returned, and the number of the announcement
  (`copy`), which the code does not send: it tells one announcement of a release
  from the next. `ReleaseConsumer`'s subscriber `k` of a message is the k-th of its
  list.
- `Exchange` says what a step of the monolith is to the queue. A `Publish` whose
  message the broker has read, which is when `announced` counts one more, puts that
  message there; a publish that threw or was lost on the socket, and every other
  step, puts nothing there.
- The two processes fail apart: `faults` are the monolith's and the gateway's,
  `mailFaults` the notification service's.
- A letter is a subscriber and a release. It is `Outstanding` while a message in the
  main or the retry queue is about it, `Reached` when it was mailed, `Failed` when a
  message about it is in the parking lot or was dropped on its way back. One letter
  can be all three: the messages of two announcements fare differently, and parking
  may leave a copy behind.

In `BrokerConnection`:

- A connection `<<k, n>>` is the n-th one that poll `k` of the relay has dialled. It
  is in `up` while it works, in `cut` when it is dead and its close event has not
  been handled, and in neither when it is over; `shut` are those on which
  `close()` was called. A connection has one channel, so the two share a name.
- `poll[k].pc` is the await at which a poll of the relay stands: the dial, the
  creation of the channel, the topology, the wait for 'drain', the update of the
  row. `Poll` bounds those under way at a time; the timer starts a new one
  whatever the others do. A poll that waits for 'drain' on a dead channel waits
  for ever (`Hung`), and its slot may be taken by the next.
- `Rejected` is amqplib's answer to a request on a closed channel. `publish` throws
  on a closing or closed channel, which costs the row an attempt.

In `SubscriptionApi` and `MonolithLifecycle`:

- `request[c]` is what client `c`'s request has come to: the await its handler
  stands at, its input, whether the client still waits (`awaited`) and whether the
  gauge still counts it (`counted`, the flag of `app.ts`). Handlers run on when
  their client hangs up.
- Inputs are classes by who accepts them: an "odd" address or slug passes
  `SubscriptionValidator` but not the stricter schema of the HTTP routes; "url"
  and "plain" are two spellings of one repository (`ParseRepo`). Row 0 is a token
  of the wrong shape. A body is whole, `"garbled"` (Fastify's parser throws, and the
  error handler, which knows `AppError` and validation, makes that a 500), `"none"` (a
  validation error where there is a schema, and a `TypeError` in the proxy's handler,
  which has none) or `"unfit"` (an object whose payload the proxy's gRPC client cannot
  serialize, which is INTERNAL).
- `findOrCreate` is an upsert with nothing to update. Prisma runs it as a read
  (`FindOrCreate`) and then a create (`CreateRepo`); of two first subscribers of one
  repository the slower one violates the unique constraint. `"RepoExists"` is that error
  (P2002), kept apart from other internal errors so that a property can name its
  reason; its status is 500 like theirs.
- `answer` holds the answer given in the last step with the status the client
  reads, so that a property can compare what is told with the tables at that
  moment.
- `Compensate` is the saga seen from here: it deletes a row by id at any time,
  whether it is confirmed or not (`saga_confirmed_deleted` is about that).
- `stage` is the await of `main` or of the shutdown at which the process stands;
  what is open at which stage is in `WorkerOn`, `GrpcOn`, `HttpOn` and `BrokersOpen`.
  `repeatable` is in Redis and outlives the process; a restart may have another
  `SCAN_INTERVAL_MS`. `scanning` is a scan job, seen from outside; `hung` says that it
  waits for a 'drain' that will not come, and only the end of the process ends it.

## 3. Runs

Deadlock is not an error in any run: the system rests when every saga is settled
or every message handled, nobody is subscribed and no fault is left.

| Run | Asks | Instance | Result |
|---|---|---|---|
| `saga_races` | are verdicts true, is nothing lost silently, is every saga settled and every command sent, under races and faults? | 1 subscription, 1 drain, 1 handler, 2 workers, 2 faults | holds |
| `saga_resubscribe` | does a second subscription of the same pair stay apart from the first? does the flow implement `SagaPromise`? | 2 subscriptions of one pair, 1 drain, 2 handlers, 2 workers, no fault | holds |
| `saga_confirmed_deleted` | is a confirmed subscription safe from compensation? | 2 workers, no fault | violated |
| `saga_completed_deleted` | does a COMPLETED saga keep its row? | 2 workers, no fault | violated |
| `saga_sent_lost` | is the command of a SENT row on its way or handled? | 1 fault | violated |
| `release_retry` | is every release message handled or parked, after how many deliveries and with how many e-mails, and does it ever leave? | 2 releases and another message, 2 subscribers or none, 2 attempts, window 1, 2 faults, either way an expired message may be routed | holds |
| `release_dropped` | does an expired message come back from the retry queue? | 1 release, no fault | violated |
| `release_deaf` | does a consumer that lost its connection come back? | 1 release, 1 fault | violated |
| `scanner` | is a release announced once, do letters tell the truth, does every release go out, and does the scan implement `ReleasePromise`, so that a tag is recorded only after its release went to everybody it should? | 2 repositories with 2 and 0 releases, a subscription of each, 2 calls, 2 jobs, 1 fault, gRPC | holds |
| `release_path` | does a recorded release reach everybody it concerns, with how many letters, does it arrive in the end, and do the two processes implement `NewsPromise`? | 1 repository with 1 release, 1 subscription, 1 call, 1 job, 1 attempt, 1 fault in either process, gRPC, both ways of routing | holds |
| `connection` | do overlapping polls get live channels, is what leaks bounded, and is every row published? | 2 polls, 2 rows, 2 faults | holds |
| `monolith` | are answers true, statuses the same on every way, the gauge right; does a shutdown cut nobody and finish; is there one scan job? | 2 clients with 14 kinds of request, 2 rows, 2 intervals, 1 fault, gRPC | holds |

The properties of the passing runs are stated with their reasons in
`ConfirmationSaga`, `ReleaseConsumer`, `ReleaseScanner`, `ReleasePath`,
`BrokerConnection`, `SubscriptionApi` and `MonolithLifecycle`. The inductive
invariants of section 4 (`SagaInvariant`, `ConsumerInvariant`, `ScanInvariant`,
`LinkInvariant` and the others) were model-checked on these instances before they
were proved and are no property of a run any more; nor is what follows from a
checked property, such as `RecordedWasTold` from `KeepsReleasePromise`.

Why the bounds are enough. In the confirmation flow every race is between two parties over
one subscription (reply against reply, reply against sweep, sweep against sweep,
drain against crash), so two workers and one subscription have all of them. Two
faults allow the pairs that matter, such as a redelivered command followed by a
failing update. Two subscriptions of one pair are what the uniqueness constraint
and the deletion by id are about, and there two handlers have the commands of both
in hand. Nothing counts further than that: queues hold two copies at the most with
these faults, and the batch is full with one row. Drains that overlap themselves
are beyond TLC in this flow together with the rest; what an overlap can do, which
is to send a command twice, a crash between publish and mark does in
`saga_races`, the overlapping polls of the relay are run in `connection`, and the
theorems have any number of drains.

In `release_retry` messages meet only in the prefetch window, and a window of 1
with three messages is at its limit; two subscribers let a batch fail in its
middle, and none is the edge where the loop does not run; two attempts tell the
limit from its neighbours. In `scanner` a repository needs two releases for a
stale answer to be older than the tag; the second repository is what remains of
the list after an error or a refusal; two calls let the handler of a crashed
monolith run beside that of the next; two jobs are what `concurrency: 1` keeps
apart. In `release_path` each part is cut to the least at which the two still
disagree: a fault on each side announces a release twice, redelivers a message,
parks it, or has it lost on the socket while the tag is saved, and that subscriptions
come and go is part of it. What more of anything does within one part is in
`scanner` and `release_retry`. In `connection` two polls are what it takes to dial twice, to store a channel
over another's and to close under another; two rows make a poll go on after a
failure; two faults allow a lost connection while the connection that replaced
it fails too. `monolith` has two clients because a check and a write are parted by
other requests only; the fourteen kinds of request have two spellings of one
repository, one that does not exist, both tokens of the first subscription, one
that each check stops, and the three kinds of broken body; of the two rows one is removed and the other subscribed
anew. An interval that changes needs two values. One fault is a failing call
or a crash, at every point. Over HTTP instead of gRPC between the services nothing
differs but the mapping of errors, which the theorems have for both. The
theorems of section 4 have none of these bounds.

The violations:

1. `saga_confirmed_deleted`. The design document says that the subscription
   stays unconfirmed throughout the saga. It does not: the link works as soon as
   the e-mail arrives, which is before the reply is handled, and compensation
   deletes whatever is there.
2. `saga_completed_deleted`. `handleReply` writes COMPLETED on the strength of a
   status it read before an await. A sweep in between has deleted the row; the
   update has no condition on the status and overwrites COMPENSATED.
3. `saga_sent_lost`. The relay takes the return of `channel.publish` for a
   successful publish. On a channel without confirms that only means that the
   message is buffered.
4. `release_dropped`. The main queue dead-letters under the routing key `retry`,
   which is from then on the key of the message. The retry queue names no key, so
   RabbitMQ returns the expired message to the topic exchange under `retry`, and
   no binding takes that. `topology.ts` says that the original key is preserved.
   How a broker routes a dead letter is external to the repository, and
   `ReturnKeys` is a constant for that reason: RabbitMQ's behaviour is
   `{"retry"}`, the comment's is `{"published"}`, and `release_retry` allows
   both at every expiry, so what it shows does not depend on the answer.
5. `release_deaf`. The close handler clears two fields and nothing calls
   `consume` again.

More passages were found to differ from the code and have no run, because what the
code does is not wrong by itself or is a matter of wording:

- `rabbitmq-consumer.ts:8` calls `maxAttempts` the "max delivery attempts before a
  message is parked", and `docs/sdd/sdd.md:228-231` and 448-451 have three attempts. The
  first delivery has attempt 0 and line 67 compares with `>=`, so a release is
  delivered `maxAttempts + 1` times; the design of the broker
  (`docs/superpowers/specs/2026-06-19-hw7-message-broker-design.md:127-128`) has the
  comparison of the code. `ParkedWhenExhausted` shows what both readings ask, that no
  release is given up before `MaxAttempts` deliveries have failed; `EmailsAreBounded` and
  `LettersAreBounded` have the extra delivery in their bounds.
- `docs/sdd/sdd.md:157`, 202 and 474 say that the scan bypasses the release cache.
  `scanner.service.ts` does not ask for that, so a scan may see a release up to a
  TTL late. `NewReleaseIsAnnounced` shows that nothing is lost by it.
- `docs/sdd/sdd.md:203` and `docs/domain/flows.md` put the update of `lastSeenTag`
  before the notification. The code has it after, and `RecordedWasTold` depends on
  that.
- The design of the broker speaks of a confirm channel where the code opens a plain
  one (violation 3 is that fact on the saga's side; on the release path it is the
  `lost` of `RecordedWasTold`).
- `rabbitmq-connection.ts:5` speaks of a single connection. Overlapping callers of
  `getChannel` each dial one, the loser's is never closed, and its close event
  clears the fields of the winner's. `OneDialPerFailure` is the bound that holds.
  After `close()` a late caller connects again.
- `docs/sdd/sdd.md` §12.5 stops the workers first, then gRPC, then HTTP.
  `composition/shutdown.ts` has HTTP first, and `NobodyIsCut` shows that this is the
  order that cuts nobody: a proxied HTTP request needs the gRPC server.
- `docs/sdd/sdd.md:361` answers a subscription with 201 and line 529 has errors as
  `{ "error": ... }`; the routes answer 200 and `{ "message": ... }`.
- `docs/domain/glossary.md:44` allows "no slashes, dots" in a repository; `parseRepo`
  takes the URL of one as well. The confirmation letter is given the input as it
  was typed and splits it at '/', so for a URL it does not show owner and name.

### Fairness

`FairSpec` assumes weak fairness of the clock, of the broker taking what is on a
socket, of each drain and each worker, and of the exit of a process with an
unhandled rejection. The code justifies it: drains and sweeps are started by
`setInterval` and their steps are promise continuations of the event loop. It
assumes nothing of people or of the e-mail provider (nobody has to subscribe or
click, and a send may never be answered): the notification service's steps are
under no fairness, so that `EverySagaSettles` really rests on the sweeper.

`ReleaseScanner` assumes weak fairness of the job and its steps (the queue's
repeat interval, promise continuations, and the 'drain' of a channel that lives), of
each call in the gateway (GitHub and Redis answer or fail), and of the TTL. It does not
assume that a job which waits for the 'drain' of a dead channel goes on: nothing
settles that promise, so `NewReleaseIsAnnounced` and `NewsArrive` promise nothing while
a job hangs (`Hangs`). That is a real limit of the code. One lost connection at
the wrong moment stops scanning until the process is restarted. A refusal is a fault and `MaxFaults`
bounds them, which says that GitHub does not refuse for ever. Releases only grow:
if GitHub deleted one, moving `lastSeenTag` back would be right.
`ReleaseConsumer` assumes weak fairness of the broker's delivery and TTL, of the
callback and its sends (the HTTP client of the e-mail provider has a time limit, so
a send is answered or throws), and of the exit after an unhandled rejection. Neither
assumes that people come, and `EveryMessageLeaves` says nothing of a deaf consumer.

`ReleasePath` assumes what its two parts assume, each of its own steps
(`PathFairness`). A job's step and what it means for the queue are one step, so
its fairness is of the two together; that this never asks for a step which the
exchange does not allow is `NothingHoldsUp`.

`BrokerConnection` assumes weak fairness of the relay's timer, of the steps of each
poll (the broker and the database answer or fail) and of close events (amqplib's
heartbeat finds a dead connection). It does not assume that a wait for 'drain' on a
dead channel ends: `EveryRowIsPublished` rests on the timer, which waits for
nobody. `MonolithLifecycle` assumes it of `main`, of the shutdown, of a scan that
does not hang and of each handler; not of `Signal`, of people or of the
timer that starts scans. A handler's promises settle because its peers answer or its
connections end: the drivers of the database fail a query whose connection is
gone, and so do the gRPC clients of the gateway and of the proxy, which set no
deadline. A peer that holds a connection and never answers is therefore assumed away:
`EveryRequestEnds` and `StopIsFinished` would not hold against it. A scan may hang on
its publish (`ScanHangs`); then `scannerWorker.close()` of the shutdown waits for ever,
and `StopIsFinished` excuses that and nothing else. `StopIsFinished` also needs that
`app.close` waits only for clients whose handlers come to an end.

## 4. Proofs

### The confirmation flow

The theorems are about `Spec` of `ConfirmationSaga`, for every finite set of
subscriptions, handlers and workers, any set of drains, any assignment of pairs,
any batch size and any number of faults (`TablesAssumption`,
`TransportAssumption`, `HandlerAssumption`, `WorkerAssumption`: finiteness, so
that counting makes sense, and the ranges of the numbers). Nothing else is
assumed; no fairness is.

| Theorem | Establishes |
|---|---|
| `TypeCorrect`, `InHandCorrect` | `TypeOK`; the broker holds a copy of each message in hand |
| `SagaInvariantCorrect` | the strengthening below |
| `CompensatedCorrect`, `CompletedCorrect` | a verdict is true when it stands |
| `CompensationCorrect` | no subscription is compensated without a reason of its own |
| `NothingLostCorrect` | an undecided saga has work left, or its message was dropped |
| `OneLiveRowCorrect` | two racing `subscribe` calls leave one live row |
| `RemovedRowCorrect` | no deleted row comes back or is deleted again |
| `PromiseKept` | the whole flow implements `SagaPromise` |
| `PromiseSuffices` | `SagaPromise` alone implies true verdicts, one live row per pair and final deletions |

The argument. An acknowledgement takes one copy off a queue, so even the types
need more than types: that a count stays natural follows from
`InHandIsUnacknowledged`, which says that there are at least as many copies as
takers. The two are proved together in `ConfirmationSagaProofs`. Taking a
message keeps the count because of its guard, settling one removes a copy and a
taker, and everything that takes away a consumer empties its slots or silences
the clause.

None of the other properties is inductive by itself, because each relates the
two ends of a chain of steps. `SagaInvariant` adds what lies between:

- `OnlyKnown`: nothing in a table, a queue, a socket or a process is about a
  subscription whose transaction has not committed. Without it a command could
  decide a saga before it exists, and `createdAt` could change under a sweep.
- `Ranked`: rows have different ranks. It makes the row a drain has in hand
  unique, so the row that is marked is the row that was published.
- `RepliesTrue`: a reply tells what its send came to, in the handler that will
  send it, in the queue and in the worker that took it. `CompletedMeansMailed`
  and half of `CompensationIsJustified` rest on it.
- `StagesTrue`: what holds when an activation reaches a stage: a sweep's
  snapshot is old (the other half), a row about to be marked COMPENSATED has been
  deleted by compensation, and a reply about to be acknowledged has a decided
  saga.
- `ClicksTrue`: a confirm request follows the e-mail, an unsubscribe request a
  confirmation. Only the refinement needs it.
- `WorkOutstanding`: a row that is SENT, or that a drain is about to mark SENT,
  has its command on the socket or in the queue, its reply in the queue, its
  saga decided, or a loss recorded. A restart of the monolith is the one step
  that takes work away silently, and it forgets the drain and leaves the row
  PENDING.

`Forward` collects what no step takes back (a deletion, a decided status, a
rank, an e-mail, a loss) and is proved first; most clauses are kept because of
it. The refinement maps `row`, `saga` and `mailed` to themselves; each action is
one of the promise's steps or leaves the three alone.

### The release path

`ReleaseConsumerProofs` is about every set of messages, every number of
subscribers, limit of attempts, window, set of return keys and number of faults
(`ConsumerAssumption`); `ReleaseScannerProofs` and `ReleaseAccountProofs` about all
repositories, subscriptions, jobs, calls, numbers and contents of releases,
numbers of faults, and both transports (`GatewayAssumption`, `ScannerAssumption`,
`TransportAssumption`, `TextAssumption`).

| Theorem | Establishes |
|---|---|
| `TypeCorrect` (one in each module) | `TypeOK` |
| `ConsumerInvariantCorrect` | the strengthening of the consumer's three properties |
| `HandledCorrect` | what left the main queue for good was mailed to everybody or is parked |
| `ParkedCorrect` | a release is parked only after `MaxAttempts` failed deliveries at the least |
| `EmailsCorrect` | the bound on e-mails to one subscriber |
| `ScanInvariantCorrect` | the strengthening of `RecordedWasTold` |
| `RecordedCorrect` | a recorded tag was published to everybody concerned, or lost on the socket |
| `RefusalCorrect` | a rate limit ends the scan over either transport |
| `LettersCorrect` | a letter says what GitHub said, over either transport |
| `ScanKeepsPromise` | the scan over its gateway implements `ReleasePromise` |
| `PromiseSuffices` | `ReleasePromise` alone implies `RecordedWasTold` |
| `AccountsCorrect` | the strengthening of the next two |
| `AnnouncedOnceCorrect` | one announcement of a release, and one more per failure at the most |
| `TagsCorrect` | without failures the recorded tag never goes back |

The consumer. `HandledOrParked` speaks of the end of a callback; `MailedInOrder`
says what each of its stages has done by then, and `HeldByQueue` that no
message is in hand and elsewhere. The bound on e-mails needs an account: each
delivery mails a subscriber at most once, and is paid for by an attempt that the
broker counted or by the fault that cost the delivery before. `Paid` is that
account, including the two moments at which it is not even: a delivery that has
come past the subscriber (`Visited`) has spent what it was given, and a callback
on a lost connection (`Owed`) has already been paid its redelivery, because the
fault came first. `AttemptsAreBounded` closes it.

The scanner. `RecordedWasTold` compares a row with people who come and go while a
job stands between its awaits. `Released` says that no release from the future is
in a cache, a call, a job or a row, so somebody who is confirmed now is
concerned by later releases only and cannot be left out by a job that is under
way. `Matched` ties a job to the call it made, which is what lets an answer be
read as one about the job's repository although calls outlive jobs. `Covered` is
`RecordedWasTold` one and two awaits earlier: the subscribers read cover all who are
concerned, then the message published did. `OneScan` is the worker's concurrency.
Nothing but GitHub moves `latest` (`Forward`), and only forwards.

The letters need no induction but that GitHub's releases are `GitHubRelease`s: what
proto3 does to a field (`CarriedUnchanged`) leaves a letter as it was, because a
letter shows "" and null alike and `tag_name` and `html_url` are never null. The refinement maps
`lastSeen` to `recorded`; `Publish` is `Announce` or `Lose` and needs `Covered` for its
audience, `UpdateLastSeenTag` is `Record`, and everything about caches, calls and
crashes is a stutter.

The account. `announced` only ever grows, so `AnnouncedOnce` says how often a scan can
come to a release anew, and that depends on what may still be seen: by a job, by
the call it waits for, in the cache, at GitHub. `Way` is such a sequence (the recorded
tag, then what is on its way, then what the cache has; GitHub's latest last),
`Visits` counts how often it comes to a release from another one, and `Account` says
that what was announced and what any way may still announce is at most one and the
failures. Each step of the scan or the gateway takes a way to one that costs no
more (a hit reads the cache twice, a miss takes GitHub's, publishing spends a visit);
a failure may put one thing into it. A crash of the monolith is the hard case: the
handler it leaves behind (`Orphans`) writes the cache later, without a fault of its own, so the
fault is put aside at the crash and spent when the handler stores. `Snapshots`
says that a job's copy of the tag is still the table's, and `Owned` that a call
somebody waits for has a job. `Calm` is the same argument without failures: every
way then leads forward, hence `TagsCorrect`.

### The release path end to end

`ReleasePathProofs` is about everything that the two parts are about, with the
messages of the one for those of the other. `PathAssumption` adds that the
subscriptions are finitely many, because a message lists them and `LettersAreBounded`
counts.

| Theorem | Establishes |
|---|---|
| `PartsCorrect` | a run of the path is a run of the scan and one of the notification service |
| `PathTypeCorrect` | the types of both |
| `RecordedReachesCorrect` | a recorded release has reached everybody it concerns, or its message is in a queue, parked, dropped or lost on the socket |
| `LettersBoundedCorrect` | the letters one subscriber gets about one release are at most the product of what the failures of the two sides allow |
| `OnlySubscribersCorrect` | nobody is mailed of a release GitHub does not have or of a repository he did not confirm |
| `NothingHoldsUpCorrect` | the exchange can take whatever a job has to announce |
| `NewsPromiseKept` | the path implements `NewsPromise` |
| `NewsSuffices` | `NewsPromise` alone implies `RecordedReaches` |

`PartsCorrect` is what makes the composition cheap: the invariants of the scan and of
the consumer hold of the path without being proved again. The consumer's theorems are
taken from an instance of its proof module, for which its assumption becomes an
obligation about the path's messages (`ConsumerParameters`). What neither part can
say is `LinkInvariant`, which has one clause for each thing that could go wrong
between them:

- `Delivered`: whoever the scan has told of a release is on the list of a message
  that the queue was given. It is what turns `RecordedWasTold`, about `told`, into
  something about queues.
- `Numbered`: messages in the queues about one release have different numbers, none
  above the count of its announcements. So no message is given to the queue
  twice, `NothingHoldsUp`, and there are no more messages about a release than
  `AnnouncedOnce` allows announcements.
- `Unsent`: a message that the queue was not given has mailed nobody.
- `Told`: the people on a list have confirmed that repository, and GitHub has the
  release.

`RecordedReaches` is then `RecordedWasTold`, `Delivered` and the consumer's
`HandledOrParked` one after the other. `LettersAreBounded` counts pairs of a message
and a sending: they map one to one into pairs of an announcement, of which
`AnnouncedOnce` allows one and one per fault, and a sending, which
`EmailsAreBounded` bounds for each.

In the refinement `due`, `mailed` and `failed` are the letters in the queues, sent and
given up. A step of the scan is the step of `ReleasePromise` that `ScanKeepsPromise` has
shown it to be, `SendEmail` is `Mail`, and whatever takes a message off the queues is
`Close`, for which `HandledOrParked` says that its letters were mailed or are being
given up. `NewsPromise` does not know of messages, so that a letter may be due for
the sake of two of them; `Close` therefore ends only what no message is left for. The
two `PromiseSuffices` and `NewsSuffices` guard against promises that promise
nothing: they derive the properties from the abstract specifications alone.

### The connection

`BrokerConnectionProofs` is about any set of polls and any number of rows and
faults (`ConnectionAssumption`).

| Theorem | Establishes |
|---|---|
| `TypeCorrect` | `TypeOK` |
| `LiveChannels` | `ChannelIsLive` |
| `DialsBounded` | `OneDialPerFailure` |

`ChannelIsLive` holds because the close event that would make a field stale clears
both fields, whoever's it is, and a poll stores its connection only while that has
not told its end. `DialsBounded` is the shadow of `DialsAreCounted`: a poll that may
dial once more has a failure left to pay for it, and a connection that is dead
but has not told so still counts as one.

### The process and its requests

`MonolithLifecycleProofs` is about every finite set of clients, any set of requests
and intervals, any number of rows and faults, and both transports (`ApiAssumption`,
`NoneAssumption`, `TransportAssumption`). The clients are finite because the gauge
counts them.

| Theorem | Establishes |
|---|---|
| `Invariant`, `TypeCorrect` | the strengthening below; `TypeOK` |
| `GaugeCorrect` | the gauge is the number of waiting HTTP clients |
| `StatusCorrect` | the status read is that of the error, whichever way it came |
| `AnswersCorrect` | an answer is true when it is given, and an internal error without a failure has one of the reasons below |
| `StoresCorrect` | nothing closes before its users are done |
| `RepeatableCorrect` | a running process has the one scan job of its interval |
| `NobodyIsCutCorrect` | a shutdown answers every HTTP client that waits |

`AnswersCorrect` does not say that clients are told of no internal error. Without any
failure there are four reasons for one, and it says that there is no other: the body
was broken; the row of the token was deleted between the read and the write; the pair was
subscribed between the check and the insert; or the repository was put into `Repo`
between the read and the create of the upsert, in which case nothing of this request
remains, and the client may try again.

Its invariant has three parts. About requests: a handler stands at an await that its
kind of request has and has passed the checks before it (`Staged`), and the flag of the
gauge agrees with the client's waiting (`Counted`), so that an answer and an abort
cannot both be counted. About data: `OnePerPair`, the unique constraint, without
which "subscribed" could be said of a row that is not the only one. About the
process: what is left in Redis at each stage (`JobsOfStage`), which a crash resets to
"anything", and that clients and scans are only there while their stores are.

Liveness and the violations stay with TLC: the proof system does not reason
about fairness.

## 5. What is left out, and what could come next

Not modelled in the confirmation flow: malformed messages, which no publisher of the
system produces; the text of e-mails. Validation, `verifyRepo` and the upsert of the
`Repo` row come before its transaction and are in `SubscriptionApi`; the wait for
'drain' of the relay is in `BrokerConnection`. A graceful shutdown is, for the flow, a crash that
loses less, so `MonolithCrash` covers it.

Not modelled on the release path: the API key of the gateway; a second `Repo` row of
a repository (names are unique as they are spelled; `repo.repository.ts:7` tells
upper and lower case apart where GitHub does not, so one repository may be
scanned as two); `subscription.created` messages beyond what the handler does with
them, which is to reject them; a corrupt cache entry, which `github.cache.ts` parses
outside of the `try` of its siblings (nothing in the system writes one).

Not modelled around the process: text that passes the validation but that Postgres
cannot store (a NUL character); the shutdowns of the notification and the GitHub
service (to their peers they are the crash that is modelled); two monoliths at a
time, as in a rolling restart, where the shutdown of one removes the repeatable
job of the other; the contents of `verifyRepo`'s answer and of the list of
subscriptions, which nothing depends on.

Not modelled at all: logging, metrics other than the gauge, the parsing of the
environment (the values that matter are CONSTANTS), the layout of letters and pages;
`BullMQProducer`, the generated code of `notification.proto` and `subscription.proto`
and the `fromJSON`, `toJSON` and `fromPartial` of `github.proto`, which nothing in `src/`
calls; scripts, benchmarks and tests.

What could come next:

1. Two monoliths over one queue and one database.
2. A scan that hangs, seen from BullMQ: the worker goes on renewing the lock of its
   job, so that the job is never taken for stalled.
