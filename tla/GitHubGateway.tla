---------------------------- MODULE GitHubGateway ---------------------------
(* The github-service: GitHubService over its Redis cache and GitHubClient, *)
(* and what a getLatestRelease call comes to for the monolith behind the    *)
(* gRPC or HTTP transport. Releases of a repository are numbered as GitHub  *)
(* publishes them, 0 is "no release" (null in the code); ReleaseContent     *)
(* says what the number stands for on its way.                              *)
EXTENDS ReleaseContent, FiniteSets

CONSTANTS
  Repo,
  MaxTag,     \* bound on releases,
  Releases,   \* and on those of each repository
  Content,    \* what GitHub says of a release
  Call,       \* concurrent getLatestRelease calls in the service
  MaxFaults   \* bound on failures, refusals and crashes

ASSUME GatewayAssumption ==
  /\ MaxTag \in Nat /\ Releases \in [Repo -> 0 .. MaxTag]
  /\ Content \in [Repo \X (0 .. MaxTag) -> GitHubRelease]
  /\ MaxFaults \in Nat

VARIABLES
  latest,  \* GitHub's latest release of a repository
  cache,   \* the Redis entry of a repository
  call,    \* progress of each call
  faults

gatewayVars == <<latest, cache, call, faults>>

Tag == 0 .. MaxTag
Miss == -1
Free == [pc |-> "free"]
\* What a callback gets: an error, or a release.
Failure(e) == [error |-> e, release |-> 0]
Success(t) == [error |-> "none", release |-> t]
Answered(r, reply) == [pc |-> "answered", repo |-> r, reply |-> reply]

GatewayTypeOK ==
  /\ latest \in [Repo -> Tag]
  /\ cache \in [Repo -> Tag \cup {Miss}]
  /\ call \in [Call ->
       {Free} \cup [pc : {"reading", "fetching"}, repo : Repo, awaited : BOOLEAN]
              \cup [pc : {"storing"}, repo : Repo, awaited : BOOLEAN, tag : Tag]
              \cup [pc : {"answered"}, repo : Repo,
                    reply : [error : Error \cup {"none"}, release : Tag]]]
  /\ faults \in Nat

GatewayInit ==
  /\ latest = [r \in Repo |-> 0]
  /\ cache = [r \in Repo |-> Miss]
  /\ call = [c \in Call |-> Free]
  /\ faults = 0

Fault == faults < MaxFaults /\ faults' = faults + 1

\* The handler of a caller that is gone runs on, and its answer goes nowhere.
Answer(c, reply) ==
  call' = [call EXCEPT ![c] = IF @.awaited THEN Answered(@.repo, reply) ELSE Free]

\* (A call that bypassed the cache would not store either; nobody makes one.)
Request(c, r) ==
  /\ call[c] = Free
  /\ call' = [call EXCEPT ![c] =
       [pc |-> IF Asked(r).bypassCache THEN "fetching" ELSE "reading",
        repo |-> Asked(r).repo, awaited |-> TRUE]]

\* Faulty variant: no entry is taken for an entry.
ReadCacheTakesAnything(c) ==
  /\ call[c].pc = "reading"
  /\ \/ Answer(c, Success(cache[call[c].repo])) /\ UNCHANGED faults
     \/ Fault /\ call' = [call EXCEPT ![c].pc = "fetching"]
  /\ UNCHANGED <<latest, cache>>

\* A failing get counts as a miss.
ReadCache(c) ==
  /\ call[c].pc = "reading"
  /\ LET r == call[c].repo IN
     \/ cache[r] # Miss /\ Answer(c, Success(cache[r])) /\ UNCHANGED faults
     \/ /\ \/ cache[r] = Miss /\ UNCHANGED faults
           \/ cache[r] # Miss /\ Fault
        /\ call' = [call EXCEPT ![c].pc = "fetching"]
  /\ UNCHANGED <<latest, cache>>

\* GitHub answers with the release, or a 404 that stands for none; it refuses,
\* or answers with fewer than five calls left, which counts as a refusal; or the
\* fetch fails otherwise.
Fetch(c) ==
  /\ call[c].pc = "fetching"
  /\ \/ /\ call' = [call EXCEPT ![c] = [pc |-> "storing", repo |-> @.repo, awaited |-> @.awaited,
                                        tag |-> latest[@.repo]]]
        /\ UNCHANGED faults
     \/ Fault /\ \E e \in {"RateLimitError", "AppError"} : Answer(c, Failure(e))
  /\ UNCHANGED <<latest, cache>>

\* A failing set is swallowed.
Store(c) ==
  /\ call[c].pc = "storing"
  /\ Answer(c, Success(call[c].tag))
  /\ \/ cache' = [cache EXCEPT ![call[c].repo] = call[c].tag] /\ UNCHANGED faults
     \/ Fault /\ UNCHANGED cache
  /\ UNCHANGED latest

\* Faulty variant: entries are set without a TTL.
ExpireNever(r) == FALSE /\ UNCHANGED gatewayVars

\* The TTL of an entry.
Expire(r) ==
  /\ cache[r] # Miss
  /\ cache' = [cache EXCEPT ![r] = Miss]
  /\ UNCHANGED <<latest, call, faults>>

NewRelease(r) ==
  /\ latest[r] < Releases[r]
  /\ latest' = [latest EXCEPT ![r] = @ + 1]
  /\ UNCHANGED <<cache, call, faults>>

\* The connection breaks for those who wait; the cache stays.
GatewayCrash ==
  /\ Fault
  /\ call' = [c \in Call |->
       IF call[c].pc \in {"free", "answered"} THEN call[c]
       ELSE IF call[c].awaited THEN Answered(call[c].repo, Failure("AppError"))
       ELSE Free]
  /\ UNCHANGED <<latest, cache>>

\* The callers are gone.
Abandon ==
  call' = [c \in Call |->
    IF call[c].pc \in {"free", "answered"} THEN Free ELSE [call[c] EXCEPT !.awaited = FALSE]]

GatewayStep(c) == ReadCache(c) \/ Fetch(c) \/ Store(c)
=============================================================================
