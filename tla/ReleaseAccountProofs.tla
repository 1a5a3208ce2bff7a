------------------------ MODULE ReleaseAccountProofs ------------------------
(* Proofs about ReleaseScanner: how often a release is announced, and that  *)
(* without failures the recorded tag only moves forward. Both follow what a *)
(* scan may still see of a repository, one release after the other.         *)
EXTENDS ReleaseScannerProofs, FiniteSetTheorems

-----------------------------------------------------------------------------
(* What the scans may still see *)

\* Calls whose caller is gone: each may put a release of its own into the cache.
Orphans(r) ==
  {c \in Call : /\ call[c].pc \in {"reading", "fetching", "storing"}
                /\ call[c].repo = r /\ ~call[c].awaited}

\* A way on for repository r: the recorded tag, the answer on its way, if any, and
\* what the cache has then. (After that comes what GitHub has.)
Way(r, x, h, c) ==
  \/ /\ \A j \in Job : scan[j].pc = "saving" => scan[j].id # r
     /\ x = lastSeen[r] /\ h = 0 /\ c = cache[r]
  \/ \E j \in Job :
       \/ /\ scan[j].pc \in {"found", "notifying"} /\ scan[j].id = r
          /\ x = lastSeen[r] /\ h = scan[j].tag /\ c = cache[r]
       \/ /\ scan[j].pc = "saving" /\ scan[j].id = r
          /\ x = scan[j].tag /\ h = 0 /\ c = cache[r]
       \/ /\ scan[j].pc = "waiting" /\ scan[j].repo.id = r
          /\ call[scan[j].call].pc = "answered" /\ call[scan[j].call].reply.error = "none"
          /\ x = lastSeen[r] /\ h = call[scan[j].call].reply.release /\ c = cache[r]
       \/ /\ scan[j].pc = "waiting" /\ scan[j].repo.id = r
          /\ call[scan[j].call].pc = "storing"
          /\ x = lastSeen[r] /\ h = call[scan[j].call].tag /\ c = Miss

\* No release and no entry are passed over.
Then(a, b) == IF b \in {0, Miss} THEN a ELSE b
Enters(t, a, b) == IF a # t /\ b = t THEN 1 ELSE 0

\* How often such a way comes to release t anew, at the most.
Visits(t, x, h, c, l) ==
  Enters(t, x, Then(x, h)) + Enters(t, Then(x, h), Then(Then(x, h), c))
    + Enters(t, Then(Then(x, h), c), Then(Then(Then(x, h), c), l))
    + (IF t > l THEN 1 ELSE 0)

Spent(r, t) == announced[<<r, t>>] + Cardinality(Orphans(r))

Account ==
  \A r \in Repo, t \in Tag \ {0}, x \in Tag, h \in Tag, c \in Tag \cup {Miss} :
    Way(r, x, h, c) => Spent(r, t) + Visits(t, x, h, c, latest[r]) <= 1 + faults

NoneForNothing == \A r \in Repo : announced[<<r, 0>>] = 0
FewOrphans == \A r \in Repo : IsFiniteSet(Orphans(r))

\* A call that somebody waits for is that of a job.
Owned ==
  \A c \in Call :
    call[c].pc = "answered" \/ (call[c].pc \in {"reading", "fetching", "storing"} /\ call[c].awaited) =>
      \E j \in Job : scan[j].pc = "waiting" /\ scan[j].call = c

\* A job compares with the tag there is, though it has that from its snapshot.
Snapshots ==
  \A j \in Job :
    /\ scan[j] # Idle => \A row \in scan[j].left : row.lastSeenTag = lastSeen[row.id]
    /\ scan[j].pc = "waiting" =>
         /\ scan[j].repo.lastSeenTag = lastSeen[scan[j].repo.id]
         /\ \A row \in scan[j].left : row.id # scan[j].repo.id
    /\ scan[j].pc \in {"found", "notifying", "saving"} => \A row \in scan[j].left : row.id # scan[j].id
    /\ scan[j].pc \in {"found", "notifying"} => scan[j].tag # lastSeen[scan[j].id]

\* Without failures no way leads back.
Calm ==
  faults = 0 =>
    /\ \A r \in Repo : Orphans(r) = {}
    /\ \A r \in Repo, x \in Tag, h \in Tag, c \in Tag \cup {Miss} :
         Way(r, x, h, c) => x <= Then(x, h) /\ Then(x, h) <= Then(Then(x, h), c)
    /\ \A j \in Job : scan[j].pc = "saving" => scan[j].tag >= lastSeen[scan[j].id]

Accounts == Account /\ NoneForNothing /\ FewOrphans /\ Owned /\ Snapshots /\ Calm

-----------------------------------------------------------------------------
(* Ways *)

\* What is passed over or seen twice adds no visit; what is put in adds one.
LEMMA VisitsOf ==
  ASSUME NEW t \in Tag \ {0}, NEW x \in Tag, NEW h \in Tag, NEW c \in Tag \cup {Miss}, NEW l \in Tag
  PROVE  /\ Visits(t, x, h, c, l) \in Nat
         /\ Visits(t, x, 0, c, l) <= Visits(t, x, h, c, l)
         /\ Visits(t, x, h, Miss, l) <= Visits(t, x, h, c, l)
         /\ c # Miss => Visits(t, x, c, c, l) <= Visits(t, x, 0, c, l)
         /\ Visits(t, x, h, h, l) <= Visits(t, x, h, Miss, l)
         /\ Visits(t, x, 0, h, l) <= Visits(t, x, h, Miss, l)
         /\ Visits(t, x, l, Miss, l) <= Visits(t, x, 0, c, l)
BY DEF Visits, Enters, Then, Tag, Miss

LEMMA VisitsPutIn ==
  ASSUME NEW t \in Tag \ {0}, NEW x \in Tag, NEW h \in Tag, NEW c \in Tag \cup {Miss},
         NEW d \in Tag \cup {Miss}, NEW y \in Tag, NEW l \in Tag
  PROVE  /\ Visits(t, x, h, d, l) <= Visits(t, x, h, c, l) + 1
         /\ Visits(t, y, 0, c, l) <= Visits(t, x, 0, c, l) + 1
BY DEF Visits, Enters, Then, Tag, Miss

LEMMA VisitsAnnounced ==
  ASSUME NEW t \in Tag \ {0}, NEW x \in Tag, NEW h \in Tag \ {0, x}, NEW c \in Tag \cup {Miss}, NEW l \in Tag
  PROVE  Visits(t, h, 0, c, l) + (IF h = t THEN 1 ELSE 0) <= Visits(t, x, h, c, l)
BY DEF Visits, Enters, Then, Tag, Miss

LEMMA VisitsNewRelease ==
  ASSUME NEW t \in Tag \ {0}, NEW x \in Tag, NEW h \in Tag, NEW c \in Tag \cup {Miss}, NEW l \in Tag,
         x <= l, h <= l, c <= l
  PROVE  Visits(t, x, h, c, l + 1) <= Visits(t, x, h, c, l)
BY DEF Visits, Enters, Then, Tag, Miss

\* Every way leads through releases that GitHub has.
LEMMA WayType ==
  ASSUME TypeOK, Released, Matched, NEW r \in Repo, NEW x, NEW h, NEW c, Way(r, x, h, c)
  PROVE  /\ x \in Tag /\ h \in Tag /\ c \in Tag \cup {Miss}
         /\ x <= latest[r] /\ h <= latest[r] /\ c <= latest[r]
<1>1. /\ lastSeen[r] \in Tag /\ cache[r] \in Tag \cup {Miss} /\ latest[r] \in Tag
      /\ lastSeen[r] <= latest[r] /\ cache[r] <= latest[r]
  BY DEF TypeOK, GatewayTypeOK, Released
<1>2. 0 \in Tag /\ 0 <= latest[r] /\ Miss <= latest[r]
  BY <1>1, GatewayAssumption DEF Tag, Miss
<1>3. ASSUME NEW j \in Job, scan[j].pc \in {"found", "notifying", "saving"}, scan[j].id = r
      PROVE  scan[j].tag \in Tag /\ scan[j].tag <= latest[r]
  BY <1>3, ScanShape DEF TypeOK, Released
<1>4. ASSUME NEW j \in Job, scan[j].pc = "waiting", scan[j].repo.id = r
      PROVE  /\ call[scan[j].call].pc = "answered" =>
                  /\ call[scan[j].call].reply.release \in Tag
                  /\ call[scan[j].call].reply.release <= latest[r]
             /\ call[scan[j].call].pc = "storing" =>
                  /\ call[scan[j].call].tag \in Tag
                  /\ call[scan[j].call].tag <= latest[r]
  <2>1. scan[j].call \in Call /\ call[scan[j].call].repo = r
    BY <1>4, ScanShape DEF TypeOK, Matched
  <2>2. call[scan[j].call].pc = "storing" => call[scan[j].call].tag \in Tag
    <3>1. GatewayTypeOK
      BY DEF TypeOK
    <3> QED BY <2>1, <3>1 DEF GatewayTypeOK, Free
  <2>3. call[scan[j].call].pc = "answered" => call[scan[j].call].reply.release \in Tag
    BY <2>1, AnswerType DEF TypeOK
  <2> QED BY <2>1, <2>2, <2>3 DEF Released
<1> QED BY <1>1, <1>2, <1>3, <1>4 DEF Way

LEMMA SpentType ==
  ASSUME TypeOK, FewOrphans, NEW r \in Repo, NEW t \in Tag
  PROVE  /\ announced[<<r, t>>] \in Nat /\ Cardinality(Orphans(r)) \in Nat
         /\ Spent(r, t) \in Nat
<1>1. announced[<<r, t>>] \in Nat
  BY DEF TypeOK
<1>2. Cardinality(Orphans(r)) \in Nat
  BY FS_CardinalityType DEF FewOrphans
<1> QED BY <1>1, <1>2 DEF Spent

LEMMA AccountOf ==
  ASSUME TypeOK, Released, Matched, Account, NEW r \in Repo, NEW t \in Tag \ {0},
         NEW x, NEW h, NEW c, Way(r, x, h, c)
  PROVE  Spent(r, t) + Visits(t, x, h, c, latest[r]) <= 1 + faults
BY WayType DEF Account

-----------------------------------------------------------------------------
(* Calls and their callers *)

InProgress(x) == x.pc \in {"reading", "fetching", "storing"}

LEMMA CallShape ==
  ASSUME TypeOK, NEW c \in Call
  PROVE  /\ InProgress(call[c]) => call[c].repo \in Repo /\ call[c].awaited \in BOOLEAN
         /\ call[c].pc = "storing" => call[c].tag \in Tag
         /\ call[c].pc \in {"free", "reading", "fetching", "storing", "answered"}
BY DEF TypeOK, GatewayTypeOK, InProgress, Free

\* A step of a call keeps its caller, and whoever waits is waited for.
LEMMA CallKeepsCaller ==
  ASSUME TypeOK, NEW c \in Call, GatewayStep(c)
  PROVE  /\ InProgress(call[c]) /\ \A d \in Call \ {c} : call'[d] = call[d]
         /\ InProgress(call'[c]) => call'[c].awaited = call[c].awaited /\ call'[c].repo = call[c].repo
         /\ call'[c].pc = "answered" => call[c].awaited /\ call'[c].repo = call[c].repo
<1> USE DEF TypeOK, GatewayTypeOK, Answer, Answered, Success, Failure, Free, InProgress
<1>1. CASE ReadCache(c)
  BY <1>1 DEF ReadCache
<1>2. CASE Fetch(c)
  BY <1>2 DEF Fetch
<1>3. CASE Store(c)
  BY <1>3 DEF Store
<1> QED BY <1>1, <1>2, <1>3 DEF GatewayStep

\* What else changes a call.
LEMMA CallChanges ==
  ASSUME [Next]_vars
  PROVE  \/ call' = call \/ (\E d \in Call : GatewayStep(d) /\ UNCHANGED <<lastSeen, people, scan, drain, history>>)
         \/ GatewayCrash /\ UNCHANGED <<lastSeen, people, scan, drain, history>>
         \/ MonolithCrash
         \/ \E j \in Job : GetLatestRelease(j) \/ Receive(j)
BY DEF Next, Environment, Confirm, Unsubscribe, NewRelease, StartScan, ScanStep,
       Skip, FindSubscribers, Publish, Drain, ChannelDies, UpdateLastSeenTag, Expire, vars, gatewayVars

LEMMA CrashOfGateway ==
  ASSUME TypeOK, GatewayCrash, NEW c \in Call
  PROVE  /\ ~InProgress(call'[c])
         /\ call'[c].pc = "answered" =>
              \/ call'[c] = call[c]
              \/ InProgress(call[c]) /\ call[c].awaited /\ call'[c].reply.error = "AppError"
BY CallShape DEF GatewayCrash, Answered, Failure, Free, InProgress, TypeOK, GatewayTypeOK

LEMMA CrashOfMonolith ==
  ASSUME TypeOK, MonolithCrash, NEW c \in Call
  PROVE  /\ call'[c].pc # "answered"
         /\ InProgress(call'[c]) => /\ InProgress(call[c]) /\ ~call'[c].awaited
                                    /\ call'[c].repo = call[c].repo
<1>1. CASE call[c].pc \in {"free", "answered"}
  BY <1>1 DEF MonolithCrash, Abandon, Free, InProgress
<1>2. CASE call[c].pc \notin {"free", "answered"}
  <2>1. call'[c] = [call[c] EXCEPT !.awaited = FALSE]
    BY <1>2 DEF MonolithCrash, Abandon
  <2> QED BY <1>2, <2>1 DEF TypeOK, GatewayTypeOK, Free, InProgress
<1> QED BY <1>1, <1>2

LEMMA OwnedKept ==
  ASSUME TypeOK, Owned, [Next]_vars
  PROVE  Owned'
<1> USE DEF InProgress
<1> DEFINE Wanted(x) == x.pc = "answered" \/ (InProgress(x) /\ x.awaited)
<1>1. SUFFICES ASSUME NEW c \in Call, Wanted(call'[c])
               PROVE  \E j \in Job : scan'[j].pc = "waiting" /\ scan'[j].call = c
  BY DEF Owned
<1>2. ASSUME NEW j \in Job, GetLatestRelease(j), ~Wanted(call[c])
      PROVE  scan'[j].pc = "waiting" /\ scan'[j].call = c
  BY <1>1, <1>2, RequestAsks DEF GetLatestRelease, TypeOK, GatewayTypeOK
<1>3. CASE Wanted(call[c])
  <2>1. PICK j \in Job : scan[j].pc = "waiting" /\ scan[j].call = c
    BY <1>3 DEF Owned
  <2>2. CASE scan'[j] = scan[j]
    BY <2>1, <2>2
  <2>3. CASE Receive(j)
    BY <1>1, <2>1, <2>3 DEF Receive, Free, TypeOK, GatewayTypeOK
  <2>4. CASE MonolithCrash
    BY <1>1, <2>4, CrashOfMonolith
  <2>5. ~StartScan(j)
    BY <2>1 DEF StartScan, Idle
  <2> QED
    BY <2>1, <2>2, <2>3, <2>4, <2>5, ScanMoves
    DEF ScanStep, GetLatestRelease, Skip, FindSubscribers, Publish, Drain, UpdateLastSeenTag
<1>4. CASE ~Wanted(call[c])
  <2>1. ASSUME NEW d \in Call, GatewayStep(d) PROVE FALSE
    BY <1>1, <1>4, <2>1, CallKeepsCaller
  <2>2. ~GatewayCrash
    BY <1>1, <1>4, CrashOfGateway
  <2>3. ~MonolithCrash
    BY <1>1, CrashOfMonolith
  <2>4. ASSUME NEW j \in Job, Receive(j) PROVE FALSE
    BY <1>1, <1>4, <2>4 DEF Receive, Free, TypeOK, GatewayTypeOK
  <2> QED BY <1>1, <1>2, <1>4, <2>1, <2>2, <2>3, <2>4, CallChanges
<1> QED BY <1>3, <1>4

\* A crash of the monolith leaves one call without its caller at the most, and only
\* if a job was waiting for it; nothing else leaves any.
LEMMA OrphansLeft ==
  ASSUME TypeOK, OneScan, Owned, [Next]_vars, NEW r \in Repo
  PROVE  \/ Orphans(r)' \subseteq Orphans(r)
         \/ /\ MonolithCrash
            /\ \E j \in Job : scan[j].pc = "waiting" /\ Orphans(r)' \subseteq Orphans(r) \cup {scan[j].call}
<1> USE DEF InProgress
<1>1. CASE call' = call
  BY <1>1 DEF Orphans
<1>2. ASSUME NEW d \in Call, GatewayStep(d) PROVE Orphans(r)' \subseteq Orphans(r)
  BY <1>2, CallKeepsCaller DEF Orphans
<1>3. CASE GatewayCrash
  BY <1>3, CrashOfGateway DEF Orphans
<1>4. ASSUME NEW j \in Job, GetLatestRelease(j) PROVE Orphans(r)' \subseteq Orphans(r)
  <2>1. PICK c \in Call, q \in Row : Request(c, q.id)
    BY <1>4, ScanShape DEF GetLatestRelease, TypeOK, ScanState, Idle
  <2>2. call' = [call EXCEPT ![c] = [pc |-> "reading", repo |-> q.id, awaited |-> TRUE]]
    BY <2>1, RequestAsks
  <2> QED BY <2>2 DEF Orphans, TypeOK, GatewayTypeOK
<1>5. ASSUME NEW j \in Job, Receive(j) PROVE Orphans(r)' \subseteq Orphans(r)
  BY <1>5 DEF Receive, Orphans, Free, TypeOK, GatewayTypeOK
<1>6. CASE MonolithCrash
  <2>1. \A c \in Orphans(r)' : c \in Call /\ InProgress(call[c]) /\ call[c].repo = r
    BY <1>6, CrashOfMonolith DEF Orphans
  <2>2. \A c \in Orphans(r)' \ Orphans(r) : \E j \in Job : scan[j].pc = "waiting" /\ scan[j].call = c
    BY <2>1, CallShape DEF Orphans, Owned
  <2>3. \A j, k \in Job : scan[j].pc = "waiting" /\ scan[k].pc = "waiting" => j = k
    BY DEF OneScan, Idle
  <2>4. CASE \E j \in Job : scan[j].pc = "waiting"
    <3>1. PICK j \in Job : scan[j].pc = "waiting"
      BY <2>4
    <3>2. Orphans(r)' \subseteq Orphans(r) \cup {scan[j].call}
      BY <2>2, <2>3, <3>1
    <3> QED BY <1>6, <3>1, <3>2
  <2>5. CASE ~\E j \in Job : scan[j].pc = "waiting"
    BY <2>2, <2>5
  <2> QED BY <2>4, <2>5
<1> QED BY <1>1, <1>2, <1>3, <1>4, <1>5, <1>6, CallChanges

LEMMA FewOrphansKept ==
  ASSUME TypeOK, OneScan, Owned, FewOrphans, [Next]_vars
  PROVE  FewOrphans'
<1>1. ASSUME NEW r \in Repo PROVE IsFiniteSet(Orphans(r)')
  <2>1. IsFiniteSet(Orphans(r))
    BY DEF FewOrphans
  <2>2. \A c : IsFiniteSet(Orphans(r) \cup {c})
    BY <2>1, FS_AddElement
  <2>3. CASE Orphans(r)' \subseteq Orphans(r)
    BY <2>1, <2>3, FS_Subset
  <2>4. ASSUME NEW c, Orphans(r)' \subseteq Orphans(r) \cup {c} PROVE IsFiniteSet(Orphans(r)')
    <3>1. IsFiniteSet(Orphans(r) \cup {c})
      BY <2>2
    <3> QED BY <2>4, <3>1, FS_Subset
  <2> QED BY <2>3, <2>4, OrphansLeft
<1> QED BY <1>1 DEF FewOrphans

LEMMA OneMore ==
  ASSUME NEW S, NEW c, IsFiniteSet(S)
  PROVE  Cardinality(S \cup {c}) <= Cardinality(S) + 1
<1>1. Cardinality(S) \in Nat
  BY FS_CardinalityType
<1>2. CASE c \in S
  <2>1. S \cup {c} = S
    BY <1>2
  <2> QED BY <1>1, <2>1
<1>3. CASE c \notin S
  <2>1. Cardinality(S \cup {c}) = IF c \in S THEN Cardinality(S) ELSE Cardinality(S) + 1
    BY FS_AddElement
  <2>2. Cardinality(S \cup {c}) = Cardinality(S) + 1
    BY <1>3, <2>1
  <2> QED BY <1>1, <2>2
<1> QED BY <1>2, <1>3

\* How many they are after a step.
LEMMA OrphansCounted ==
  ASSUME TypeOK, OneScan, Owned, FewOrphans, [Next]_vars, NEW r \in Repo
  PROVE  /\ Cardinality(Orphans(r)) \in Nat /\ Cardinality(Orphans(r)') \in Nat
         /\ ~MonolithCrash => Cardinality(Orphans(r)') <= Cardinality(Orphans(r))
         /\ Cardinality(Orphans(r)') <= Cardinality(Orphans(r)) + 1
         /\ (\A j \in Job : scan[j].pc # "waiting") => Cardinality(Orphans(r)') <= Cardinality(Orphans(r))
         /\ \A c \in Orphans(r) \ Orphans(r)' : ~MonolithCrash =>
              Cardinality(Orphans(r)') + 1 <= Cardinality(Orphans(r))
<1>1. IsFiniteSet(Orphans(r)) /\ IsFiniteSet(Orphans(r)')
  BY FewOrphansKept DEF FewOrphans
<1>2. Cardinality(Orphans(r)) \in Nat /\ Cardinality(Orphans(r)') \in Nat
  BY <1>1, FS_CardinalityType
<1>3. Orphans(r)' \subseteq Orphans(r) => Cardinality(Orphans(r)') <= Cardinality(Orphans(r))
  BY <1>1, FS_Subset
<1>4. ASSUME NEW c, Orphans(r)' \subseteq Orphans(r) \cup {c}
      PROVE  Cardinality(Orphans(r)') <= Cardinality(Orphans(r)) + 1
  <2>1. IsFiniteSet(Orphans(r) \cup {c})
    BY <1>1, FS_AddElement
  <2>2. Cardinality(Orphans(r) \cup {c}) <= Cardinality(Orphans(r)) + 1
    BY <1>1, OneMore
  <2>3. Cardinality(Orphans(r)') <= Cardinality(Orphans(r) \cup {c})
    BY <1>4, <2>1, FS_Subset
  <2>4. Cardinality(Orphans(r) \cup {c}) \in Nat
    BY <2>1, FS_CardinalityType
  <2> QED BY <1>2, <2>2, <2>3, <2>4
<1>5. ASSUME NEW c \in Orphans(r) \ Orphans(r)', Orphans(r)' \subseteq Orphans(r)
      PROVE  Cardinality(Orphans(r)') + 1 <= Cardinality(Orphans(r))
  <2>1. Cardinality(Orphans(r) \ {c}) = Cardinality(Orphans(r)) - 1 /\ IsFiniteSet(Orphans(r) \ {c})
    BY <1>1, <1>5, FS_RemoveElement
  <2>2. Orphans(r)' \subseteq Orphans(r) \ {c}
    BY <1>5
  <2>3. Cardinality(Orphans(r)') <= Cardinality(Orphans(r) \ {c})
    BY <2>1, <2>2, FS_Subset
  <2> QED BY <1>2, <2>1, <2>3
<1> QED BY <1>2, <1>3, <1>4, <1>5, OrphansLeft

-----------------------------------------------------------------------------
(* Snapshots *)

LEMMA OthersAreIdle ==
  ASSUME TypeOK, OneScan, NEW j \in Job, ScanStep(j), ~Drain(j)
  PROVE  /\ scan[j] # Idle /\ scan[j].left \in SUBSET Row
         /\ \A k \in Job \ {j} : scan[k] = Idle /\ scan'[k] = Idle
<1>1. scan[j] # Idle /\ \A k \in Job \ {j} : scan'[k] = scan[k]
  BY DEF ScanStep, GetLatestRelease, Receive, Skip, FindSubscribers, Publish,
         UpdateLastSeenTag, Proceed, Idle, TypeOK
<1>2. scan[j].left \in SUBSET Row
  BY <1>1 DEF TypeOK, ScanState
<1> QED BY <1>1, <1>2 DEF OneScan

LEMMA SnapshotsKept ==
  ASSUME TypeOK, OneScan, Snapshots, [Next]_vars
  PROVE  Snapshots'
<1> USE DEF people, history, gatewayVars
<1> DEFINE Good(x, seen) ==
      /\ x # Idle => \A row \in x.left : row.lastSeenTag = seen[row.id]
      /\ x.pc = "waiting" => /\ x.repo.lastSeenTag = seen[x.repo.id]
                             /\ \A row \in x.left : row.id # x.repo.id
      /\ x.pc \in {"found", "notifying", "saving"} => \A row \in x.left : row.id # x.id
      /\ x.pc \in {"found", "notifying"} => x.tag # seen[x.id]
<1>1. SUFFICES ASSUME NEW j \in Job PROVE Good(scan'[j], lastSeen')
  BY DEF Snapshots
<1>2. Good(scan[j], lastSeen)
  BY DEF Snapshots
<1>3. \A seen : Good(Idle, seen)
  BY DEF Idle
<1>4. CASE StartScan(j)
  <2>1. scan'[j] = [pc |-> "next", left |-> FindDistinctConfirmed] /\ lastSeen' = lastSeen
    BY <1>4 DEF StartScan, TypeOK
  <2> QED BY <2>1 DEF FindDistinctConfirmed
<1>5. CASE ScanStep(j) /\ ~Drain(j)
  <2>1. scan[j].left \in SUBSET Row
    BY <1>5, OthersAreIdle
  <2>2. Proceed(j) => scan'[j] = Idle \/ scan'[j] = [pc |-> "next", left |-> scan[j].left]
    BY DEF Proceed, TypeOK
  <2>3. CASE Skip(j)
    BY <1>2, <1>3, <2>2, <2>3 DEF Skip, Idle
  <2>4. CASE FindSubscribers(j)
    BY <1>2, <2>4 DEF FindSubscribers, TypeOK, Idle
  <2>5. CASE Publish(j)
    BY <1>2, <2>5 DEF Publish, TypeOK, Idle
  <2>6. CASE UpdateLastSeenTag(j)
    <3>1. scan[j].pc = "saving" /\ scan[j] # Idle /\ \A row \in scan[j].left : row.id # scan[j].id
      BY <1>2, <2>6 DEF UpdateLastSeenTag, Idle
    <3>2. \A row \in scan[j].left : row.lastSeenTag = lastSeen'[row.id]
      BY <1>2, <2>1, <2>6, <3>1 DEF UpdateLastSeenTag, TypeOK, Row
    <3> QED BY <1>3, <2>2, <2>6, <3>2 DEF UpdateLastSeenTag
  <2>7. CASE GetLatestRelease(j)
    <3>1. PICK repo \in scan[j].left, c \in Call : scan' = [scan EXCEPT ![j] =
               [pc |-> "waiting", left |-> @.left \ {repo}, repo |-> repo, call |-> c]]
      BY <2>7 DEF GetLatestRelease
    <3>2. scan'[j] = [pc |-> "waiting", left |-> scan[j].left \ {repo}, repo |-> repo, call |-> c]
      BY <3>1 DEF TypeOK
    <3>3. scan[j] # Idle
      BY <1>5, OthersAreIdle
    <3>4. \A row \in scan[j].left : row.lastSeenTag = lastSeen[row.id]
      BY <1>2, <3>3
    <3>5. \A row \in scan[j].left : row.id = repo.id => row = repo
      BY <2>1, <3>4 DEF Row
    <3> QED BY <2>7, <3>2, <3>4, <3>5 DEF GetLatestRelease
  <2>8. CASE Receive(j)
    <3>1. lastSeen' = lastSeen /\ scan[j].pc = "waiting" /\ scan[j] # Idle
      BY <2>8 DEF Receive, Idle
    <3>2. \/ scan'[j] = Idle \/ Proceed(j)
          \/ \E t : /\ t # scan[j].repo.lastSeenTag
                    /\ scan'[j] = [pc |-> "found", left |-> scan[j].left, id |-> scan[j].repo.id, tag |-> t]
      BY <2>8 DEF Receive, TypeOK
    <3>3. CASE scan'[j] = Idle \/ Proceed(j)
      BY <1>2, <1>3, <2>2, <3>1, <3>3
    <3>4. ASSUME NEW t, t # scan[j].repo.lastSeenTag,
                 scan'[j] = [pc |-> "found", left |-> scan[j].left, id |-> scan[j].repo.id, tag |-> t]
          PROVE  Good(scan'[j], lastSeen')
      BY <1>2, <3>1, <3>4
    <3> QED BY <3>2, <3>3, <3>4
  <2> QED BY <1>5, <2>3, <2>4, <2>5, <2>6, <2>7, <2>8 DEF ScanStep
<1>6. ASSUME NEW k \in Job \ {j}, ScanStep(k), ~Drain(k) PROVE Good(scan'[j], lastSeen')
  BY <1>3, <1>6, OthersAreIdle
<1>7. ASSUME scan'[j] = scan[j], lastSeen' = lastSeen PROVE Good(scan'[j], lastSeen')
  BY <1>2, <1>7
<1>8. CASE MonolithCrash
  BY <1>3, <1>8 DEF MonolithCrash
<1>9. ASSUME NEW k \in Job \ {j}, StartScan(k) PROVE scan'[j] = scan[j] /\ lastSeen' = lastSeen
  BY <1>9 DEF StartScan, TypeOK
<1>10. \/ scan' = scan /\ lastSeen' = lastSeen
       \/ MonolithCrash
       \/ \E k \in Job : StartScan(k) \/ (ScanStep(k) /\ ~Drain(k))
  <2>1. ASSUME NEW k \in Job, Drain(k) \/ ChannelDies(k) PROVE scan' = scan /\ lastSeen' = lastSeen
    BY <2>1 DEF Drain, ChannelDies
  <2> QED BY <2>1 DEF Next, Environment, Confirm, Unsubscribe, vars
<1> QED BY <1>4, <1>5, <1>6, <1>7, <1>8, <1>9, <1>10

-----------------------------------------------------------------------------
(* The account *)

\* What there is in any state of a run, and what a way costs after a step.
Books == TypeOK /\ ScanInvariant /\ Accounts
Covers(r, t, x, h, c) ==
  Spent(r, t)' + Visits(t, x, h, c, latest'[r]) <= 1 + faults'

LEMMA BooksType ==
  ASSUME Books, [Next]_vars, NEW r \in Repo, NEW t \in Tag
  PROVE  /\ TypeOK /\ OneScan /\ Released /\ Matched /\ Addressed
         /\ Account /\ NoneForNothing /\ FewOrphans /\ Owned /\ Snapshots /\ Calm
         /\ TypeOK' /\ FewOrphans' /\ latest[r] \in Tag /\ latest'[r] \in Tag
         /\ cache[r] \in Tag \cup {Miss} /\ cache'[r] \in Tag \cup {Miss}
         /\ lastSeen[r] \in Tag /\ 0 \in Tag
         /\ Spent(r, t) \in Nat /\ Spent(r, t)' \in Nat
         /\ faults \in Nat /\ faults' \in Nat
<1>1. /\ TypeOK /\ OneScan /\ Released /\ Matched /\ Addressed
      /\ Account /\ NoneForNothing /\ FewOrphans /\ Owned /\ Snapshots /\ Calm
  BY DEF Books, ScanInvariant, Accounts
<1>2. TypeOK' /\ FewOrphans'
  BY <1>1, TypeStep, FewOrphansKept
<1>3. Cardinality(Orphans(r)) \in Nat /\ Cardinality(Orphans(r)') \in Nat
  BY <1>1, OrphansCounted
<1>4. announced[<<r, t>>] \in Nat /\ announced'[<<r, t>>] \in Nat
  BY <1>1, <1>2 DEF TypeOK
<1>5. Spent(r, t) \in Nat /\ Spent(r, t)' \in Nat
  BY <1>3, <1>4 DEF Spent
<1>6. /\ latest[r] \in Tag /\ latest'[r] \in Tag /\ lastSeen[r] \in Tag
      /\ cache[r] \in Tag \cup {Miss} /\ cache'[r] \in Tag \cup {Miss}
      /\ faults \in Nat /\ faults' \in Nat
  BY <1>1, <1>2 DEF TypeOK, GatewayTypeOK
<1>7. 0 \in Tag
  BY GatewayAssumption DEF Tag
<1> QED BY <1>1, <1>2, <1>5, <1>6, <1>7

\* A way there was before pays for one there is now.
LEMMA PaidBy ==
  ASSUME Books, [Next]_vars, NEW r \in Repo, NEW t \in Tag \ {0},
         NEW x \in Tag, NEW h \in Tag, NEW c \in Tag \cup {Miss},
         NEW y, NEW g, NEW d, Way(r, y, g, d),
         Spent(r, t)' + Visits(t, x, h, c, latest'[r])
           <= Spent(r, t) + Visits(t, y, g, d, latest[r]) + (faults' - faults)
  PROVE  Covers(r, t, x, h, c)
<1>1. Spent(r, t) + Visits(t, y, g, d, latest[r]) <= 1 + faults
  BY BooksType, AccountOf
<1>2. y \in Tag /\ g \in Tag /\ d \in Tag \cup {Miss}
  BY BooksType, WayType
<1>3. Visits(t, y, g, d, latest[r]) \in Nat /\ Visits(t, x, h, c, latest'[r]) \in Nat
  BY <1>2, BooksType, VisitsOf
<1> HIDE DEF Spent, Visits
<1>4. /\ Spent(r, t) \in Nat /\ Spent(r, t)' \in Nat /\ faults \in Nat /\ faults' \in Nat
  BY BooksType
<1> QED BY <1>1, <1>3, <1>4 DEF Covers

\* What is spent after a step. (A step that nobody waits for may look like a crash.)
Quiet == ~MonolithCrash \/ \A j \in Job : scan[j].pc # "waiting"

LEMMA SpentAfter ==
  ASSUME Books, [Next]_vars, NEW r \in Repo, NEW t \in Tag \ {0},
         announced'[<<r, t>>] = announced[<<r, t>>]
  PROVE  /\ Quiet => Spent(r, t)' <= Spent(r, t)
         /\ Spent(r, t)' <= Spent(r, t) + 1
         /\ \A c \in Orphans(r) \ Orphans(r)' : ~MonolithCrash => Spent(r, t)' + 1 <= Spent(r, t)
<1>1. announced'[<<r, t>>] = announced[<<r, t>>] /\ announced[<<r, t>>] \in Nat
  BY BooksType DEF TypeOK
<1>2. TypeOK /\ OneScan /\ Owned /\ FewOrphans
  BY BooksType
<1> QED BY <1>1, <1>2, OrphansCounted DEF Spent, Quiet

LEMMA SameWays ==
  ASSUME Books, [Next]_vars, NEW r \in Repo, NEW t \in Tag \ {0}, NEW x \in Tag, NEW h \in Tag,
         NEW c \in Tag \cup {Miss}, Way(r, x, h, c),
         announced'[<<r, t>>] = announced[<<r, t>>], Quiet, latest' = latest, faults' >= faults
  PROVE  Covers(r, t, x, h, c)
<1>1. Spent(r, t)' <= Spent(r, t)
  BY SpentAfter
<1>2. Visits(t, x, h, c, latest[r]) \in Nat
  BY VisitsOf, BooksType
<1> HIDE DEF Spent, Visits
<1>3. /\ Spent(r, t) \in Nat /\ Spent(r, t)' \in Nat /\ faults \in Nat /\ faults' \in Nat
  BY BooksType
<1>4. Spent(r, t)' + Visits(t, x, h, c, latest'[r])
        <= Spent(r, t) + Visits(t, x, h, c, latest[r]) + (faults' - faults)
  BY <1>1, <1>2, <1>3
<1> QED BY <1>4, PaidBy

LEMMA AfterNewRelease ==
  ASSUME Books, [Next]_vars, NEW q \in Repo, NewRelease(q), UNCHANGED <<lastSeen, people, scan, drain, history>>,
         NEW r \in Repo, NEW t \in Tag \ {0}, NEW x \in Tag, NEW h \in Tag,
         NEW c \in Tag \cup {Miss}, Way(r, x, h, c)'
  PROVE  Covers(r, t, x, h, c)
<1>1. Way(r, x, h, c) /\ faults' = faults /\ announced' = announced /\ Quiet
  <2>1. /\ faults' = faults /\ announced' = announced
        /\ scan' = scan /\ call' = call /\ cache' = cache /\ lastSeen' = lastSeen
    BY DEF NewRelease, history
  <2>2. Way(r, x, h, c)
    BY <2>1 DEF Way
  <2>3. Quiet
    BY <2>1, BooksType DEF MonolithCrash, Fault, Quiet
  <2> QED BY <2>1, <2>2, <2>3
<1>2. latest'[r] \in {latest[r], latest[r] + 1}
  BY BooksType DEF NewRelease, TypeOK, GatewayTypeOK
<1>3. x <= latest[r] /\ h <= latest[r] /\ c <= latest[r]
  BY <1>1, WayType, BooksType
<1>4. Visits(t, x, h, c, latest'[r]) <= Visits(t, x, h, c, latest[r])
  <2>1. CASE latest'[r] = latest[r]
    BY <2>1, VisitsOf, BooksType
  <2>2. CASE latest'[r] = latest[r] + 1
    BY <1>3, <2>2, VisitsNewRelease, BooksType
  <2> QED BY <1>2, <2>1, <2>2
<1>5. Visits(t, x, h, c, latest[r]) \in Nat /\ Visits(t, x, h, c, latest'[r]) \in Nat
  BY VisitsOf, BooksType
<1>6. Spent(r, t)' <= Spent(r, t)
  BY <1>1, SpentAfter
<1> HIDE DEF Spent, Visits
<1>7. /\ Spent(r, t) \in Nat /\ Spent(r, t)' \in Nat /\ faults \in Nat
  BY BooksType
<1>8. Spent(r, t)' + Visits(t, x, h, c, latest'[r])
        <= Spent(r, t) + Visits(t, x, h, c, latest[r]) + (faults' - faults)
  BY <1>1, <1>4, <1>5, <1>6, <1>7
<1> QED BY <1>1, <1>8, PaidBy

\* The only job there is decides on the ways.
LEMMA Straight ==
  ASSUME Books, NEW j \in Job, scan[j] # Idle, NEW r \in Repo, scan[j].pc = "saving" => scan[j].id # r
  PROVE  Way(r, lastSeen[r], 0, cache[r])
<1>1. \A k \in Job \ {j} : scan[k] = Idle
  BY DEF Books, ScanInvariant, OneScan
<1> QED BY <1>1 DEF Way, Idle

LEMMA OwnWays ==
  ASSUME Books, NEW j \in Job, ScanStep(j), ~Drain(j),
         NEW r \in Repo, NEW x, NEW h, NEW c, Way(r, x, h, c)'
  PROVE  \/ /\ scan'[j].pc = "saving" => scan'[j].id # r
            /\ x = lastSeen'[r] /\ h = 0 /\ c = cache'[r]
         \/ /\ scan'[j].pc \in {"found", "notifying"} /\ scan'[j].id = r
            /\ x = lastSeen'[r] /\ h = scan'[j].tag /\ c = cache'[r]
         \/ /\ scan'[j].pc = "saving" /\ scan'[j].id = r
            /\ x = scan'[j].tag /\ h = 0 /\ c = cache'[r]
         \/ /\ scan'[j].pc = "waiting" /\ scan'[j].repo.id = r
            /\ call'[scan'[j].call].pc = "answered" /\ call'[scan'[j].call].reply.error = "none"
            /\ x = lastSeen'[r] /\ h = call'[scan'[j].call].reply.release /\ c = cache'[r]
         \/ /\ scan'[j].pc = "waiting" /\ scan'[j].repo.id = r
            /\ call'[scan'[j].call].pc = "storing"
            /\ x = lastSeen'[r] /\ h = call'[scan'[j].call].tag /\ c = Miss
<1>1. \A k \in Job \ {j} : scan'[k].pc = "idle"
  BY OthersAreIdle DEF Books, ScanInvariant, Idle
<1> QED BY <1>1 DEF Way

\* What lies before a step of the job, but for its publishing, lay there already,
\* unless the job passes over a release that it has announced.
LEMMA ScanWays ==
  ASSUME Books, NEW j \in Job, ScanStep(j), ~Publish(j), ~Drain(j),
         NEW r \in Repo, NEW x, NEW h, NEW c, Way(r, x, h, c)'
  PROVE  \/ Way(r, x, h, c)
         \/ /\ Skip(j) /\ scan[j].pc = "saving" /\ scan[j].id = r
            /\ x = lastSeen[r] /\ h = 0 /\ c = cache[r]
<1> USE DEF people, history, gatewayVars
<1>1. scan[j] # Idle /\ \A k \in Job \ {j} : scan[k] = Idle
  BY OthersAreIdle DEF Books, ScanInvariant
<1>2. TypeOK
  BY DEF Books
<1>5. CASE GetLatestRelease(j)
  <2>1. scan[j].pc = "next" /\ scan'[j].pc = "waiting"
    BY <1>2, <1>5, ScanStages DEF GetLatestRelease
  <2>2. call'[scan'[j].call].pc = "reading"
    <3>1. PICK q \in scan[j].left, d \in Call : /\ Request(d, q.id)
              /\ scan' = [scan EXCEPT ![j] = [pc |-> "waiting", left |-> @.left \ {q}, repo |-> q, call |-> d]]
      BY <1>5 DEF GetLatestRelease
    <3>2. scan'[j].call = d
      BY <1>2, <3>1 DEF TypeOK
    <3>3. call'[d] = [pc |-> "reading", repo |-> q.id, awaited |-> TRUE]
      <4>1. call' = [call EXCEPT ![d] = [pc |-> "reading", repo |-> q.id, awaited |-> TRUE]]
        BY <3>1, RequestAsks
      <4> QED BY <1>2, <4>1 DEF TypeOK, GatewayTypeOK
    <3> QED BY <3>2, <3>3
  <2>3. x = lastSeen'[r] /\ h = 0 /\ c = cache'[r]
    BY <2>1, <2>2, OwnWays
  <2>4. Way(r, lastSeen[r], 0, cache[r])
    BY <1>1, <2>1, Straight
  <2>5. lastSeen' = lastSeen /\ cache' = cache /\ faults' = faults
    BY <1>5 DEF GetLatestRelease
  <2> QED BY <2>3, <2>4, <2>5
<1>6. CASE Receive(j)
  <2>1. /\ lastSeen' = lastSeen /\ cache' = cache /\ faults' = faults
        /\ scan[j].pc = "waiting" /\ scan'[j].pc \in {"idle", "next", "found"}
    BY <1>2, <1>6, ScanStages DEF Receive
  <2>2. CASE x = lastSeen'[r] /\ h = 0 /\ c = cache'[r]
    <3>1. Way(r, lastSeen[r], 0, cache[r])
      BY <1>1, <2>1, Straight
    <3> QED BY <2>1, <2>2, <3>1
  <2>3. CASE /\ scan'[j].pc = "found" /\ scan'[j].id = r
             /\ x = lastSeen'[r] /\ h = scan'[j].tag /\ c = cache'[r]
    <3>1. /\ call[scan[j].call].pc = "answered" /\ call[scan[j].call].reply.error = "none"
          /\ scan'[j] = [pc |-> "found", left |-> scan[j].left, id |-> scan[j].repo.id,
                         tag |-> call[scan[j].call].reply.release]
      <4>1. ~Proceed(j) /\ scan'[j] # Idle
        BY <1>2, <2>3 DEF Proceed, Idle, TypeOK
      <4> QED BY <1>2, <1>6, <4>1 DEF Receive, TypeOK
    <3>2. scan[j].repo.id = r /\ h = call[scan[j].call].reply.release
      BY <2>3, <3>1
    <3>3. Way(r, x, h, c)
      BY <2>1, <2>3, <3>1, <3>2 DEF Way
    <3> QED BY <3>3
  <2> QED BY <2>1, <2>2, <2>3, OwnWays
<1>7. CASE Skip(j)
  <2>1. /\ lastSeen' = lastSeen /\ cache' = cache /\ faults' = faults + 1
        /\ scan[j].pc \in {"found", "notifying", "saving"} /\ scan'[j].pc \in {"idle", "next"}
    BY <1>2, <1>7, ScanStages DEF Skip, Fault
  <2>2. x = lastSeen[r] /\ h = 0 /\ c = cache[r]
    BY <2>1, OwnWays
  <2>3. CASE scan[j].pc = "saving" /\ scan[j].id = r
    BY <1>7, <2>2, <2>3
  <2>4. CASE ~(scan[j].pc = "saving" /\ scan[j].id = r)
    BY <1>1, <2>2, <2>4, Straight
  <2> QED BY <2>3, <2>4
<1>8. CASE FindSubscribers(j)
  <2>1. /\ lastSeen' = lastSeen /\ cache' = cache /\ faults' = faults
        /\ scan[j].pc = "found" /\ scan'[j].pc = "notifying"
        /\ scan'[j].id = scan[j].id /\ scan'[j].tag = scan[j].tag
    BY <1>2, <1>8 DEF FindSubscribers, TypeOK
  <2>2. Way(r, lastSeen[r], 0, cache[r])
    BY <1>1, <2>1, Straight
  <2>3. scan[j].id = r => Way(r, lastSeen[r], scan[j].tag, cache[r])
    BY <2>1 DEF Way
  <2>4. Way(r, x, h, c)
    BY <2>1, <2>2, <2>3, OwnWays
  <2> QED BY <2>4
<1>9. CASE UpdateLastSeenTag(j)
  <2>1. /\ lastSeen' = [lastSeen EXCEPT ![scan[j].id] = scan[j].tag]
        /\ cache' = cache /\ faults' = faults
        /\ scan[j].pc = "saving" /\ scan'[j].pc \in {"idle", "next"}
    BY <1>2, <1>9, ScanStages DEF UpdateLastSeenTag
  <2>2. x = lastSeen'[r] /\ h = 0 /\ c = cache[r]
    BY <2>1, OwnWays
  <2>3. Way(r, x, h, c)
    <3>1. CASE scan[j].id = r
      <4>1. lastSeen'[r] = scan[j].tag
        BY <1>2, <2>1, <3>1 DEF TypeOK
      <4> QED BY <2>1, <2>2, <3>1, <4>1 DEF Way
    <3>2. CASE scan[j].id # r
      <4>1. lastSeen'[r] = lastSeen[r]
        BY <1>2, <2>1, <3>2 DEF TypeOK
      <4> QED BY <1>1, <2>2, <3>2, <4>1, Straight
    <3> QED BY <3>1, <3>2
  <2> QED BY <2>3
<1> QED BY <1>5, <1>6, <1>7, <1>8, <1>9 DEF ScanStep

LEMMA AfterScanStep ==
  ASSUME Books, [Next]_vars, NEW j \in Job, ScanStep(j), ~Publish(j), ~Drain(j),
         NEW r \in Repo, NEW t \in Tag \ {0}, NEW x \in Tag, NEW h \in Tag,
         NEW c \in Tag \cup {Miss}, Way(r, x, h, c)'
  PROVE  Covers(r, t, x, h, c)
<1> USE DEF people, history, gatewayVars
<1>1. scan[j] # Idle /\ \A k \in Job \ {j} : scan[k] = Idle
  BY OthersAreIdle DEF Books, ScanInvariant
<1>2. /\ TypeOK /\ faults \in Nat
      /\ announced' = announced /\ latest' = latest
  BY BooksType DEF ScanStep, GetLatestRelease, Receive, Skip, FindSubscribers, UpdateLastSeenTag
<1>3. Quiet
  <2>1. CASE scan[j].pc # "waiting"
    BY <1>1, <2>1 DEF Quiet, Idle
  <2>2. CASE scan[j].pc = "waiting"
    <3>1. Receive(j)
      BY <2>2 DEF ScanStep, GetLatestRelease, Skip, FindSubscribers, Publish, UpdateLastSeenTag
    <3>2. faults' = faults
      BY <3>1 DEF Receive
    <3> QED BY <1>2, <3>2 DEF MonolithCrash, Fault, Quiet
  <2> QED BY <2>1, <2>2
<1>4. CASE Way(r, x, h, c)
  <2>1. faults' >= faults
    BY <1>2 DEF ScanStep, GetLatestRelease, Receive, Skip, FindSubscribers, UpdateLastSeenTag, Fault
  <2> QED BY <1>2, <1>3, <1>4, <2>1, SameWays
<1>5. CASE /\ Skip(j) /\ scan[j].pc = "saving" /\ scan[j].id = r
           /\ x = lastSeen[r] /\ h = 0 /\ c = cache[r]
  <2>1. Way(r, scan[j].tag, 0, cache[r]) /\ scan[j].tag \in Tag
    BY <1>2, <1>5, ScanShape DEF Way, TypeOK
  <2>2. Visits(t, x, h, c, latest[r]) <= Visits(t, scan[j].tag, 0, cache[r], latest[r]) + 1
    BY <1>5, <2>1, VisitsPutIn, BooksType
  <2>3. Visits(t, x, h, c, latest[r]) \in Nat /\ Visits(t, scan[j].tag, 0, cache[r], latest[r]) \in Nat
    BY <2>1, VisitsOf, BooksType
  <2>4. Spent(r, t)' <= Spent(r, t) /\ faults' = faults + 1
    BY <1>2, <1>3, <1>5, SpentAfter DEF Skip, Fault
  <2> HIDE DEF Spent, Visits
  <2>5. Spent(r, t) \in Nat /\ Spent(r, t)' \in Nat
    BY BooksType
  <2>6. Spent(r, t)' + Visits(t, x, h, c, latest'[r])
          <= Spent(r, t) + Visits(t, scan[j].tag, 0, cache[r], latest[r]) + (faults' - faults)
    BY <1>2, <2>2, <2>3, <2>4, <2>5
  <2> QED BY <2>1, <2>6, PaidBy
<1> QED BY <1>4, <1>5, ScanWays

LEMMA PublishWays ==
  ASSUME Books, NEW j \in Job, Publish(j), NEW r \in Repo, NEW x, NEW h, NEW c, Way(r, x, h, c)'
  PROVE  Way(r, x, h, c) \/ \E y : Way(r, y, x, c) /\ h = 0 /\ x # 0
<1>1. /\ cache' = cache /\ lastSeen' = lastSeen /\ scan[j].pc = "notifying" /\ scan[j] # Idle
      /\ ~Drain(j)
  <2>1. scan'[j].pc = "saving"
    BY ScanStages DEF Books
  <2> QED BY <2>1 DEF Publish, Drain, Idle
<1>2. /\ scan'[j].pc = "saving" /\ scan'[j].id = scan[j].id /\ scan'[j].tag = scan[j].tag
      /\ scan[j].tag # 0
  BY <1>1 DEF Publish, Books, TypeOK, ScanInvariant, Addressed
<1>3. CASE scan[j].id # r
  BY <1>1, <1>2, <1>3, OwnWays, Straight DEF ScanStep
<1>4. CASE scan[j].id = r
  <2>1. x = scan[j].tag /\ h = 0 /\ c = cache[r]
    BY <1>1, <1>2, <1>4, OwnWays DEF ScanStep
  <2>2. Way(r, lastSeen[r], scan[j].tag, cache[r])
    BY <1>1, <1>4 DEF Way
  <2> QED BY <1>2, <2>1, <2>2
<1> QED BY <1>3, <1>4

LEMMA AfterPublish ==
  ASSUME Books, [Next]_vars, NEW j \in Job, Publish(j),
         NEW r \in Repo, NEW t \in Tag \ {0}, NEW x \in Tag, NEW h \in Tag,
         NEW c \in Tag \cup {Miss}, Way(r, x, h, c)'
  PROVE  Covers(r, t, x, h, c)
<1> DEFINE id == scan[j].id
           tag == scan[j].tag
<1>1. /\ TypeOK /\ OneScan /\ Owned /\ FewOrphans /\ faults \in Nat
      /\ latest' = latest /\ cache' = cache /\ lastSeen' = lastSeen /\ faults' >= faults
      /\ scan[j].pc = "notifying" /\ scan[j] # Idle
  BY BooksType DEF Publish, Fault, Idle
<1>2. scan'[j].pc = "saving" /\ scan'[j].id = id /\ scan'[j].tag = tag /\ ~Drain(j)
  <2>1. scan'[j].pc = "saving" /\ scan'[j].id = id /\ scan'[j].tag = tag
    BY <1>1 DEF Publish, TypeOK
  <2> QED BY <1>1, <2>1 DEF Drain
<1>3. id \in Repo /\ tag \in Tag /\ tag # 0 /\ tag # lastSeen[id]
  BY <1>1, BooksType, ScanShape DEF TypeOK, Addressed, Snapshots
<1>4. \A k \in Job : scan[k].pc # "waiting"
  BY <1>1 DEF OneScan, Idle
<1>5. announced[<<r, t>>] \in Nat /\ announced'[<<r, t>>] \in Nat
  BY BooksType DEF TypeOK
<1>6. announced'[<<r, t>>] <= announced[<<r, t>>] + (IF id = r /\ tag = t THEN 1 ELSE 0)
  <2>1. announced' = [announced EXCEPT ![<<id, tag>>] = @ + 1] \/ announced' = announced
    BY DEF Publish
  <2>2. announced \in [Repo \X Tag -> Nat]
    BY <1>1 DEF TypeOK
  <2> HIDE DEF id, tag
  <2> QED BY <1>5, <2>1, <2>2
<1>7. CASE id # r
  <2>1. x = lastSeen[r] /\ h = 0 /\ c = cache[r]
    BY <1>1, <1>2, <1>7, OwnWays DEF ScanStep
  <2>2. Way(r, x, h, c)
    BY <1>1, <2>1, Straight
  <2>3. announced'[<<r, t>>] = announced[<<r, t>>]
    BY <1>1, <1>7 DEF Publish, TypeOK
  <2> QED BY <1>1, <1>4, <2>2, <2>3, SameWays DEF Quiet
<1>8. CASE id = r
  <2>1. x = tag /\ h = 0 /\ c = cache[r]
    BY <1>1, <1>2, <1>8, OwnWays DEF ScanStep
  <2>2. Way(r, lastSeen[r], tag, cache[r])
    BY <1>1, <1>8 DEF Way
  <2>3. /\ Cardinality(Orphans(r)) \in Nat /\ Cardinality(Orphans(r)') \in Nat
        /\ Cardinality(Orphans(r)') <= Cardinality(Orphans(r))
    BY <1>1, <1>4, OrphansCounted
  <2>4. Spent(r, t)' <= Spent(r, t) + (IF tag = t THEN 1 ELSE 0)
    BY <1>5, <1>6, <1>8, <2>3 DEF Spent
  <2>5. Visits(t, tag, 0, cache[r], latest[r]) + (IF tag = t THEN 1 ELSE 0)
          <= Visits(t, lastSeen[r], tag, cache[r], latest[r])
    BY <1>3, <1>8, VisitsAnnounced, BooksType
  <2>6. /\ Visits(t, tag, 0, cache[r], latest[r]) \in Nat
        /\ Visits(t, lastSeen[r], tag, cache[r], latest[r]) \in Nat
    BY <1>3, VisitsOf, BooksType
  <2>7. Spent(r, t) \in Nat /\ Spent(r, t)' \in Nat /\ faults' \in Nat
    BY BooksType
  <2> HIDE DEF Spent, Visits, tag
  <2>8. Spent(r, t)' + Visits(t, x, h, c, latest'[r])
          <= Spent(r, t) + Visits(t, lastSeen[r], tag, cache[r], latest[r]) + (faults' - faults)
    BY <1>1, <2>1, <2>4, <2>5, <2>6, <2>7
  <2> QED BY <2>2, <2>8, PaidBy
<1> QED BY <1>7, <1>8

\* A step that changes nothing but the calls and the cache.
Aside == UNCHANGED <<latest, lastSeen, people, scan, drain, history>>

LEMMA ExpireWays ==
  ASSUME Books, NEW q \in Repo, Expire(q), Aside,
         NEW r \in Repo, NEW x, NEW h, NEW c \in Tag \cup {Miss}, Way(r, x, h, c)'
  PROVE  \E d \in Tag \cup {Miss} : Way(r, x, h, d) /\ c \in {d, Miss}
<1>1. scan' = scan /\ call' = call /\ lastSeen' = lastSeen
  BY DEF Expire, Aside
<1>2. cache'[r] \in {cache[r], Miss} /\ cache[r] \in Tag \cup {Miss}
  BY DEF Books, Expire, TypeOK, GatewayTypeOK
<1>3. Way(r, x, h, c) \/ (Way(r, x, h, cache[r]) /\ c = cache'[r])
  BY <1>1 DEF Way
<1> QED BY <1>2, <1>3

LEMMA AfterExpire ==
  ASSUME Books, [Next]_vars, NEW q \in Repo, Expire(q), Aside,
         NEW r \in Repo, NEW t \in Tag \ {0}, NEW x \in Tag, NEW h \in Tag,
         NEW c \in Tag \cup {Miss}, Way(r, x, h, c)'
  PROVE  Covers(r, t, x, h, c)
<1>1. /\ scan' = scan /\ call' = call /\ lastSeen' = lastSeen /\ latest' = latest
      /\ announced' = announced /\ faults' = faults
  BY DEF Expire, Aside, history
<1>2. Quiet
  BY <1>1, BooksType DEF Quiet, MonolithCrash, Fault
<1>4. PICK d \in Tag \cup {Miss} : Way(r, x, h, d) /\ c \in {d, Miss}
  BY ExpireWays
<1>5. Visits(t, x, h, c, latest[r]) <= Visits(t, x, h, d, latest[r])
  <2>1. Visits(t, x, h, d, latest[r]) \in Nat /\ Visits(t, x, h, Miss, latest[r]) <= Visits(t, x, h, d, latest[r])
    BY VisitsOf, BooksType
  <2> QED BY <1>4, <2>1
<1>6. Visits(t, x, h, c, latest[r]) \in Nat /\ Visits(t, x, h, d, latest[r]) \in Nat
  BY VisitsOf, BooksType
<1>7. Spent(r, t)' <= Spent(r, t)
  BY <1>1, <1>2, SpentAfter
<1> HIDE DEF Spent, Visits
<1>8. Spent(r, t) \in Nat /\ Spent(r, t)' \in Nat /\ faults \in Nat
  BY BooksType
<1>9. Spent(r, t)' + Visits(t, x, h, c, latest'[r])
        <= Spent(r, t) + Visits(t, x, h, d, latest[r]) + (faults' - faults)
  BY <1>1, <1>5, <1>6, <1>7, <1>8
<1> QED BY <1>4, <1>9, PaidBy

LEMMA AfterGatewayCrash ==
  ASSUME Books, [Next]_vars, GatewayCrash, Aside,
         NEW r \in Repo, NEW t \in Tag \ {0}, NEW x \in Tag, NEW h \in Tag,
         NEW c \in Tag \cup {Miss}, Way(r, x, h, c)'
  PROVE  Covers(r, t, x, h, c)
<1>1. /\ scan' = scan /\ cache' = cache /\ lastSeen' = lastSeen /\ latest' = latest
      /\ announced' = announced /\ faults' = faults + 1
  BY DEF GatewayCrash, Aside, history, Fault
<1>2. TypeOK
  BY BooksType
<1>3. ASSUME NEW j \in Job, scan[j].pc = "waiting"
      PROVE  /\ call'[scan[j].call].pc # "storing"
             /\ call'[scan[j].call].pc = "answered" /\ call'[scan[j].call].reply.error = "none" =>
                  call'[scan[j].call] = call[scan[j].call]
  <2>1. scan[j].call \in Call
    BY <1>2, <1>3, ScanShape DEF TypeOK
  <2> QED BY <1>2, <2>1, CrashOfGateway DEF InProgress
<1>4. Way(r, x, h, c)
  BY <1>1, <1>3 DEF Way
<1>5. Quiet
  <2>1. CASE \A j \in Job : scan[j].pc # "waiting"
    BY <2>1 DEF Quiet
  <2>2. ASSUME NEW j \in Job, scan[j].pc = "waiting" PROVE ~MonolithCrash
    BY <1>1, <2>2 DEF MonolithCrash, Idle
  <2> QED BY <2>1, <2>2 DEF Quiet
<1> QED BY <1>1, <1>4, <1>5, BooksType, SameWays

LEMMA AfterMonolithCrash ==
  ASSUME Books, [Next]_vars, MonolithCrash,
         NEW r \in Repo, NEW t \in Tag \ {0}, NEW x \in Tag, NEW h \in Tag,
         NEW c \in Tag \cup {Miss}, Way(r, x, h, c)'
  PROVE  Covers(r, t, x, h, c)
<1>1. /\ scan' = [j \in Job |-> Idle] /\ cache' = cache /\ lastSeen' = lastSeen /\ latest' = latest
      /\ announced' = announced /\ faults' = faults + 1
  BY DEF MonolithCrash, history, Fault
<1>2. x = lastSeen[r] /\ h = 0 /\ c = cache[r]
  BY <1>1 DEF Way, Idle
<1>3. TypeOK /\ OneScan /\ faults \in Nat
  BY BooksType
<1>4. Spent(r, t) \in Nat /\ Spent(r, t)' \in Nat
  BY BooksType
<1>5. Visits(t, x, h, c, latest[r]) \in Nat
  BY VisitsOf, BooksType
<1>6. CASE \E j \in Job : scan[j].pc = "saving" /\ scan[j].id = r
  <2>1. PICK j \in Job : scan[j].pc = "saving" /\ scan[j].id = r
    BY <1>6
  <2>2. Way(r, scan[j].tag, 0, cache[r]) /\ scan[j].tag \in Tag
    BY <1>3, <2>1, ScanShape DEF Way, TypeOK
  <2>3. Visits(t, x, h, c, latest[r]) <= Visits(t, scan[j].tag, 0, cache[r], latest[r]) + 1
    BY <1>2, <2>2, VisitsPutIn, BooksType
  <2>4. Visits(t, scan[j].tag, 0, cache[r], latest[r]) \in Nat
    BY <2>2, VisitsOf, BooksType
  <2>5. \A k \in Job : scan[k].pc # "waiting"
    BY <1>3, <2>1 DEF OneScan, Idle
  <2>6. Spent(r, t)' <= Spent(r, t)
    BY <1>1, <2>5, SpentAfter DEF Quiet
  <2> HIDE DEF Spent, Visits
  <2>7. Spent(r, t)' + Visits(t, x, h, c, latest'[r])
          <= Spent(r, t) + Visits(t, scan[j].tag, 0, cache[r], latest[r]) + (faults' - faults)
    BY <1>1, <1>3, <1>4, <1>5, <2>3, <2>4, <2>6
  <2> QED BY <2>2, <2>7, PaidBy
<1>7. CASE ~\E j \in Job : scan[j].pc = "saving" /\ scan[j].id = r
  <2>1. Way(r, x, h, c)
    BY <1>2, <1>7 DEF Way
  <2>2. Spent(r, t)' <= Spent(r, t) + 1
    BY <1>1, SpentAfter
  <2> HIDE DEF Spent, Visits
  <2>3. Spent(r, t)' + Visits(t, x, h, c, latest'[r])
          <= Spent(r, t) + Visits(t, x, h, c, latest[r]) + (faults' - faults)
    BY <1>1, <1>3, <1>4, <1>5, <2>2
  <2> QED BY <2>1, <2>3, PaidBy
<1> QED BY <1>6, <1>7

\* A job that waits is the only one, and its call is about its repository.
LEMMA Waiting ==
  ASSUME Books, NEW j \in Job, scan[j].pc = "waiting"
  PROVE  /\ scan[j].call \in Call /\ call[scan[j].call].repo = scan[j].repo.id
         /\ call[scan[j].call].pc # "answered" => call[scan[j].call].awaited
         /\ \A k \in Job : scan[k].pc \in {"waiting", "found", "notifying", "saving"} => k = j
         /\ \A r \in Repo : Way(r, lastSeen[r], 0, cache[r])
<1>1. TypeOK /\ OneScan /\ Matched
  BY DEF Books, ScanInvariant
<1>2. scan[j].call \in Call
  BY <1>1, ScanShape DEF TypeOK
<1>3. \A k \in Job : scan[k].pc \in {"waiting", "found", "notifying", "saving"} => k = j
  BY <1>1 DEF OneScan, Idle
<1> QED BY <1>1, <1>2, <1>3 DEF Matched, Way

\* What a step of a call does not touch.
LEMMA GatewayStepAside ==
  ASSUME Books, [Next]_vars, NEW d \in Call, GatewayStep(d), Aside
  PROVE  /\ scan' = scan /\ lastSeen' = lastSeen /\ latest' = latest /\ announced' = announced
         /\ faults \in Nat /\ faults' \in {faults, faults + 1} /\ ~MonolithCrash
         /\ \A e \in Call \ {d} : call'[e] = call[e]
<1>1. TypeOK /\ faults \in Nat
  BY DEF Books, TypeOK, GatewayTypeOK
<1>2. faults' \in {faults, faults + 1}
  BY DEF GatewayStep, ReadCache, Fetch, Store, Fault
<1>3. call'[d].pc # call[d].pc /\ InProgress(call[d])
  BY <1>1 DEF GatewayStep, ReadCache, Fetch, Store, Answer, Answered, Success, Failure, Free,
              TypeOK, GatewayTypeOK, InProgress
<1>4. ~MonolithCrash
  <2>1. ASSUME MonolithCrash PROVE call'[d].pc = call[d].pc
    <3>1. call'[d] = [call[d] EXCEPT !.awaited = FALSE]
      BY <1>3, <2>1 DEF MonolithCrash, Abandon, InProgress
    <3> QED BY <1>1, <1>3, <3>1 DEF TypeOK, GatewayTypeOK, Free, InProgress
  <2> QED BY <1>3, <2>1
<1>5. \A e \in Call \ {d} : call'[e] = call[e]
  BY <1>1, CallKeepsCaller
<1> QED BY <1>1, <1>2, <1>4, <1>5 DEF Aside, history

\* A way after the step that is not that of the call's own job was there before,
\* but for what the cache has.
LEMMA OtherWays ==
  ASSUME Books, [Next]_vars, NEW d \in Call, GatewayStep(d), Aside, NEW r \in Repo,
         NEW x, NEW h, NEW c, Way(r, x, h, c)'
  PROVE  \/ Way(r, x, h, cache[r]) /\ c = cache'[r]
         \/ Way(r, x, h, c) /\ c = Miss
         \/ \E j \in Job :
              /\ scan[j].pc = "waiting" /\ scan[j].call = d /\ scan[j].repo.id = r /\ x = lastSeen[r]
              /\ \/ /\ call'[d].pc = "answered" /\ call'[d].reply.error = "none"
                    /\ h = call'[d].reply.release /\ c = cache'[r]
                 \/ call'[d].pc = "storing" /\ h = call'[d].tag /\ c = Miss
<1>1. /\ scan' = scan /\ lastSeen' = lastSeen
      /\ \A e \in Call \ {d} : call'[e] = call[e]
  BY GatewayStepAside
<1>2. \A j \in Job : scan[j].pc = "waiting" => scan[j].call \in Call
  BY Waiting
<1> QED BY <1>1, <1>2 DEF Way

\* What a step of a call makes of the ways: the entry found is on its way, or what
\* GitHub has; the answer is stored, or not; or somebody else's answer is stored.
LEMMA CallWays ==
  ASSUME Books, [Next]_vars, NEW d \in Call, GatewayStep(d), Aside,
         NEW r \in Repo, NEW x, NEW h, NEW c, Way(r, x, h, c)'
  PROVE  \/ Way(r, x, h, c)
         \/ /\ Way(r, x, 0, cache[r]) /\ x \in Tag
            /\ h = cache[r] /\ c = cache[r] /\ cache[r] # Miss
         \/ /\ Way(r, x, 0, cache[r]) /\ x \in Tag /\ h = latest[r] /\ c = Miss
         \/ /\ Way(r, x, call[d].tag, Miss) /\ x \in Tag /\ call[d].tag \in Tag
            /\ h \in {0, call[d].tag}
            /\ c = call[d].tag \/ (c = cache[r] /\ faults' = faults + 1)
         \/ Way(r, x, h, cache[r]) /\ d \in Orphans(r) /\ d \notin Orphans(r)'
<1>1. /\ scan' = scan /\ lastSeen' = lastSeen
      /\ TypeOK /\ lastSeen[r] \in Tag
  BY GatewayStepAside DEF Books, TypeOK
<1>2. \A j \in Job : scan[j].pc = "waiting" /\ scan[j].call = d /\ scan[j].repo.id = r =>
        call[d].repo = r /\ Way(r, lastSeen[r], 0, cache[r])
  BY Waiting
<1>3. CASE ReadCache(d)
  <2>1. cache' = cache /\ call[d].pc = "reading"
    BY <1>3 DEF ReadCache
  <2>2. ASSUME NEW j \in Job, scan[j].pc = "waiting", scan[j].call = d, scan[j].repo.id = r, x = lastSeen[r],
               \/ /\ call'[d].pc = "answered" /\ call'[d].reply.error = "none"
                  /\ h = call'[d].reply.release /\ c = cache'[r]
               \/ call'[d].pc = "storing"
        PROVE  /\ Way(r, x, 0, cache[r]) /\ x \in Tag
               /\ h = cache[r] /\ c = cache[r] /\ cache[r] # Miss
    BY <1>1, <1>2, <1>3, <2>1, <2>2
    DEF ReadCache, Answer, Answered, Success, Free, TypeOK, GatewayTypeOK
  <2> QED BY <2>1, <2>2, OtherWays
<1>4. CASE Fetch(d)
  <2>1. cache' = cache /\ call[d].pc = "fetching"
    BY <1>4 DEF Fetch
  <2>2. ASSUME NEW j \in Job, scan[j].pc = "waiting", scan[j].call = d, scan[j].repo.id = r, x = lastSeen[r],
               \/ call'[d].pc = "answered" /\ call'[d].reply.error = "none"
               \/ call'[d].pc = "storing" /\ h = call'[d].tag /\ c = Miss
        PROVE  Way(r, x, 0, cache[r]) /\ x \in Tag /\ h = latest[r] /\ c = Miss
    BY <1>1, <1>2, <1>4, <2>1, <2>2
    DEF Fetch, Answer, Answered, Failure, Free, TypeOK, GatewayTypeOK
  <2> QED BY <2>1, <2>2, OtherWays
<1>5. CASE Store(d)
  <2>1. /\ call[d].pc = "storing" /\ call[d].tag \in Tag /\ call[d].repo \in Repo
        /\ call[d].awaited \in BOOLEAN
    BY <1>1, <1>5, CallShape DEF Store, InProgress
  <2>2. /\ call[d].awaited => call'[d] = Answered(call[d].repo, Success(call[d].tag))
        /\ ~call[d].awaited => call'[d] = Free
    BY <1>1, <1>5 DEF Store, Answer, TypeOK, GatewayTypeOK
  <2>3. \/ cache'[r] = cache[r]
        \/ call[d].repo = r /\ cache'[r] = call[d].tag
    BY <1>1, <1>5 DEF Store, TypeOK, GatewayTypeOK
  <2>4. CASE call[d].repo # r
    BY <2>1, <2>3, <2>4, OtherWays, Waiting
  <2>5. CASE call[d].repo = r /\ call[d].awaited
    <3>1. PICK j \in Job : scan[j].pc = "waiting" /\ scan[j].call = d
      BY <2>1, <2>5 DEF Books, Accounts, Owned
    <3>2. Way(r, lastSeen[r], call[d].tag, Miss)
      BY <2>1, <2>5, <3>1, Waiting DEF Way
    <3>3. x = lastSeen[r] /\ h \in {0, call[d].tag} /\ c = cache'[r]
      <4>1. call'[d].pc = "answered" /\ call'[d].reply.release = call[d].tag
        BY <2>2, <2>5 DEF Answered, Success
      <4>2. \A k \in Job : scan'[k].pc = "waiting" => call'[scan'[k].call].pc = "answered"
        BY <1>1, <3>1, <4>1, Waiting
      <4> QED BY <1>1, <3>1, <4>1, <4>2, Waiting DEF Way
    <3>4. cache'[r] = call[d].tag \/ (cache'[r] = cache[r] /\ faults' = faults + 1)
      BY <1>1, <1>5, <2>5 DEF Store, TypeOK, GatewayTypeOK, Fault
    <3> QED BY <1>1, <2>1, <3>2, <3>3, <3>4
  <2>6. CASE call[d].repo = r /\ ~call[d].awaited
    <3>1. \A j \in Job : scan[j].pc = "waiting" => scan[j].call # d
      BY <2>1, <2>6, Waiting
    <3>2. (Way(r, x, h, cache[r]) /\ c = cache'[r]) \/ Way(r, x, h, c)
      BY <3>1, OtherWays
    <3>3. d \in Orphans(r) /\ d \notin Orphans(r)'
      BY <2>1, <2>2, <2>6 DEF Orphans, Free
    <3> QED BY <3>2, <3>3
  <2> QED BY <2>4, <2>5, <2>6
<1> QED BY <1>3, <1>4, <1>5 DEF GatewayStep

LEMMA AfterGatewayStep ==
  ASSUME Books, [Next]_vars, NEW d \in Call, GatewayStep(d), Aside,
         NEW r \in Repo, NEW t \in Tag \ {0}, NEW x \in Tag, NEW h \in Tag,
         NEW c \in Tag \cup {Miss}, Way(r, x, h, c)'
  PROVE  Covers(r, t, x, h, c)
<1>1. /\ latest' = latest /\ announced' = announced
      /\ faults \in Nat /\ faults' \in {faults, faults + 1} /\ ~MonolithCrash
  BY GatewayStepAside
<1>2. Spent(r, t) \in Nat /\ Spent(r, t)' \in Nat /\ Spent(r, t)' <= Spent(r, t)
  BY <1>1, SpentAfter, BooksType DEF Quiet
<1>3. \A g \in Tag, e \in Tag \cup {Miss} : Visits(t, x, g, e, latest[r]) \in Nat
  BY VisitsOf, BooksType
<1>4. 0 \in Tag /\ cache[r] \in Tag \cup {Miss} /\ latest[r] \in Tag
  BY BooksType
<1>5. ASSUME NEW g \in Tag, NEW e \in Tag \cup {Miss}, Way(r, x, g, e),
             Visits(t, x, h, c, latest[r]) <= Visits(t, x, g, e, latest[r]) + (faults' - faults)
      PROVE  Covers(r, t, x, h, c)
  <2> HIDE DEF Spent, Visits
  <2>1. Spent(r, t)' + Visits(t, x, h, c, latest'[r])
          <= Spent(r, t) + Visits(t, x, g, e, latest[r]) + (faults' - faults)
    BY <1>1, <1>2, <1>3, <1>5
  <2> QED BY <1>5, <2>1, PaidBy
<1>6. CASE Way(r, x, h, c)
  BY <1>1, <1>6, SameWays DEF Quiet
<1>7. CASE Way(r, x, 0, cache[r]) /\ h = cache[r] /\ c = cache[r] /\ cache[r] # Miss
  <2>1. Visits(t, x, h, c, latest[r]) <= Visits(t, x, 0, cache[r], latest[r])
    BY <1>4, <1>7, VisitsOf
  <2> HIDE DEF Visits
  <2>2. Visits(t, x, h, c, latest[r]) <= Visits(t, x, 0, cache[r], latest[r]) + (faults' - faults)
    BY <1>1, <1>3, <1>4, <2>1
  <2> QED BY <1>4, <1>5, <1>7, <2>2
<1>8. CASE Way(r, x, 0, cache[r]) /\ h = latest[r] /\ c = Miss
  <2>1. Visits(t, x, h, c, latest[r]) <= Visits(t, x, 0, cache[r], latest[r])
    BY <1>4, <1>8, VisitsOf
  <2> HIDE DEF Visits
  <2>2. Visits(t, x, h, c, latest[r]) <= Visits(t, x, 0, cache[r], latest[r]) + (faults' - faults)
    BY <1>1, <1>3, <1>4, <2>1
  <2> QED BY <1>4, <1>5, <1>8, <2>2
<1>9. CASE /\ Way(r, x, call[d].tag, Miss) /\ call[d].tag \in Tag
           /\ h \in {0, call[d].tag}
           /\ c = call[d].tag \/ (c = cache[r] /\ faults' = faults + 1)
  <2> DEFINE g == call[d].tag
  <2>1. CASE c = g
    <3>1. Visits(t, x, h, c, latest[r]) <= Visits(t, x, g, Miss, latest[r])
      BY <1>4, <1>9, <2>1, VisitsOf
    <3> HIDE DEF Visits
    <3>2. Visits(t, x, h, c, latest[r]) <= Visits(t, x, g, Miss, latest[r]) + (faults' - faults)
      BY <1>1, <1>3, <1>9, <3>1
    <3> QED BY <1>5, <1>9, <3>2
  <2>2. CASE c = cache[r] /\ faults' = faults + 1
    <3>1. /\ Visits(t, x, 0, c, latest[r]) <= Visits(t, x, g, c, latest[r])
          /\ Visits(t, x, g, c, latest[r]) <= Visits(t, x, g, Miss, latest[r]) + 1
      BY <1>4, <1>9, VisitsOf, VisitsPutIn
    <3>2. /\ Visits(t, x, 0, c, latest[r]) \in Nat /\ Visits(t, x, g, c, latest[r]) \in Nat
          /\ Visits(t, x, g, Miss, latest[r]) \in Nat
      BY <1>3, <1>4, <1>9
    <3> HIDE DEF Visits
    <3>3. Visits(t, x, h, c, latest[r]) <= Visits(t, x, g, Miss, latest[r]) + (faults' - faults)
      BY <1>1, <1>9, <2>2, <3>1, <3>2
    <3> QED BY <1>5, <1>9, <3>3
  <2> QED BY <1>9, <2>1, <2>2
<1>10. CASE Way(r, x, h, cache[r]) /\ d \in Orphans(r) /\ d \notin Orphans(r)'
  <2>1. Spent(r, t)' + 1 <= Spent(r, t)
    BY <1>1, <1>10, SpentAfter
  <2>2. Visits(t, x, h, c, latest[r]) <= Visits(t, x, h, cache[r], latest[r]) + 1
    BY <1>4, VisitsPutIn
  <2> HIDE DEF Spent, Visits
  <2>3. Spent(r, t)' + Visits(t, x, h, c, latest'[r])
          <= Spent(r, t) + Visits(t, x, h, cache[r], latest[r]) + (faults' - faults)
    BY <1>1, <1>2, <1>3, <1>4, <2>1, <2>2
  <2> QED BY <1>10, <2>3, PaidBy
<1> QED BY <1>6, <1>7, <1>8, <1>9, <1>10, CallWays

LEMMA StartWays ==
  ASSUME Books, NEW j \in Job, StartScan(j), NEW r \in Repo, NEW x, NEW h, NEW c, Way(r, x, h, c)'
  PROVE  Way(r, x, h, c)
<1>1. /\ \A k \in Job : scan[k] = Idle /\ scan'[k].pc \in {"idle", "next"}
      /\ lastSeen' = lastSeen /\ cache' = cache
  BY DEF StartScan, Books, TypeOK, Idle, gatewayVars
<1> QED BY <1>1 DEF Way, Idle

\* What a wait for 'drain' ends with, or that it never ends, changes nothing else.
LEMMA WaitSame ==
  ASSUME TypeOK, NEW j \in Job, Drain(j) \/ ChannelDies(j)
  PROVE  /\ UNCHANGED <<latest, cache, call, lastSeen, scan, announced>>
         /\ faults' \in {faults, faults + 1}
         /\ ~MonolithCrash
<1> USE DEF gatewayVars, history
<1>1. CASE Drain(j)
  <2>1. faults \in Nat
    BY DEF TypeOK, GatewayTypeOK
  <2> QED BY <1>1, <2>1 DEF Drain, MonolithCrash, Fault
<1>2. CASE ChannelDies(j)
  <2>1. drain'[j] = "never"
    BY <1>2 DEF ChannelDies, TypeOK
  <2>2. ~MonolithCrash
    BY <2>1 DEF MonolithCrash
  <2> QED BY <1>2, <2>2 DEF ChannelDies, Fault
<1> QED BY <1>1, <1>2

\* The steps that are not those of a job, a call, the cache or a crash.
LEMMA ElseSame ==
  ASSUME [Next]_vars
  PROVE  \/ UNCHANGED <<latest, cache, call, faults, lastSeen, scan, announced>>
         \/ \E q \in Repo : NewRelease(q) /\ UNCHANGED <<lastSeen, people, scan, drain, history>>
         \/ \E j \in Job : StartScan(j) \/ (ScanStep(j) /\ ~Publish(j) /\ ~Drain(j)) \/ Publish(j)
         \/ \E j \in Job : Drain(j) \/ ChannelDies(j)
         \/ \E d \in Call : GatewayStep(d) /\ Aside
         \/ \E q \in Repo : Expire(q) /\ Aside
         \/ GatewayCrash /\ Aside
         \/ MonolithCrash
<1>1. CASE UNCHANGED vars
  BY <1>1 DEF vars
<1>2. ASSUME NEW s \in Sub, Confirm(s) \/ Unsubscribe(s)
      PROVE  UNCHANGED <<latest, cache, call, faults, lastSeen, scan, announced>>
  BY <1>2 DEF Confirm, Unsubscribe, gatewayVars, history
<1>3. (\E d \in Call : GatewayStep(d) /\ UNCHANGED <<lastSeen, people, scan, drain, history>>) =>
        \E d \in Call : GatewayStep(d) /\ Aside
  BY DEF GatewayStep, ReadCache, Fetch, Store, Aside
<1>4. (\E q \in Repo : Expire(q) /\ UNCHANGED <<lastSeen, people, scan, drain, history>>) =>
        \E q \in Repo : Expire(q) /\ Aside
  BY DEF Expire, Aside
<1>5. GatewayCrash /\ UNCHANGED <<lastSeen, people, scan, drain, history>> => GatewayCrash /\ Aside
  BY DEF GatewayCrash, Aside
<1> QED BY <1>1, <1>2, <1>3, <1>4, <1>5 DEF Next, Environment

LEMMA AccountKept ==
  ASSUME Books, [Next]_vars
  PROVE  Account'
<1>1. SUFFICES ASSUME NEW r \in Repo, NEW t \in Tag \ {0}, NEW x \in Tag, NEW h \in Tag,
                      NEW c \in Tag \cup {Miss}, Way(r, x, h, c)'
               PROVE  Covers(r, t, x, h, c)
  BY DEF Account, Covers
<1>2. faults \in Nat
  BY BooksType
<1>3. CASE UNCHANGED <<latest, cache, call, faults, lastSeen, scan, announced>>
  <2>1. Way(r, x, h, c)
    BY <1>1, <1>3 DEF Way
  <2>2. Quiet
    BY <1>2, <1>3 DEF Quiet, MonolithCrash, Fault
  <2> QED BY <1>2, <1>3, <2>1, <2>2, SameWays
<1>4. ASSUME NEW q \in Repo, NewRelease(q), UNCHANGED <<lastSeen, people, scan, drain, history>>
      PROVE  Covers(r, t, x, h, c)
  BY <1>1, <1>4, AfterNewRelease
<1>5. ASSUME NEW j \in Job, StartScan(j) PROVE Covers(r, t, x, h, c)
  <2>1. Way(r, x, h, c)
    BY <1>1, <1>5, StartWays
  <2>2. announced' = announced /\ latest' = latest /\ faults' = faults
    BY <1>5 DEF StartScan, gatewayVars, history
  <2>3. Quiet
    BY <1>2, <2>2 DEF Quiet, MonolithCrash, Fault
  <2> QED BY <1>2, <2>1, <2>2, <2>3, SameWays
<1>6. ASSUME NEW j \in Job, ScanStep(j), ~Publish(j), ~Drain(j) PROVE Covers(r, t, x, h, c)
  BY <1>1, <1>6, AfterScanStep
<1>7. ASSUME NEW j \in Job, Publish(j) PROVE Covers(r, t, x, h, c)
  BY <1>1, <1>7, AfterPublish
<1>8. ASSUME NEW d \in Call, GatewayStep(d), Aside PROVE Covers(r, t, x, h, c)
  BY <1>1, <1>8, AfterGatewayStep
<1>9. ASSUME NEW q \in Repo, Expire(q), Aside PROVE Covers(r, t, x, h, c)
  BY <1>1, <1>9, AfterExpire
<1>10. CASE GatewayCrash /\ Aside
  BY <1>1, <1>10, AfterGatewayCrash
<1>11. CASE MonolithCrash
  BY <1>1, <1>11, AfterMonolithCrash
<1>12. ASSUME NEW j \in Job, Drain(j) \/ ChannelDies(j) PROVE Covers(r, t, x, h, c)
  <2>1. /\ UNCHANGED <<latest, cache, call, lastSeen, scan, announced>>
        /\ faults' \in {faults, faults + 1} /\ ~MonolithCrash
    BY <1>12, WaitSame DEF Books
  <2>2. Way(r, x, h, c)
    BY <1>1, <2>1 DEF Way
  <2>3. Quiet /\ faults' >= faults
    BY <1>2, <2>1 DEF Quiet
  <2> QED BY <2>1, <2>2, <2>3, SameWays
<1> QED BY <1>3, <1>4, <1>5, <1>6, <1>7, <1>8, <1>9, <1>10, <1>11, <1>12, ElseSame

LEMMA NothingIsNotAnnounced ==
  ASSUME TypeOK, Addressed, NoneForNothing, [Next]_vars
  PROVE  NoneForNothing'
<1>1. SUFFICES ASSUME NEW r \in Repo PROVE announced'[<<r, 0>>] = 0
  BY DEF NoneForNothing
<1>2. announced[<<r, 0>>] = 0 /\ 0 \in Tag
  BY GatewayAssumption DEF NoneForNothing, Tag
<1>3. ASSUME NEW j \in Job, Publish(j) PROVE announced'[<<r, 0>>] = 0
  <2>1. scan[j].tag # 0
    BY <1>3 DEF Publish, Addressed
  <2> QED BY <1>2, <1>3, <2>1 DEF Publish, TypeOK
<1>4. announced' = announced \/ \E j \in Job : Publish(j)
  BY DEF Next, Environment, Confirm, Unsubscribe, StartScan, ScanStep, GetLatestRelease, Receive,
         Skip, FindSubscribers, Drain, ChannelDies, UpdateLastSeenTag, MonolithCrash, history, vars
<1> QED BY <1>2, <1>3, <1>4

-----------------------------------------------------------------------------
(* Without failures *)

Forwards(x, h, c) == x <= Then(x, h) /\ Then(x, h) <= Then(Then(x, h), c)

\* A way that leads forward still does when it gets shorter, takes what the cache
\* has, or goes by what GitHub has.
LEMMA ForwardsOf ==
  ASSUME NEW x \in Tag, NEW h \in Tag, NEW c \in Tag \cup {Miss}, NEW l \in Tag,
         x <= l, h <= l, c <= l, Forwards(x, h, c)
  PROVE  /\ Forwards(x, h, Miss)
         /\ h = 0 /\ c # Miss => Forwards(x, c, c)
         /\ h = 0 => Forwards(x, l, Miss)
         /\ c = Miss => Forwards(x, h, h) /\ Forwards(x, 0, h)
         /\ h # 0 => Forwards(h, 0, c) /\ h >= x
BY DEF Forwards, Then, Tag, Miss

LEMMA CalmWays ==
  ASSUME Books, [Next]_vars, faults = 0, faults' = 0,
         NEW r \in Repo, NEW x \in Tag, NEW h \in Tag, NEW c \in Tag \cup {Miss}, Way(r, x, h, c)'
  PROVE  Forwards(x, h, c)
<1>1. ASSUME NEW y, NEW g, NEW e, Way(r, y, g, e)
      PROVE  /\ y \in Tag /\ g \in Tag /\ e \in Tag \cup {Miss}
             /\ y <= latest[r] /\ g <= latest[r] /\ e <= latest[r]
             /\ Forwards(y, g, e)
  BY <1>1, WayType DEF Books, ScanInvariant, Accounts, Calm, Forwards
<1>2. latest[r] \in Tag
  BY DEF Books, TypeOK, GatewayTypeOK
<1>3. CASE UNCHANGED <<latest, cache, call, faults, lastSeen, scan, announced>>
  BY <1>1, <1>3 DEF Way
<1>4. ASSUME NEW q \in Repo, NewRelease(q), UNCHANGED <<lastSeen, people, scan, drain, history>>
      PROVE  Forwards(x, h, c)
  <2>1. scan' = scan /\ call' = call /\ cache' = cache /\ lastSeen' = lastSeen
    BY <1>4 DEF NewRelease
  <2> QED BY <1>1, <2>1 DEF Way
<1>5. ASSUME NEW j \in Job, StartScan(j) PROVE Forwards(x, h, c)
  BY <1>1, <1>5, StartWays
<1>6. ASSUME NEW j \in Job, ScanStep(j), ~Publish(j), ~Drain(j) PROVE Forwards(x, h, c)
  <2>1. ~Skip(j)
    BY DEF Skip, Fault
  <2> QED BY <1>1, <1>6, <2>1, ScanWays
<1>7. ASSUME NEW j \in Job, Publish(j) PROVE Forwards(x, h, c)
  <2>1. Way(r, x, h, c) \/ \E y : Way(r, y, x, c) /\ h = 0 /\ x # 0
    BY <1>7, PublishWays
  <2> QED BY <1>1, <1>2, <2>1, ForwardsOf
<1>8. ASSUME NEW d \in Call, GatewayStep(d), Aside PROVE Forwards(x, h, c)
  <2>1. \/ Way(r, x, h, c)
        \/ /\ Way(r, x, 0, cache[r]) /\ h = cache[r] /\ c = cache[r] /\ cache[r] # Miss
        \/ /\ Way(r, x, 0, cache[r]) /\ h = latest[r] /\ c = Miss
        \/ /\ Way(r, x, call[d].tag, Miss) /\ h \in {0, call[d].tag} /\ c = call[d].tag
        \/ Orphans(r) # {}
    BY <1>8, CallWays
  <2>2. Orphans(r) = {}
    BY DEF Books, Accounts, Calm
  <2> QED BY <1>1, <1>2, <2>1, <2>2, ForwardsOf
<1>9. ASSUME NEW q \in Repo, Expire(q), Aside PROVE Forwards(x, h, c)
  <2>1. PICK e : Way(r, x, h, e) /\ c \in {e, Miss}
    BY <1>9, ExpireWays
  <2> QED BY <1>1, <1>2, <2>1, ForwardsOf
<1>10. ~GatewayCrash /\ ~MonolithCrash
  BY DEF GatewayCrash, MonolithCrash, Fault
<1>11. ASSUME NEW j \in Job, Drain(j) \/ ChannelDies(j) PROVE Forwards(x, h, c)
  <2>1. UNCHANGED <<latest, cache, call, lastSeen, scan, announced>>
    BY <1>11, WaitSame DEF Books
  <2> QED BY <1>1, <2>1 DEF Way
<1> QED BY <1>3, <1>4, <1>5, <1>6, <1>7, <1>8, <1>9, <1>10, <1>11, ElseSame

LEMMA CalmKept ==
  ASSUME Books, [Next]_vars
  PROVE  Calm'
<1>1. SUFFICES ASSUME faults' = 0 PROVE Calm'
  BY DEF Calm
<1>2. TypeOK /\ OneScan /\ Owned /\ Addressed /\ TypeOK' /\ Released' /\ Matched'
  BY TypeStep, ReleasedKept, MatchedKept DEF Books, ScanInvariant, Accounts
<1>3. faults = 0 /\ ~MonolithCrash
  <2>1. faults \in Nat /\ faults' \in {faults, faults + 1}
    BY <1>2 DEF Next, Environment, Confirm, Unsubscribe, NewRelease, StartScan, ScanStep, GetLatestRelease,
                Receive, Skip, FindSubscribers, Publish, Drain, ChannelDies, UpdateLastSeenTag, GatewayStep, ReadCache, Fetch,
                Store, Expire, GatewayCrash, MonolithCrash, Fault, vars, gatewayVars, TypeOK, GatewayTypeOK
  <2>2. faults = 0
    BY <1>1, <2>1
  <2> QED BY <1>1, <2>2 DEF MonolithCrash, Fault
<1>4. ASSUME NEW r \in Repo PROVE Orphans(r)' = {}
  <2>1. Orphans(r) = {}
    BY <1>3 DEF Books, Accounts, Calm
  <2> QED BY <1>2, <1>3, <2>1, OrphansLeft
<1>5. ASSUME NEW r \in Repo, NEW x \in Tag, NEW h \in Tag, NEW c \in Tag \cup {Miss}, Way(r, x, h, c)'
      PROVE  x <= Then(x, h) /\ Then(x, h) <= Then(Then(x, h), c)
  BY <1>1, <1>3, <1>5, CalmWays DEF Forwards
<1>6. ASSUME NEW j \in Job, scan'[j].pc = "saving" PROVE scan'[j].tag >= lastSeen'[scan'[j].id]
  <2>1. CASE Publish(j)
    <3>1. /\ scan[j].pc = "notifying" /\ lastSeen' = lastSeen
          /\ scan'[j].tag = scan[j].tag /\ scan'[j].id = scan[j].id
      BY <1>2, <2>1 DEF Publish, TypeOK
    <3>2. scan[j].id \in Repo /\ scan[j].tag \in Tag /\ scan[j].tag # 0
      BY <1>2, <3>1, ScanShape DEF TypeOK, Addressed
    <3>3. Way(scan[j].id, lastSeen[scan[j].id], scan[j].tag, cache[scan[j].id])
      BY <3>1 DEF Way
    <3>4. lastSeen[scan[j].id] \in Tag /\ cache[scan[j].id] \in Tag \cup {Miss}
      BY <1>2, <3>2 DEF TypeOK, GatewayTypeOK
    <3>5. lastSeen[scan[j].id] <= Then(lastSeen[scan[j].id], scan[j].tag)
      BY <1>3, <3>2, <3>3, <3>4 DEF Books, Accounts, Calm
    <3> QED BY <3>1, <3>2, <3>4, <3>5 DEF Then, Miss, Tag
  <2>2. CASE ~Publish(j)
    <3>1. scan'[j] = scan[j]
      BY <1>2, <1>3, <1>6, <2>2, ScanMoves, ScanStages DEF ScanStep
    <3>2. lastSeen' = lastSeen
      <4>1. ASSUME NEW k \in Job, UpdateLastSeenTag(k) PROVE FALSE
        <5>1. scan[k].pc = "saving" /\ k = j
          BY <1>2, <1>6, <3>1, <4>1 DEF UpdateLastSeenTag, OneScan, Idle
        <5>2. scan'[k].pc # "saving"
          BY <1>2, <4>1, ScanStages
        <5> QED BY <1>6, <5>1, <5>2
      <4> QED BY <4>1 DEF Next, Environment, Confirm, Unsubscribe, StartScan, ScanStep, GetLatestRelease,
                Receive, Skip, FindSubscribers, Publish, Drain, ChannelDies, MonolithCrash, vars
    <3> QED BY <1>3, <1>6, <3>1, <3>2 DEF Books, Accounts, Calm
  <2> QED BY <2>1, <2>2
<1> QED BY <1>4, <1>5, <1>6 DEF Calm

-----------------------------------------------------------------------------
(* The theorems *)

LEMMA BooksKept ==
  ASSUME Books, [Next]_vars
  PROVE  Accounts'
<1>1. TypeOK /\ OneScan /\ Addressed /\ Owned /\ FewOrphans /\ NoneForNothing /\ Snapshots
  BY DEF Books, ScanInvariant, Accounts
<1> QED BY <1>1, AccountKept, NothingIsNotAnnounced, FewOrphansKept, OwnedKept, SnapshotsKept, CalmKept
        DEF Accounts

LEMMA BooksInit == Init => Accounts
<1> SUFFICES ASSUME Init PROVE Accounts
  OBVIOUS
<1>1. /\ \A r \in Repo : lastSeen[r] = 0 /\ cache[r] = Miss /\ latest[r] = 0
      /\ \A j \in Job : scan[j] = Idle
      /\ \A c \in Call : call[c].pc = "free"
      /\ \A r \in Repo, t \in Tag : announced[<<r, t>>] = 0
      /\ faults = 0
  BY DEF Init, GatewayInit, Free
<1>2. \A r \in Repo : Orphans(r) = {}
  BY <1>1 DEF Orphans
<1>3. \A r \in Repo : IsFiniteSet(Orphans(r)) /\ Cardinality(Orphans(r)) = 0
  BY <1>2, FS_EmptySet
<1>4. ASSUME NEW r \in Repo, NEW x, NEW h, NEW c, Way(r, x, h, c)
      PROVE  x = 0 /\ h = 0 /\ c = Miss
  BY <1>1, <1>4 DEF Way, Idle
<1>5. ASSUME NEW t \in Tag \ {0} PROVE Visits(t, 0, 0, Miss, 0) = 1
  BY DEF Visits, Enters, Then, Tag, Miss
<1>6. Account
  <2>1. ASSUME NEW r \in Repo, NEW t \in Tag \ {0}, NEW x \in Tag, NEW h \in Tag, NEW c \in Tag \cup {Miss},
               Way(r, x, h, c)
        PROVE  Spent(r, t) + Visits(t, x, h, c, latest[r]) <= 1 + faults
    <3>1. x = 0 /\ h = 0 /\ c = Miss /\ latest[r] = 0 /\ faults = 0
      BY <1>1, <1>4, <2>1
    <3>2. Spent(r, t) = 0
      BY <1>1, <1>3 DEF Spent
    <3> HIDE DEF Spent, Visits
    <3> QED BY <1>5, <3>1, <3>2
  <2> QED BY <2>1 DEF Account
<1>7. NoneForNothing
  BY <1>1, GatewayAssumption DEF NoneForNothing, Tag
<1>8. FewOrphans /\ Owned /\ Snapshots
  BY <1>1, <1>3 DEF FewOrphans, Owned, Snapshots, Idle
<1>9. Calm
  BY <1>1, <1>2, <1>4 DEF Calm, Then, Miss, Idle
<1> QED BY <1>6, <1>7, <1>8, <1>9 DEF Accounts

\* In every run of the scanner, its gateway and their crashes the announcements so
\* far and those a way on may still cost are within what the failures so far allow.
THEOREM AccountsCorrect == Spec => []Accounts
<1>1. Init => Accounts
  BY BooksInit
<1>2. TypeOK /\ ScanInvariant /\ Accounts /\ [Next]_vars => Accounts'
  BY BooksKept DEF Books
<1> QED BY <1>1, <1>2, TypeCorrect, ScanInvariantCorrect, PTL DEF Spec

\* A release is announced once, and once more at the most for each failure, however
\* many repositories, releases and crashes there are: whatever a scan may still
\* see of a repository (its way on) is paid for in advance.
THEOREM AnnouncedOnceCorrect == Spec => []AnnouncedOnce
<1>1. TypeOK /\ ScanInvariant /\ Accounts => AnnouncedOnce
  <2>1. SUFFICES ASSUME TypeOK, ScanInvariant, Accounts, NEW r \in Repo, NEW t \in Tag
                 PROVE  announced[<<r, t>>] <= 1 + faults
    BY DEF AnnouncedOnce
  <2>2. faults \in Nat
    BY <2>1 DEF TypeOK, GatewayTypeOK
  <2>3. CASE t = 0
    BY <2>1, <2>2, <2>3 DEF Accounts, NoneForNothing
  <2>4. CASE t # 0
    <3>1. PICK x, h, c : Way(r, x, h, c)
      <4>1. CASE \A j \in Job : scan[j].pc = "saving" => scan[j].id # r
        BY <4>1 DEF Way
      <4>2. ASSUME NEW j \in Job, scan[j].pc = "saving", scan[j].id = r PROVE \E x, h, c : Way(r, x, h, c)
        <5>1. Way(r, scan[j].tag, 0, cache[r])
          BY <4>2 DEF Way
        <5> QED BY <5>1
      <4> QED BY <4>1, <4>2
    <3>2. /\ x \in Tag /\ h \in Tag /\ c \in Tag \cup {Miss} /\ latest[r] \in Tag
      BY <2>1, <3>1, WayType DEF ScanInvariant, TypeOK, GatewayTypeOK
    <3>3. Spent(r, t) + Visits(t, x, h, c, latest[r]) <= 1 + faults
      BY <2>1, <2>4, <3>1, <3>2 DEF Accounts, Account
    <3>4. Visits(t, x, h, c, latest[r]) \in Nat
      BY <2>4, <3>2, VisitsOf
    <3>5. Cardinality(Orphans(r)) \in Nat /\ announced[<<r, t>>] \in Nat
      BY <2>1, SpentType DEF Accounts
    <3> HIDE DEF Visits
    <3> QED BY <2>2, <3>3, <3>4, <3>5 DEF Spent
  <2> QED BY <2>3, <2>4
<1> QED BY <1>1, TypeCorrect, ScanInvariantCorrect, AccountsCorrect, PTL

\* While nothing fails no scan records an older release than the table has, though
\* entries of the cache expire, are stored and are found in between.
THEOREM TagsCorrect == Spec => TagsMoveForward
<1>1. TypeOK /\ ScanInvariant /\ Accounts /\ [Next]_vars =>
        (faults = 0 => \A r \in Repo : lastSeen'[r] >= lastSeen[r])
  <2>1. SUFFICES ASSUME TypeOK, Accounts, [Next]_vars, faults = 0, NEW r \in Repo
                 PROVE  lastSeen'[r] >= lastSeen[r]
    OBVIOUS
  <2>2. lastSeen[r] \in Nat
    BY <2>1 DEF TypeOK, Tag
  <2>3. ASSUME NEW j \in Job, UpdateLastSeenTag(j) PROVE lastSeen'[r] >= lastSeen[r]
    <3>1. scan[j].tag >= lastSeen[scan[j].id]
      BY <2>1, <2>3 DEF UpdateLastSeenTag, Accounts, Calm
    <3> QED BY <2>1, <2>2, <2>3, <3>1 DEF UpdateLastSeenTag, TypeOK
  <2>4. lastSeen' = lastSeen \/ \E j \in Job : UpdateLastSeenTag(j)
    BY <2>1 DEF Next, Environment, Confirm, Unsubscribe, StartScan, ScanStep, GetLatestRelease,
                Receive, Skip, FindSubscribers, Publish, Drain, ChannelDies, MonolithCrash, vars
  <2> QED BY <2>2, <2>3, <2>4
<1>2. TypeOK /\ ScanInvariant /\ Accounts /\ [Next]_vars =>
        [faults = 0 => \A r \in Repo : lastSeen'[r] >= lastSeen[r]]_vars
  BY <1>1
<1> QED BY <1>2, TypeCorrect, ScanInvariantCorrect, AccountsCorrect, PTL DEF Spec, TagsMoveForward
=============================================================================
