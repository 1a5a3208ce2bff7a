--------------------------- MODULE ReleasePromise ---------------------------
(* What the scan promises its subscribers, whatever it takes: a release is  *)
(* recorded as seen only once everybody it concerns has been told, or the   *)
(* one message about it was lost on its way out; and nobody is ever told of *)
(* a release that does not exist or of a repository not subscribed to.      *)
EXTENDS Integers

CONSTANTS Repo, Sub, RepoOf

VARIABLES
  latest,     \* the newest release of a repository, 0 while it has none
  recorded,   \* the release recorded as seen
  confirmed,  \* who takes part
  gone,       \* who took part
  since,      \* the newest release when a subscriber joined
  told,       \* the releases a subscriber was told of
  lost        \* releases whose message was lost

promiseVars == <<latest, recorded, confirmed, gone, since, told, lost>>

Init ==
  /\ latest = [r \in Repo |-> 0]
  /\ recorded = [r \in Repo |-> 0]
  /\ confirmed = {} /\ gone = {}
  /\ since = [s \in Sub |-> 0]
  /\ told = [s \in Sub |-> {}]
  /\ lost = {}

\* The subscribers a release concerns: those who joined before it.
Audience(r, t) == {s \in confirmed : RepoOf[s] = r /\ since[s] < t}

Appear(r) ==
  /\ latest' = [latest EXCEPT ![r] = @ + 1]
  /\ UNCHANGED <<recorded, confirmed, gone, since, told, lost>>

Join(s) ==
  /\ s \notin confirmed \cup gone
  /\ confirmed' = confirmed \cup {s}
  /\ since' = [since EXCEPT ![s] = latest[RepoOf[s]]]
  /\ UNCHANGED <<latest, recorded, gone, told, lost>>

Leave(s) ==
  /\ s \in confirmed
  /\ confirmed' = confirmed \ {s}
  /\ gone' = gone \cup {s}
  /\ UNCHANGED <<latest, recorded, since, told, lost>>

\* Who has just left or come may be told as well.
Announce(r, t) ==
  /\ t \in 1 .. latest[r]
  /\ \E people \in SUBSET {s \in confirmed \cup gone : RepoOf[s] = r} :
       /\ Audience(r, t) \subseteq people
       /\ told' = [s \in Sub |-> IF s \in people THEN told[s] \cup {t} ELSE told[s]]
  /\ UNCHANGED <<latest, recorded, confirmed, gone, since, lost>>

Lose(r, t) ==
  /\ t \in 1 .. latest[r]
  /\ lost' = lost \cup {<<r, t>>}
  /\ UNCHANGED <<latest, recorded, confirmed, gone, since, told>>

Record(r, t) ==
  /\ t \in 1 .. latest[r]
  /\ <<r, t>> \in lost \/ \A s \in Audience(r, t) : t \in told[s]
  /\ recorded' = [recorded EXCEPT ![r] = t]
  /\ UNCHANGED <<latest, confirmed, gone, since, told, lost>>

Next ==
  \/ \E r \in Repo : Appear(r) \/ \E t \in 1 .. latest[r] : Announce(r, t) \/ Lose(r, t) \/ Record(r, t)
  \/ \E s \in Sub : Join(s) \/ Leave(s)

Spec == Init /\ [][Next]_promiseVars
=============================================================================
