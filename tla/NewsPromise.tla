---------------------------- MODULE NewsPromise -----------------------------
(* What a subscriber is promised end to end, whatever happens between       *)
(* GitHub and his mailbox: a release is recorded as seen only once a letter *)
(* to everybody it concerns is due, or it was lost with its one message; a  *)
(* letter ceases to be due only when it was mailed or has failed for all to *)
(* see; and nobody is mailed what is not due to him.                        *)
EXTENDS Integers

CONSTANTS Repo, Sub, RepoOf

VARIABLES
  latest,     \* the newest release of a repository, 0 while it has none
  recorded,   \* the release recorded as seen
  confirmed,  \* who takes part
  gone,       \* who took part
  since,      \* the newest release when a subscriber joined
  lost,       \* releases whose message was lost
  due,        \* letters to be sent: a subscriber and a release
  mailed,     \* letters sent
  failed      \* letters given up

promiseVars == <<latest, recorded, confirmed, gone, since, lost, due, mailed, failed>>

Init ==
  /\ latest = [r \in Repo |-> 0]
  /\ recorded = [r \in Repo |-> 0]
  /\ confirmed = {} /\ gone = {}
  /\ since = [s \in Sub |-> 0]
  /\ lost = {} /\ due = {} /\ mailed = {} /\ failed = {}

\* The subscribers a release concerns: those who joined before it.
Audience(r, t) == {s \in confirmed : RepoOf[s] = r /\ since[s] < t}

Appear(r) ==
  /\ latest' = [latest EXCEPT ![r] = @ + 1]
  /\ UNCHANGED <<recorded, confirmed, gone, since, lost, due, mailed, failed>>

Join(s) ==
  /\ s \notin confirmed \cup gone
  /\ confirmed' = confirmed \cup {s}
  /\ since' = [since EXCEPT ![s] = latest[RepoOf[s]]]
  /\ UNCHANGED <<latest, recorded, gone, lost, due, mailed, failed>>

Leave(s) ==
  /\ s \in confirmed
  /\ confirmed' = confirmed \ {s}
  /\ gone' = gone \cup {s}
  /\ UNCHANGED <<latest, recorded, since, lost, due, mailed, failed>>

\* Again, perhaps, and to some who have just left or come as well.
Announce(r, t) ==
  /\ \E people \in SUBSET {s \in confirmed \cup gone : RepoOf[s] = r} :
       Audience(r, t) \subseteq people /\ due' = due \cup (people \X {t})
  /\ UNCHANGED <<latest, recorded, confirmed, gone, since, lost, mailed, failed>>

Lose(r, t) ==
  /\ lost' = lost \cup {<<r, t>>}
  /\ UNCHANGED <<latest, recorded, confirmed, gone, since, due, mailed, failed>>

Record(r, t) ==
  /\ <<r, t>> \in lost \/ Audience(r, t) \X {t} \subseteq due \cup mailed \cup failed
  /\ recorded' = [recorded EXCEPT ![r] = t]
  /\ UNCHANGED <<latest, confirmed, gone, since, lost, due, mailed, failed>>

Mail(letter) ==
  /\ mailed' = mailed \cup {letter}
  /\ UNCHANGED <<latest, recorded, confirmed, gone, since, lost, due, failed>>

\* Letters are given up, and letters that were mailed or given up are done with.
Close(hopeless, done) ==
  /\ done \subseteq mailed \cup failed \cup hopeless
  /\ failed' = failed \cup hopeless
  /\ due' = due \ done
  /\ UNCHANGED <<latest, recorded, confirmed, gone, since, lost, mailed>>

Next ==
  \/ \E r \in Repo :
       \/ Appear(r)
       \/ \E t \in 1 .. latest[r] : Announce(r, t) \/ Lose(r, t) \/ Record(r, t)
  \/ \E s \in Sub : Join(s) \/ Leave(s)
  \/ \E letter \in due : Mail(letter)
  \/ \E hopeless, done \in SUBSET due : Close(hopeless, done)

Spec == Init /\ [][Next]_promiseVars
=============================================================================
