-------------------------- MODULE BrokerConnection --------------------------
(* RabbitMqConnection under its most demanding user: the polls of the outbox *)
(* relay, which overlap and all publish through SagaBroker.publishCommand.   *)
(* A connection <<k, n>> is the n-th that poll k dialled; it has one channel.*)
(* The start of the reply consumer is one more caller of SagaBroker.ready.   *)
EXTENDS Integers, FiniteSets

CONSTANTS
  Poll,       \* polls of the relay that can be under way at a time
  MaxRows,    \* bound on outbox rows, numbered by age,
  MaxFaults,  \* and on lost connections, failing dials and failing updates
  None

ASSUME ConnectionAssumption ==
  MaxRows \in Nat /\ MaxFaults \in Nat /\ None \notin Poll \X (Nat \ {0})

VARIABLES
  up, cut,         \* open connections; dead ones whose close event is to come
  shut,            \* those on which close() has been called
  model, channel,  \* fields of RabbitMqConnection
  asserted,        \* field of SagaBroker
  poll,            \* each poll, at one of its awaits
  dials,           \* connections dialled by a poll (history)
  written, pending, \* outbox rows so far, and those that are PENDING
  closer,          \* close()
  faults

fields == <<model, channel, asserted>>
rows == <<written, pending>>
vars == <<up, cut, shut, model, channel, asserted, poll, dials, written, pending, closer, faults>>

Connection == Poll \X (Nat \ {0})
Row == 1 .. MaxRows
Idle == [pc |-> "idle"]
Batch == (SUBSET Row) \ {{}}
PollState ==
  {Idle} \cup [pc : {"next", "marking"}, left : Batch]
         \cup [pc : {"dialing", "creating", "asserting", "draining"}, left : Batch, conn : Connection]
Open == [stage |-> "open"]
Closed == [stage |-> "closed"]

TypeOK ==
  /\ up \subseteq Connection /\ cut \subseteq Connection /\ shut \subseteq Connection
  /\ IsFiniteSet(cut)
  /\ model \in Connection \cup {None} /\ channel \in Connection \cup {None}
  /\ asserted \in BOOLEAN
  /\ poll \in [Poll -> PollState]
  /\ dials \in [Poll -> Nat]
  /\ written \in 0 .. MaxRows /\ pending \subseteq Row
  /\ closer \in {Open, Closed} \cup [stage : {"channel", "model"}, conn : Connection]
  /\ faults \in Nat

Init ==
  /\ up = {} /\ cut = {} /\ shut = {}
  /\ model = None /\ channel = None
  /\ asserted = FALSE
  /\ poll = [k \in Poll |-> Idle]
  /\ dials = [k \in Poll |-> 0]
  /\ written = 0 /\ pending = {}
  /\ closer = Open
  /\ faults = 0

Fault == faults < MaxFaults /\ faults' = faults + 1

Oldest(batch) == CHOOSE r \in batch : \A q \in batch : r <= q
\* Faulty variant: nobody looks whether a row is left.
AfterGoesOn(batch) == [pc |-> "next", left |-> batch \ {Oldest(batch)}]

\* The poll goes on with its next row, or is over.
After(batch) ==
  LET rest == batch \ {Oldest(batch)} IN IF rest = {} THEN Idle ELSE [pc |-> "next", left |-> rest]

Moves(k, state) == poll' = [poll EXCEPT ![k] = state]

\* Nobody settles the promise of a poll that waits for 'drain' on a lost channel.
Hung(k) == poll[k].pc = "draining" /\ poll[k].conn \notin up \cup cut

-----------------------------------------------------------------------------
(* The relay *)

Write ==
  /\ written < MaxRows
  /\ written' = written + 1
  /\ pending' = pending \cup {written'}
  /\ UNCHANGED <<up, cut, shut, fields, poll, dials, closer, faults>>

\* Faulty variant: a poll waits for the one before it.
StartPollAlone(k) ==
  /\ closer = Open
  /\ \A p \in Poll : poll[p] = Idle
  /\ pending # {}
  /\ Moves(k, [pc |-> "next", left |-> pending])
  /\ UNCHANGED <<up, cut, shut, fields, dials, rows, closer, faults>>

\* The timer waits for no poll, and a poll that hangs is replaced by the next.
StartPoll(k) ==
  /\ closer = Open
  /\ poll[k] = Idle \/ Hung(k)
  /\ pending # {}
  /\ Moves(k, [pc |-> "next", left |-> pending])
  /\ UNCHANGED <<up, cut, shut, fields, dials, rows, closer, faults>>

\* publish throws on a channel that is closing or closed; otherwise it buffers
\* the message, and says so when its buffer is full. A failure costs the row an
\* attempt and leaves it PENDING.
Publish(k, c) ==
  LET batch == poll[k].left IN
  \/ c \in (up \cup cut) \ shut /\ Moves(k, [pc |-> "marking", left |-> batch])
  \/ c \in (up \cup cut) \ shut /\ Moves(k, [pc |-> "draining", left |-> batch, conn |-> c])
  \/ c \notin (up \cup cut) \ shut /\ Moves(k, After(batch))

\* The rest of publishCommand once there is a channel.
Ready(k, c) ==
  \/ asserted /\ Publish(k, c)
  \/ ~asserted /\ Moves(k, [pc |-> "asserting", left |-> poll[k].left, conn |-> c])

GetChannel(k) ==
  /\ poll[k].pc = "next"
  /\ \/ channel # None /\ Ready(k, channel) /\ UNCHANGED dials
     \/ /\ channel = None
        /\ dials' = [dials EXCEPT ![k] = @ + 1]
        /\ Moves(k, [pc |-> "dialing", left |-> poll[k].left, conn |-> <<k, dials'[k]>>])
  /\ UNCHANGED <<up, cut, shut, fields, rows, closer, faults>>

Connected(k) ==
  /\ poll[k].pc = "dialing"
  /\ up' = up \cup {poll[k].conn}
  /\ model' = poll[k].conn
  /\ poll' = [poll EXCEPT ![k].pc = "creating"]
  /\ UNCHANGED <<cut, shut, channel, asserted, dials, rows, closer, faults>>

DialFails(k) ==
  /\ poll[k].pc = "dialing"
  /\ Fault
  /\ Moves(k, After(poll[k].left))
  /\ UNCHANGED <<up, cut, shut, fields, dials, rows, closer>>

\* Faulty variant: the channel is not kept.
ChannelForgotten(k) ==
  /\ poll[k].pc = "creating"
  /\ poll[k].conn \in up
  /\ Ready(k, poll[k].conn)
  /\ UNCHANGED <<up, cut, shut, fields, dials, rows, closer, faults>>

ChannelCreated(k) ==
  /\ poll[k].pc = "creating"
  /\ poll[k].conn \in up
  /\ channel' = poll[k].conn
  /\ Ready(k, channel')
  /\ UNCHANGED <<up, cut, shut, model, asserted, dials, rows, closer, faults>>

TopologyAsserted(k) ==
  /\ poll[k].pc = "asserting"
  /\ poll[k].conn \in up
  /\ asserted' = TRUE
  /\ Publish(k, poll[k].conn)
  /\ UNCHANGED <<up, cut, shut, model, channel, dials, rows, closer, faults>>

\* Requests on a channel are rejected when it, or its connection, is closed.
Rejected(k) ==
  /\ \/ poll[k].pc = "creating" /\ poll[k].conn \notin up \cup cut
     \/ poll[k].pc = "asserting" /\ poll[k].conn \notin (up \cup cut) \ shut
  /\ Moves(k, After(poll[k].left))
  /\ UNCHANGED <<up, cut, shut, fields, dials, rows, closer, faults>>

Drained(k) ==
  /\ poll[k].pc = "draining"
  /\ poll[k].conn \in up \ shut
  /\ Moves(k, [pc |-> "marking", left |-> poll[k].left])
  /\ UNCHANGED <<up, cut, shut, fields, dials, rows, closer, faults>>

\* A failing update leaves the row PENDING: it is published once more.
MarkSent(k) ==
  /\ poll[k].pc = "marking"
  /\ \/ pending' = pending \ {Oldest(poll[k].left)} /\ UNCHANGED faults
     \/ Fault /\ UNCHANGED pending
  /\ Moves(k, After(poll[k].left))
  /\ UNCHANGED <<up, cut, shut, fields, dials, written, closer>>

-----------------------------------------------------------------------------
(* Connections *)

Cut(c) ==
  /\ c \in up
  /\ Fault
  /\ up' = up \ {c}
  /\ cut' = cut \cup {c}
  /\ UNCHANGED <<shut, fields, poll, dials, rows, closer>>

\* Faulty variant: only the connection is forgotten.
CloseEventKeepsChannel(c) ==
  /\ c \in cut
  /\ cut' = cut \ {c}
  /\ model' = None
  /\ UNCHANGED <<up, shut, channel, asserted, poll, dials, rows, closer, faults>>

\* The handler of whichever connection closes clears both fields.
CloseEvent(c) ==
  /\ c \in cut
  /\ cut' = cut \ {c}
  /\ channel' = None /\ model' = None
  /\ UNCHANGED <<up, shut, asserted, poll, dials, rows, closer, faults>>

Cleared == channel' = None /\ model' = None

\* close() goes on with the model there is by then.
CloseModel ==
  \/ /\ model # None
     /\ shut' = shut \cup {model}
     /\ closer' = [stage |-> "model", conn |-> model]
     /\ UNCHANGED <<model, channel>>
  \/ model = None /\ closer' = Closed /\ Cleared /\ UNCHANGED shut

\* outboxRelay.stop and SagaBroker.close of the shutdown.
Shutdown ==
  /\ closer = Open
  /\ \/ /\ channel # None
        /\ shut' = shut \cup {channel}
        /\ closer' = [stage |-> "channel", conn |-> channel]
        /\ UNCHANGED <<model, channel>>
     \/ channel = None /\ CloseModel
  /\ UNCHANGED <<up, cut, asserted, poll, dials, rows, faults>>

\* A close that is rejected because the connection is gone ends in the finally.
ChannelClosed ==
  /\ closer.stage = "channel"
  /\ \/ closer.conn \in up /\ CloseModel
     \/ closer.conn \notin up \cup cut /\ closer' = Closed /\ Cleared /\ UNCHANGED shut
  /\ UNCHANGED <<up, cut, asserted, poll, dials, rows, faults>>

ModelClosed ==
  /\ closer.stage = "model"
  /\ closer.conn \notin cut
  /\ up' = up \ {closer.conn}
  /\ closer' = Closed /\ Cleared
  /\ UNCHANGED <<cut, shut, asserted, poll, dials, rows, faults>>

PollStep(k) ==
  \/ GetChannel(k)
  \/ Connected(k)
  \/ DialFails(k)
  \/ ChannelCreated(k)
  \/ TopologyAsserted(k)
  \/ Rejected(k)
  \/ Drained(k)
  \/ MarkSent(k)

Next ==
  \/ Write
  \/ \E k \in Poll : StartPoll(k) \/ PollStep(k)
  \/ \E c \in up : Cut(c)
  \/ \E c \in cut : CloseEvent(c)
  \/ Shutdown \/ ChannelClosed \/ ModelClosed

Spec == Init /\ [][Next]_vars

\* The timer fires; the broker and the database answer or fail; the heartbeat
\* finds a dead connection.
Fairness ==
  /\ WF_vars(\E k \in Poll : StartPoll(k))
  /\ \A k \in Poll : WF_vars(PollStep(k))
  /\ WF_vars(\E c \in cut : CloseEvent(c))
FairSpec == Spec /\ Fairness

-----------------------------------------------------------------------------
(* Properties *)

\* Until the shutdown nobody is handed a channel whose connection has told its
\* end: whatever polls overlap, a channel is stored after the connection of another
\* poll has closed, or a poll's own connection has been replaced, getChannel does
\* not return one that would refuse every publish for good.
ChannelIsLive ==
  closer = Open => /\ channel \in up \cup cut \cup {None}
                   /\ model \in up \cup cut \cup {None}

\* Overlapping polls may each dial, and a connection nobody refers to any more can
\* take a good channel from the others when it closes; but a poll dials once, and
\* once more at the most for each failure, so what leaks is bounded.
OneDialPerFailure == closer = Open => \A k \in Poll : dials[k] <= 1 + faults

\* What makes it so: a failure lets each poll dial once more, and a connection that
\* is lost has not done so yet.
MayDial(k) ==
  /\ channel = None
  /\ poll[k].pc # "dialing"
  /\ ~(poll[k].pc = "creating" /\ poll[k].conn \in up \cup cut)
DialsAreCounted ==
  closer = Open =>
    \A k \in Poll : dials[k] + Cardinality(cut) + (IF MayDial(k) THEN 1 ELSE 0) <= 1 + faults

\* Polls that hang on a lost channel do not stop the relay: a PENDING row is
\* published and marked in the end, unless the process shuts down.
EveryRowIsPublished == \A r \in Row : (r \in pending) ~> (r \notin pending \/ closer # Open)
=============================================================================
