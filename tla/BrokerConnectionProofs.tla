----------------------- MODULE BrokerConnectionProofs -----------------------
(* The invariants of BrokerConnection, for every number of polls, rows and  *)
(* failures.                                                                *)
EXTENDS BrokerConnection, FiniteSetTheorems, TLAPS

LEMMA OldestOfBatch ==
  ASSUME NEW batch \in Batch
  PROVE  After(batch) \in PollState
<1>1. batch \ {Oldest(batch)} \in Batch \/ batch \ {Oldest(batch)} = {}
  BY DEF Batch
<1> QED
  BY <1>1 DEF After, PollState

\* What a poll can be at.
LEMMA PollShape ==
  ASSUME NEW x \in PollState
  PROVE  /\ x.pc # "idle" => x.left \in Batch
         /\ x.pc \in {"dialing", "creating", "asserting", "draining"} => x.conn \in Connection
         /\ x.pc = "dialing" => [x EXCEPT !.pc = "creating"] \in PollState
<1>1. CASE x = Idle
  BY <1>1 DEF Idle
<1>2. CASE x \in [pc : {"next", "marking"}, left : Batch]
  BY <1>2
<1>3. CASE x \in [pc : {"dialing", "creating", "asserting", "draining"}, left : Batch, conn : Connection]
  BY <1>3 DEF PollState
<1> QED
  BY <1>1, <1>2, <1>3 DEF PollState

\* What publishCommand leaves a poll at, once it has a channel.
LEMMA ReadyPoll ==
  ASSUME poll \in [Poll -> PollState], NEW k \in Poll, NEW c \in Connection,
         poll[k].pc # "idle", Ready(k, c) \/ Publish(k, c)
  PROVE  \E state \in PollState :
           /\ poll' = [poll EXCEPT ![k] = state]
           /\ state.pc \in {"idle", "next", "marking", "draining", "asserting"}
<1>1. poll[k].left \in Batch
  BY PollShape
<1> DEFINE batch == poll[k].left
           marking == [pc |-> "marking", left |-> batch]
           draining == [pc |-> "draining", left |-> batch, conn |-> c]
           asserting == [pc |-> "asserting", left |-> batch, conn |-> c]
<1>2. marking \in PollState /\ draining \in PollState /\ asserting \in PollState
  BY <1>1 DEF PollState
<1>3. After(batch) \in PollState /\ After(batch).pc \in {"idle", "next"}
  BY <1>1, OldestOfBatch DEF After, Idle
<1>4. \/ poll' = [poll EXCEPT ![k] = marking] \/ poll' = [poll EXCEPT ![k] = draining]
      \/ poll' = [poll EXCEPT ![k] = asserting] \/ poll' = [poll EXCEPT ![k] = After(batch)]
  BY DEF Ready, Publish, Moves
<1> HIDE DEF batch, marking, draining, asserting
<1>5. marking.pc = "marking" /\ draining.pc = "draining" /\ asserting.pc = "asserting"
  BY DEF marking, draining, asserting
<1> QED
  BY <1>2, <1>3, <1>4, <1>5

-----------------------------------------------------------------------------
(* Types *)

LEMMA PollType ==
  ASSUME TypeOK, NEW k \in Poll, StartPoll(k) \/ PollStep(k)
  PROVE  TypeOK'
<1> USE DEF TypeOK, fields, rows
<1> DEFINE batch == poll[k].left
<1>1. poll[k].pc # "idle" => batch \in Batch /\ After(batch) \in PollState
  BY PollShape, OldestOfBatch
<1>2. CASE StartPoll(k)
  <2>1. [pc |-> "next", left |-> pending] \in PollState
    BY <1>2 DEF StartPoll, PollState, Batch
  <2> QED
    BY <1>2, <2>1 DEF StartPoll, Moves
<1>3. CASE GetChannel(k)
  <2>1. CASE channel # None /\ Ready(k, channel) /\ UNCHANGED dials
    <3>1. poll' \in [Poll -> PollState]
      BY <1>3, <2>1, ReadyPoll DEF GetChannel
    <3> QED
      BY <1>3, <2>1, <3>1 DEF GetChannel
  <2>2. CASE /\ channel = None
             /\ dials' = [dials EXCEPT ![k] = @ + 1]
             /\ Moves(k, [pc |-> "dialing", left |-> poll[k].left, conn |-> <<k, dials'[k]>>])
    <3>1. dials' \in [Poll -> Nat] /\ <<k, dials'[k]>> \in Connection
      BY <2>2 DEF Connection
    <3>2. [pc |-> "dialing", left |-> batch, conn |-> <<k, dials'[k]>>] \in PollState
      BY <1>1, <1>3, <3>1 DEF GetChannel, PollState
    <3> QED
      BY <1>3, <2>2, <3>1, <3>2 DEF GetChannel, Moves
  <2> QED
    BY <1>3, <2>1, <2>2 DEF GetChannel
<1>4. CASE Connected(k)
  <2>1. poll[k].conn \in Connection /\ [poll[k] EXCEPT !.pc = "creating"] \in PollState
    BY <1>4, PollShape DEF Connected
  <2> QED
    BY <1>4, <2>1 DEF Connected
<1>5. CASE DialFails(k)
  BY <1>1, <1>5 DEF DialFails, Moves, Fault
<1>6. CASE ChannelCreated(k)
  <2>1. poll[k].conn \in Connection /\ poll' \in [Poll -> PollState]
    BY <1>6, PollShape, ReadyPoll DEF ChannelCreated
  <2> QED
    BY <1>6, <2>1 DEF ChannelCreated
<1>7. CASE TopologyAsserted(k)
  <2>1. poll[k].conn \in Connection /\ poll' \in [Poll -> PollState]
    BY <1>7, PollShape, ReadyPoll DEF TopologyAsserted
  <2> QED
    BY <1>7, <2>1 DEF TopologyAsserted
<1>8. CASE Rejected(k)
  BY <1>1, <1>8 DEF Rejected, Moves
<1>9. CASE Drained(k)
  <2>1. [pc |-> "marking", left |-> batch] \in PollState
    BY <1>1, <1>9 DEF Drained, PollState
  <2> QED
    BY <1>9, <2>1 DEF Drained, Moves
<1>10. CASE MarkSent(k)
  BY <1>1, <1>10 DEF MarkSent, Moves, Fault
<1> QED
  BY <1>2, <1>3, <1>4, <1>5, <1>6, <1>7, <1>8, <1>9, <1>10 DEF PollStep

LEMMA ConnectionType ==
  ASSUME TypeOK, \/ \E c \in up : Cut(c)
                 \/ \E c \in cut : CloseEvent(c)
                 \/ Write \/ Shutdown \/ ChannelClosed \/ ModelClosed
  PROVE  TypeOK'
<1> USE DEF TypeOK, fields, rows
<1>1. ASSUME NEW c \in up, Cut(c) PROVE TypeOK'
  <2>1. IsFiniteSet(cut \cup {c})
    BY FS_AddElement
  <2> QED
    BY <1>1, <2>1 DEF Cut, Fault
<1>2. ASSUME NEW c \in cut, CloseEvent(c) PROVE TypeOK'
  <2>1. IsFiniteSet(cut \ {c})
    BY FS_RemoveElement
  <2> QED
    BY <1>2, <2>1 DEF CloseEvent
<1>3. CASE Write
  <2>1. written' \in 0 .. MaxRows /\ written' \in Row
    BY <1>3, ConnectionAssumption DEF Write, Row
  <2> QED
    BY <1>3, <2>1 DEF Write
<1>4. ASSUME CloseModel, UNCHANGED <<up, cut, asserted, poll, dials, rows, faults>> PROVE TypeOK'
  BY <1>4 DEF CloseModel, Cleared
<1>5. CASE Shutdown
  BY <1>4, <1>5 DEF Shutdown
<1>6. CASE ChannelClosed
  BY <1>4, <1>6 DEF ChannelClosed, Cleared
<1>7. CASE ModelClosed
  BY <1>7 DEF ModelClosed, Cleared
<1> QED
  BY <1>1, <1>2, <1>3, <1>5, <1>6, <1>7

LEMMA TypeStep ==
  ASSUME TypeOK, [Next]_vars
  PROVE  TypeOK'
<1>1. CASE UNCHANGED vars
  BY <1>1 DEF TypeOK, vars, fields, rows
<1>2. ASSUME NEW k \in Poll, StartPoll(k) \/ PollStep(k) PROVE TypeOK'
  BY <1>2, PollType
<1> QED
  BY <1>1, <1>2, ConnectionType DEF Next

\* Every variable keeps its type.
THEOREM TypeCorrect == Spec => []TypeOK
<1>1. Init => TypeOK
  <2>1. ASSUME Init PROVE IsFiniteSet(cut)
    BY <2>1, FS_EmptySet DEF Init
  <2>2. ASSUME Init PROVE written \in 0 .. MaxRows /\ dials \in [Poll -> Nat] /\ faults \in Nat
    BY <2>2, ConnectionAssumption DEF Init
  <2>3. ASSUME Init PROVE poll \in [Poll -> PollState] /\ asserted \in BOOLEAN
    BY <2>3 DEF Init, PollState
  <2> QED
    BY <2>1, <2>2, <2>3 DEF Init, TypeOK
<1>2. TypeOK /\ [Next]_vars => TypeOK'
  BY TypeStep
<1> QED
  BY <1>1, <1>2, PTL DEF Spec
-----------------------------------------------------------------------------
(* Live channels *)

LEMMA LiveStep ==
  ASSUME TypeOK, ChannelIsLive, [Next]_vars
  PROVE  ChannelIsLive'
<1> SUFFICES ASSUME closer' = Open
             PROVE  /\ channel' \in up' \cup cut' \cup {None}
                    /\ model' \in up' \cup cut' \cup {None}
  BY DEF ChannelIsLive
<1> USE DEF ChannelIsLive, fields, rows
<1>1. CASE UNCHANGED vars
  BY <1>1 DEF vars
<1>2. CASE Write
  BY <1>2 DEF Write
<1>3. ASSUME NEW k \in Poll, StartPoll(k) \/ PollStep(k)
      PROVE  /\ channel' \in up' \cup cut' \cup {None}
             /\ model' \in up' \cup cut' \cup {None}
  BY <1>3 DEF StartPoll, PollStep, GetChannel, Connected, DialFails, ChannelCreated,
              TopologyAsserted, Rejected, Drained, MarkSent
<1>4. ASSUME NEW c \in up, Cut(c)
      PROVE  /\ channel' \in up' \cup cut' \cup {None}
             /\ model' \in up' \cup cut' \cup {None}
  BY <1>4 DEF Cut
<1>5. ASSUME NEW c \in cut, CloseEvent(c)
      PROVE  channel' = None /\ model' = None
  BY <1>5 DEF CloseEvent
<1>6. CASE Shutdown \/ ChannelClosed \/ ModelClosed
  BY <1>6 DEF Shutdown, ChannelClosed, ModelClosed, CloseModel, Open, Closed
<1> QED
  BY <1>1, <1>2, <1>3, <1>4, <1>5, <1>6 DEF Next

\* Until the shutdown getChannel hands out no channel whose connection is known to
\* be gone.
THEOREM LiveChannels == Spec => []ChannelIsLive
<1>1. Init => ChannelIsLive
  BY DEF Init, ChannelIsLive
<1>2. TypeOK /\ ChannelIsLive /\ [Next]_vars => ChannelIsLive'
  BY LiveStep
<1> QED
  BY <1>1, <1>2, TypeCorrect, PTL DEF Spec

-----------------------------------------------------------------------------
(* Dials *)

\* The connections known to be lost, and what a poll may still dial.
Used(k) == dials[k] + Cardinality(cut) + (IF MayDial(k) THEN 1 ELSE 0)

LEMMA UsedType ==
  ASSUME TypeOK, NEW k \in Poll
  PROVE  dials[k] \in Nat /\ Cardinality(cut) \in Nat /\ faults \in Nat
BY FS_CardinalityType DEF TypeOK

\* Only the poll itself changes what it has dialled; it may dial again only after
\* a failing dial.
LEMMA OwnDials ==
  ASSUME TypeOK, DialsAreCounted, closer = Open, NEW k \in Poll, PollStep(k)
  PROVE  dials'[k] + Cardinality(cut') + (IF MayDial(k)' THEN 1 ELSE 0) <= 1 + faults'
<1> USE DEF TypeOK, fields, rows
<1>0. Used(k) <= 1 + faults /\ dials[k] \in Nat /\ Cardinality(cut) \in Nat /\ faults \in Nat
  BY UsedType DEF DialsAreCounted, Used
<1>1. CASE GetChannel(k) /\ channel = None
  <2>1. MayDial(k)
    BY <1>1 DEF GetChannel, MayDial
  <2>2. poll'[k].pc = "dialing" /\ dials'[k] = dials[k] + 1 /\ cut' = cut /\ faults' = faults
    BY <1>1 DEF GetChannel, Moves
  <2>3. ~MayDial(k)'
    BY <2>2 DEF MayDial
  <2> QED
    BY <1>0, <2>1, <2>2, <2>3 DEF Used
<1>2. CASE Connected(k)
  <2>1. poll'[k].pc = "creating" /\ poll'[k].conn \in up'
    BY <1>2 DEF Connected
  <2>2. ~MayDial(k)'
    BY <2>1 DEF MayDial
  <2> QED
    BY <1>0, <1>2, <2>2 DEF Connected, Used
<1>3. CASE DialFails(k)
  BY <1>0, <1>3 DEF DialFails, Fault, Used
<1>4. CASE ChannelCreated(k)
  <2>1. channel' # None
    BY <1>4, PollShape, ConnectionAssumption DEF ChannelCreated, Connection
  <2>2. ~MayDial(k)'
    BY <2>1 DEF MayDial
  <2> QED
    BY <1>0, <1>4, <2>2 DEF ChannelCreated, Used
<1>5. CASE GetChannel(k) /\ channel # None
  <2>1. ~MayDial(k)'
    BY <1>5 DEF GetChannel, MayDial
  <2> QED
    BY <1>0, <1>5, <2>1 DEF GetChannel, Used
<1>6. CASE TopologyAsserted(k) \/ Rejected(k) \/ Drained(k) \/ MarkSent(k)
  <2>1. MayDial(k)' => MayDial(k)
    BY <1>6 DEF MayDial, TopologyAsserted, Rejected, Drained, MarkSent
  <2>2. dials' = dials /\ cut' = cut /\ faults' >= faults /\ faults' \in Nat
    BY <1>0, <1>6 DEF TopologyAsserted, Rejected, Drained, MarkSent, Fault
  <2> QED
    BY <1>0, <2>1, <2>2 DEF Used
<1> QED
  BY <1>1, <1>2, <1>3, <1>4, <1>5, <1>6 DEF PollStep

\* What another poll does lets a poll dial no more than before.
LEMMA OthersDials ==
  ASSUME TypeOK, DialsAreCounted, closer = Open, NEW k \in Poll, NEW q \in Poll \ {k}, PollStep(q)
  PROVE  dials'[k] + Cardinality(cut') + (IF MayDial(k)' THEN 1 ELSE 0) <= 1 + faults'
<1> USE DEF TypeOK, fields, rows
<1>0. Used(k) <= 1 + faults /\ dials[k] \in Nat /\ Cardinality(cut) \in Nat /\ faults \in Nat
  BY UsedType DEF DialsAreCounted, Used
<1>1. poll'[k] = poll[k] /\ dials'[k] = dials[k]
  BY DEF PollStep, GetChannel, Connected, DialFails, ChannelCreated, TopologyAsserted,
         Rejected, Drained, MarkSent, Moves, Ready, Publish
<1>2. cut' = cut /\ up \subseteq up' /\ faults' \in Nat /\ faults' >= faults
  BY <1>0 DEF PollStep, GetChannel, Connected, DialFails, ChannelCreated, TopologyAsserted,
              Rejected, Drained, MarkSent, Fault
<1>3. channel' = channel \/ channel' # None
  BY PollShape, ConnectionAssumption DEF PollStep, GetChannel, Connected, DialFails, ChannelCreated,
     TopologyAsserted, Rejected, Drained, MarkSent, Connection
<1>4. MayDial(k)' => MayDial(k)
  BY <1>1, <1>2, <1>3 DEF MayDial
<1> QED
  BY <1>0, <1>1, <1>2, <1>4 DEF Used

LEMMA DialsStep ==
  ASSUME TypeOK, DialsAreCounted, [Next]_vars
  PROVE  DialsAreCounted'
<1> SUFFICES ASSUME closer' = Open, NEW k \in Poll
             PROVE  dials'[k] + Cardinality(cut') + (IF MayDial(k)' THEN 1 ELSE 0) <= 1 + faults'
  BY DEF DialsAreCounted
<1> USE DEF TypeOK, fields, rows
<1>1. closer = Open
  BY DEF Next, vars, Write, StartPoll, PollStep, GetChannel, Connected, DialFails, ChannelCreated,
         TopologyAsserted, Rejected, Drained, MarkSent, Cut, CloseEvent, Shutdown, ChannelClosed,
         ModelClosed, CloseModel, Open, Closed
<1>0. Used(k) <= 1 + faults /\ dials[k] \in Nat /\ Cardinality(cut) \in Nat /\ faults \in Nat
  BY <1>1, UsedType DEF DialsAreCounted, Used
<1>2. CASE UNCHANGED vars \/ Write
  <2>1. UNCHANGED <<dials, cut, faults, channel, poll, up>>
    BY <1>2 DEF vars, Write
  <2> QED
    BY <1>0, <2>1 DEF Used, MayDial
<1>3. ASSUME NEW q \in Poll, StartPoll(q)
      PROVE  dials'[k] + Cardinality(cut') + (IF MayDial(k)' THEN 1 ELSE 0) <= 1 + faults'
  <2>1. poll'[k] = poll[k] \/ poll[k] = Idle \/ Hung(k)
    BY <1>3 DEF StartPoll, Moves
  <2>2. MayDial(k)' => MayDial(k)
    BY <1>3, <2>1 DEF StartPoll, MayDial, Hung, Idle
  <2> QED
    BY <1>0, <1>3, <2>2 DEF StartPoll, Used
<1>4. ASSUME NEW q \in Poll, PollStep(q)
      PROVE  dials'[k] + Cardinality(cut') + (IF MayDial(k)' THEN 1 ELSE 0) <= 1 + faults'
  BY <1>1, <1>4, OwnDials, OthersDials
<1>5. ASSUME NEW c \in up, Cut(c)
      PROVE  dials'[k] + Cardinality(cut') + (IF MayDial(k)' THEN 1 ELSE 0) <= 1 + faults'
  <2>1. Cardinality(cut') \in Nat /\ Cardinality(cut') <= Cardinality(cut) + 1
    <3>1. cut' = cut \cup {c} /\ IsFiniteSet(cut)
      BY <1>5 DEF Cut
    <3>2. Cardinality(cut \cup {c}) = IF c \in cut THEN Cardinality(cut) ELSE Cardinality(cut) + 1
      BY <3>1, FS_AddElement
    <3> QED
      BY <1>0, <3>1, <3>2
  <2>2. MayDial(k)' => MayDial(k)
    BY <1>5 DEF Cut, MayDial
  <2> QED
    BY <1>0, <1>5, <2>1, <2>2 DEF Cut, Fault, Used
<1>6. ASSUME NEW c \in cut, CloseEvent(c)
      PROVE  dials'[k] + Cardinality(cut') + (IF MayDial(k)' THEN 1 ELSE 0) <= 1 + faults'
  <2>1. Cardinality(cut') = Cardinality(cut) - 1
    BY <1>6, FS_RemoveElement DEF CloseEvent
  <2> QED
    BY <1>0, <1>6, <2>1 DEF CloseEvent, Used
<1>7. CASE Shutdown \/ ChannelClosed \/ ModelClosed
  BY <1>1, <1>7 DEF Shutdown, ChannelClosed, ModelClosed, CloseModel, Open, Closed
<1> QED
  BY <1>2, <1>3, <1>4, <1>5, <1>6, <1>7 DEF Next

\* A poll dials once, and once more at the most for each failure.
THEOREM DialsBounded == Spec => []OneDialPerFailure
<1>1. Init => DialsAreCounted
  <2>1. ASSUME Init, NEW k \in Poll
        PROVE  dials[k] + Cardinality(cut) + (IF MayDial(k) THEN 1 ELSE 0) <= 1 + faults
    BY <2>1, FS_EmptySet DEF Init
  <2> QED
    BY <2>1 DEF DialsAreCounted
<1>2. TypeOK /\ DialsAreCounted /\ [Next]_vars => DialsAreCounted'
  BY DialsStep
<1>3. TypeOK /\ DialsAreCounted => OneDialPerFailure
  <2>1. ASSUME TypeOK, DialsAreCounted, closer = Open, NEW k \in Poll PROVE dials[k] <= 1 + faults
    <3>1. dials[k] \in Nat /\ Cardinality(cut) \in Nat /\ faults \in Nat
      BY <2>1, UsedType
    <3>2. dials[k] + Cardinality(cut) + (IF MayDial(k) THEN 1 ELSE 0) <= 1 + faults
      BY <2>1 DEF DialsAreCounted
    <3> QED
      BY <3>1, <3>2
  <2> QED
    BY <2>1 DEF OneDialPerFailure
<1> QED
  BY <1>1, <1>2, <1>3, TypeCorrect, PTL DEF Spec
=============================================================================
