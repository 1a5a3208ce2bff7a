---------------------- MODULE NotificationSagaConsumer ----------------------
(* The notification service's saga consumer: NotifSagaBroker.start and the  *)
(* command handler it is given. Up to PREFETCH commands are handled at once;*)
(* a command that is not acknowledged is delivered again.                   *)
EXTENDS SagaTransport

CONSTANT Handler   \* slots of the prefetch window

ASSUME HandlerAssumption == IsFiniteSet(Handler)

VARIABLE handler   \* per slot: the command in hand and how far it is

IdleHandler == [pc |-> "idle"]
HandlerTypeOK ==
  handler \in [Handler -> {IdleHandler} \cup
                 [pc : {"sending", "replying"}, sub : Sub, success : BOOLEAN]]
HandlerInit == handler = [h \in Handler |-> IdleHandler]

Busy(h) == handler[h].pc # "idle"
\* Faulty variant: a command in hand is not withheld from the other slots.
NoneUnacked(s) == {}
Unacked(s) == {h \in Handler : Busy(h) /\ handler[h].sub = s}

\* Faulty variant: the consumer is registered with automatic acknowledgement.
ConsumeAutoAcks(h, s) ==
  /\ "notification" \in listening
  /\ ~Busy(h)
  /\ commands[s] > 0
  /\ handler' = [handler EXCEPT ![h] = [pc |-> "sending", sub |-> s, success |-> FALSE]]
  /\ commands' = [commands EXCEPT ![s] = @ - 1]
  /\ UNCHANGED <<wire, replies, listening, mailed, bounced, lost, faults>>

Consume(h, s) ==
  /\ "notification" \in listening
  /\ ~Busy(h)
  /\ commands[s] > Cardinality(Unacked(s))
  /\ handler' = [handler EXCEPT ![h] = [pc |-> "sending", sub |-> s, success |-> FALSE]]
  /\ UNCHANGED transportVars

\* The provider's answer decides the reply. An e-mail can arrive and its send
\* still throw, when the answer is what gets lost.
SendEmail(h) ==
  /\ handler[h].pc = "sending"
  /\ \E success, arrived \in BOOLEAN :
       /\ success => arrived
       /\ handler' = [handler EXCEPT ![h].pc = "replying", ![h].success = success]
       /\ mailed' = IF arrived THEN mailed \cup {handler[h].sub} ELSE mailed
       /\ bounced' = IF success THEN bounced ELSE bounced \cup {handler[h].sub}
  /\ UNCHANGED <<wire, commands, replies, listening, lost, faults>>

\* Publishing the reply and acknowledging the command run in one go. When the
\* connection goes in between, the broker has the reply and keeps the command.
PublishReply(h) ==
  LET s == handler[h].sub
      r == [saga |-> s, success |-> handler[h].success]
  IN /\ handler[h].pc = "replying"
     /\ "notification" \in listening
     /\ handler' = [handler EXCEPT ![h] = IdleHandler]
     /\ replies' = [replies EXCEPT ![r] = @ + 1]
     /\ \/ /\ commands' = [commands EXCEPT ![s] = @ - 1]
           /\ UNCHANGED <<listening, faults>>
        \/ /\ Fault
           /\ listening' = listening \ {"notification"}
           /\ UNCHANGED commands
     /\ UNCHANGED <<wire, mailed, bounced, lost>>

\* getChannel would reconnect, but only start() registers a consumer and it has
\* run: the service lives on without consuming. Handlers in progress carry on.
NotificationDisconnects ==
  /\ "notification" \in listening
  /\ Fault
  /\ listening' = listening \ {"notification"}
  /\ UNCHANGED <<handler, wire, commands, replies, mailed, bounced, lost>>

\* A handler that finishes on the dead channel throws in its catch block too:
\* the rejection is unhandled and ends the process.
NotificationDies == "notification" \notin listening /\ \E h \in Handler : handler[h].pc = "replying"

NotificationRestarts ==
  /\ handler' = [h \in Handler |-> IdleHandler]
  /\ listening' = listening \cup {"notification"}
  /\ UNCHANGED <<wire, commands, replies, mailed, bounced, lost>>

NotificationCrash == Fault /\ NotificationRestarts
NotificationUnhandledRejection == NotificationDies /\ NotificationRestarts /\ UNCHANGED faults

NotificationStep(h) ==
  \/ \E s \in Sub : Consume(h, s)
  \/ SendEmail(h)
  \/ PublishReply(h)
=============================================================================
