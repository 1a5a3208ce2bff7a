--------------------------- MODULE SagaTransport ----------------------------
(* What lies between the monolith and the notification service: the two     *)
(* durable RabbitMQ queues of the saga, the monolith's socket to the broker,*)
(* and the e-mail provider. The broker keeps its copy of a message until it *)
(* is acknowledged, so a queue counts ready and unacknowledged copies alike *)
(* and a redelivery changes nothing in it.                                  *)
EXTENDS SagaTables   \* a message carries the id that its rows share

CONSTANT MaxFaults   \* bound on crashes, lost connections and failing calls

ASSUME TransportAssumption == MaxFaults \in Nat

VARIABLES
  wire,       \* commands written by channel.publish that the broker lacks yet
  commands,   \* copies in saga.commands.confirmation
  replies,    \* copies in saga.replies.confirmation
  listening,  \* services whose consumer is registered on a live channel
  mailed,     \* confirmation e-mails that reached the subscriber
  bounced,    \* subscriptions for which a send was reported as failed
  lost,       \* subscriptions whose command or reply the transport dropped
  faults      \* faults so far

transportVars == <<wire, commands, replies, listening, mailed, bounced, lost, faults>>

Reply == [saga : Sub, success : BOOLEAN]
Service == {"monolith", "notification"}

TransportTypeOK ==
  /\ wire \in [Sub -> Nat]
  /\ commands \in [Sub -> Nat]
  /\ replies \in [Reply -> Nat]
  /\ listening \subseteq Service
  /\ mailed \subseteq Sub
  /\ bounced \subseteq Sub
  /\ lost \subseteq Sub
  /\ faults \in Nat

TransportInit ==
  /\ wire = [s \in Sub |-> 0]
  /\ commands = [s \in Sub |-> 0]
  /\ replies = [r \in Reply |-> 0]
  /\ listening = Service
  /\ mailed = {}
  /\ bounced = {}
  /\ lost = {}
  /\ faults = 0

\* Something goes wrong in this step; the model injects MaxFaults of these.
Fault == faults < MaxFaults /\ faults' = faults + 1

\* The broker takes a command off the socket and routes it to its queue. The
\* channel is no confirm channel: the publisher never hears of it.
BrokerAccept(s) ==
  /\ wire[s] > 0
  /\ wire' = [wire EXCEPT ![s] = @ - 1]
  /\ commands' = [commands EXCEPT ![s] = @ + 1]
  /\ UNCHANGED <<replies, listening, mailed, bounced, lost, faults>>
=============================================================================
