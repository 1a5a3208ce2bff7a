------------------------- MODULE MCBrokerConnection -------------------------
(* Instances of BrokerConnection for TLC. *)
EXTENDS BrokerConnection
=============================================================================
