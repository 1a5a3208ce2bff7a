------------------------- MODULE MCReleaseConsumer --------------------------
(* Instances of ReleaseConsumer for TLC. *)
EXTENDS ReleaseConsumer

\* One release has two subscribers; those of the others have left by the scan.
OneAudience ==
  LET heard == CHOOSE m \in Release : TRUE
  IN [m \in Msg |-> IF m = heard THEN 2 ELSE 0]
=============================================================================
