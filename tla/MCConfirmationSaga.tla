------------------------- MODULE MCConfirmationSaga -------------------------
(* Instances of ConfirmationSaga for TLC. *)
EXTENDS ConfirmationSaga, TLC

\* Every transaction subscribes the same (email, repo).
SameKey == [s \in Sub |-> CHOOSE k \in Key : TRUE]

Symmetry ==
  Permutations(Sub) \cup Permutations(Drain) \cup Permutations(Handler) \cup Permutations(Worker)
=============================================================================
