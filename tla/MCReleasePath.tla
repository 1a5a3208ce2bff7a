--------------------------- MODULE MCReleasePath ----------------------------
(* Instances of ReleasePath for TLC. *)
EXTENDS ReleasePath, TLC

CONSTANT r1

Texts == {"v1", "One", "page", "May 1"}
OneRepo == [s \in Sub |-> r1]
Once == [r \in Repo |-> MaxTag]
Described ==
  [m \in Repo \X (0 .. MaxTag) |->
    [id |-> 7, tag_name |-> "v1", name |-> "One", body |-> "", html_url |-> "page",
     published_at |-> "May 1", draft |-> FALSE, prerelease |-> TRUE]]
=============================================================================
