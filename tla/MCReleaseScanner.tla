-------------------------- MODULE MCReleaseScanner --------------------------
(* Instances of ReleaseScanner for TLC. *)
EXTENDS ReleaseScanner, TLC

CONSTANTS r1, r2, s1, s2

OneEach == (s1 :> r1) @@ (s2 :> r2)
TwoAndNone == (r1 :> 2) @@ (r2 :> 0)

Texts == {"v1", "v2", "One", "notes", "page", "May 1"}
\* The first release has a name, an empty body and a date, the second an empty
\* name and no date.
Described ==
  [m \in Repo \X (0 .. MaxTag) |->
    IF m[2] <= 1
    THEN [id |-> 7, tag_name |-> "v1", name |-> "One", body |-> "", html_url |-> "page",
          published_at |-> "May 1", draft |-> FALSE, prerelease |-> TRUE]
    ELSE [id |-> 8, tag_name |-> "v2", name |-> "", body |-> "notes", html_url |-> "page",
          published_at |-> Null, draft |-> FALSE, prerelease |-> FALSE]]
=============================================================================
