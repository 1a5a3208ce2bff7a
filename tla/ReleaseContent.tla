--------------------------- MODULE ReleaseContent ---------------------------
(* What becomes of a release between GitHub's answer and the e-mail about   *)
(* it: over the wire of either transport, through the event and the message *)
(* that carry its payload, into the letter. A text is Null, "" or one of    *)
(* Text; a repository stands for the two fields owner and name.             *)
EXTENDS GatewayErrors

CONSTANTS Text, Null

Optional == Text \cup {"", Null}
Written == Text \cup {""}

\* A release as GitHub describes it.
GitHubRelease ==
  [id : Nat \ {0}, tag_name : Text, name : Optional, body : Optional, html_url : Text,
   published_at : Optional, draft : BOOLEAN, prerelease : BOOLEAN]
\* and as the message Release does.
ReleaseMessage ==
  [id : Nat, tagName : Written, name : Written, body : Written, htmlUrl : Written,
   publishedAt : Written, draft : BOOLEAN, prerelease : BOOLEAN]

ASSUME TextAssumption ==
  /\ "" \notin Text
  /\ Null \notin Written /\ Null \notin GitHubRelease /\ Null \notin ReleaseMessage

-----------------------------------------------------------------------------
(* Messages of github.proto, by their bases *)

GetLatestReleaseRequest == [repo |-> "", bypassCache |-> FALSE]
Release ==
  [id |-> 0, tagName |-> "", name |-> "", body |-> "", htmlUrl |-> "", publishedAt |-> "",
   draft |-> FALSE, prerelease |-> FALSE]
GetLatestReleaseResponse == [found |-> FALSE, release |-> Null]

-----------------------------------------------------------------------------
(* A getLatestRelease call *)

OrEmpty(text) == IF text = Null THEN "" ELSE text   \* ?? ''
OrNull(text) == IF text = "" THEN Null ELSE text    \* || null

\* The scanner does not ask to bypass the cache.
Asked(r) ==
  LET request == [repo |-> r, bypassCache |-> FALSE] IN
  IF Transport = "grpc" THEN Carried(GetLatestReleaseRequest, request) ELSE request

ReleaseToProto(release) ==
  IF release = Null THEN GetLatestReleaseResponse
  ELSE [found |-> TRUE,
        release |-> [id |-> release.id, tagName |-> release.tag_name, name |-> OrEmpty(release.name),
                     body |-> OrEmpty(release.body), htmlUrl |-> release.html_url,
                     publishedAt |-> OrEmpty(release.published_at),
                     draft |-> release.draft, prerelease |-> release.prerelease]]

\* The release inside a response is a message of its own.
OverTheWire(response) ==
  LET arrived == Carried(GetLatestReleaseResponse, response) IN
  IF arrived.release = Null THEN arrived
  ELSE [arrived EXCEPT !.release = Carried(Release, @)]

\* Faulty variant: the body ends up in the name.
FromProtoMixedUp(response) ==
  LET r == response.release IN
  [id |-> r.id, tag_name |-> r.tagName, name |-> OrNull(r.body), body |-> OrNull(r.name),
   html_url |-> r.htmlUrl, published_at |-> OrNull(r.publishedAt),
   draft |-> r.draft, prerelease |-> r.prerelease]

FromProto(response) ==
  LET r == response.release IN
  IF ~response.found \/ r = Null THEN Null
  ELSE [id |-> r.id, tag_name |-> r.tagName, name |-> OrNull(r.name), body |-> OrNull(r.body),
        html_url |-> r.htmlUrl, published_at |-> OrNull(r.publishedAt),
        draft |-> r.draft, prerelease |-> r.prerelease]

\* The answer as JSON, whose texts, nulls, numbers and booleans are those of the code.
OverHttp(release) ==
  LET body == [found |-> release # Null, release |-> release] IN
  IF body.found THEN body.release ELSE Null

Received(release) ==
  IF Transport = "grpc" THEN FromProto(OverTheWire(ReleaseToProto(release))) ELSE OverHttp(release)

-----------------------------------------------------------------------------
(* The e-mail *)

\* What the event and the broker message carry of a release.
Payload(release) ==
  [tagName |-> release.tag_name, name |-> release.name, htmlUrl |-> release.html_url,
   publishedAt |-> release.published_at]

\* Faulty variant: only a missing name is replaced.
LetterKeepsEmptyName(payload) ==
  LET displayName == IF payload.name = Null THEN payload.tagName ELSE payload.name IN
  [heading |-> displayName,
   tagLine |-> IF payload.tagName # displayName THEN payload.tagName ELSE "",
   date |-> OrEmpty(payload.publishedAt), link |-> payload.htmlUrl]

\* A release without a name goes by its tag, which is then not repeated; a
\* release without a date shows none.
Letter(payload) ==
  LET displayName == IF payload.name \in {Null, ""} THEN payload.tagName ELSE payload.name IN
  [heading |-> displayName,
   tagLine |-> IF payload.tagName # displayName THEN payload.tagName ELSE "",
   date |-> OrEmpty(payload.publishedAt), link |-> payload.htmlUrl]
=============================================================================
