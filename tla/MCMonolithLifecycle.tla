------------------------ MODULE MCMonolithLifecycle -------------------------
(* Instances of MonolithLifecycle for TLC. *)
EXTENDS MonolithLifecycle

Asks(via, op, email, slug, row) ==
  [via |-> via, op |-> op, key |-> TRUE, body |-> "whole", email |-> email, slug |-> slug, row |-> row]

\* Two ways to subscribe to one repository, and one to a repository that does not
\* exist; both tokens of the first subscription; the list; a request that each
\* check stops; and what each kind of broken body comes to.
Requests ==
  {Asks("http", "subscribe", "good", "plain", 0), Asks("proxy", "subscribe", "good", "url", 0),
   Asks("grpc", "subscribe", "good", "unknown", 0),
   Asks("http", "confirm", "good", "plain", 1), Asks("grpc", "unsubscribe", "good", "plain", 1),
   Asks("proxy", "getSubscriptions", "odd", "plain", 0),
   Asks("http", "getSubscriptions", "odd", "plain", 0), Asks("grpc", "confirm", "good", "plain", 0),
   Asks("proxy", "other", "good", "plain", 0),
   [Asks("http", "subscribe", "good", "plain", 0) EXCEPT !.body = "garbled"],
   [Asks("proxy", "subscribe", "good", "plain", 0) EXCEPT !.body = "none"],
   [Asks("proxy", "subscribe", "good", "plain", 0) EXCEPT !.body = "unfit"],
   [Asks("http", "subscribe", "good", "plain", 0) EXCEPT !.key = FALSE],
   [Asks("grpc", "subscribe", "good", "plain", 0) EXCEPT !.key = FALSE]}
=============================================================================
