---------------------------- MODULE GatewayErrors ----------------------------
(* What crosses the wire between the monolith and the github-service: the   *)
(* fields of a message of github.proto, and an error, which is a status on  *)
(* the wire and an error again in the client of the transport in use.       *)
EXTENDS Integers

CONSTANT Transport  \* GITHUB_TRANSPORT

ASSUME TransportAssumption == Transport \in {"grpc", "http"}

\* By the status an error carries: an AppError without a class of its own counts as
\* the class with its status.
Error == {"RateLimitError", "NotFoundError", "Unauthorized", "Conflict", "ValidationError", "AppError"}

\* What an AppError carries, and 500 for any other error.
StatusCode(e) ==
  CASE e = "ValidationError" -> 400 [] e = "Unauthorized" -> 401 [] e = "NotFoundError" -> 404
    [] e = "Conflict" -> 409 [] e = "RateLimitError" -> 429 [] OTHER -> 500

GrpcStatus ==
  [code \in {400, 401, 404, 409, 429, 500} |->
    CASE code = 400 -> "INVALID_ARGUMENT" [] code = 401 -> "UNAUTHENTICATED"
      [] code = 404 -> "NOT_FOUND" [] code = 409 -> "ALREADY_EXISTS"
      [] code = 429 -> "RESOURCE_EXHAUSTED" [] OTHER -> "INTERNAL"]

MapGrpcError(status) ==
  CASE status = "NOT_FOUND" -> "NotFoundError" [] status = "RESOURCE_EXHAUSTED" -> "RateLimitError"
    [] status = "UNAUTHENTICATED" -> "Unauthorized" [] status = "ALREADY_EXISTS" -> "Conflict"
    [] status = "INVALID_ARGUMENT" -> "ValidationError" [] OTHER -> "AppError"

ThrowFromResponse(code) ==
  CASE code = 404 -> "NotFoundError" [] code \in {403, 429} -> "RateLimitError"
    [] code = 400 -> "ValidationError" [] code = 401 -> "Unauthorized" [] code = 409 -> "Conflict"
    [] OTHER -> "AppError"

\* Faulty variant: every error comes out as an internal one.
RemoteAlwaysInternal(e) == MapGrpcError("INTERNAL")

\* The error the monolith sees for one thrown in the service.
Remote(e) ==
  IF Transport = "grpc" THEN MapGrpcError(GrpcStatus[StatusCode(e)])
  ELSE ThrowFromResponse(StatusCode(e))

\* A message is described by its base: fields that are as in the base are not
\* written, and fields not found are left as there.
Encode(base, message) ==
  [f \in {g \in DOMAIN base : message[g] # base[g]} |-> message[f]]
Decode(base, wire) ==
  [f \in DOMAIN base |-> IF f \in DOMAIN wire THEN wire[f] ELSE base[f]]
Carried(base, message) == Decode(base, Encode(base, message))
=============================================================================
