---------------------------- MODULE ErrorMapping ----------------------------
(***************************************************************************)
(* How the handlers turn an error into an HTTP answer: mapError            *)
(* (internal/handler/handler.go) for /metrics and mapGMPError              *)
(* (internal/handler/gmp_handler.go) for /gmp-metrics.                     *)
(*                                                                         *)
(* An error is what the mappings can tell of it: the sentinel that         *)
(* errors.Is finds in its chain ("none" when there is none) and the gRPC   *)
(* code, or the HTTP status of a gmp.APIError (0 when it is not one).      *)
(* An answer is the status that is logged and the Retry-After header       *)
(* (0 when it is absent); on the wire respondError writes 408 for 499.     *)
(***************************************************************************)
EXTENDS Naturals

Answer(status, retryAfter) == [status |-> status, retryAfter |-> retryAfter]

NoAnswer == Answer(0, 0)
OK == Answer(200, 0)
TooManyRequests == Answer(429, 1)
BadRequest == Answer(400, 0)
NotFound == Answer(404, 0)
BadGateway == Answer(502, 0)
QuotaExhausted == Answer(503, 30)
MaxSeriesExceeded == Answer(503, 0)
GatewayTimeout == Answer(504, 0)
ClientClosed == Answer(499, 0)   \* nonStandardClientClosed

Answers == {NoAnswer, OK, TooManyRequests, BadRequest, NotFound, BadGateway,
            QuotaExhausted, MaxSeriesExceeded, GatewayTimeout, ClientClosed}

Sentinel(s) == [is |-> s, code |-> "Unknown", http |-> 0]
GrpcError(c) == [is |-> "none", code |-> c, http |-> 0]
APIError(h) == [is |-> "none", code |-> "Unknown", http |-> h]
OtherError == [is |-> "none", code |-> "Unknown", http |-> 0]

\* Fault: the quota of the upstream is passed on as the caller's own.
mapErrorBlamesCaller(err) ==
    CASE err.is = "max_series" -> MaxSeriesExceeded
      [] err.is = "invalid_aggregation" -> BadRequest
      [] err.is = "deadline_exceeded" -> GatewayTimeout
      [] err.is = "canceled" -> ClientClosed
      [] OTHER ->
           CASE err.code = "InvalidArgument" -> BadRequest
             [] err.code = "NotFound" -> NotFound
             [] err.code = "DeadlineExceeded" -> GatewayTimeout
             [] err.code = "ResourceExhausted" -> TooManyRequests
             [] OTHER -> BadGateway

\* Fault: an upstream that cannot be reached counts as a timeout.
mapErrorUnavailable(err) ==
    IF err.is = "none" /\ err.code = "Unavailable" THEN GatewayTimeout
    ELSE mapErrorBlamesCaller(err)

mapError(err) ==
    CASE err.is = "max_series" -> MaxSeriesExceeded
      [] err.is = "invalid_aggregation" -> BadRequest
      [] err.is = "deadline_exceeded" -> GatewayTimeout
      [] err.is = "canceled" -> ClientClosed
      [] OTHER ->
           CASE err.code = "InvalidArgument" -> BadRequest
             [] err.code = "NotFound" -> NotFound
             [] err.code = "DeadlineExceeded" -> GatewayTimeout
             [] err.code = "ResourceExhausted" -> QuotaExhausted
             [] OTHER -> BadGateway

\* Fault: a status of the upstream that means the caller is passed on.
mapGMPErrorForwards(err) ==
    CASE err.is = "deadline_exceeded" -> GatewayTimeout
      [] err.is = "canceled" -> ClientClosed
      [] OTHER ->
           CASE err.http \in 400..428 -> BadRequest
             [] err.http \in {429, 503} -> QuotaExhausted
             [] OTHER -> BadGateway

\* Fault: the two ends of a context are taken for one another.
mapGMPErrorSwapped(err) ==
    CASE err.is = "deadline_exceeded" -> ClientClosed
      [] err.is = "canceled" -> GatewayTimeout
      [] OTHER -> mapGMPErrorForwards(err)

\* Fault: a canceled context is not told apart.
mapGMPErrorNoCancel(err) ==
    IF err.is = "canceled" THEN BadGateway ELSE mapGMPErrorForwards(err)

mapGMPError(err) ==
    CASE err.is = "deadline_exceeded" -> GatewayTimeout
      [] err.is = "canceled" -> ClientClosed
      [] OTHER ->
           CASE err.http = 400 -> BadRequest
             [] err.http \in {429, 503} -> QuotaExhausted
             [] OTHER -> BadGateway
=============================================================================
