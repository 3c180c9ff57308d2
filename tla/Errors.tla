------------------------------- MODULE Errors -------------------------------
(***************************************************************************)
(* The errors of the program (errors/, router/registry/errors.ts,          *)
(* worker/router/errors.ts) and the answers made of them: by the Durable   *)
(* Objects and the auth middleware (toResponse), by the router             *)
(* (formatRouterError), and, the other way, from an upstream's or a key    *)
(* pool's answer to an error (mapUpstreamHttpError, getKey of the key      *)
(* pool's client).                                                         *)
(*                                                                         *)
(* An error keeps its status, its code and what it says of when to come    *)
(* back; messages and details are left out.                                *)
(***************************************************************************)
EXTENDS Naturals

CONSTANT
    Never     \* no number of seconds: the header or the field is not there

DEFAULT_RETRY_AFTER_SECONDS == 60

Min2(a, b) == IF a <= b THEN a ELSE b
Max2(a, b) == IF a >= b THEN a ELSE b

Given(seconds, default) == IF seconds = Never THEN default ELSE seconds

-----------------------------------------------------------------------------
(* The classes.                                                            *)

DomainError(name, statusCode, code) ==
    [name |-> name, statusCode |-> statusCode, code |-> code,
     retryAfterSeconds |-> Never]

AuthenticationError == DomainError("AuthenticationError", 401, "AUTHENTICATION_FAILED")

TenantIsolationError ==
    DomainError("TenantIsolationError", 403, "TENANT_ISOLATION_VIOLATION")

DecryptionError == DomainError("DecryptionError", 500, "DECRYPTION_FAILED")

EncryptionError == DomainError("EncryptionError", 500, "ENCRYPTION_FAILED")

RateLimitExceededError(seconds) ==
    [DomainError("RateLimitExceededError", 429, "RATE_LIMIT_EXCEEDED")
        EXCEPT !.retryAfterSeconds = Given(seconds, 60)]

KeyNotFoundError == DomainError("KeyNotFoundError", 404, "KEY_NOT_FOUND")

\* The only one whose seconds may be missing, or 0.
KeyExhaustedError(seconds) ==
    [DomainError("KeyExhaustedError", 429, "ALL_KEYS_EXHAUSTED")
        EXCEPT !.retryAfterSeconds = seconds]

InvalidKeyError == DomainError("InvalidKeyError", 400, "INVALID_KEY")

QuotaExceededError == DomainError("QuotaExceededError", 429, "QUOTA_EXCEEDED")

CircuitBreakerTrippedError(seconds) ==
    [DomainError("CircuitBreakerTrippedError", 503, "CIRCUIT_BREAKER_OPEN")
        EXCEPT !.retryAfterSeconds = Given(seconds, 60)]

ProviderRoutingError(statusCode) ==
    DomainError("ProviderRoutingError", statusCode,
                IF statusCode = 504 THEN "GATEWAY_TIMEOUT" ELSE "BAD_GATEWAY")

ModelNotFoundError == DomainError("ModelNotFoundError", 404, "MODEL_NOT_FOUND")

UnknownModelAliasError ==
    DomainError("UnknownModelAliasError", 400, "UNKNOWN_MODEL_ALIAS")

NoAvailableProviderError ==
    DomainError("NoAvailableProviderError", 503, "NO_AVAILABLE_PROVIDER")

ProviderTimeoutError == DomainError("ProviderTimeoutError", 504, "GATEWAY_TIMEOUT")

CapabilityMismatchError ==
    DomainError("CapabilityMismatchError", 400, "CAPABILITY_MISMATCH")

FallbackExhaustedError ==
    DomainError("FallbackExhaustedError", 502, "FALLBACK_EXHAUSTED")

ContextWindowExceededError ==
    DomainError("ContextWindowExceededError", 400, "CONTEXT_WINDOW_EXCEEDED")

TelemetryEmissionError ==
    DomainError("TelemetryEmissionError", 500, "TELEMETRY_EMISSION_FAILED")

InvalidTelemetryEventError ==
    DomainError("InvalidTelemetryEventError", 400, "INVALID_TELEMETRY_EVENT")

RouterError(statusCode, code) == DomainError("RouterError", statusCode, code)

\* Any other exception: an abort, a TypeError, a failed call of D1.
Exception == DomainError("Error", 500, "INTERNAL_ROUTING_ERROR")

isDomainError(e) == e # Exception

-----------------------------------------------------------------------------
(* Answers.                                                                *)

\* retryAfter and authenticate are the headers retry-after, www-authenticate.
Answer(status, code, retryAfter, authenticate) ==
    [status |-> status, code |-> code, retryAfter |-> retryAfter,
     authenticate |-> authenticate]

OK == Answer(200, "OK", Never, FALSE)

\* DomainError.toResponse, and the subclasses that add a header to it.
toResponse(e) ==
    Answer(e.statusCode, e.code,
           CASE e.name = "KeyExhaustedError" /\ e.retryAfterSeconds = 0 -> Never
             [] OTHER -> e.retryAfterSeconds,
           e.name = "AuthenticationError")

\* What handleHttpFetch of a Durable Object makes of what it catches.
objectAnswer(e) ==
    IF isDomainError(e) THEN toResponse(e) ELSE Answer(500, "NONE", Never, FALSE)

\* formatAuthError, for AuthMiddleware.handle and authenticateSafe.
formatAuthError(e) ==
    CASE e.name = "QuotaExceededError" ->
             [toResponse(e) EXCEPT !.retryAfter = DEFAULT_RETRY_AFTER_SECONDS]
      [] isDomainError(e) -> toResponse(e)
      [] OTHER -> Answer(500, "INTERNAL_AUTH_ERROR", Never, FALSE)

\* Wrong: the seconds of the error are left out.
formatRouterErrorBare(e) ==
    Answer(e.statusCode, e.code, Never, e.name = "AuthenticationError")

\* formatRouterError: of the errors that know when to come back it asks
\* RateLimitExceededError alone.
formatRouterError(e) ==
    Answer(e.statusCode, e.code,
           IF e.name = "RateLimitExceededError" THEN e.retryAfterSeconds
           ELSE IF e.name = "QuotaExceededError" THEN DEFAULT_RETRY_AFTER_SECONDS
           ELSE Never,
           e.name = "AuthenticationError")

-----------------------------------------------------------------------------
(* Errors out of answers.                                                  *)

\* parseRetryAfter: seconds, rounded up; a date, at least one second from now;
\* 60 for no header and for anything else.  A header is [kind, value], its
\* value in tenths of a second, a date's from now on.
parseRetryAfter(header) ==
    LET up == (header.value + 9) \div 10 IN
    CASE header.kind = "seconds" -> up
      [] header.kind = "date" -> Max2(1, up)
      [] OTHER -> 60

mapUpstreamHttpError(status, header) ==
    CASE status = 429 -> RateLimitExceededError(parseRetryAfter(header))
      [] status \in {401, 403} -> InvalidKeyError
      [] status \in {408, 504} -> ProviderTimeoutError
      [] OTHER -> ProviderRoutingError(502)

\* DurableObjectKeyPoolClient.getKey, of an answer that is not ok.
getKeyError(res) ==
    CASE res.status = 429 -> RateLimitExceededError(Never)
      [] res.status = 403 -> TenantIsolationError
      [] OTHER -> KeyNotFoundError

=============================================================================
