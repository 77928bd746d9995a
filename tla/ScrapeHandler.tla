---------------------------- MODULE ScrapeHandler ---------------------------
(***************************************************************************)
(* The life of the requests to one endpoint: MetricsHandler.ServeHTTP over *)
(* collector.ClientCache, or GMPHandler.ServeHTTP over gmp.ClientCache, as *)
(* Backend says.  A request passes the concurrency gate, is parsed, gets   *)
(* its client from the cache (a call of ClientCache's Get, with the        *)
(* request's context), queries the upstream with it and is answered; the   *)
(* deferred calls then cancel its context and free its slot.               *)
(*                                                                         *)
(* The upstream, the timer of the scrape deadline, the network connection  *)
(* of the caller and the expiry of tokens are the environment.  The pages  *)
(* of one query, and the descriptor lookup before it, are one upstream     *)
(* call here.                                                              *)
(***************************************************************************)
EXTENDS ClientCache, ErrorMapping, FiniteSets

CONSTANTS MaxConcurrent,   \* capacity of the semaphore channel
          RefreshUsesCtx   \* whether the oauth2 token source of the base
                           \* credentials fetches tokens under the context it
                           \* was created with: so it does for user and
                           \* external-account credentials, not for a service
                           \* account key file

ASSUME HandlerAssumption ==
    /\ MaxConcurrent \in Nat \ {0}
    /\ RefreshUsesCtx \in BOOLEAN
    /\ IsFiniteSet(Callers)

Requests == Callers

VARIABLES pc,       \* where each request is in ServeHTTP
          ctx,      \* its context: "none" before it is derived
          gone,     \* requests whose client has closed the connection
          sem,      \* number of slots taken in the semaphore channel
          asked,    \* the impersonate_sa parameter
          fresh,    \* clients whose token source holds an unexpired token
          answer,   \* what the request was answered, until it returns
          reason    \* history: the condition that ended it

handlerVars == <<pc, ctx, gone, sem, asked, fresh, answer, reason>>
vars == <<cacheVars, handlerVars>>

Reasons == {"none", "ok", "cap_hit", "bad_request", "not_found", "quota",
            "max_series", "auth", "upstream_deadline", "timeout", "gone", "other"}

HandlerTypeOK ==
    /\ pc \in [Requests -> {"new", "admitted", "getting", "fetching", "calling",
                            "answered", "done"}]
    /\ ctx \in [Requests -> {"none", "live", "deadline_exceeded", "canceled"}]
    /\ gone \subseteq Requests
    /\ sem \in 0..MaxConcurrent
    /\ asked \in [Requests -> Keys]
    /\ fresh \subseteq 1..Len(made)
    /\ answer \in [Requests -> Answers]
    /\ reason \in [Requests -> Reasons]

TypeOK == CacheTypeOK /\ HandlerTypeOK

Init == /\ CacheInit
        /\ pc = [r \in Requests |-> "new"]
        /\ ctx = [r \in Requests |-> "none"]
        /\ gone = {}
        /\ sem = 0
        /\ asked = [r \in Requests |-> NoSA]
        /\ fresh = {}
        /\ answer = [r \in Requests |-> NoAnswer]
        /\ reason = [r \in Requests |-> "none"]

MapError(err) == IF Backend = "monitoring" THEN mapError(err) ELSE mapGMPError(err)

\* The conditions under which a query fails at an upstream that is reached,
\* and the errors the client library or gmp.Client makes of them: those that
\* the mappings know, and some that they do not.  A deadline or a cancellation
\* of the upstream's own comes as the same gRPC status as one of the request's.
\* The series cap, which is Collect's own error, is found in the response.
UpstreamErrors ==
    IF Backend = "monitoring"
    THEN [bad_request |-> {GrpcError("InvalidArgument")},
          not_found   |-> {GrpcError("NotFound")},
          quota       |-> {GrpcError("ResourceExhausted")},
          max_series  |-> {Sentinel("max_series")},
          auth        |-> {GrpcError("PermissionDenied"), GrpcError("Unauthenticated")},
          upstream_deadline |-> {GrpcError("DeadlineExceeded")},
          other       |-> {GrpcError("Canceled"), GrpcError("Unavailable"), OtherError}]
    ELSE [bad_request |-> {APIError(400)},
          quota       |-> {APIError(429)},
          auth        |-> {APIError(401), APIError(403)},
          other       |-> {APIError(404), APIError(500), APIError(503), OtherError}]

\* How the client reports that the context of a call is over.  gRPC gives a
\* status of that code, or the bare context error while it backs off between
\* two attempts; net/http wraps the context error.
ContextErrors(cause) ==
    IF Backend = "monitoring"
    THEN {Sentinel(cause),
          GrpcError(IF cause = "canceled" THEN "Canceled" ELSE "DeadlineExceeded")}
    ELSE {Sentinel(cause)}

\* How a token that cannot be fetched is reported: gRPC makes it an
\* Unauthenticated status, net/http wraps the error of the token source.
TokenErrors(err) ==
    IF Backend = "monitoring" THEN {GrpcError("Unauthenticated")} ELSE {err}

-----------------------------------------------------------------------------
(* ServeHTTP *)

\* Fault: the gate does not look at the capacity.
AdmitAlways(r) ==
    /\ pc[r] = "new"
    /\ sem' = sem + 1
    /\ pc' = [pc EXCEPT ![r] = "admitted"]
    /\ UNCHANGED <<cacheVars, ctx, gone, asked, fresh, answer, reason>>

Admit(r) ==
    /\ pc[r] = "new"
    /\ sem < MaxConcurrent
    /\ sem' = sem + 1
    /\ pc' = [pc EXCEPT ![r] = "admitted"]
    /\ UNCHANGED <<cacheVars, ctx, gone, asked, fresh, answer, reason>>

Respond(r, ans, why) ==
    /\ answer' = [answer EXCEPT ![r] = ans]
    /\ reason' = [reason EXCEPT ![r] = why]

\* Fault: the deferred release covers the rejected request too.
RejectReleases(r) ==
    /\ pc[r] = "new"
    /\ sem = MaxConcurrent
    /\ pc' = [pc EXCEPT ![r] = "done"]
    /\ sem' = sem - 1
    /\ Respond(r, TooManyRequests, "cap_hit")
    /\ UNCHANGED <<cacheVars, ctx, gone, asked, fresh>>

\* The gate never blocks; a rejected request holds no slot.
Reject(r) ==
    /\ pc[r] = "new"
    /\ sem = MaxConcurrent
    /\ pc' = [pc EXCEPT ![r] = "done"]
    /\ Respond(r, TooManyRequests, "cap_hit")
    /\ UNCHANGED <<cacheVars, ctx, gone, sem, asked, fresh>>

Finish(r, ans, why) ==
    /\ pc' = [pc EXCEPT ![r] = "answered"]
    /\ Respond(r, ans, why)
    /\ UNCHANGED <<ctx, gone, sem, asked>>

ParseFails(r) ==
    /\ pc[r] = "admitted"
    /\ Finish(r, BadRequest, "bad_request")
    /\ UNCHANGED <<cacheVars, fresh>>

\* Fault: the parser leaves the default account to the cache.
ParsedRaw(r, sa) ==
    /\ pc[r] = "admitted"
    /\ pc' = [pc EXCEPT ![r] = "getting"]
    /\ asked' = [asked EXCEPT ![r] = sa]
    /\ ctx' = [ctx EXCEPT ![r] = IF r \in gone THEN "canceled" ELSE "live"]
    /\ GetCalled(r, sa)
    /\ UNCHANGED <<gone, sem, fresh, answer, reason>>

\* The impersonation target is settled, the context derived (already over
\* when the client has left) and the cache called.
Parsed(r, sa) ==
    /\ pc[r] = "admitted"
    /\ pc' = [pc EXCEPT ![r] = "getting"]
    /\ asked' = [asked EXCEPT ![r] = sa]
    /\ ctx' = [ctx EXCEPT ![r] = IF r \in gone THEN "canceled" ELSE "live"]
    /\ GetCalled(r, IF sa # NoSA THEN sa ELSE DefaultSA)
    /\ UNCHANGED <<gone, sem, fresh, answer, reason>>

\* A step of ClientCache.Get, run by the request's goroutine.
InCache(r) == GetStep(r) /\ UNCHANGED handlerVars

BuildFailed(r) ==
    /\ pc[r] = "getting"
    /\ phase[r] = "returned" /\ got[r] = 0
    /\ Finish(r, MapError(OtherError), "auth")
    /\ UNCHANGED <<cacheVars, fresh>>

HasClient(r) ==
    /\ pc[r] = "getting"
    /\ phase[r] = "returned" /\ got[r] # 0
    /\ pc' = [pc EXCEPT ![r] = "fetching"]
    /\ UNCHANGED <<cacheVars, ctx, gone, sem, asked, fresh, answer, reason>>

\* buildRequest knows no such aligner or reducer: Collect returns before it
\* calls anybody.
InvalidAggregation(r) ==
    /\ Backend = "monitoring"
    /\ pc[r] = "fetching"
    /\ Finish(r, MapError(Sentinel("invalid_aggregation")), "bad_request")
    /\ UNCHANGED <<cacheVars, fresh>>

\* Why a request whose context is over was not served.
Over(r) == IF ctx[r] = "canceled" THEN "gone" ELSE "timeout"

\* The first thing an upstream call needs is a token.  A token source bound
\* to the context of the request that built the client can fetch one only
\* while that context is live.
CanRefresh(i) == RefreshUsesCtx => ctx[made[i].ctx] = "live"

GetToken(r) ==
    /\ pc[r] = "fetching"
    /\ got[r] \in fresh \/ CanRefresh(got[r])
    /\ fresh' = fresh \cup {got[r]}
    /\ pc' = [pc EXCEPT ![r] = "calling"]
    /\ UNCHANGED <<cacheVars, ctx, gone, sem, asked, answer, reason>>

\* The token endpoint refuses, or the context it is called under is over: the
\* request's own, if it built the client, or that of the one that did.
TokenFails(r) ==
    /\ pc[r] = "fetching"
    /\ got[r] \notin fresh
    /\ LET builder == made[got[r]].ctx
       IN  \E err \in TokenErrors(IF CanRefresh(got[r]) THEN OtherError
                                  ELSE Sentinel(ctx[builder])) :
               Finish(r, MapError(err),
                      IF CanRefresh(got[r]) \/ builder # r THEN "auth" ELSE Over(r))
    /\ UNCHANGED <<cacheVars, fresh>>

Succeed(r) ==
    /\ pc[r] = "calling"
    /\ Finish(r, OK, "ok")
    /\ UNCHANGED <<cacheVars, fresh>>

UpstreamFails(r) ==
    /\ pc[r] = "calling"
    /\ \E why \in DOMAIN UpstreamErrors : \E err \in UpstreamErrors[why] :
           Finish(r, MapError(err), why)
    /\ UNCHANGED <<cacheVars, fresh>>

\* Fault: the context of the call is not derived from the request's.
GiveUpOnDeadline(r) ==
    /\ pc[r] = "calling"
    /\ ctx[r] = "deadline_exceeded"
    /\ \E err \in ContextErrors(ctx[r]) : Finish(r, MapError(err), Over(r))
    /\ UNCHANGED <<cacheVars, fresh>>

\* The call ends because the request's own context is over.
GiveUp(r) ==
    /\ pc[r] = "calling"
    /\ ctx[r] # "live"
    /\ \E err \in ContextErrors(ctx[r]) :
           Finish(r, MapError(err), Over(r))
    /\ UNCHANGED <<cacheVars, fresh>>

\* Fault: the slot is freed on the success path only.
ReturnKeepsSlot(r) ==
    /\ pc[r] = "answered"
    /\ pc' = [pc EXCEPT ![r] = "done"]
    /\ ctx' = [ctx EXCEPT ![r] = IF @ = "live" THEN "canceled" ELSE @]
    /\ sem' = IF answer[r] = OK THEN sem - 1 ELSE sem
    /\ IF phase[r] = "returned" THEN GetTaken(r) ELSE UNCHANGED cacheVars
    /\ Respond(r, NoAnswer, "none")
    /\ UNCHANGED <<gone, asked, fresh>>

\* The deferred calls of ServeHTTP: cancel the context, free the slot.  The
\* client the request was given and its history go with it.
Return(r) ==
    /\ pc[r] = "answered"
    /\ pc' = [pc EXCEPT ![r] = "done"]
    /\ ctx' = [ctx EXCEPT ![r] = IF @ = "live" THEN "canceled" ELSE @]
    /\ sem' = sem - 1
    /\ IF phase[r] = "returned" THEN GetTaken(r) ELSE UNCHANGED cacheVars
    /\ Respond(r, NoAnswer, "none")
    /\ UNCHANGED <<gone, asked, fresh>>

-----------------------------------------------------------------------------
(* Environment *)

DeadlineFires(r) ==
    /\ ctx[r] = "live"
    /\ ctx' = [ctx EXCEPT ![r] = "deadline_exceeded"]
    /\ UNCHANGED <<cacheVars, pc, gone, sem, asked, fresh, answer, reason>>

\* net/http cancels r.Context() when the connection is closed.
ClientLeaves(r) ==
    /\ r \notin gone
    /\ pc[r] # "done"
    /\ gone' = gone \cup {r}
    /\ ctx' = [ctx EXCEPT ![r] = IF @ = "live" THEN "canceled" ELSE @]
    /\ UNCHANGED <<cacheVars, pc, sem, asked, fresh, answer, reason>>

TokenExpires(i) ==
    /\ i \in fresh
    /\ fresh' = fresh \ {i}
    /\ UNCHANGED <<cacheVars, pc, ctx, gone, sem, asked, answer, reason>>

-----------------------------------------------------------------------------

Gate(r) == Admit(r) \/ Reject(r)

Parse(r) == ParseFails(r) \/ \E sa \in Keys : Parsed(r, sa)

UseClient(r) == BuildFailed(r) \/ HasClient(r)

Token(r) == GetToken(r) \/ TokenFails(r)

Reply(r) == Succeed(r) \/ UpstreamFails(r)

RequestStep(r) == \/ Gate(r)
                  \/ Parse(r)
                  \/ InCache(r)
                  \/ UseClient(r)
                  \/ InvalidAggregation(r)
                  \/ Token(r)
                  \/ Reply(r)
                  \/ GiveUp(r)
                  \/ Return(r)
                  \/ DeadlineFires(r)
                  \/ ClientLeaves(r)

Next == \/ \E r \in Requests : RequestStep(r)
        \/ \E i \in fresh : TokenExpires(i)

Spec == Init /\ [][Next]_vars

\* The handler's goroutine runs, a token that is still valid is used, timers
\* fire, and an upstream call returns once its context is over.  Nothing is
\* assumed of the upstream or of the token endpoint, neither of which need ever
\* reply, nor of clients.
Fairness == \A r \in Requests : /\ SF_vars(GetLocks(r) /\ UNCHANGED handlerVars)
                                /\ WF_vars(Build(r) /\ UNCHANGED handlerVars)
                                /\ WF_vars(Gate(r))
                                /\ WF_vars(Parse(r))
                                /\ WF_vars(UseClient(r))
                                /\ WF_vars(got[r] \in fresh /\ GetToken(r))
                                /\ WF_vars(GiveUp(r))
                                /\ WF_vars(Return(r))
                                /\ WF_vars(DeadlineFires(r))

FairSpec == Spec /\ Fairness

-----------------------------------------------------------------------------
(* Properties *)

Holders == {r \in Requests : pc[r] \notin {"new", "done"}}

\* The semaphore counts exactly the requests in flight, on every path out of
\* ServeHTTP: the cap is never exceeded and no slot is ever lost.
SlotsMatch == sem = Cardinality(Holders)

\* A request is turned away with 429 only at a moment when MaxConcurrent
\* others are really being served.
RejectedOnlyWhenFull ==
    [][\A r \in Requests : pc[r] = "new" /\ pc'[r] = "done"
                            => Cardinality(Holders) = MaxConcurrent]_vars

\* The query runs as the principal that impersonate_sa names, or else as the
\* configured default, whoever built the client (README, Authentication).
ServedAsAsked ==
    \A r \in Requests : pc[r] \in {"fetching", "calling"} =>
        made[got[r]].as = IF asked[r] # NoSA THEN asked[r] ELSE DefaultSA

\* Naming the default account and naming none share one client: the handler
\* settles the default before it asks the cache, which would make two.
OneClientPerPrincipal ==
    \A i, j \in open : made[i].as = made[j].as => i = j

\* The table under "Error mapping" in the README, and what TestServeHTTP_ErrorMapping has for
\* a deadline of the upstream's own: the condition that ended a request,
\* wherever it arose, decides what is answered.
Documented == [ok |-> OK, cap_hit |-> TooManyRequests, bad_request |-> BadRequest,
               not_found |-> NotFound, quota |-> QuotaExhausted,
               max_series |-> MaxSeriesExceeded, auth |-> BadGateway,
               upstream_deadline |-> GatewayTimeout, timeout |-> GatewayTimeout]

DocumentedStatus ==
    \A r \in Requests : reason[r] \in DOMAIN Documented
                         => answer[r] = Documented[reason[r]]

\* The token source of the client that r was given is bound to the context of
\* another request, or its own, which ended for this cause.
BuilderOver(r, cause) ==
    /\ RefreshUsesCtx /\ Backend = "gmp"
    /\ got[r] # 0 /\ ctx[made[got[r]].ctx] = cause

RightlyBlamed(r) ==
    /\ answer[r] = ClientClosed => r \in gone \/ BuilderOver(r, "canceled")
    /\ answer[r] = GatewayTimeout => \/ ctx[r] = "deadline_exceeded"
                                    \/ reason[r] = "upstream_deadline"
                                    \/ BuilderOver(r, "deadline_exceeded")

\* Blame is laid on the right party: 499 only for a request whose client
\* left, 504 only for one whose own deadline passed or for which the upstream
\* reported one of its own (nonStandardClientClosed and the "deadline" answers
\* of the handlers).  The one way to be blamed for somebody else is a cached
\* client of /gmp-metrics whose token source is bound to another's context.
Blame == \A r \in Requests : RightlyBlamed(r)

\* A request that ends because its client left is logged as 499.
ClientGoneIs499 ==
    \A r \in Requests : reason[r] = "gone" => answer[r] = ClientClosed

\* A cached client serves later requests, long after the request that built
\* it is over: its expired token can always be replaced (README, "cached for
\* the lifetime of the process").
ClientOutlivesBuilder ==
    \A r \in Requests : pc[r] = "fetching" /\ ctx[r] = "live"
                         => got[r] \in fresh \/ CanRefresh(got[r])

\* Every request that passes the gate returns and frees its slot, even if the
\* upstream never replies and whatever its client does.  The one thing that can
\* hold it for ever is a token endpoint that never answers: a token is fetched
\* without the request's context and without a timeout.
EveryRequestReturns ==
    \A r \in Requests :
        \/ pc[r] = "admitted" ~> pc[r] = "done"
        \/ <>[](pc[r] = "fetching" /\ got[r] \notin fresh)
=============================================================================
