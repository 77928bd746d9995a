------------------------- MODULE ScrapeHandlerProofs ------------------------
(***************************************************************************)
(* The safety of ScrapeHandler, for any number of requests, slots and      *)
(* accounts.  The handler only uses the cache as ClientCache says it may   *)
(* be used, so that the invariant of the cache carries over; what is added *)
(* is where a request can be in the cache at each point of ServeHTTP       *)
(* (Serving) and that the handler never asks the cache for "" when there   *)
(* is a default account (Settled).                                         *)
(***************************************************************************)
EXTENDS ScrapeHandler, ClientCacheProofs, FiniteSetTheorems

Serving ==
    \A r \in Requests :
        /\ pc[r] \in {"new", "admitted", "done"} => phase[r] = "idle"
        /\ pc[r] \in {"fetching", "calling"} => phase[r] = "returned" /\ got[r] # 0
        /\ pc[r] = "answered" => phase[r] \in {"idle", "returned"}
        /\ pc[r] \in {"getting", "fetching", "calling"}
             => ctx[r] # "none" /\ want[r] = Principal(asked[r])

Settled ==
    /\ \A r \in Requests : phase[r] # "idle" => Principal(want[r]) = want[r]
    /\ \A i \in 1..Len(made) : made[i].as = made[i].key

HandlerInv == /\ CacheInv
              /\ HandlerTypeOK
              /\ SlotsMatch
              /\ Serving
              /\ Settled

-----------------------------------------------------------------------------

\* Every step of the handler is a step of the cache, or leaves it alone.
LEMMA CacheSteps == [Next]_vars => [CacheNext]_cacheVars
  <1> SUFFICES ASSUME [Next]_vars
               PROVE  [CacheNext]_cacheVars
    OBVIOUS
  <1>1. ASSUME NEW r \in Requests, Parse(r)
        PROVE  [CacheNext]_cacheVars
    <2>1. CASE ParseFails(r)
      BY <2>1 DEF ParseFails
    <2>2. ASSUME NEW sa \in Keys, Parsed(r, sa)
          PROVE  [CacheNext]_cacheVars
      <3>1. \E k \in Keys : GetCalled(r, k)
        BY <2>2, CacheAssumption DEF Parsed
      <3> QED BY <3>1 DEF CacheNext, Requests
    <2> QED BY <1>1, <2>1, <2>2 DEF Parse
  <1>2. ASSUME NEW r \in Requests, InCache(r)
        PROVE  [CacheNext]_cacheVars
    BY <1>2 DEF InCache, CacheNext, Requests
  <1>3. ASSUME NEW r \in Requests, Return(r)
        PROVE  [CacheNext]_cacheVars
    BY <1>3 DEF Return, CacheNext, Requests
  <1>4. ASSUME NEW r \in Requests,
               \/ Gate(r) \/ UseClient(r) \/ InvalidAggregation(r) \/ Token(r) \/ Reply(r)
               \/ GiveUp(r) \/ DeadlineFires(r) \/ ClientLeaves(r)
        PROVE  UNCHANGED cacheVars
    BY <1>4 DEF Gate, Admit, Reject, UseClient, BuildFailed, HasClient, InvalidAggregation,
                Token, GetToken, TokenFails, Reply, Succeed, UpstreamFails, GiveUp,
                DeadlineFires, ClientLeaves
  <1>5. ASSUME NEW i \in fresh, TokenExpires(i)
        PROVE  UNCHANGED cacheVars
    BY <1>5 DEF TokenExpires
  <1>6. CASE UNCHANGED vars
    BY <1>6 DEF vars
  <1> QED BY <1>1, <1>2, <1>3, <1>4, <1>5, <1>6 DEF Next, RequestStep

\* The handler is a correct user of the cache.
THEOREM HandlerUsesCache == Spec => CacheSpec
  <1>1. Init => CacheInit
    BY DEF Init
  <1> QED BY <1>1, CacheSteps, PTL DEF Spec, CacheSpec

\* Clients are only ever added, each by a caller that was dialing.
LEMMA MadeNext ==
    ASSUME CacheInv, [CacheNext]_cacheVars
    PROVE  /\ \A i \in 1..Len(made) : i \in 1..Len(made') /\ made'[i] = made[i]
           /\ \A i \in 1..Len(made') :
                \/ i \in 1..Len(made)
                \/ \E c \in Callers : /\ phase[c] = "dialing"
                                      /\ made'[i].key = want[c]
                                      /\ made'[i].as = Principal(want[c])
                                      /\ made'[i].ctx = c
  <1>1. CASE made' = made
    BY <1>1
  <1>2. ASSUME NEW c \in Callers, Dialed(c)
        PROVE  /\ \A i \in 1..Len(made) : i \in 1..Len(made') /\ made'[i] = made[i]
               /\ \A i \in 1..Len(made') :
                    \/ i \in 1..Len(made)
                    \/ /\ phase[c] = "dialing"
                       /\ made'[i].key = want[c]
                       /\ made'[i].as = Principal(want[c])
                       /\ made'[i].ctx = c
    <2> DEFINE x == [key |-> want[c], as |-> Principal(want[c]), ctx |-> c]
    <2>1. /\ x \in Client /\ made \in Seq(Client)
          /\ x.key = want[c] /\ x.as = Principal(want[c]) /\ x.ctx = c
      BY PrincipalType DEF Client, CacheInv, CacheTypeOK
    <2>2. made' = Append(made, x) /\ phase[c] = "dialing"
      BY <1>2 DEF Dialed
    <2> HIDE DEF x
    <2>3. /\ Len(made) \in Nat /\ Len(made') = Len(made) + 1
          /\ made'[Len(made) + 1] = x
          /\ \A i \in 1..Len(made) : made'[i] = made[i]
      BY <2>1, <2>2, AppendClient
    <2>4. \A i \in 1..Len(made') : i \in 1..Len(made) \/ i = Len(made) + 1
      BY <2>3
    <2>5. \A i \in 1..Len(made) : i \in 1..Len(made')
      BY <2>3
    <2> QED BY <2>1, <2>2, <2>3, <2>4, <2>5
  <1>3. made' = made \/ \E c \in Callers : Dialed(c)
    BY DEF CacheNext, GetStep, Build, CloseStep, Sweep, cacheVars, GetCalled, GetLocks,
           GetHits, TokenSourceFails, TokenSourceBuilt, DialFails, GetTaken,
           CloseCalled, CloseLocks, CloseOne, CloseReturns
  <1> QED BY <1>1, <1>2, <1>3

\* Every error has an answer.
LEMMA MapErrorType == \A err : MapError(err) \in Answers
  BY DEF MapError, mapError, mapGMPError, Answers, NoAnswer, OK, TooManyRequests,
         BadRequest, NotFound, BadGateway, QuotaExhausted, MaxSeriesExceeded,
         GatewayTimeout, ClientClosed

\* One request takes a slot: the number of requests in flight grows by one.
LEMMA Enter ==
    ASSUME HandlerTypeOK, NEW r \in Requests,
           pc[r] = "new", pc' = [pc EXCEPT ![r] = "admitted"]
    PROVE  Cardinality(Holders') = Cardinality(Holders) + 1
  <1>1. Holders' = Holders \cup {r} /\ r \notin Holders
    BY DEF HandlerTypeOK, Holders
  <1>2. IsFiniteSet(Holders)
    BY HandlerAssumption, FS_Subset DEF Holders, Requests
  <1> QED BY <1>1, <1>2, FS_AddElement

\* One request gives its slot back.
LEMMA Leave ==
    ASSUME HandlerTypeOK, NEW r \in Requests,
           pc[r] \notin {"new", "done"}, pc' = [pc EXCEPT ![r] = "done"]
    PROVE  /\ Cardinality(Holders') = Cardinality(Holders) - 1
           /\ Cardinality(Holders) \in Nat \ {0}
  <1>1. Holders' = Holders \ {r} /\ r \in Holders
    BY DEF HandlerTypeOK, Holders
  <1>2. IsFiniteSet(Holders)
    BY HandlerAssumption, FS_Subset DEF Holders, Requests
  <1>3. Cardinality(Holders) \in Nat /\ Cardinality(Holders) # 0
    BY <1>1, <1>2, FS_CardinalityType, FS_EmptySet
  <1> QED BY <1>1, <1>2, <1>3, FS_RemoveElement

\* A request that stays in flight, or stays out, changes nothing.
LEMMA Stay ==
    ASSUME HandlerTypeOK, NEW r \in Requests, NEW p,
           pc[r] \in {"new", "done"} <=> p \in {"new", "done"},
           pc' = [pc EXCEPT ![r] = p]
    PROVE  Holders' = Holders
  BY DEF HandlerTypeOK, Holders

-----------------------------------------------------------------------------
(* The inductive invariant *)

\* The inductive invariant holds initially.
LEMMA HandlerInvInit == Init => HandlerInv
  <1> SUFFICES ASSUME Init
               PROVE  HandlerInv
    OBVIOUS
  <1> USE DEF Init
  <1>1. CacheInv
    BY CacheInvInit
  <1>2. made = <<>> /\ 1..Len(made) = {} /\ phase = [c \in Callers |-> "idle"]
    BY DEF CacheInit
  <1>3. HandlerTypeOK
    BY <1>2, HandlerAssumption DEF HandlerTypeOK, Keys, Answers, Reasons
  <1>4. SlotsMatch
    <2>1. Holders = {}
      BY DEF Holders
    <2> QED BY <2>1, FS_EmptySet DEF SlotsMatch
  <1>5. Serving /\ Settled
    BY <1>2 DEF Serving, Settled, Requests
  <1> QED BY <1>1, <1>3, <1>4, <1>5 DEF HandlerInv

\* Asking the cache for the principal itself asks for no default.
LEMMA PrincipalSettled == \A k \in Keys : Principal(Principal(k)) = Principal(k)
  BY DEF Principal

\* The answers and reasons a request can end with keep the types.
LEMMA FinishType ==
    ASSUME HandlerTypeOK, NEW r \in Requests, NEW ans \in Answers, NEW why \in Reasons,
           Finish(r, ans, why), fresh' = fresh, made' = made
    PROVE  HandlerTypeOK'
  BY DEF HandlerTypeOK, Finish, Respond

\* A request that ends stays in flight until it returns, and the clients and
\* keys of the others are as they were.
LEMMA FinishKeeps ==
    ASSUME HandlerInv, NEW r \in Requests, NEW ans \in Answers, NEW why \in Reasons,
           Finish(r, ans, why), UNCHANGED <<cacheVars, fresh>>,
           pc[r] \notin {"new", "answered", "done"}, phase[r] \in {"idle", "returned"}
    PROVE  HandlerInv'
  <1>1. CacheInv'
    BY CacheInvNext DEF HandlerInv
  <1>2. HandlerTypeOK'
    BY FinishType DEF HandlerInv, cacheVars
  <1>3. SlotsMatch'
    <2>1. Holders' = Holders
      BY Stay DEF HandlerInv, Finish
    <2> QED BY <2>1 DEF HandlerInv, SlotsMatch, Finish
  <1>4. Serving' /\ Settled'
    BY DEF HandlerInv, HandlerTypeOK, Serving, Settled, Finish, cacheVars
  <1> QED BY <1>1, <1>2, <1>3, <1>4 DEF HandlerInv

\* The errors of the upstream have reasons of their own.
LEMMA UpstreamReasons == DOMAIN UpstreamErrors \subseteq Reasons
  BY DEF UpstreamErrors, Reasons

\* Every step preserves the inductive invariant.
LEMMA HandlerInvNext == HandlerInv /\ [Next]_vars => HandlerInv'
  <1> SUFFICES ASSUME HandlerInv, [Next]_vars
               PROVE  HandlerInv'
    OBVIOUS
  <1>0. CacheInv /\ HandlerTypeOK /\ SlotsMatch /\ Serving /\ Settled
    BY DEF HandlerInv
  <1>c. CacheInv' /\ [CacheNext]_cacheVars
    BY CacheSteps, CacheInvNext, <1>0
  <1>t. /\ BadRequest \in Answers /\ TooManyRequests \in Answers
        /\ OK \in Answers /\ NoAnswer \in Answers
        /\ {"none", "ok", "cap_hit", "bad_request", "auth", "gone", "timeout"} \subseteq Reasons
    BY DEF Answers, Reasons
  <1>1. ASSUME NEW r \in Requests, Admit(r)
        PROVE  HandlerInv'
    <2>1. SlotsMatch' /\ sem' \in 0..MaxConcurrent
      <3>1. Cardinality(Holders') = Cardinality(Holders) + 1
        BY <1>0, <1>1, Enter DEF Admit
      <3>2. sem' = sem + 1 /\ sem < MaxConcurrent /\ sem \in 0..MaxConcurrent
        BY <1>0, <1>1 DEF Admit, HandlerTypeOK
      <3> QED BY <1>0, <3>1, <3>2, HandlerAssumption DEF SlotsMatch
    <2>2. HandlerTypeOK' /\ Serving' /\ Settled'
      BY <1>0, <1>1, <2>1 DEF Admit, HandlerTypeOK, Serving, Settled, cacheVars
    <2> QED BY <1>c, <2>1, <2>2 DEF HandlerInv
  <1>2. ASSUME NEW r \in Requests, Reject(r)
        PROVE  HandlerInv'
    <2>1. Holders' = Holders
      BY <1>0, <1>2, Stay DEF Reject
    <2>2. HandlerTypeOK' /\ SlotsMatch' /\ Serving' /\ Settled'
      BY <1>0, <1>2, <1>t, <2>1
      DEF Reject, Respond, HandlerTypeOK, SlotsMatch, Serving, Settled, cacheVars
    <2> QED BY <1>c, <2>2 DEF HandlerInv
  <1>3. ASSUME NEW r \in Requests, ParseFails(r)
        PROVE  HandlerInv'
    BY <1>0, <1>3, <1>t, FinishKeeps DEF ParseFails, Serving
  <1>4. ASSUME NEW r \in Requests, NEW sa \in Keys, Parsed(r, sa)
        PROVE  HandlerInv'
    <2>1. Holders' = Holders
      BY <1>0, <1>4, Stay DEF Parsed
    <2>2. GetCalled(r, Principal(sa))
      BY <1>4 DEF Parsed, Principal
    <2>3. HandlerTypeOK' /\ SlotsMatch'
      BY <1>0, <1>4, <2>1, <2>2 DEF Parsed, GetCalled, HandlerTypeOK, SlotsMatch
    <2>4. Serving'
      BY <1>0, <1>4, <2>2, CacheAssumption
      DEF Parsed, GetCalled, Serving, HandlerTypeOK, CacheInv, CacheTypeOK, Requests, Principal
    <2>5. Settled'
      BY <1>0, <2>2, PrincipalSettled DEF GetCalled, Settled, CacheInv, CacheTypeOK, Requests
    <2> QED BY <1>c, <2>3, <2>4, <2>5 DEF HandlerInv
  <1>5. ASSUME NEW r \in Requests, InCache(r)
        PROVE  HandlerInv'
    <2>1. HandlerTypeOK' /\ SlotsMatch'
      <3>1. \A i \in 1..Len(made) : i \in 1..Len(made')
        BY <1>0, <1>c, MadeNext
      <3>2. UNCHANGED handlerVars
        BY <1>5 DEF InCache
      <3> QED BY <1>0, <3>1, <3>2 DEF handlerVars, HandlerTypeOK, SlotsMatch, Holders
    <2>2. /\ phase[r] \in {"waiting", "locked", "dialing"}
          /\ \A q \in Requests : q # r => phase'[q] = phase[q] /\ got'[q] = got[q]
          /\ want' = want
      BY <1>0, <1>5
      DEF InCache, GetStep, Build, GetLocks, GetHits, TokenSourceFails, TokenSourceBuilt,
          DialFails, Dialed, GetReturns, CacheInv, CacheTypeOK, Requests
    <2>3. Serving'
      BY <1>0, <1>5, <2>2 DEF InCache, handlerVars, Serving, HandlerTypeOK
    <2>4. Settled'
      <3>1. \A q \in Requests : phase'[q] # "idle" => Principal(want'[q]) = want'[q]
        BY <1>0, <2>2 DEF Settled
      <3>2. ASSUME NEW i \in 1..Len(made')
            PROVE  made'[i].as = made'[i].key
        <4>1. CASE i \in 1..Len(made)
          BY <1>0, <1>c, <4>1, MadeNext DEF Settled
        <4>2. CASE i \notin 1..Len(made)
          <5>1. PICK c \in Callers : /\ phase[c] = "dialing"
                                     /\ made'[i].key = want[c]
                                     /\ made'[i].as = Principal(want[c])
            BY <1>0, <1>c, <4>2, MadeNext
          <5> QED BY <1>0, <5>1 DEF Settled, Requests
        <4> QED BY <4>1, <4>2
      <3> QED BY <3>1, <3>2 DEF Settled, Principal
    <2> QED BY <1>c, <2>1, <2>3, <2>4 DEF HandlerInv
  <1>6. ASSUME NEW r \in Requests, BuildFailed(r)
        PROVE  HandlerInv'
    BY <1>6, <1>t, MapErrorType, FinishKeeps DEF BuildFailed
  <1>7. ASSUME NEW r \in Requests, HasClient(r)
        PROVE  HandlerInv'
    <2>1. Holders' = Holders
      BY <1>0, <1>7, Stay DEF HasClient
    <2>2. HandlerTypeOK' /\ SlotsMatch' /\ Serving' /\ Settled'
      BY <1>0, <1>7, <2>1 DEF HasClient, HandlerTypeOK, SlotsMatch, Serving, Settled, cacheVars
    <2> QED BY <1>c, <2>2 DEF HandlerInv
  <1>8. ASSUME NEW r \in Requests, GetToken(r)
        PROVE  HandlerInv'
    <2>1. Holders' = Holders
      BY <1>0, <1>8, Stay DEF GetToken
    <2>2. got[r] \in 1..Len(made)
      BY <1>0, <1>8 DEF GetToken, Serving, CacheInv, GotSound, Requests
    <2>3. HandlerTypeOK' /\ SlotsMatch' /\ Serving' /\ Settled'
      BY <1>0, <1>8, <2>1, <2>2 DEF GetToken, HandlerTypeOK, SlotsMatch, Serving, Settled, cacheVars
    <2> QED BY <1>c, <2>3 DEF HandlerInv
  <1>9. ASSUME NEW r \in Requests, TokenFails(r)
        PROVE  HandlerInv'
    <2> DEFINE builder == made[got[r]].ctx
               why == IF CanRefresh(got[r]) \/ builder # r THEN "auth" ELSE Over(r)
    <2>1. PICK err \in TokenErrors(IF CanRefresh(got[r]) THEN OtherError
                                   ELSE Sentinel(ctx[builder])) : Finish(r, MapError(err), why)
      BY <1>9 DEF TokenFails
    <2>2. why \in Reasons
      BY <1>t DEF Over
    <2>3. phase[r] = "returned" /\ pc[r] = "fetching" /\ UNCHANGED <<cacheVars, fresh>>
      BY <1>0, <1>9 DEF TokenFails, Serving
    <2> HIDE DEF why
    <2> QED BY <2>1, <2>2, <2>3, MapErrorType, FinishKeeps
  <1>10. ASSUME NEW r \in Requests, Succeed(r)
         PROVE  HandlerInv'
    BY <1>0, <1>10, <1>t, FinishKeeps DEF Succeed, Serving
  <1>11. ASSUME NEW r \in Requests, UpstreamFails(r)
         PROVE  HandlerInv'
    BY <1>0, <1>11, MapErrorType, UpstreamReasons, FinishKeeps DEF UpstreamFails, Serving
  <1>12. ASSUME NEW r \in Requests, GiveUp(r)
         PROVE  HandlerInv'
    BY <1>0, <1>12, <1>t, MapErrorType, FinishKeeps DEF GiveUp, Over, Serving
  <1>13. ASSUME NEW r \in Requests, Return(r)
         PROVE  HandlerInv'
    <2>1. SlotsMatch' /\ sem' \in 0..MaxConcurrent
      <3>1. /\ Cardinality(Holders') = Cardinality(Holders) - 1
            /\ Cardinality(Holders) \in Nat \ {0}
        BY <1>0, <1>13, Leave DEF Return
      <3>2. sem' = sem - 1 /\ sem \in 0..MaxConcurrent
        BY <1>0, <1>13 DEF Return, HandlerTypeOK
      <3> QED BY <1>0, <3>1, <3>2, HandlerAssumption DEF SlotsMatch
    <2>2. HandlerTypeOK'
      BY <1>0, <1>13, <1>t, <2>1 DEF Return, Respond, GetTaken, HandlerTypeOK, cacheVars
    <2>3. Serving' /\ Settled'
      <3>1. CASE phase[r] = "returned"
        BY <1>0, <1>13, <3>1
        DEF Return, GetTaken, HandlerTypeOK, CacheInv, CacheTypeOK, Serving, Settled, Requests
      <3>2. CASE phase[r] # "returned"
        BY <1>0, <1>13, <3>2 DEF Return, HandlerTypeOK, Serving, Settled, cacheVars
      <3> QED BY <3>1, <3>2
    <2> QED BY <1>c, <2>1, <2>2, <2>3 DEF HandlerInv
  <1>14. ASSUME NEW r \in Requests, DeadlineFires(r) \/ ClientLeaves(r)
         PROVE  HandlerInv'
    <2>1. HandlerTypeOK' /\ SlotsMatch' /\ Serving' /\ Settled'
      BY <1>0, <1>14
      DEF DeadlineFires, ClientLeaves, HandlerTypeOK, SlotsMatch, Holders, Serving, Settled, cacheVars
    <2> QED BY <1>c, <2>1 DEF HandlerInv
  <1>15. ASSUME NEW i \in fresh, TokenExpires(i)
         PROVE  HandlerInv'
    <2>1. HandlerTypeOK' /\ SlotsMatch' /\ Serving' /\ Settled'
      BY <1>0, <1>15
      DEF TokenExpires, HandlerTypeOK, SlotsMatch, Holders, Serving, Settled, cacheVars
    <2> QED BY <1>c, <2>1 DEF HandlerInv
  <1>16. CASE UNCHANGED vars
    <2>1. HandlerTypeOK' /\ SlotsMatch' /\ Serving' /\ Settled'
      BY <1>0, <1>16
      DEF vars, handlerVars, HandlerTypeOK, SlotsMatch, Holders, Serving, Settled, cacheVars
    <2> QED BY <1>c, <2>1 DEF HandlerInv
  <1>17. ASSUME NEW r \in Requests, InvalidAggregation(r)
         PROVE  HandlerInv'
    BY <1>0, <1>17, <1>t, MapErrorType, FinishKeeps DEF InvalidAggregation, Serving
  <1> QED
    BY <1>1, <1>2, <1>3, <1>4, <1>5, <1>6, <1>7, <1>8, <1>9, <1>10, <1>11, <1>12, <1>13,
       <1>14, <1>15, <1>16, <1>17
    DEF Next, RequestStep, Gate, Parse, UseClient, Token, Reply

\* The inductive invariant holds throughout.
THEOREM HandlerInvariant == Spec => []HandlerInv
  BY HandlerInvInit, HandlerInvNext, PTL DEF Spec

-----------------------------------------------------------------------------
(* Results *)

\* The variables of the handler and of its cache keep their types.
THEOREM TypeCorrect == Spec => []TypeOK
  <1>1. HandlerInv => TypeOK
    BY DEF HandlerInv, CacheInv, TypeOK
  <1> QED BY <1>1, HandlerInvariant, PTL

\* No slot is lost and none is taken twice: the semaphore always counts the
\* requests in flight.
THEOREM SlotsAlwaysMatch == Spec => []SlotsMatch
  <1>1. HandlerInv => SlotsMatch
    BY DEF HandlerInv
  <1> QED BY <1>1, HandlerInvariant, PTL

\* A request is turned away only while all slots are really in use.
THEOREM RejectedOnlyWhenFullHolds == Spec => RejectedOnlyWhenFull
  <1>1. ASSUME HandlerInv, [Next]_vars, NEW r \in Requests, pc[r] = "new", pc'[r] = "done"
        PROVE  Cardinality(Holders) = MaxConcurrent
    <2>1. HandlerTypeOK /\ SlotsMatch
      BY <1>1 DEF HandlerInv
    <2>2. \E q \in Requests : Reject(q)
      BY <1>1, <2>1
      DEF HandlerTypeOK, Next, RequestStep, Gate, Admit, Parse, ParseFails, Parsed, Finish, InCache,
          UseClient, BuildFailed, HasClient, InvalidAggregation, Token, GetToken, TokenFails,
          Reply, Succeed, UpstreamFails, GiveUp, Return, DeadlineFires, ClientLeaves,
          TokenExpires, vars, handlerVars
    <2> QED BY <2>1, <2>2 DEF Reject, SlotsMatch
  <1>2. HandlerInv /\ [Next]_vars
          => [\A r \in Requests : pc[r] = "new" /\ pc'[r] = "done"
                                  => Cardinality(Holders) = MaxConcurrent]_vars
    BY <1>1
  <1> QED BY <1>2, HandlerInvariant, PTL DEF Spec, RejectedOnlyWhenFull

\* The client a request holds is the one of the account it asked for.
LEMMA ServesAsAsked == HandlerInv => ServedAsAsked
  <1> SUFFICES ASSUME HandlerInv
               PROVE  ServedAsAsked
    OBVIOUS
  <1>1. CacheInv /\ Serving /\ Settled
    BY DEF HandlerInv
  <1> QED BY <1>1 DEF CacheInv, GotSound, MadeSound, Serving, Settled, ServedAsAsked,
                      Requests, Principal

\* Each query runs as the principal the request asked for.
THEOREM AlwaysServedAsAsked == Spec => []ServedAsAsked
  BY ServesAsAsked, HandlerInvariant, PTL

\* One open client per principal, not only per key.
THEOREM OneClientPerPrincipalHolds == Spec => []OneClientPerPrincipal
  <1>1. ASSUME HandlerInv
        PROVE  OneClientPerPrincipal
    <2>1. CacheInv /\ Settled /\ open \subseteq 1..Len(made)
      BY <1>1 DEF HandlerInv, CacheInv, CacheTypeOK
    <2>2. ASSUME NEW i \in open, NEW j \in open, made[i].as = made[j].as
          PROVE  i = j
      <3>1. made[i].key = made[j].key
        BY <2>1, <2>2 DEF Settled
      <3> QED BY <2>1, <3>1 DEF CacheInv, TableSound
    <2> QED BY <2>2 DEF OneClientPerPrincipal
  <1> QED BY <1>1, HandlerInvariant, PTL

-----------------------------------------------------------------------------
(* Contexts that are over *)

\* The request that built a client has derived its context.
BuilderStarted == \A i \in 1..Len(made) : pc[made[i].ctx] \notin {"new", "admitted"}

\* No step returns a request to where its context is yet to be derived.
LEMMA StartedNext ==
    ASSUME HandlerInv, [Next]_vars, NEW r \in Requests, pc[r] \notin {"new", "admitted"}
    PROVE  pc'[r] \notin {"new", "admitted"}
  BY DEF HandlerInv, HandlerTypeOK, Next, RequestStep, Gate, Admit, Reject, Parse, ParseFails,
         Parsed, Finish, InCache, UseClient, BuildFailed, HasClient, InvalidAggregation, Token,
         GetToken, TokenFails, Reply, Succeed, UpstreamFails, GiveUp, Return, DeadlineFires,
         ClientLeaves, TokenExpires, vars, handlerVars

\* Every step keeps the builders started.
LEMMA BuilderStartedNext ==
    ASSUME HandlerInv, BuilderStarted, [Next]_vars
    PROVE  BuilderStarted'
  <1>0. CacheInv /\ Serving /\ [CacheNext]_cacheVars
    BY CacheSteps DEF HandlerInv
  <1>1. ASSUME NEW i \in 1..Len(made')
        PROVE  pc'[made'[i].ctx] \notin {"new", "admitted"}
    <2>1. CASE i \in 1..Len(made)
      <3>1. made[i].ctx \in Requests /\ pc[made[i].ctx] \notin {"new", "admitted"}
        BY <1>0, <2>1, MadeKey DEF BuilderStarted, CacheInv, Client, Requests
      <3>2. made'[i] = made[i]
        BY <1>0, <2>1, MadeNext
      <3> QED BY <3>1, <3>2, StartedNext
    <2>2. CASE i \notin 1..Len(made)
      <3>1. PICK c \in Callers : phase[c] = "dialing" /\ made'[i].ctx = c
        BY <1>0, <2>2, MadeNext
      <3>2. c \in Requests /\ pc[c] \notin {"new", "admitted"}
        BY <1>0, <3>1 DEF Serving, Requests
      <3> QED BY <3>1, <3>2, StartedNext
    <2> QED BY <2>1, <2>2
  <1> QED BY <1>1 DEF BuilderStarted

\* The builder of every client has derived its context, throughout.
LEMMA BuildersStarted == Spec => []BuilderStarted
  <1>1. Init => BuilderStarted
    BY DEF Init, CacheInit, BuilderStarted
  <1>2. HandlerInv /\ BuilderStarted /\ [Next]_vars => BuilderStarted'
    BY BuilderStartedNext
  <1> QED BY <1>1, <1>2, HandlerInvariant, PTL DEF Spec

\* A context that is over stays as it ended.
LEMMA OverStays ==
    ASSUME HandlerInv, [Next]_vars, NEW r \in Requests,
           pc[r] \notin {"new", "admitted"}, ctx[r] # "live"
    PROVE  ctx'[r] = ctx[r]
  BY DEF HandlerInv, HandlerTypeOK, Next, RequestStep, Gate, Admit, Reject, Parse, ParseFails,
         Parsed, Finish, InCache, UseClient, BuildFailed, HasClient, InvalidAggregation, Token,
         GetToken, TokenFails, Reply, Succeed, UpstreamFails, GiveUp, Return, DeadlineFires,
         ClientLeaves, TokenExpires, vars, handlerVars

-----------------------------------------------------------------------------
(* What requests are answered *)

\* A request that has not ended has no answer, one that has returned keeps
\* none but that of the gate, and a context that is canceled before its request
\* returns is so because the client left.
Unanswered ==
    \A r \in Requests :
        /\ pc[r] \notin {"answered", "done"} => answer[r] = NoAnswer /\ reason[r] = "none"
        /\ pc[r] = "done" => answer[r] \in {NoAnswer, TooManyRequests}
        /\ pc[r] \in {"new", "admitted"} => ctx[r] = "none"
        /\ ctx[r] = "canceled" /\ pc[r] # "done" => r \in gone

\* The documented answers are given where tokens are never bound to a context.
AnswerInv == Unanswered /\ Blame /\ (~RefreshUsesCtx => DocumentedStatus)

\* An answer and the reason for it, given to r, agree with AnswerInv.
Fair(r, ans, why) ==
    /\ ans = ClientClosed => r \in gone \/ BuilderOver(r, "canceled")
    /\ ans = GatewayTimeout => \/ ctx[r] = "deadline_exceeded"
                              \/ why = "upstream_deadline"
                              \/ BuilderOver(r, "deadline_exceeded")
    /\ ~RefreshUsesCtx /\ why \in DOMAIN Documented => ans = Documented[why]

\* The error mapping, expanded at the errors the handler itself can make.
LEMMA MapDefinitions ==
    /\ MapError(OtherError) = BadGateway
    /\ \A err \in TokenErrors(OtherError) : MapError(err) = BadGateway
    /\ \A err \in ContextErrors("deadline_exceeded") : MapError(err) = GatewayTimeout
    /\ \A err \in ContextErrors("canceled") : MapError(err) \in {ClientClosed, BadGateway}
  BY DEF MapError, mapError, mapGMPError, TokenErrors, ContextErrors, OtherError,
         GrpcError, Sentinel

\* 499 and 504 are told apart from every other answer.
LEMMA AnswersDiffer ==
    /\ {OK, TooManyRequests, BadRequest, NotFound, QuotaExhausted, MaxSeriesExceeded,
        BadGateway, NoAnswer} \cap {ClientClosed, GatewayTimeout} = {}
    /\ ClientClosed # GatewayTimeout
    /\ NoAnswer # TooManyRequests
  BY DEF OK, TooManyRequests, BadRequest, NotFound, QuotaExhausted, MaxSeriesExceeded,
         BadGateway, NoAnswer, ClientClosed, GatewayTimeout, Answer

\* A failure of the upstream blames neither the client nor the deadline, but
\* for a deadline of its own, and is answered as documented.
LEMMA UpstreamAnswers ==
    \A why \in DOMAIN UpstreamErrors : \A err \in UpstreamErrors[why] :
        /\ MapError(err) # ClientClosed
        /\ MapError(err) = GatewayTimeout => why = "upstream_deadline"
        /\ why \in DOMAIN Documented => MapError(err) = Documented[why]
  <1>1. ASSUME NEW why \in DOMAIN UpstreamErrors, NEW err \in UpstreamErrors[why]
        PROVE  MapError(err) = CASE why = "bad_request" -> BadRequest
                                 [] why = "not_found" -> NotFound
                                 [] why = "quota" -> QuotaExhausted
                                 [] why = "max_series" -> MaxSeriesExceeded
                                 [] why = "auth" -> BadGateway
                                 [] why = "upstream_deadline" -> GatewayTimeout
                                 [] OTHER -> MapError(err)
    BY <1>1 DEF UpstreamErrors, MapError, mapError, mapGMPError, GrpcError, Sentinel,
                APIError, OtherError
  <1>2. ASSUME NEW why \in DOMAIN UpstreamErrors, NEW err \in UpstreamErrors[why]
        PROVE  \/ MapError(err) \in {BadRequest, NotFound, QuotaExhausted,
                                     MaxSeriesExceeded, BadGateway}
               \/ MapError(err) = GatewayTimeout /\ why = "upstream_deadline"
    BY <1>2 DEF UpstreamErrors, MapError, mapError, mapGMPError, GrpcError, Sentinel,
                APIError, OtherError
  <1>3. \A why \in DOMAIN UpstreamErrors :
          why \in {"bad_request", "not_found", "quota", "max_series", "auth",
                  "upstream_deadline", "other"}
    BY DEF UpstreamErrors
  <1>4. /\ Documented["bad_request"] = BadRequest /\ Documented["not_found"] = NotFound
        /\ Documented["quota"] = QuotaExhausted /\ Documented["max_series"] = MaxSeriesExceeded
        /\ Documented["auth"] = BadGateway
        /\ Documented["upstream_deadline"] = GatewayTimeout
        /\ "other" \notin DOMAIN Documented
    BY DEF Documented
  <1>5. ASSUME NEW why \in DOMAIN UpstreamErrors, NEW err \in UpstreamErrors[why]
        PROVE  /\ MapError(err) # ClientClosed
               /\ MapError(err) = GatewayTimeout => why = "upstream_deadline"
               /\ why \in DOMAIN Documented => MapError(err) = Documented[why]
    <2>1. /\ MapError(err) # ClientClosed
          /\ MapError(err) = GatewayTimeout => why = "upstream_deadline"
      BY <1>2, AnswersDiffer
    <2>2. CASE why = "other"
      BY <2>1, <2>2, <1>4
    <2>3. CASE why # "other"
      <3>1. MapError(err) = Documented[why]
        BY <2>3, <1>1, <1>3, <1>4
      <3> QED BY <2>1, <3>1
    <2> QED BY <2>2, <2>3
  <1> QED BY <1>5

\* At the start nothing has been answered.
LEMMA AnswerInvInit == Init => AnswerInv
  BY AnswersDiffer
  DEF Init, AnswerInv, Unanswered, Blame, RightlyBlamed, DocumentedStatus, Documented

\* Only a request that has just ended can have been blamed for anything.
LEMMA OnlyAnsweredBlamed ==
    ASSUME HandlerTypeOK, Unanswered, NEW r \in Requests, pc[r] # "answered"
    PROVE  RightlyBlamed(r)
  BY AnswersDiffer DEF HandlerTypeOK, Unanswered, RightlyBlamed

\* What a request has been blamed for stays right until it returns: its client
\* does not come back, and a context that is over stays as it ended, its own
\* and that of the builder of its client.
LEMMA BlameStays ==
    ASSUME HandlerInv, BuilderStarted, [Next]_vars, NEW r \in Requests,
           pc[r] = "answered", RightlyBlamed(r),
           answer'[r] = answer[r], reason'[r] = reason[r], got'[r] = got[r]
    PROVE  RightlyBlamed(r)'
  <1>0. CacheInv /\ [CacheNext]_cacheVars
    BY CacheSteps DEF HandlerInv
  <1>1. r \in gone => r \in gone'
    BY DEF Next, RequestStep, Gate, Admit, Reject, Parse, ParseFails, Parsed, Finish, InCache,
           UseClient, BuildFailed, HasClient, InvalidAggregation, Token, GetToken, TokenFails,
           Reply, Succeed, UpstreamFails, GiveUp, Return, DeadlineFires, ClientLeaves,
           TokenExpires, vars, handlerVars
  <1>2. ctx[r] = "deadline_exceeded" => ctx'[r] = "deadline_exceeded"
    BY OverStays
  <1>3. ASSUME NEW cause \in {"canceled", "deadline_exceeded"}, BuilderOver(r, cause)
        PROVE  BuilderOver(r, cause)'
    <2>1. got[r] # 0 /\ got[r] \in 1..Len(made) /\ ctx[made[got[r]].ctx] = cause
      BY <1>0, <1>3 DEF BuilderOver, CacheInv, GotSound, Requests
    <2>2. PICK i : i = got[r]
      OBVIOUS
    <2>3. made'[i] = made[i]
      BY <1>0, <2>1, <2>2, MadeNext
    <2>4. made[i].ctx \in Requests /\ pc[made[i].ctx] \notin {"new", "admitted"}
      BY <1>0, <2>1, <2>2, MadeKey DEF BuilderStarted, CacheInv, Client, Requests
    <2>5. ctx'[made[i].ctx] = cause
      BY <2>1, <2>2, <2>4, OverStays
    <2> QED BY <1>3, <2>1, <2>2, <2>3, <2>5 DEF BuilderOver
  <1> QED BY <1>1, <1>2, <1>3 DEF RightlyBlamed, ClientClosed, GatewayTimeout, Answer

\* Ending a request with a fair answer keeps the invariant.
LEMMA FinishFair ==
    ASSUME HandlerTypeOK, AnswerInv, NEW r \in Requests, NEW ans, NEW why, pc[r] # "done",
           Finish(r, ans, why), UNCHANGED cacheVars, Fair(r, ans, why)
    PROVE  AnswerInv'
  <1> USE DEF HandlerTypeOK, Finish, Respond
  <1>1. Unanswered'
    BY DEF AnswerInv, Unanswered, NoAnswer, TooManyRequests, Answer
  <1>2. Blame'
    <2>1. UNCHANGED <<ctx, gone, got, made>>
      BY DEF cacheVars
    <2>2. ASSUME NEW q \in Requests, q # r
          PROVE  RightlyBlamed(q)'
      BY <2>1, <2>2 DEF AnswerInv, Blame, RightlyBlamed, BuilderOver, ClientClosed,
                        GatewayTimeout, Answer
    <2>3. RightlyBlamed(r)'
      BY <2>1 DEF Fair, RightlyBlamed, BuilderOver, ClientClosed, GatewayTimeout, Answer
    <2> QED BY <2>2, <2>3 DEF Blame
  <1>3. ASSUME ~RefreshUsesCtx
        PROVE  DocumentedStatus'
    <2>1. ASSUME NEW q \in Requests, reason'[q] \in DOMAIN Documented
          PROVE  answer'[q] = Documented[reason'[q]]
      BY <1>3, <2>1 DEF AnswerInv, DocumentedStatus, Fair
    <2> QED BY <2>1 DEF DocumentedStatus, Documented, OK, TooManyRequests, BadRequest,
               NotFound, QuotaExhausted, MaxSeriesExceeded, BadGateway, GatewayTimeout, Answer
  <1> QED BY <1>1, <1>2, <1>3 DEF AnswerInv

\* A token that cannot be had is answered fairly: behind gRPC it is a status of
\* its own, and net/http reports the end of the context it was fetched under.
LEMMA TokenFailsFair ==
    ASSUME HandlerInv, Unanswered, NEW r \in Requests, TokenFails(r), AnswerInv
    PROVE  AnswerInv'
  <1> DEFINE builder == made[got[r]].ctx
             why == IF CanRefresh(got[r]) \/ builder # r THEN "auth" ELSE Over(r)
  <1>0. /\ HandlerTypeOK /\ got[r] # 0 /\ pc[r] = "fetching" /\ UNCHANGED cacheVars
        /\ Documented["auth"] = BadGateway
    BY DEF HandlerInv, Serving, TokenFails, Documented
  <1>1. PICK err \in TokenErrors(IF CanRefresh(got[r]) THEN OtherError
                                 ELSE Sentinel(ctx[builder])) : Finish(r, MapError(err), why)
    BY DEF TokenFails
  <1>2. CASE CanRefresh(got[r])
    <2>1. MapError(err) = BadGateway /\ why = "auth"
      BY <1>1, <1>2, MapDefinitions
    <2>2. Fair(r, MapError(err), why)
      BY <1>0, <2>1, AnswersDiffer DEF Fair
    <2> HIDE DEF why
    <2> QED BY <1>0, <1>1, <2>2, FinishFair
  <1>3. CASE ~CanRefresh(got[r])
    <2>1. RefreshUsesCtx
      BY <1>3 DEF CanRefresh
    <2>2. CASE Backend = "monitoring"
      <3>1. MapError(err) = BadGateway
        BY <1>1, <2>2 DEF TokenErrors, MapError, mapError, GrpcError
      <3>2. Fair(r, MapError(err), why)
        BY <2>1, <3>1, AnswersDiffer DEF Fair
      <3> HIDE DEF why
      <3> QED BY <1>0, <1>1, <3>2, FinishFair
    <2>3. CASE Backend = "gmp"
      <3>1. err = Sentinel(ctx[builder])
        BY <1>1, <1>3, <2>3 DEF TokenErrors
      <3>2. MapError(err) = CASE ctx[builder] = "deadline_exceeded" -> GatewayTimeout
                              [] ctx[builder] = "canceled" -> ClientClosed
                              [] OTHER -> BadGateway
        BY <2>3, <3>1 DEF MapError, mapGMPError, Sentinel
      <3>3. /\ MapError(err) = ClientClosed => ctx[builder] = "canceled"
            /\ MapError(err) = GatewayTimeout => ctx[builder] = "deadline_exceeded"
        BY <3>2, AnswersDiffer
      <3>4. Fair(r, MapError(err), why)
        BY <1>0, <2>1, <2>3, <3>3 DEF Fair, BuilderOver
      <3> HIDE DEF why
      <3> QED BY <1>0, <1>1, <3>4, FinishFair
    <2> QED BY <2>2, <2>3, CacheAssumption
  <1> QED BY <1>2, <1>3

\* Every step keeps the answers fair.
LEMMA AnswerInvNext ==
    ASSUME HandlerInv, BuilderStarted, AnswerInv, [Next]_vars
    PROVE  AnswerInv'
  <1>0. HandlerTypeOK /\ CacheTypeOK /\ Serving /\ Unanswered /\ Blame
    BY DEF HandlerInv, CacheInv, AnswerInv
  <1>d. /\ Documented["ok"] = OK /\ Documented["cap_hit"] = TooManyRequests
        /\ Documented["bad_request"] = BadRequest /\ Documented["auth"] = BadGateway
        /\ Documented["timeout"] = GatewayTimeout
        /\ "gone" \notin DOMAIN Documented /\ "none" \notin DOMAIN Documented
    BY DEF Documented
  <1>1. ASSUME NEW r \in Requests, ParseFails(r)
        PROVE  AnswerInv'
    <2>1. Fair(r, BadRequest, "bad_request")
      BY <1>d, AnswersDiffer DEF Fair
    <2> QED BY <1>0, <1>1, <2>1, FinishFair DEF ParseFails
  <1>2. ASSUME NEW r \in Requests, BuildFailed(r)
        PROVE  AnswerInv'
    <2>1. Fair(r, MapError(OtherError), "auth")
      BY <1>d, AnswersDiffer, MapDefinitions DEF Fair
    <2> QED BY <1>0, <1>2, <2>1, FinishFair DEF BuildFailed
  <1>3. ASSUME NEW r \in Requests, InvalidAggregation(r)
        PROVE  AnswerInv'
    <2>1. MapError(Sentinel("invalid_aggregation")) = BadRequest
      BY <1>3 DEF InvalidAggregation, MapError, mapError, Sentinel
    <2>2. Fair(r, BadRequest, "bad_request")
      BY <1>d, AnswersDiffer DEF Fair
    <2> QED BY <1>0, <1>3, <2>1, <2>2, FinishFair DEF InvalidAggregation
  <1>4. ASSUME NEW r \in Requests, Succeed(r)
        PROVE  AnswerInv'
    <2>1. Fair(r, OK, "ok")
      BY <1>d, AnswersDiffer DEF Fair
    <2> QED BY <1>0, <1>4, <2>1, FinishFair DEF Succeed
  <1>5. ASSUME NEW r \in Requests, UpstreamFails(r)
        PROVE  AnswerInv'
    <2>0. PICK why \in DOMAIN UpstreamErrors :
             \E err \in UpstreamErrors[why] : Finish(r, MapError(err), why)
      BY <1>5 DEF UpstreamFails
    <2>1. PICK err \in UpstreamErrors[why] : Finish(r, MapError(err), why)
      BY <2>0
    <2>2. Fair(r, MapError(err), why)
      BY UpstreamAnswers DEF Fair
    <2> QED BY <1>0, <1>5, <2>1, <2>2, FinishFair DEF UpstreamFails
  <1>6. ASSUME NEW r \in Requests, GiveUp(r)
        PROVE  AnswerInv'
    <2>1. PICK err \in ContextErrors(ctx[r]) : Finish(r, MapError(err), Over(r))
      BY <1>6 DEF GiveUp
    <2>2. ctx[r] \in {"deadline_exceeded", "canceled"}
      BY <1>0, <1>6 DEF GiveUp, Serving, HandlerTypeOK
    <2>3. Fair(r, MapError(err), Over(r))
      <3>1. CASE ctx[r] = "deadline_exceeded"
        BY <3>1, <2>1, <1>d, AnswersDiffer, MapDefinitions DEF Fair, Over
      <3>2. CASE ctx[r] = "canceled"
        BY <3>2, <2>1, <1>0, <1>6, <1>d, AnswersDiffer, MapDefinitions
        DEF Fair, Over, Unanswered, GiveUp
      <3> QED BY <2>2, <3>1, <3>2
    <2> QED BY <1>0, <1>6, <2>1, <2>3, FinishFair DEF GiveUp
  <1>7. ASSUME NEW r \in Requests, Reject(r) \/ Return(r)
        PROVE  AnswerInv'
    <2>1. /\ pc' = [pc EXCEPT ![r] = "done"]
          /\ answer'[r] \in {NoAnswer, TooManyRequests}
          /\ \A q \in Requests : q # r => /\ answer'[q] = answer[q] /\ reason'[q] = reason[q]
                                          /\ got'[q] = got[q] /\ ctx'[q] = ctx[q]
          /\ gone' = gone
          /\ reason'[r] \in DOMAIN Documented => answer'[r] = Documented[reason'[r]]
      <3>1. CASE Reject(r)
        BY <1>0, <1>d, <3>1 DEF Reject, Respond, HandlerTypeOK, cacheVars
      <3>2. CASE Return(r)
        BY <1>0, <1>d, <3>2
        DEF Return, Respond, GetTaken, HandlerTypeOK, CacheTypeOK, cacheVars, Requests
      <3> QED BY <1>7, <3>1, <3>2
    <2>2. Unanswered'
      BY <1>0, <2>1 DEF HandlerTypeOK, Unanswered, NoAnswer, TooManyRequests, Answer
    <2>3. Blame'
      <3>1. RightlyBlamed(r)'
        BY <2>1, AnswersDiffer DEF RightlyBlamed, ClientClosed, GatewayTimeout, NoAnswer,
                                   TooManyRequests, Answer
      <3>2. ASSUME NEW q \in Requests, q # r, pc[q] = "answered"
            PROVE  RightlyBlamed(q)'
        BY <1>0, <2>1, <3>2, BlameStays DEF Blame
      <3>3. ASSUME NEW q \in Requests, q # r, pc[q] # "answered"
            PROVE  RightlyBlamed(q)'
        BY <1>0, <2>1, <3>3, AnswersDiffer
        DEF HandlerTypeOK, Unanswered, RightlyBlamed, ClientClosed, GatewayTimeout, NoAnswer,
            TooManyRequests, Answer
      <3> QED BY <3>1, <3>2, <3>3 DEF Blame
    <2>4. ASSUME ~RefreshUsesCtx
          PROVE  DocumentedStatus'
      <3>1. ASSUME NEW q \in Requests, reason'[q] \in DOMAIN Documented
            PROVE  answer'[q] = Documented[reason'[q]]
        BY <2>1, <2>4, <3>1 DEF AnswerInv, DocumentedStatus
      <3> QED BY <3>1 DEF DocumentedStatus, Documented, OK, TooManyRequests, BadRequest,
                 NotFound, QuotaExhausted, MaxSeriesExceeded, BadGateway, GatewayTimeout, Answer
    <2> QED BY <2>2, <2>3, <2>4 DEF AnswerInv
  <1>8. ASSUME UNCHANGED <<answer, reason>>,
               \/ \E r \in Requests : \/ Admit(r)
                                      \/ \E sa \in Keys : Parsed(r, sa)
                                      \/ InCache(r) \/ HasClient(r) \/ GetToken(r)
                                      \/ DeadlineFires(r) \/ ClientLeaves(r)
               \/ \E i \in fresh : TokenExpires(i)
               \/ UNCHANGED vars
        PROVE  AnswerInv'
    <2>1. Unanswered'
      BY <1>0, <1>8
      DEF HandlerTypeOK, Admit, Parsed, InCache, HasClient, GetToken, DeadlineFires,
          ClientLeaves, TokenExpires, vars, handlerVars, Unanswered, NoAnswer,
          TooManyRequests, Answer
    <2>2. ASSUME NEW q \in Requests, pc[q] = "answered"
          PROVE  RightlyBlamed(q)'
      <3>1. phase[q] \in {"idle", "returned"}
        BY <1>0, <2>2 DEF Serving
      <3>2. got'[q] = got[q]
        BY <1>0, <1>8, <3>1
        DEF Admit, Parsed, GetCalled, InCache, GetStep, GetLocks, Build, GetHits,
            TokenSourceFails, TokenSourceBuilt, DialFails, Dialed, GetReturns, HasClient,
            GetToken, DeadlineFires, ClientLeaves, TokenExpires, vars, cacheVars, CacheTypeOK,
            Requests
      <3> QED BY <1>0, <1>8, <2>2, <3>2, BlameStays DEF Blame
    <2>3. ASSUME NEW q \in Requests, pc[q] # "answered"
          PROVE  RightlyBlamed(q)'
      BY <1>0, <1>8, <2>3, AnswersDiffer
      DEF HandlerTypeOK, Unanswered, RightlyBlamed, ClientClosed, GatewayTimeout, NoAnswer,
          TooManyRequests, Answer
    <2>4. Blame'
      BY <2>2, <2>3 DEF Blame
    <2>5. ~RefreshUsesCtx => DocumentedStatus'
      BY <1>8
      DEF AnswerInv, DocumentedStatus, Documented, OK, TooManyRequests, BadRequest, NotFound,
          QuotaExhausted, MaxSeriesExceeded, BadGateway, GatewayTimeout, Answer
    <2> QED BY <2>1, <2>4, <2>5 DEF AnswerInv
  <1>9. ASSUME NEW r \in Requests,
               \/ Admit(r) \/ (\E sa \in Keys : Parsed(r, sa)) \/ InCache(r)
               \/ HasClient(r) \/ GetToken(r) \/ DeadlineFires(r) \/ ClientLeaves(r)
        PROVE  UNCHANGED <<answer, reason>>
    BY <1>9 DEF Admit, Parsed, InCache, HasClient, GetToken, DeadlineFires, ClientLeaves,
                handlerVars
  <1>10. ASSUME (\E i \in fresh : TokenExpires(i)) \/ UNCHANGED vars
         PROVE  UNCHANGED <<answer, reason>>
    BY <1>10 DEF TokenExpires, vars, handlerVars
  <1>11. ASSUME NEW r \in Requests, TokenFails(r)
         PROVE  AnswerInv'
    BY <1>0, <1>11, TokenFailsFair
  <1> QED
    BY <1>1, <1>2, <1>3, <1>4, <1>5, <1>6, <1>7, <1>8, <1>9, <1>10, <1>11
    DEF Next, RequestStep, Gate, Parse, UseClient, Token, Reply

\* The answers are fair throughout.
LEMMA AnswersFair == Spec => []AnswerInv
  <1>1. HandlerInv /\ BuilderStarted /\ AnswerInv /\ [Next]_vars => AnswerInv'
    BY AnswerInvNext
  <1> QED BY <1>1, AnswerInvInit, HandlerInvariant, BuildersStarted, PTL DEF Spec

\* On both endpoints and with any credentials, 499 and 504 are only answered to
\* requests that earned them, but for the requests of /gmp-metrics that were
\* given a client whose token source was bound to another's context.
THEOREM BlameHolds == Spec => []Blame
  <1>1. AnswerInv => Blame
    BY DEF AnswerInv
  <1> QED BY <1>1, AnswersFair, PTL

\* For credentials whose tokens do not depend on a request's context, the
\* documented error table is what is answered.
THEOREM DocumentedStatusHolds ==
    ASSUME ~RefreshUsesCtx
    PROVE  Spec => []DocumentedStatus
  <1>1. AnswerInv => DocumentedStatus
    BY DEF AnswerInv
  <1> QED BY <1>1, AnswersFair, PTL

-----------------------------------------------------------------------------
(* A client that leaves *)

\* A request that ended because its client left was answered from S.
GoneIn(S) == \A r \in Requests : reason[r] = "gone" => answer[r] \in S

\* Ending a request keeps what is promised of clients that leave, if its own
\* ending does.
LEMMA FinishGone ==
    ASSUME NEW S, HandlerTypeOK, GoneIn(S), NEW r \in Requests, NEW ans, NEW why,
           Finish(r, ans, why), why = "gone" => ans \in S
    PROVE  GoneIn(S)'
  <1> SUFFICES ASSUME NEW q \in Requests, reason'[q] = "gone"
               PROVE  answer'[q] \in S
    BY DEF GoneIn
  <1> QED BY DEF HandlerTypeOK, Finish, Respond, GoneIn

\* What the end of a canceled context is answered: of /gmp-metrics it is always
\* told apart, wherever it ends the request; of /metrics it is if gRPC reports
\* the bare context error, and is taken for an upstream failure otherwise.
CanceledAnswers == IF Backend = "gmp" THEN {ClientClosed} ELSE {ClientClosed, BadGateway}

LEMMA CanceledAnswered ==
    /\ \A err \in ContextErrors("canceled") : MapError(err) \in CanceledAnswers
    /\ \A err \in TokenErrors(Sentinel("canceled")) : MapError(err) \in CanceledAnswers
  BY CacheAssumption
  DEF CanceledAnswers, MapError, mapError, mapGMPError, ContextErrors, TokenErrors, Sentinel,
      GrpcError

\* Every step keeps what is promised of clients that leave.
LEMMA ClientGoneNext ==
    ASSUME HandlerInv, GoneIn(CanceledAnswers), [Next]_vars
    PROVE  GoneIn(CanceledAnswers)'
  <1>0. HandlerTypeOK /\ Serving
    BY DEF HandlerInv
  <1>1. ASSUME NEW r \in Requests,
               \/ ParseFails(r) \/ BuildFailed(r) \/ InvalidAggregation(r)
               \/ Succeed(r) \/ UpstreamFails(r)
        PROVE  GoneIn(CanceledAnswers)'
    <2>1. PICK ans, why : Finish(r, ans, why) /\ why # "gone"
      BY <1>1 DEF ParseFails, BuildFailed, InvalidAggregation, Succeed, UpstreamFails,
                  UpstreamErrors
    <2> QED BY <1>0, <2>1, FinishGone
  <1>2. ASSUME NEW r \in Requests, TokenFails(r)
        PROVE  GoneIn(CanceledAnswers)'
    <2> DEFINE builder == made[got[r]].ctx
               why == IF CanRefresh(got[r]) \/ builder # r THEN "auth" ELSE Over(r)
    <2>1. PICK err \in TokenErrors(IF CanRefresh(got[r]) THEN OtherError
                                   ELSE Sentinel(ctx[builder])) :
              Finish(r, MapError(err), why)
      BY <1>2 DEF TokenFails
    <2>2. ASSUME why = "gone"
          PROVE  MapError(err) \in CanceledAnswers
      <3>1. ~CanRefresh(got[r]) /\ builder = r /\ ctx[r] = "canceled"
        BY <2>2 DEF Over
      <3>2. err \in TokenErrors(Sentinel("canceled"))
        BY <2>1, <3>1
      <3> QED BY <3>2, CanceledAnswered
    <2> HIDE DEF why
    <2> QED BY <1>0, <2>1, <2>2, FinishGone
  <1>3. ASSUME NEW r \in Requests, GiveUp(r)
        PROVE  GoneIn(CanceledAnswers)'
    <2>1. PICK err \in ContextErrors(ctx[r]) : Finish(r, MapError(err), Over(r))
      BY <1>3 DEF GiveUp
    <2>2. Over(r) = "gone" => MapError(err) \in CanceledAnswers
      BY <2>1, CanceledAnswered DEF Over
    <2> QED BY <1>0, <2>1, <2>2, FinishGone
  <1>4. ASSUME NEW r \in Requests, Reject(r) \/ Return(r)
        PROVE  GoneIn(CanceledAnswers)'
    <2> SUFFICES ASSUME NEW q \in Requests, reason'[q] = "gone"
                 PROVE  answer'[q] \in CanceledAnswers
      BY DEF GoneIn, CanceledAnswers
    <2> QED BY <1>0, <1>4 DEF HandlerTypeOK, Reject, Return, Respond, GoneIn
  <1>5. ASSUME UNCHANGED <<answer, reason>>
        PROVE  GoneIn(CanceledAnswers)'
    BY <1>5 DEF GoneIn, CanceledAnswers
  <1>6. ASSUME NEW r \in Requests,
               \/ Admit(r) \/ (\E sa \in Keys : Parsed(r, sa)) \/ InCache(r)
               \/ HasClient(r) \/ GetToken(r) \/ DeadlineFires(r) \/ ClientLeaves(r)
        PROVE  UNCHANGED <<answer, reason>>
    BY <1>6 DEF Admit, Parsed, InCache, HasClient, GetToken, DeadlineFires, ClientLeaves,
                handlerVars
  <1>7. ASSUME (\E i \in fresh : TokenExpires(i)) \/ UNCHANGED vars
        PROVE  UNCHANGED <<answer, reason>>
    BY <1>7 DEF TokenExpires, vars, handlerVars
  <1> QED
    BY <1>1, <1>2, <1>3, <1>4, <1>5, <1>6, <1>7
    DEF Next, RequestStep, Gate, Parse, UseClient, Token, Reply

\* Whatever the backend and the credentials, a request that ends because its
\* client left is answered 499 or, on /metrics only, 502 in its place.
THEOREM ClientGoneAnswered == Spec => []GoneIn(CanceledAnswers)
  <1>1. Init => GoneIn(CanceledAnswers)
    BY DEF Init, GoneIn
  <1>2. HandlerInv /\ GoneIn(CanceledAnswers) /\ [Next]_vars => GoneIn(CanceledAnswers)'
    BY ClientGoneNext
  <1> QED BY <1>1, <1>2, HandlerInvariant, PTL DEF Spec

\* A /gmp-metrics request that ends because its client left is logged as 499,
\* whatever credentials are used; of /metrics this does not hold.
THEOREM ClientGoneIs499Holds ==
    ASSUME Backend = "gmp"
    PROVE  Spec => []ClientGoneIs499
  <1>1. GoneIn(CanceledAnswers) => ClientGoneIs499
    BY DEF GoneIn, CanceledAnswers, ClientGoneIs499
  <1> QED BY <1>1, ClientGoneAnswered, PTL

-----------------------------------------------------------------------------
(* A client whose token source is bound to a request *)

\* A client without a token, and without a way to one: its token source is
\* bound to the context of a request, and that context is over.
Stranded(i) == i \in 1..Len(made) /\ i \notin fresh /\ ~CanRefresh(i)

\* Every step leaves a stranded client stranded.
LEMMA StrandedStays ==
    ASSUME HandlerInv, BuilderStarted, [Next]_vars, NEW i, Stranded(i)
    PROVE  Stranded(i)'
  <1>0. CacheInv /\ [CacheNext]_cacheVars /\ i \in 1..Len(made)
    BY CacheSteps DEF HandlerInv, Stranded
  <1>1. i \in 1..Len(made') /\ made'[i] = made[i]
    BY <1>0, MadeNext
  <1>2. made[i].ctx \in Requests /\ pc[made[i].ctx] \notin {"new", "admitted"}
    BY <1>0, MadeKey DEF BuilderStarted, CacheInv, Client, Requests
  <1>3. ~CanRefresh(i)'
    <2>1. RefreshUsesCtx /\ ctx[made[i].ctx] # "live"
      BY DEF Stranded, CanRefresh
    <2>2. ctx'[made[i].ctx] # "live"
      BY <1>2, <2>1, OverStays
    <2> QED BY <1>1, <2>1, <2>2 DEF CanRefresh
  <1>4. i \notin fresh'
    <2>1. ASSUME NEW r \in Requests, GetToken(r)
          PROVE  i \notin fresh'
      <3>1. got[r] # i
        BY <2>1 DEF GetToken, Stranded
      <3> QED BY <2>1, <3>1 DEF GetToken, Stranded
    <2>2. fresh' \subseteq fresh \/ \E r \in Requests : GetToken(r)
      BY DEF Next, RequestStep, Gate, Admit, Reject, Parse, ParseFails, Parsed, InCache,
             UseClient, BuildFailed, HasClient, InvalidAggregation, Token, TokenFails, Reply,
             Succeed, UpstreamFails, GiveUp, Return, DeadlineFires, ClientLeaves,
             TokenExpires, vars, handlerVars
    <2> QED BY <2>1, <2>2 DEF Stranded
  <1> QED BY <1>1, <1>3, <1>4 DEF Stranded

\* While the process serves, an entry of the table is never replaced.
LEMMA EntriesStay ==
    ASSUME HandlerInv, [Next]_vars, NEW k \in Keys, clients[k] # 0
    PROVE  clients'[k] = clients[k]
  <1>0. CacheTypeOK /\ StillAbsent
    BY DEF HandlerInv, CacheInv
  <1>1. ASSUME NEW c \in Callers, Dialed(c)
        PROVE  clients'[k] = clients[k]
    BY <1>0, <1>1 DEF Dialed, StillAbsent, CacheTypeOK
  <1>2. clients' = clients \/ \E c \in Callers : Dialed(c)
    BY DEF Next, RequestStep, Gate, Admit, Reject, Parse, ParseFails, Parsed, InCache, GetStep,
           Build, GetLocks, GetHits, TokenSourceFails, TokenSourceBuilt, DialFails,
           GetCalled, GetTaken, UseClient, BuildFailed, HasClient, InvalidAggregation, Token,
           GetToken, TokenFails, Reply, Succeed, UpstreamFails, GiveUp, Return, DeadlineFires,
           ClientLeaves, TokenExpires, vars, cacheVars, Requests
  <1> QED BY <1>1, <1>2

\* An account whose cached client is stranded is lost to every later request:
\* the entry is not replaced and its client gets no token again.
THEOREM StrandedForGood ==
    Spec => [][\A k \in Keys : clients[k] # 0 /\ Stranded(clients[k])
                 => clients'[k] = clients[k] /\ Stranded(clients[k])']_vars
  <1>1. ASSUME HandlerInv, BuilderStarted, [Next]_vars,
               NEW k \in Keys, clients[k] # 0, Stranded(clients[k])
        PROVE  clients'[k] = clients[k] /\ Stranded(clients[k])'
    <2>1. clients'[k] = clients[k]
      BY <1>1, EntriesStay
    <2>2. PICK j : j = clients[k]
      OBVIOUS
    <2>3. Stranded(j)'
      BY <1>1, <2>2, StrandedStays
    <2> QED BY <2>1, <2>2, <2>3 DEF Stranded, CanRefresh
  <1>2. HandlerInv /\ BuilderStarted /\ [Next]_vars
          => [\A k \in Keys : clients[k] # 0 /\ Stranded(clients[k])
                => clients'[k] = clients[k] /\ Stranded(clients[k])']_vars
    BY <1>1
  <1> QED BY <1>2, HandlerInvariant, BuildersStarted, PTL DEF Spec

-----------------------------------------------------------------------------
(* The table the handlers see *)

\* To the handlers the cache is GetOrBuild: a table that is looked up, and
\* filled, in one step.
THEOREM HandlersSeeGetOrBuild == Spec => ImplementsGetOrBuild
  BY HandlerUsesCache, CacheImplementsGetOrBuild
=============================================================================
