---------------------------- MODULE ServerProofs ----------------------------
(***************************************************************************)
(* The safety of Server, for any number of requests to both endpoints.     *)
(*                                                                         *)
(* The handlers' invariant survives the process around them: main's Close  *)
(* touches only what the cache's invariant allows.  What is added is how   *)
(* far main is in Close at each point (CloseStage), that only a connection *)
(* that is being served can have a request under way (Connected), and that *)
(* as long as the exit code is 0 the cache is closed only after everything *)
(* has come to rest (CleanSoFar).                                          *)
(*                                                                         *)
(* At the end, what a configuration that loadConfig accepts gives the      *)
(* process: limits that meet the assumptions the other modules make of     *)
(* their constants, and the port that the healthcheck looks for by itself. *)
(***************************************************************************)
EXTENDS Server, ScrapeHandlerProofs, Config

GmpSlotsMatch == gmpSem = Cardinality(GmpHolders)

CloseStage ==
    /\ main \in {"serving", "draining"} => closing = "no"
    /\ main \in {"reaping", "exited"} => closing = "done"
    /\ main = "aborting" => exitCode = 1
    /\ main \notin {"serving", "aborting", "exited"} => listener # "listening"

Connected ==
    /\ \A r \in Requests : conn[r] # "serving" => pc[r] = "new"
    /\ \A g \in GmpRequests : conn[g] # "serving" => gmpPc[g] = "new"

\* Before Close, what has been built is open.
AllOpen == closing = "no" => open = 1..Len(made)

CleanSoFar ==
    exitCode = 0 /\ main \notin {"serving", "draining"}
        => Quiet /\ (closing = "done" => open = {})

ServerInv == /\ HandlerInv
             /\ ServerTypeOK
             /\ GmpSlotsMatch
             /\ CloseStage
             /\ Connected
             /\ AllOpen
             /\ CleanSoFar

-----------------------------------------------------------------------------
(* The handlers inside the process *)

\* A step of Close leaves the requests alone, in their own variables and in
\* the cache's.
LEMMA CloseKeepsCallers ==
    CloseStep => UNCHANGED <<phase, want, got, made>>
  BY DEF CloseStep, CloseCalled, CloseLocks, Sweep, CloseOne, CloseReturns

\* Close keeps the invariant of the handlers.
LEMMA CloseKeepsHandlers ==
    ASSUME HandlerInv, CloseStep, UNCHANGED handlerVars
    PROVE  HandlerInv'
  <1>1. CacheInv'
    BY CacheInvNext DEF HandlerInv, CacheNext
  <1>2. UNCHANGED <<phase, want, got, made>>
    BY CloseKeepsCallers
  <1>3. HandlerTypeOK' /\ SlotsMatch' /\ Serving' /\ Settled'
    BY <1>2 DEF HandlerInv, HandlerTypeOK, SlotsMatch, Holders, Serving, Settled, handlerVars
  <1> QED BY <1>1, <1>3 DEF HandlerInv

\* Every step of the process is a step of the handlers, one of Close, or
\* leaves both alone.
LEMMA ServerSteps ==
    ASSUME [ServerNext]_allVars
    PROVE  \/ [Next]_vars
           \/ CloseStep /\ UNCHANGED handlerVars
  <1>1. ASSUME Network
        PROVE  UNCHANGED vars
    BY <1>1 DEF Network, Accept, Dispatch, CloseIdle, ListenFails, ListenReturns, Signal
  <1>2. ASSUME Handlers
        PROVE  [Next]_vars
    BY <1>2 DEF Handlers, Serve, GmpAdmit, GmpReject, GmpReturn, Next
  <1>3. ASSUME Main
        PROVE  UNCHANGED vars \/ (CloseStep /\ UNCHANGED handlerVars)
    BY <1>3 DEF Main, SelectListenErr, SelectSignal, Drained, GraceOver, MainCloses, Closed,
                Reap, MainGoes
  <1>4. CASE UNCHANGED allVars
    BY <1>4 DEF allVars
  <1> QED BY <1>1, <1>2, <1>3, <1>4 DEF ServerNext

\* Whatever main and the network do, the handlers' invariant holds.
LEMMA ServerKeepsHandlers ==
    ASSUME HandlerInv, [ServerNext]_allVars
    PROVE  HandlerInv'
  BY ServerSteps, HandlerInvNext, CloseKeepsHandlers

\* What is proved of the handlers by themselves holds of them in the process:
\* slots are never lost and each query runs as the account it asked for.
THEOREM HandlersInProcess == ServerSpec => [](SlotsMatch /\ ServedAsAsked)
  <1>1. ServerInit => HandlerInv
    BY HandlerInvInit DEF ServerInit
  <1>2. HandlerInv /\ [ServerNext]_allVars => HandlerInv'
    BY ServerKeepsHandlers
  <1>3. HandlerInv => SlotsMatch /\ ServedAsAsked
    BY ServesAsAsked DEF HandlerInv
  <1> QED BY <1>1, <1>2, <1>3, PTL DEF ServerSpec

-----------------------------------------------------------------------------
(* The inductive invariant of the process *)

\* The inductive invariant holds initially.
LEMMA ServerInvInit == ServerInit => ServerInv
  <1> SUFFICES ASSUME ServerInit
               PROVE  ServerInv
    OBVIOUS
  <1> USE DEF ServerInit
  <1>1. HandlerInv
    BY HandlerInvInit
  <1>2. ServerTypeOK
    <2>1. 0 \in 0..MaxConcurrent
      BY HandlerAssumption
    <2>2. /\ conn \in [Connections -> {"none", "accepted", "serving", "closed"}]
          /\ gmpPc \in [GmpRequests -> {"new", "inside", "done"}]
      OBVIOUS
    <2> QED BY <2>1, <2>2 DEF ServerTypeOK
  <1>3. GmpSlotsMatch
    <2>1. GmpHolders = {}
      BY DEF GmpHolders
    <2> QED BY <2>1, FS_EmptySet DEF GmpSlotsMatch
  <1>4. CloseStage /\ Connected /\ CleanSoFar
    BY DEF CloseStage, Connected, CleanSoFar, Connections, Init, CacheInit
  <1>5. AllOpen
    <2>1. made = <<>> /\ open = {}
      BY DEF Init, CacheInit
    <2> QED BY <2>1 DEF AllOpen
  <1> QED BY <1>1, <1>2, <1>3, <1>4, <1>5 DEF ServerInv

\* Dialing adds the client to the open ones; until Close is called nothing
\* else changes them.
LEMMA AllOpenNext ==
    ASSUME CacheInv, AllOpen, [CacheNext]_cacheVars
    PROVE  AllOpen'
  <1>1. ASSUME NEW c \in Callers, Dialed(c)
        PROVE  AllOpen'
    <2> DEFINE x == [key |-> want[c], as |-> Principal(want[c]), ctx |-> c]
    <2>1. x \in Client /\ made \in Seq(Client)
      BY PrincipalType DEF Client, CacheInv, CacheTypeOK
    <2>2. made' = Append(made, x) /\ open' = open \cup {Len(made) + 1} /\ closing' = closing
      BY <1>1 DEF Dialed, GetReturns
    <2> HIDE DEF x
    <2>3. Len(made) \in Nat /\ Len(made') = Len(made) + 1
      BY <2>1, <2>2, AppendClient
    <2> QED BY <2>2, <2>3 DEF AllOpen
  <1>2. CASE UNCHANGED <<made, open>> /\ (closing' = "no" => closing = "no")
    BY <1>2 DEF AllOpen
  <1>3. CASE closing' # "no"
    BY <1>3 DEF AllOpen
  <1>4. \/ \E c \in Callers : Dialed(c)
        \/ UNCHANGED <<made, open>> /\ (closing' = "no" => closing = "no")
        \/ closing' # "no"
    BY DEF CacheNext, GetStep, Build, CloseStep, Sweep, cacheVars, GetCalled, GetLocks,
           GetHits, TokenSourceFails, TokenSourceBuilt, DialFails, GetTaken, GetReturns,
           CloseCalled, CloseLocks, CloseOne, CloseReturns
  <1> QED BY <1>1, <1>2, <1>3, <1>4

\* A request's step leaves Close and the other requests alone, and a request
\* that has returned does nothing any more but let its timer run.
LEMMA RequestKeeps ==
    ASSUME HandlerInv, NEW r \in Requests, RequestStep(r)
    PROVE  /\ closing' = closing
           /\ \A q \in Requests : q # r => pc'[q] = pc[q]
           /\ pc[r] = "done" => UNCHANGED <<pc, open>>
  <1>0. HandlerTypeOK /\ (pc[r] = "done" => phase[r] = "idle")
    BY DEF HandlerInv, Serving
  <1>1. CASE Gate(r) \/ Parse(r) \/ UseClient(r) \/ InvalidAggregation(r) \/ Token(r)
    BY <1>0, <1>1
    DEF HandlerTypeOK, Gate, Admit, Reject, Parse, ParseFails, Parsed, GetCalled, UseClient,
        BuildFailed, HasClient, InvalidAggregation, Token, GetToken, TokenFails, Finish,
        cacheVars
  <1>2. CASE Reply(r) \/ GiveUp(r) \/ Return(r) \/ DeadlineFires(r) \/ ClientLeaves(r)
    BY <1>0, <1>2
    DEF HandlerTypeOK, Reply, Succeed, UpstreamFails, GiveUp, Return, GetTaken, DeadlineFires,
        ClientLeaves, Finish, cacheVars
  <1>3. CASE InCache(r)
    <2>1. closing' = closing /\ phase[r] # "idle" /\ pc' = pc
      BY <1>3
      DEF InCache, handlerVars, GetStep, GetLocks, Build, GetHits, TokenSourceFails,
          TokenSourceBuilt, DialFails, Dialed, GetReturns
    <2> QED BY <1>0, <2>1
  <1> QED BY <1>1, <1>2, <1>3 DEF RequestStep

\* When Close returns nothing is open.
LEMMA CloseLeavesNothing ==
    ASSUME CacheInv, CloseStep, closing' = "done"
    PROVE  open' = {}
  <1>1. CloseReturns
    BY DEF CloseStep, CloseCalled, CloseLocks, Sweep, CloseOne
  <1>2. ASSUME NEW i \in open
        PROVE  FALSE
    <2>1. made[i].key \in Keys /\ clients[made[i].key] = i /\ i # 0
      BY MadeKey DEF CacheInv, CacheTypeOK, TableSound
    <2> QED BY <1>1, <2>1 DEF CloseReturns
  <1> QED BY <1>1, <1>2 DEF CloseReturns

\* One /gmp-metrics request takes a slot, or gives it back.
LEMMA GmpCounts ==
    ASSUME ServerTypeOK, NEW g \in GmpRequests
    PROVE  /\ gmpPc[g] = "new" /\ gmpPc' = [gmpPc EXCEPT ![g] = "inside"]
               => Cardinality(GmpHolders') = Cardinality(GmpHolders) + 1
           /\ gmpPc[g] = "new" /\ gmpPc' = [gmpPc EXCEPT ![g] = "done"]
               => GmpHolders' = GmpHolders
           /\ gmpPc[g] = "inside" /\ gmpPc' = [gmpPc EXCEPT ![g] = "done"]
               => /\ Cardinality(GmpHolders') = Cardinality(GmpHolders) - 1
                  /\ Cardinality(GmpHolders) \in Nat \ {0}
  <1>1. IsFiniteSet(GmpHolders)
    BY ServerAssumption, FS_Subset DEF GmpHolders
  <1>2. ASSUME gmpPc[g] = "new", gmpPc' = [gmpPc EXCEPT ![g] = "inside"]
        PROVE  Cardinality(GmpHolders') = Cardinality(GmpHolders) + 1
    <2>1. GmpHolders' = GmpHolders \cup {g} /\ g \notin GmpHolders
      BY <1>2 DEF ServerTypeOK, GmpHolders
    <2> QED BY <1>1, <2>1, FS_AddElement
  <1>3. ASSUME gmpPc[g] = "new", gmpPc' = [gmpPc EXCEPT ![g] = "done"]
        PROVE  GmpHolders' = GmpHolders
    BY <1>3 DEF ServerTypeOK, GmpHolders
  <1>4. ASSUME gmpPc[g] = "inside", gmpPc' = [gmpPc EXCEPT ![g] = "done"]
        PROVE  /\ Cardinality(GmpHolders') = Cardinality(GmpHolders) - 1
               /\ Cardinality(GmpHolders) \in Nat \ {0}
    <2>1. GmpHolders' = GmpHolders \ {g} /\ g \in GmpHolders
      BY <1>4 DEF ServerTypeOK, GmpHolders
    <2>2. Cardinality(GmpHolders) \in Nat /\ Cardinality(GmpHolders) # 0
      BY <1>1, <2>1, FS_CardinalityType, FS_EmptySet
    <2> QED BY <1>1, <2>1, <2>2, FS_RemoveElement
  <1> QED BY <1>2, <1>3, <1>4

\* Every step preserves the inductive invariant.
LEMMA ServerInvNext == ServerInv /\ [ServerNext]_allVars => ServerInv'
  <1> SUFFICES ASSUME ServerInv, [ServerNext]_allVars
               PROVE  ServerInv'
    OBVIOUS
  <1> DEFINE Rest == ServerTypeOK /\ GmpSlotsMatch /\ CloseStage /\ Connected /\ CleanSoFar
  <1>0. /\ HandlerInv /\ CacheInv
        /\ ServerTypeOK /\ GmpSlotsMatch /\ CloseStage /\ Connected /\ AllOpen /\ CleanSoFar
    BY DEF ServerInv, HandlerInv
  <1>1. HandlerInv'
    BY <1>0, ServerKeepsHandlers
  <1>2. AllOpen'
    <2>1. [CacheNext]_cacheVars
      BY ServerSteps, CacheSteps DEF CacheNext
    <2> QED BY <1>0, <2>1, AllOpenNext
  <1>3. ASSUME NEW q \in Connections, Accept(q) \/ Dispatch(q) \/ CloseIdle(q), main # "exited"
        PROVE  Rest'
    <2>1. ServerTypeOK' /\ GmpSlotsMatch' /\ CloseStage'
      BY <1>0, <1>3 DEF Accept, Dispatch, CloseIdle, ServerTypeOK, GmpSlotsMatch, GmpHolders,
                        CloseStage, vars, cacheVars
    <2>2. Connected'
      BY <1>0, <1>3 DEF Accept, Dispatch, CloseIdle, ServerTypeOK, Connected, Connections,
                        vars, handlerVars
    <2>3. CleanSoFar'
      BY <1>0, <1>3 DEF Accept, Dispatch, CloseIdle, CloseStage, CleanSoFar, Quiet
    <2> QED BY <2>1, <2>2, <2>3
  <1>4. ASSUME ListenFails \/ ListenReturns \/ Signal
        PROVE  Rest'
    BY <1>0, <1>4 DEF ListenFails, ListenReturns, Signal, ServerTypeOK, GmpSlotsMatch,
                      GmpHolders, CloseStage, Connected, CleanSoFar, Quiet, Answered,
                      vars, cacheVars, handlerVars
  <1>5. ASSUME NEW r \in Requests, Serve(r)
        PROVE  Rest'
    <2>1. /\ closing' = closing
          /\ \A q \in Requests : q # r => pc'[q] = pc[q]
          /\ pc[r] = "done" => UNCHANGED <<pc, open>>
          /\ conn[r] = "serving"
          /\ UNCHANGED serverVars
      BY <1>0, <1>5, RequestKeeps DEF Serve
    <2>2. ServerTypeOK' /\ GmpSlotsMatch' /\ CloseStage' /\ Connected'
      BY <1>0, <2>1 DEF serverVars, ServerTypeOK, GmpSlotsMatch, GmpHolders, CloseStage,
                        Connected
    <2>3. CleanSoFar'
      <3>1. Quiet => pc[r] = "done"
        BY <2>1 DEF Quiet, Answered, Connections
      <3>2. UNCHANGED <<pc, open>> => CleanSoFar'
        BY <1>0, <2>1 DEF serverVars, CleanSoFar, Quiet, Answered
      <3>3. ~Quiet => CleanSoFar'
        BY <1>0, <2>1 DEF serverVars, CleanSoFar
      <3> QED BY <2>1, <3>1, <3>2, <3>3
    <2> QED BY <2>2, <2>3
  <1>6. ASSUME NEW g \in GmpRequests, GmpAdmit(g) \/ GmpReject(g) \/ GmpReturn(g)
        PROVE  Rest'
    <2>1. gmpSem \in 0..MaxConcurrent /\ MaxConcurrent \in Nat
      BY <1>0, HandlerAssumption DEF ServerTypeOK
    <2>2. GmpSlotsMatch' /\ gmpSem' \in 0..MaxConcurrent
      BY <1>0, <1>6, <2>1, GmpCounts DEF GmpSlotsMatch, GmpAdmit, GmpReject, GmpReturn
    <2>3. ServerTypeOK' /\ CloseStage' /\ Connected'
      BY <1>0, <1>6, <2>2 DEF GmpAdmit, GmpReject, GmpReturn, ServerTypeOK, CloseStage,
                              Connected, vars, cacheVars, handlerVars
    <2>4. CleanSoFar'
      <3>1. conn[g] = "serving" /\ gmpPc[g] # "done"
        BY <1>0, <1>6 DEF GmpAdmit, GmpReject, GmpReturn, Connected
      <3>2. ~Quiet
        BY <3>1, ServerAssumption DEF Quiet, Answered, Connections
      <3> QED BY <1>0, <1>6, <3>2 DEF GmpAdmit, GmpReject, GmpReturn, CleanSoFar
    <2> QED BY <2>2, <2>3, <2>4
  <1>7. ASSUME NEW i \in fresh, TokenExpires(i), UNCHANGED serverVars
        PROVE  Rest'
    BY <1>0, <1>7 DEF TokenExpires, serverVars, cacheVars, ServerTypeOK, GmpSlotsMatch,
                      GmpHolders, CloseStage, Connected, CleanSoFar, Quiet, Answered
  <1>8. ASSUME SelectListenErr \/ SelectSignal \/ Drained \/ GraceOver \/ Closed \/ Reap
        PROVE  Rest'
    <2>1. UNCHANGED <<vars, signaled, conn, gmpPc, gmpSem>>
      BY <1>8 DEF SelectListenErr, SelectSignal, Drained, GraceOver, Closed, Reap, MainGoes
    <2>2. UNCHANGED <<pc, open, closing>> /\ (Quiet' <=> Quiet)
      BY <2>1 DEF vars, cacheVars, handlerVars, Quiet, Answered
    <2>3. GmpSlotsMatch' /\ Connected'
      BY <1>0, <2>1, <2>2 DEF GmpSlotsMatch, GmpHolders, Connected
    <2>4. ServerTypeOK' /\ CloseStage' /\ CleanSoFar'
      <3>1. CASE SelectListenErr
        BY <1>0, <2>1, <2>2, <3>1 DEF SelectListenErr, MainGoes, ServerTypeOK, CloseStage, CleanSoFar
      <3>2. CASE SelectSignal
        BY <1>0, <2>1, <2>2, <3>2 DEF SelectSignal, MainGoes, ServerTypeOK, CloseStage, CleanSoFar
      <3>3. CASE Drained
        BY <1>0, <2>1, <2>2, <3>3 DEF Drained, MainGoes, ServerTypeOK, CloseStage, CleanSoFar
      <3>4. CASE GraceOver
        BY <1>0, <2>1, <2>2, <3>4 DEF GraceOver, MainGoes, ServerTypeOK, CloseStage, CleanSoFar
      <3>5. CASE Closed
        BY <1>0, <2>1, <2>2, <3>5 DEF Closed, MainGoes, ServerTypeOK, CloseStage, CleanSoFar
      <3>6. CASE Reap
        BY <1>0, <2>1, <2>2, <3>6 DEF Reap, MainGoes, ServerTypeOK, CloseStage, CleanSoFar
      <3> QED BY <1>8, <3>1, <3>2, <3>3, <3>4, <3>5, <3>6
    <2> QED BY <2>3, <2>4
  <1>9. ASSUME MainCloses
        PROVE  Rest'
    <2>1. CloseStep /\ UNCHANGED <<handlerVars, serverVars>> /\ main \in {"closing", "aborting"}
      BY <1>9 DEF MainCloses
    <2>2. ServerTypeOK' /\ GmpSlotsMatch' /\ CloseStage' /\ Connected'
      BY <1>0, <2>1 DEF handlerVars, serverVars, ServerTypeOK, GmpSlotsMatch, GmpHolders,
                        CloseStage, Connected
    <2>3. CleanSoFar'
      <3>1. closing' = "done" => open' = {}
        BY <1>0, <2>1, CloseLeavesNothing
      <3>2. Quiet' <=> Quiet
        BY <2>1 DEF handlerVars, serverVars, Quiet, Answered
      <3> QED BY <1>0, <2>1, <3>1, <3>2 DEF serverVars, CleanSoFar
    <2> QED BY <2>2, <2>3
  <1>10. ASSUME UNCHANGED allVars
         PROVE  Rest'
    BY <1>0, <1>10 DEF allVars, vars, cacheVars, handlerVars, serverVars, ServerTypeOK,
                       GmpSlotsMatch, GmpHolders, CloseStage, Connected, CleanSoFar, Quiet,
                       Answered
  <1>11. Rest'
    <2> HIDE DEF Rest
    <2>1. ASSUME ServerNext
          PROVE  Rest'
      <3>1. CASE Network
        BY <1>3, <1>4, <2>1, <3>1 DEF Network, ServerNext
      <3>2. CASE Handlers
        BY <1>5, <1>6, <1>7, <3>2 DEF Handlers
      <3>3. CASE Main
        BY <1>8, <1>9, <3>3 DEF Main
      <3> QED BY <2>1, <3>1, <3>2, <3>3 DEF ServerNext
    <2> QED BY <1>10, <2>1
  <1> QED BY <1>1, <1>2, <1>11 DEF ServerInv

\* The inductive invariant holds throughout.
THEOREM ServerInvariant == ServerSpec => []ServerInv
  BY ServerInvInit, ServerInvNext, PTL DEF ServerSpec

-----------------------------------------------------------------------------
(* Results *)

\* The variables of the process keep their types.
THEOREM ServerTypeCorrect == ServerSpec => []ServerTypeOK
  BY ServerInvariant, PTL DEF ServerInv

\* A /gmp-metrics request is turned away only while all slots of its endpoint
\* are really in use.
THEOREM GmpRejectedOnlyWhenFullHolds == ServerSpec => GmpRejectedOnlyWhenFull
  <1>1. ASSUME ServerInv, [ServerNext]_allVars, NEW g \in GmpRequests,
               gmpPc[g] = "new", gmpPc'[g] = "done"
        PROVE  Cardinality(GmpHolders) = MaxConcurrent
    <2>1. ServerTypeOK /\ GmpSlotsMatch
      BY <1>1 DEF ServerInv
    <2>2. \E h \in GmpRequests : GmpReject(h)
      BY <1>1, <2>1
      DEF ServerTypeOK, ServerNext, Network, Accept, Dispatch, CloseIdle, ListenFails,
          ListenReturns, Signal, Handlers, Serve, serverVars, GmpAdmit, GmpReturn, Main,
          MainGoes, SelectListenErr, SelectSignal, Drained, GraceOver, MainCloses, Closed,
          Reap, allVars
    <2> QED BY <2>1, <2>2 DEF GmpReject, GmpSlotsMatch
  <1>2. ServerInv /\ [ServerNext]_allVars
          => [\A g \in GmpRequests : gmpPc[g] = "new" /\ gmpPc'[g] = "done"
                                     => Cardinality(GmpHolders) = MaxConcurrent]_allVars
    BY <1>1
  <1> QED BY <1>2, ServerInvariant, PTL DEF ServerSpec, GmpRejectedOnlyWhenFull

\* Exit code 0 means that every request was answered and every client closed.
THEOREM CleanExitHolds == ServerSpec => []CleanExit
  <1>1. ServerInv => CleanExit
    BY DEF ServerInv, CloseStage, CleanSoFar, CleanExit
  <1> QED BY <1>1, ServerInvariant, PTL

\* No request is left with a closed client while the exit code is 0.
THEOREM NoUseAfterCloseHolds == ServerSpec => []NoUseAfterClose
  <1>1. ASSUME ServerInv
        PROVE  NoUseAfterClose
    <2> SUFFICES ASSUME NEW r \in Requests, pc[r] \in {"fetching", "calling"}, exitCode # 1
                 PROVE  got[r] \in open
      BY DEF NoUseAfterClose
    <2>1. /\ CacheInv /\ Serving /\ ServerTypeOK
          /\ CloseStage /\ Connected /\ AllOpen /\ CleanSoFar
      BY <1>1 DEF ServerInv, HandlerInv
    <2>2. conn[r] = "serving" /\ ~Answered(r)
      BY <2>1 DEF Connected, Answered
    <2>3. ~Quiet
      BY <2>2 DEF Quiet, Connections
    <2>4. closing = "no"
      BY <2>1, <2>3 DEF ServerTypeOK, CloseStage, CleanSoFar
    <2>5. got[r] \in 1..Len(made)
      BY <2>1 DEF Serving, CacheInv, GotSound, Requests
    <2> QED BY <2>1, <2>4, <2>5 DEF AllOpen
  <1> QED BY <1>1, ServerInvariant, PTL

-----------------------------------------------------------------------------
(* The configuration *)

\* The process starts only with limits that are positive numbers: what
\* ScrapeHandler assumes of MaxConcurrent and Collector of MaxSeries, so that
\* no semaphore is without a slot and no scrape is over the cap from the
\* start, and contexts that have not ended before the call they are made for.
THEOREM ConfiguredLimits ==
    ASSUME NEW env \in Env, Valid(env)
    PROVE  /\ loadConfig(env).numbers \in [Numbers -> Nat \ {0}]
           /\ loadConfig(env).numbers["PORT"] \in 1..MaxPort
  <1> DEFINE given == env.numbers
             cfg == [v \in Numbers |-> IF given[v] = Unset THEN Default[v] ELSE given[v]]
  <1>1. given \in [Numbers -> Int \cup {Unset, Garbage}]
    BY DEF Env
  <1>2. \A v \in Numbers : AcceptsNumber(v, given[v])
    BY DEF Valid
  <1>3. loadConfig(env).numbers = cfg
    BY DEF loadConfig
  <1> HIDE DEF given
  <1>4. \A v \in Numbers : Default[v] \in Nat \ {0}
    BY ConfigAssumption DEF Numbers, Default
  <1>5. "PORT" \in Numbers /\ Default["PORT"] <= MaxPort /\ MaxPort \in Nat
    BY DEF Numbers, Default, MaxPort
  <1>6. ASSUME NEW v \in Numbers
        PROVE  cfg[v] \in Nat \ {0} /\ (v = "PORT" => cfg[v] <= MaxPort)
    <2>1. CASE given[v] = Unset
      BY <1>4, <1>5, <2>1
    <2>2. CASE given[v] # Unset
      <3>1. given[v] \in Int /\ InRange(v, given[v])
        BY <1>1, <1>2, <2>2 DEF AcceptsNumber
      <3> QED BY <2>2, <3>1 DEF InRange
    <2> QED BY <2>1, <2>2
  <1>7. cfg = [v \in Numbers |-> cfg[v]]
    OBVIOUS
  <1> HIDE DEF cfg
  <1>8. cfg \in [Numbers -> Nat \ {0}]
    BY <1>6, <1>7
  <1>9. cfg["PORT"] \in 1..MaxPort
    BY <1>5, <1>6
  <1> QED BY <1>3, <1>8, <1>9

\* PORT is parsed twice, by loadConfig and in the --healthcheck mode.  With
\* every environment the server starts with, the probe goes to the port that
\* the server listens on.
THEOREM HealthcheckFindsServer ==
    ASSUME NEW env \in Env, Valid(env)
    PROVE  HealthcheckPort(env) = loadConfig(env).numbers["PORT"]
  <1> DEFINE port == env.numbers["PORT"]
  <1>1. "PORT" \in Numbers /\ AcceptsNumber("PORT", port)
    BY DEF Valid, Numbers
  <1>2. loadConfig(env).numbers["PORT"] = IF port = Unset THEN Default["PORT"] ELSE port
    BY <1>1 DEF loadConfig
  <1> QED BY <1>1, <1>2 DEF AcceptsNumber, HealthcheckPort

\* Words are accepted in any case and handed on in lower case: the level and
\* the format of the logs are always among those the logger knows.
THEOREM ConfiguredWords ==
    ASSUME NEW env \in Env, Valid(env), NEW v \in Words
    PROVE  loadConfig(env).words[v] \in Known[v]
  <1> DEFINE text == env.words[v]
  <1>1. AcceptsWord(v, text)
    BY DEF Valid
  <1>2. loadConfig(env).words[v] = IF text = Unset THEN Default[v] ELSE Lower[text]
    BY DEF loadConfig
  <1>3. Default[v] \in Known[v]
    BY DEF Words, Default, Known
  <1> QED BY <1>1, <1>2, <1>3 DEF AcceptsWord
=============================================================================
