------------------------------- MODULE Server -------------------------------
(***************************************************************************)
(* The process (cmd/server/main.go): main, its listener, and the requests  *)
(* of both endpoints, from the accepted connection to the exit code.       *)
(*                                                                         *)
(* The /metrics requests are those of ScrapeHandler, with their cache,     *)
(* which main closes.  Of a /gmp-metrics request only the gate is kept,    *)
(* which has a semaphore of its own; what it does behind it is             *)
(* ScrapeHandler's with Backend = "gmp".                                   *)
(***************************************************************************)
EXTENDS ScrapeHandler

CONSTANT GmpRequests   \* the requests to /gmp-metrics

ASSUME ServerAssumption ==
    /\ Backend = "monitoring"
    /\ GmpRequests \cap Requests = {}
    /\ IsFiniteSet(GmpRequests)

Connections == Requests \cup GmpRequests

VARIABLES main,       \* where main is
          signaled,   \* SIGINT or SIGTERM has been received
          listener,   \* the goroutine that runs ListenAndServe
          conn,       \* the connection of each request
          exitCode,
          gmpPc,      \* where each /gmp-metrics request is
          gmpSem      \* slots taken in GMPHandler's semaphore channel

serverVars == <<main, signaled, listener, conn, exitCode, gmpPc, gmpSem>>
allVars == <<vars, serverVars>>

ServerTypeOK ==
    /\ main \in {"serving", "draining", "closing", "reaping", "aborting", "exited"}
    /\ signaled \in BOOLEAN
    /\ listener \in {"listening", "closing", "returned", "failed"}
    /\ conn \in [Connections -> {"none", "accepted", "serving", "closed"}]
    /\ exitCode \in {0, 1}
    /\ gmpPc \in [GmpRequests -> {"new", "inside", "done"}]
    /\ gmpSem \in 0..MaxConcurrent

ServerInit ==
    /\ Init
    /\ main = "serving"
    /\ signaled = FALSE
    /\ listener = "listening"
    /\ conn = [q \in Connections |-> "none"]
    /\ exitCode = 0
    /\ gmpPc = [g \in GmpRequests |-> "new"]
    /\ gmpSem = 0

-----------------------------------------------------------------------------
(* net/http *)

\* A listener that is closed, or whose address was taken, accepts nothing.
Accept(q) ==
    /\ listener = "listening"
    /\ conn[q] = "none"
    /\ conn' = [conn EXCEPT ![q] = "accepted"]
    /\ UNCHANGED <<vars, main, signaled, listener, exitCode, gmpPc, gmpSem>>

\* The request has been read and ServeHTTP starts, Shutdown or not.
Dispatch(q) ==
    /\ conn[q] = "accepted"
    /\ conn' = [conn EXCEPT ![q] = "serving"]
    /\ UNCHANGED <<vars, main, signaled, listener, exitCode, gmpPc, gmpSem>>

\* Shutdown closes a connection on which no request has come for a while.
CloseIdle(q) ==
    /\ main = "draining"
    /\ conn[q] = "accepted"
    /\ conn' = [conn EXCEPT ![q] = "closed"]
    /\ UNCHANGED <<vars, main, signaled, listener, exitCode, gmpPc, gmpSem>>

\* ListenAndServe returns an error of its own: it cannot accept, or could not
\* bind the address, which may come to light after Shutdown has begun ...
ListenFails ==
    /\ \/ listener = "listening"
       \/ listener = "closing" /\ \A q \in Connections : conn[q] = "none"
    /\ listener' = "failed"
    /\ UNCHANGED <<vars, main, signaled, conn, exitCode, gmpPc, gmpSem>>

\* ... or ErrServerClosed, once Shutdown has closed its listener.
ListenReturns ==
    /\ listener = "closing"
    /\ listener' = "returned"
    /\ UNCHANGED <<vars, main, signaled, conn, exitCode, gmpPc, gmpSem>>

Signal ==
    /\ ~signaled
    /\ signaled' = TRUE
    /\ UNCHANGED <<vars, main, listener, conn, exitCode, gmpPc, gmpSem>>

-----------------------------------------------------------------------------
(* The handlers *)

Serve(r) == conn[r] = "serving" /\ RequestStep(r) /\ UNCHANGED serverVars

GmpAdmit(g) ==
    /\ conn[g] = "serving"
    /\ gmpPc[g] = "new"
    /\ gmpSem < MaxConcurrent
    /\ gmpSem' = gmpSem + 1
    /\ gmpPc' = [gmpPc EXCEPT ![g] = "inside"]
    /\ UNCHANGED <<vars, main, signaled, listener, conn, exitCode>>

\* Fault: the release is deferred before the slot is taken.
GmpRejectReleases(g) ==
    /\ conn[g] = "serving"
    /\ gmpPc[g] = "new"
    /\ gmpSem = MaxConcurrent
    /\ gmpSem' = gmpSem - 1
    /\ gmpPc' = [gmpPc EXCEPT ![g] = "done"]
    /\ UNCHANGED <<vars, main, signaled, listener, conn, exitCode>>

GmpReject(g) ==
    /\ conn[g] = "serving"
    /\ gmpPc[g] = "new"
    /\ gmpSem = MaxConcurrent
    /\ gmpPc' = [gmpPc EXCEPT ![g] = "done"]
    /\ UNCHANGED <<vars, main, signaled, listener, conn, exitCode, gmpSem>>

\* Fault: one of the returns forgets to free the slot.
GmpReturnKeepsSlot(g) ==
    /\ gmpPc[g] = "inside"
    /\ gmpSem' \in {gmpSem, gmpSem - 1}
    /\ gmpPc' = [gmpPc EXCEPT ![g] = "done"]
    /\ UNCHANGED <<vars, main, signaled, listener, conn, exitCode>>

GmpReturn(g) ==
    /\ gmpPc[g] = "inside"
    /\ gmpSem' = gmpSem - 1
    /\ gmpPc' = [gmpPc EXCEPT ![g] = "done"]
    /\ UNCHANGED <<vars, main, signaled, listener, conn, exitCode>>

-----------------------------------------------------------------------------
(* main *)

Answered(q) == IF q \in Requests THEN pc[q] = "done" ELSE gmpPc[q] = "done"

\* What Shutdown waits for: no request in a handler, none still to be read.
Quiet == \A q \in Connections : \/ conn[q] \in {"none", "closed"}
                                \/ conn[q] = "serving" /\ Answered(q)

MainGoes(to) ==
    /\ main' = to
    /\ UNCHANGED <<vars, signaled, conn, gmpPc, gmpSem>>

\* The select of main.  When both cases are ready either may be taken.
SelectListenErr ==
    /\ main = "serving"
    /\ listener = "failed"
    /\ MainGoes("aborting")
    /\ exitCode' = 1
    /\ UNCHANGED listener

\* Shutdown begins by closing the listener.
SelectSignal ==
    /\ main = "serving"
    /\ signaled
    /\ MainGoes("draining")
    /\ listener' = IF listener = "listening" THEN "closing" ELSE listener
    /\ UNCHANGED exitCode

\* Fault: main does not wait for Shutdown.
DrainedAtOnce ==
    /\ main = "draining"
    /\ MainGoes("closing")
    /\ UNCHANGED <<listener, exitCode>>

Drained ==
    /\ main = "draining"
    /\ Quiet
    /\ MainGoes("closing")
    /\ UNCHANGED <<listener, exitCode>>

\* Fault: the error of Shutdown is only logged.
GraceOverSilently ==
    /\ main = "draining"
    /\ MainGoes("closing")
    /\ UNCHANGED <<listener, exitCode>>

\* SHUTDOWN_GRACE is over; the handlers still running are left alone.
GraceOver ==
    /\ main = "draining"
    /\ MainGoes("closing")
    /\ exitCode' = 1
    /\ UNCHANGED listener

\* cache.Close(); its error is only logged.
MainCloses ==
    /\ main \in {"closing", "aborting"}
    /\ CloseStep
    /\ UNCHANGED <<handlerVars, serverVars>>

\* After a failed listener os.Exit follows at once.
Closed ==
    /\ main \in {"closing", "aborting"}
    /\ closing = "done"
    /\ MainGoes(IF main = "closing" THEN "reaping" ELSE "exited")
    /\ UNCHANGED <<listener, exitCode>>

\* Fault: main waits until the listener says ErrServerClosed.
ReapClosedOnly ==
    /\ main = "reaping"
    /\ listener = "returned"
    /\ MainGoes("exited")
    /\ UNCHANGED <<listener, exitCode>>

\* The receive from listenErrCh, then the end of the process.
Reap ==
    /\ main = "reaping"
    /\ listener \in {"returned", "failed"}
    /\ MainGoes("exited")
    /\ exitCode' = IF listener = "failed" THEN 1 ELSE exitCode
    /\ UNCHANGED listener

-----------------------------------------------------------------------------

Network == \/ \E q \in Connections : Accept(q) \/ Dispatch(q) \/ CloseIdle(q)
           \/ ListenFails
           \/ ListenReturns
           \/ Signal

Handlers == \/ \E r \in Requests : Serve(r)
            \/ \E g \in GmpRequests : GmpAdmit(g) \/ GmpReject(g) \/ GmpReturn(g)
            \/ \E i \in fresh : TokenExpires(i) /\ UNCHANGED serverVars

Main == SelectListenErr \/ SelectSignal \/ Drained \/ GraceOver \/ MainCloses \/ Closed \/ Reap

\* With main the whole process ends.
ServerNext == main # "exited" /\ (Network \/ Handlers \/ Main)

ServerSpec == ServerInit /\ [][ServerNext]_allVars

\* main and the listener's goroutine run, the grace period ends, and whoever
\* holds the cache's mutex lets go of it.  Nothing else is assumed of the
\* handlers, their upstream or their clients.
ServerFairness ==
    /\ WF_allVars(Main)
    /\ SF_allVars(main # "exited" /\ CloseLocks /\ UNCHANGED <<handlerVars, serverVars>>)
    /\ WF_allVars(main # "exited" /\ ListenReturns)
    /\ \A r \in Requests :
          WF_allVars(main # "exited" /\ Build(r) /\ UNCHANGED <<handlerVars, serverVars>>)

FairServerSpec == ServerSpec /\ ServerFairness

-----------------------------------------------------------------------------
(* Properties *)

\* Exit code 0 means a clean end: every request that was ever read has been
\* answered and every gRPC client is closed, whatever was going on when the
\* signal came.
CleanExit == main = "exited" /\ exitCode = 0 => Quiet /\ open = {}

\* The cache is not closed under a request that uses its client, unless the
\* grace period or the listener had failed it, which the exit code tells.
NoUseAfterClose ==
    \A r \in Requests : pc[r] \in {"fetching", "calling"} /\ got[r] \notin open
                         => exitCode = 1

\* A signal ends the process, even if handlers never return.
ExitsAfterSignal == signaled ~> main = "exited"

\* The requests to /gmp-metrics that hold a slot.
GmpHolders == {g \in GmpRequests : gmpPc[g] = "inside"}

\* A request to /gmp-metrics is turned away only at a moment when as many
\* others of its endpoint are being served as there are slots: none is lost,
\* and none is taken by /metrics, in whatever state that and main are.
GmpRejectedOnlyWhenFull ==
    [][\A g \in GmpRequests : gmpPc[g] = "new" /\ gmpPc'[g] = "done"
                               => Cardinality(GmpHolders) = MaxConcurrent]_allVars
=============================================================================
