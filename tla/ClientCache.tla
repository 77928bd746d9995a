----------------------------- MODULE ClientCache ----------------------------
(***************************************************************************)
(* The per-impersonation-target client caches: collector.ClientCache       *)
(* (internal/collector/cache.go) and gmp.ClientCache                       *)
(* (internal/gmp/cache.go).  One mutex guards the whole of Get, including  *)
(* the construction of the token source and of the client, and the whole   *)
(* of Close.                                                               *)
(*                                                                         *)
(* Backend selects the cache: "monitoring" dials a gRPC client, which may  *)
(* fail, and has a Close; "gmp" wraps the token source in an HTTP client,  *)
(* which cannot fail, and has no Close.                                    *)
(***************************************************************************)
EXTENDS Naturals, Sequences

CONSTANTS Callers,    \* goroutines that call Get: the requests in flight
          Closer,     \* the goroutine that calls Close: main, at shutdown
          Nobody,     \* the mutex is free
          SAs,        \* service accounts that can be impersonated
          NoSA,       \* the empty string: no impersonation target
          DefaultSA,  \* authCfg.ImpersonateServiceAccount
          Backend     \* "monitoring" or "gmp"

Keys == SAs \cup {NoSA}

ASSUME CacheAssumption ==
    /\ Closer \notin Callers
    /\ Nobody \notin Callers \cup {Closer}
    /\ NoSA \notin SAs
    /\ DefaultSA \in Keys
    /\ Backend \in {"monitoring", "gmp"}

VARIABLES mu,        \* who holds ClientCache.mu
          clients,   \* ClientCache.clients; 0 when the key is absent
          phase,     \* where each caller is in Get
          want,      \* the impersonateSA argument of each caller's last Get
          got,       \* the client Get returned; 0 with an error
          made,      \* every client built so far; a client is its index
          open,      \* the clients that have not been closed
          closing,   \* where Close is
          closeErr   \* some client's Close returned an error

cacheVars == <<mu, clients, phase, want, got, made, open, closing, closeErr>>

\* A client: the key it is cached under, the principal its tokens are for,
\* and the caller whose context its token source was built with.
Client == [key : Keys, as : Keys, ctx : Callers]

CacheTypeOK ==
    /\ mu \in Callers \cup {Closer, Nobody}
    /\ clients \in [Keys -> Nat]
    /\ phase \in [Callers -> {"idle", "waiting", "locked", "dialing", "returned"}]
    /\ want \in [Callers -> Keys]
    /\ got \in [Callers -> Nat]
    /\ made \in Seq(Client)
    /\ open \subseteq 1..Len(made)
    /\ closing \in {"no", "waiting", "sweeping", "done"}
    /\ closeErr \in BOOLEAN

CacheInit ==
    /\ mu = Nobody
    /\ clients = [k \in Keys |-> 0]
    /\ phase = [c \in Callers |-> "idle"]
    /\ want = [c \in Callers |-> NoSA]
    /\ got = [c \in Callers |-> 0]
    /\ made = <<>>
    /\ open = {}
    /\ closing = "no"
    /\ closeErr = FALSE

\* auth.NewTokenSource's choice: the argument of Get overrides the target of
\* the base configuration, and the empty argument falls back to it.
Principal(k) == IF k # NoSA THEN k ELSE DefaultSA

-----------------------------------------------------------------------------
(* Get *)

GetCalled(c, k) ==
    /\ phase[c] = "idle"
    /\ phase' = [phase EXCEPT ![c] = "waiting"]
    /\ want' = [want EXCEPT ![c] = k]
    /\ UNCHANGED <<mu, clients, got, made, open, closing, closeErr>>

\* Fault: the table is used without the mutex.
GetNeverLocks(c) ==
    /\ phase[c] = "waiting"
    /\ mu' = c
    /\ phase' = [phase EXCEPT ![c] = "locked"]
    /\ UNCHANGED <<clients, want, got, made, open, closing, closeErr>>

GetLocks(c) ==
    /\ phase[c] = "waiting"
    /\ mu = Nobody
    /\ mu' = c
    /\ phase' = [phase EXCEPT ![c] = "locked"]
    /\ UNCHANGED <<clients, want, got, made, open, closing, closeErr>>

\* Fault: an error path returns without the deferred unlock.
GetReturnsLocked(c, i) ==
    /\ mu' = IF i = 0 THEN mu ELSE Nobody
    /\ phase' = [phase EXCEPT ![c] = "returned"]
    /\ got' = [got EXCEPT ![c] = i]
    /\ UNCHANGED <<want, closing, closeErr>>

\* Every return of Get unlocks on the way out (defer c.mu.Unlock()).
GetReturns(c, i) ==
    /\ mu' = Nobody
    /\ phase' = [phase EXCEPT ![c] = "returned"]
    /\ got' = [got EXCEPT ![c] = i]
    /\ UNCHANGED <<want, closing, closeErr>>

GetHits(c) ==
    /\ phase[c] = "locked"
    /\ clients[want[c]] # 0
    /\ GetReturns(c, clients[want[c]])
    /\ UNCHANGED <<clients, made, open>>

TokenSourceFails(c) ==
    /\ phase[c] = "locked"
    /\ clients[want[c]] = 0
    /\ GetReturns(c, 0)
    /\ UNCHANGED <<clients, made, open>>

\* Fault: a client is built without looking the key up first.
TokenSourceUnchecked(c) ==
    /\ phase[c] = "locked"
    /\ phase' = [phase EXCEPT ![c] = "dialing"]
    /\ UNCHANGED <<mu, clients, want, got, made, open, closing, closeErr>>

TokenSourceBuilt(c) ==
    /\ phase[c] = "locked"
    /\ clients[want[c]] = 0
    /\ phase' = [phase EXCEPT ![c] = "dialing"]
    /\ UNCHANGED <<mu, clients, want, got, made, open, closing, closeErr>>

DialFails(c) ==
    /\ Backend = "monitoring"
    /\ phase[c] = "dialing"
    /\ GetReturns(c, 0)
    /\ UNCHANGED <<clients, made, open>>

\* Fault: the target of the request does not override the configured one.
DialedAsDefault(c) ==
    /\ phase[c] = "dialing"
    /\ made' = Append(made, [key |-> want[c], as |-> DefaultSA, ctx |-> c])
    /\ open' = open \cup {Len(made) + 1}
    /\ clients' = [clients EXCEPT ![want[c]] = Len(made) + 1]
    /\ GetReturns(c, Len(made) + 1)

\* The new client goes into the table under the same hold of the mutex.
Dialed(c) ==
    /\ phase[c] = "dialing"
    /\ made' = Append(made, [key |-> want[c], as |-> Principal(want[c]), ctx |-> c])
    /\ open' = open \cup {Len(made) + 1}
    /\ clients' = [clients EXCEPT ![want[c]] = Len(made) + 1]
    /\ GetReturns(c, Len(made) + 1)

\* The caller is done with the client it was given.
GetTaken(c) ==
    /\ phase[c] = "returned"
    /\ phase' = [phase EXCEPT ![c] = "idle"]
    /\ got' = [got EXCEPT ![c] = 0]
    /\ UNCHANGED <<mu, clients, want, made, open, closing, closeErr>>

\* What the holder of the mutex does inside Get.
Build(c) == \/ GetHits(c)
            \/ TokenSourceFails(c)
            \/ TokenSourceBuilt(c)
            \/ DialFails(c)
            \/ Dialed(c)

-----------------------------------------------------------------------------
(* Close *)

CloseCalled ==
    /\ Backend = "monitoring"
    /\ closing = "no"
    /\ closing' = "waiting"
    /\ UNCHANGED <<mu, clients, phase, want, got, made, open, closeErr>>

CloseLocks ==
    /\ closing = "waiting"
    /\ mu = Nobody
    /\ mu' = Closer
    /\ closing' = "sweeping"
    /\ UNCHANGED <<clients, phase, want, got, made, open, closeErr>>

\* One turn of Close's loop, which takes the keys in any order: an error is
\* remembered and the entry is deleted all the same.
CloseOne(k) ==
    /\ closing = "sweeping"
    /\ clients[k] # 0
    /\ open' = open \ {clients[k]}
    /\ clients' = [clients EXCEPT ![k] = 0]
    /\ closeErr' \in {closeErr, TRUE}
    /\ UNCHANGED <<mu, phase, want, got, made, closing>>

\* Fault: the first error ends the loop.
CloseReturnsEarly ==
    /\ closing = "sweeping"
    /\ closeErr \/ \A k \in Keys : clients[k] = 0
    /\ closing' = "done"
    /\ mu' = Nobody
    /\ UNCHANGED <<clients, phase, want, got, made, open, closeErr>>

\* Fault: Close goes on until every client has been closed without error.
CloseReturnsIfClean ==
    /\ closing = "sweeping"
    /\ ~closeErr
    /\ \A k \in Keys : clients[k] = 0
    /\ closing' = "done"
    /\ mu' = Nobody
    /\ UNCHANGED <<clients, phase, want, got, made, open, closeErr>>

CloseReturns ==
    /\ closing = "sweeping"
    /\ \A k \in Keys : clients[k] = 0
    /\ closing' = "done"
    /\ mu' = Nobody
    /\ UNCHANGED <<clients, phase, want, got, made, open, closeErr>>

Sweep == (\E k \in Keys : CloseOne(k)) \/ CloseReturns

-----------------------------------------------------------------------------

GetStep(c) == \/ GetLocks(c)
              \/ Build(c)

CloseStep == \/ CloseCalled
             \/ CloseLocks
             \/ Sweep

CacheNext == \/ \E c \in Callers : \/ \E k \in Keys : GetCalled(c, k)
                                   \/ GetStep(c)
                                   \/ GetTaken(c)
             \/ CloseStep

CacheSpec == CacheInit /\ [][CacheNext]_cacheVars

\* The holder of the mutex goes on: the token source is built from files and
\* from the metadata server, whose probes time out, and dialing does not
\* block.  sync.Mutex hands itself over to a goroutine that has waited for a
\* millisecond, so a waiter is not overtaken for ever.
CacheFairness == /\ \A c \in Callers : /\ SF_cacheVars(GetLocks(c))
                                       /\ WF_cacheVars(Build(c))
                 /\ SF_cacheVars(CloseLocks)
                 /\ WF_cacheVars(Sweep)

FairCacheSpec == CacheSpec /\ CacheFairness

-----------------------------------------------------------------------------
(* Properties *)

\* However Gets for one key interleave with one another and with Close, two
\* open clients never share a key, and every open client is in the table, so
\* that Close can reach it: none is leaked.
OneClientPerKey ==
    /\ open = {clients[k] : k \in Keys} \ {0}
    /\ \A i, j \in open : made[i].key = made[j].key => i = j

\* A caller is never handed a client that authenticates as another principal
\* than the one it asked for (or the configured default, when it asked for
\* none), even if the client was built by another caller.
RightPrincipal ==
    \A c \in Callers : phase[c] = "returned" /\ got[c] # 0
                       => made[got[c]].as = Principal(want[c])

\* Close returns only when every client is closed, even the ones that were
\* built while it waited for the mutex and whatever errors the others gave.
CloseReleasesAll ==
    [][closing = "sweeping" /\ closing' = "done" => open' = {}]_cacheVars

\* Seen from its callers the cache is the abstract table: Get takes effect at
\* the step that returns, and Close when it takes the mutex.
Table == [k \in Keys |-> IF closing = "sweeping" THEN 0 ELSE clients[k]]

Stage == [c \in Callers |-> CASE phase[c] = "idle" -> "idle"
                              [] phase[c] = "returned" -> "answered"
                              [] OTHER -> "asking"]

Abstract == INSTANCE GetOrBuild WITH table <- Table, stage <- Stage, key <- want,
                                     answer <- got, built <- Len(made)

ImplementsGetOrBuild == Abstract!Spec

\* Every Get returns and so does Close, whoever else keeps calling: the one
\* mutex is released on every path.
GetReturnsInTheEnd ==
    \A c \in Callers : phase[c] = "waiting" ~> phase[c] = "returned"

CloseReturnsInTheEnd == closing = "waiting" ~> closing = "done"
=============================================================================
