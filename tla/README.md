# A TLA+ verification of gcp-metrics-exporter

gcp-metrics-exporter answers Prometheus scrapes with metrics it reads, request
by request, from Google Cloud Monitoring (`/metrics`) and from Managed Service
for Prometheus (`/gmp-metrics`). It keeps little state, but what it keeps is
shared by all requests and lives as long as the process: the client caches, the
semaphores, the descriptor cache. This directory models that core in TLA+, and
the conversions that turn an answer of the upstream into what Prometheus
stores; it model-checks them with TLC and proves what matters most with TLAPS.

Contents: [Inventory](#inventory) · [Modules](#modules) · [Runs](#runs) ·
[Fairness](#fairness) · [Proofs](#proofs) · [Where code and documents
disagree](#where-code-and-documents-disagree) · [Not modelled](#not-modelled) ·
[Plan](#plan)

## Inventory

| Component | Source | State it keeps | Operations | Talks to |
|---|---|---|---|---|
| Client caches | `internal/collector/cache.go`, `internal/gmp/cache.go` | a mutex, a map from account to client | `Get`; `Close` (Cloud Monitoring only) | credentials, the dialer |
| Request handlers | `internal/handler/handler.go`, `gmp_handler.go` | a semaphore channel per handler; per request: its context, client and answer | `ServeHTTP`, `mapError`, `mapGMPError` | caches, collectors, net/http |
| Cloud Monitoring collector | `internal/collector/collector.go` | per request: the series counted, the families so far | `Collect`, `buildRequest`, `convertSeries` | the gRPC client, the descriptor cache |
| Descriptor cache | `internal/collector/descriptor.go` | a `sync.Map` from (project, metric type) to unit | `unit` | the gRPC client |
| GMP client and collector | `internal/gmp/client.go`, `collector.go` | none between requests | `Query`, `Collect` | the HTTP client |
| Credentials | `internal/auth/auth.go` | a token source, which keeps a token and the context it was made with | `NewTokenSource` | key files, the metadata server, IAM |
| Server process | `cmd/server/main.go` | the listener, the signal channel, the exit code | `main` | everything above |
| Configuration | `cmd/server/main.go` | nine environment variables | `loadConfig` | |
| Healthcheck | `cmd/server/main.go`, `handler.go` | none | `runHealthcheck`, `HandleHealthz` | |

How a scrape travels: net/http starts `ServeHTTP` in a goroutine of its own; the
handler takes a semaphore slot or answers 429; it parses the query, derives a
context with the scrape's deadline from the request's, and calls `Get` of the
cache for the account asked for; the collector queries the upstream with the
client; an error is mapped to a status; deferred calls cancel the context and
free the slot. At a signal `main` stops the listener, waits for the handlers
for at most the grace period, closes the cache and exits.

What is hard in this code, and what being correct means there:

- **Client caches.** Many goroutines ask for the same account at once, while
  building a client takes calls that can fail, and `Close` may come in between.
  Correct: one open client per account, none leaked, none handed to a caller
  that asked for another principal, the mutex free again on every path.
- **Handlers.** A dozen early returns, each of which must free exactly the slot
  the request took; three parties (upstream, deadline, client) race to end a
  request and the status must name the one that did; a cached client outlives
  the request that built it. Correct: the cap is exact, every query runs as the
  right account, the README's error table holds, every request ends that gets its token.
- **Collector.** A cap with an exact boundary over a stream that may break; a
  family table keyed by two attributes; a cache of units read, filled and
  overwritten by concurrent scrapes with different rights. Correct: the
  families account for exactly the series of the response, and only definitive
  answers are cached.
- **Histograms.** Counts per bucket, of three layouts, become counts per upper
  bound, whatever counts are negative, missing or too many. Correct: a histogram
  that Prometheus accepts, with every sample in it, under a bound that is true
  of it.
- **Windows and timestamps.** The end of the query window is truncated, points show
  up late and by varying delays, only the newest one is exported, servers
  restart. Correct: what Prometheus stores, scrape after scrape, are the points, at
  their times, in order, none missing, and no counter that falls.
- **GMP responses.** Samples that cannot be read among those that can, names that
  become equal when they are sanitised, a label that is renamed to one that is there
  already. Correct: each readable sample once, in the one family of its name.
- **Configuration.** `PORT` is parsed in two places. Correct: the healthcheck
  probes the port the server listens on.
- **Server process.** A failing listener, a signal, handlers that do not end
  and the cache's mutex meet at shutdown. Correct: a process that exits with 0
  has dropped nothing, and after a signal the process does end.

`PROJECT.json` lists the hazards line by line with the properties that cover
them, and says of each uncovered one why no property does.

## Modules

| Module | Models | Notes |
|---|---|---|
| `GetOrBuild` | what a client cache promises | abstract: every operation indivisible |
| `ClientCache` | both client caches | one action per step that another goroutine can see |
| `ErrorMapping` | `mapError`, `mapGMPError` | pure operators |
| `ScrapeHandler` | `ServeHTTP` of both handlers | extends `ClientCache`, `ErrorMapping` |
| `Server` | `main` and net/http around the handlers | extends `ScrapeHandler` |
| `Collector` | `Collect` and the descriptor cache | separate: it shares no state with the above |
| `Histogram` | `buildHistogram` | one distribution, bucket by bucket |
| `Sampling` | the window of `buildRequest`, the point that is exported, `start_time_unix` | one series, with the upstream, Prometheus and the clock around it |
| `GmpCollector` | `parseQueryResponse` and `Collect` of the GMP backend | one response, sample by sample |
| `Config` | `loadConfig` and the healthcheck's port | pure operators; `MCServer` takes its slots from it |
| `MC*` | the instances TLC checks | |
| `SequenceFolds` | sums and subsequences of a sequence | no code: what a loop ought to have computed, for the properties of the three conversions |
| `*Proofs` | theorems | one per module proved about; `Config` is in `ServerProofs`, the folds in `SequenceFoldsProofs` |

**ClientCache.** `mu` is the mutex, by its holder; `clients` the map; `made` all
clients ever built (a client is its index, and records the key it was cached
under, the principal of its tokens, and whose context its token source got);
`open` the ones not closed. `phase` is where a caller is in `Get`: *waiting* for
the mutex, *locked* (the map is read: a hit returns at once), *dialing* (the
token source is there), *returned*. Each return releases the mutex in the same
action, as `defer` does. `Close` is a loop over the map in any order. `Backend`
selects the cache: for `"gmp"` there is no dial that can fail and no `Close`.

**ErrorMapping** sees of an error what the code does: the sentinel `errors.Is`
finds, the gRPC code, or the HTTP status of an `APIError`.

**ScrapeHandler.** `pc` goes new → admitted → getting → fetching → calling →
answered → done, with a branch for each early return. `ctx` is the request's
context. `fresh` are the clients that hold an unexpired token; a new token is
needed before a call otherwise, and whether it can be had depends on
`RefreshUsesCtx`: oauth2 sources for user credentials fetch tokens under the
context they were created with, the ones for a service account key do not. The
upstream replies nothing, a result, or one of the errors that `mapError` and `mapGMPError` tell
apart (`UpstreamErrors`), among them a deadline or a cancellation of its own while the
request's context is live. When the context of a call ends, gRPC reports a status *or* the
bare context error (`ContextErrors`), net/http always wraps the context error. An aggregation
that `buildRequest` refuses ends a `/metrics` request before any call (`InvalidAggregation`).
`reason` is history: the condition that ended the request, against which the answer is
compared.

**Server.** `main` follows the function of that name: *serving* (the `select`),
*draining* (`Shutdown`), *closing* (`cache.Close`), *reaping* (the receive from
`listenErrCh`), *exited*; *aborting* is the path of a failed listener. `conn`
follows a connection from accept to dispatch. A `/metrics` request is a
`RequestStep` of `ScrapeHandler`; of a `/gmp-metrics` request only the gate is
kept, since it shares nothing else with the rest of the process.

**Collector.** A time series is reduced to the three attributes the loop branches
on (kind, value type, exportable or not), a unit to "By" or none. Several
scrapes run at once over `descriptors`; the lookup is a step of its own between
the load and the store. The context of a scrape can end during either of its
two upstream calls (`overAt`).

**Histogram.** `dist` is the distribution: its layout, its counts, its total and its mean. The
three actions are the loop over the finite bounds (`FiniteBucket`), the loop over
the counts that are left (`SurplusCount`) and the construction of the result (`Emit`).
Bounds, means and sums are integers, floating point in the code, so nothing is
said of rounding. `GcpUpperBounds` is Cloud Monitoring's definition of the
layouts, to which the code's `bucketBounds` is compared.

**Sampling.** The environment takes a point at the end of each sample period
(`TakePoint`), restarts the server the points are about (`Restart`), lets queries see the
next point within its delay (`Ingest`) and lets time pass (`Tick`). `Scrape` is the
exporter's part: `WindowEnd` is the truncation, `Queried` what the upstream returns
for the window, `Exported` the conversion of `points[0]` with its stamp and its
`start_time_unix`, and what Prometheus stores of it is in `stored`. The module covers
the unaligned and the aligned case (`aligner`): in the second, a bucket of the
alignment period ends where the window does or whole periods before. `Recommended` is
what the repository's README asks for under "Getting correct DELTA values", and
`emit_timestamps` is on. That `alignment_period` defaults to the interval is not
modelled: a scrape without the parameter is one with `Alignment = Interval`.

**GmpCollector.** A sample is a function from labels to values and whether its value can be
read. `EnvelopeFails` is the path of a body that is no response or reports an error;
otherwise samples are parsed one by one, then collected one by one. A family keeps
the sample each metric was made of, as history, for the comparison with the
response. Replacing `:` is a function `Sanitized` of which only the type is assumed.

**Config.** A variable's text is what the code can see in it: nothing, a number, a word or
garbage. `Valid` says which environments the process starts with, `loadConfig` what it makes of
them, `HealthcheckPort` what `--healthcheck` makes of the same `PORT`.

Operators whose comment begins with *Fault:* are not part of a specification.
Each is a mapped operator with a plausible bug (a lost guard, a missing reset,
an off-by-one); `PROJECT.json` pairs each property with one that breaks it.

## Runs

| Run | Instance | Shows |
|---|---|---|
| `client_cache` | 2 callers, 2 keys, `Close` once; 33 thousand states | both caches' safety, that the cache implements `GetOrBuild`, and that `Get` and `Close` always return |
| `scrape_monitoring` | 3 requests, 2 slots, 1 account that is also the default; symmetric; 552 thousand states | the cap is exact on every path, and the README's error table and the blame for 499 and 504 hold |
| `scrape_gmp` | 2 requests, 2 slots, 2 accounts; 122 thousand states | the same for the GMP backend, which also logs 499 for every client that left; the account is the one asked for; every request ends, unless it waits for a token for ever |
| `server` | 1 `/metrics` request, 2 `/gmp-metrics` requests, 1 slot each as configured, one signal; 451 thousand states | `/gmp-metrics` rejects only when its own slots are taken, exit code 0 means a clean end, the cache is not closed under a request, a signal always ends the process |
| `collect_loop` | 2 scrapes with different rights, 8 sorts of series, cap 3; 919 thousand states | every response of up to four series becomes the right families; the cap is exact; the descriptor cache holds only definitive answers |
| `histogram` | layouts of up to two bounds, up to four counts; 32 thousand states | the histogram is well formed, every sample is in it, an explicit layout whose bounds are in order is exact |
| `sampling` | period 4, delay 3 to 4, interval 9, a scrape every 2 ticks, 20 ticks; 1.01 million states | every point is stored once, at its time and in order, and counters do not fall |
| `gmp_collector` | responses of up to three samples out of fifteen; 34 thousand states | families account for the response, one per name, no label twice, different samples stay different series |
| the four `violation` runs | | see [below](#where-code-and-documents-disagree) |

Why the bounds are enough. *Client cache:* nothing is capped: callers call for
ever, and since only one `Close` empties the table a key has at most two
clients. Two callers and the closer are the three parties of every
interleaving the mutex arbitrates; a third caller repeats the second.
*Handlers:* each request is served once. One request more than slots makes 429
happen; two requests make a builder and one that outlives it, a hit, and a wait
for another's build. The second account of `scrape_gmp` is needed where
principals could be confused. *Server:* one slot with two GMP requests makes
429 happen there; one `/metrics` request can be before, inside or after `Get`
when the drain begins, when the grace period ends and when `Close` runs. A
second one takes the model beyond twenty million states; the proofs cover any
number. *Collector:* a cap of three and one series beyond it covers under, at
and over the cap; the eight sorts cover each branch of `convertSeries` and
pairs that share kind or value type but not both. Both scrapes use the descriptor
cache, but only one reads series (the constraint `SecondReadsNothing`), since the family
table is a scrape's own. *Histogram:* no finite bucket, one and two, and for each as
many counts as buckets, fewer, and more; one explicit layout has its bounds in the wrong
order; `bucket_layout` has the same layouts with the
counts the upstream documents. *Sampling:* the smallest interval that is
recommended, and a delay that varies by one tick with a scrape that is as late as
`ScrapesOftenEnough` allows; restarts are closer than a period and farther apart than a
second. Each condition is as weak as it can be: with `Interval` equal to
`MaxDelay + Period`, with a scrape every 3 ticks or with restarts less than a second apart
TLC finds the corresponding property violated if its premise is weakened to
match. Twenty ticks are four points and the time to show each of them. *GMP:* two of the names
become one, one is empty, one sample has none; `monitored_resource` and `resource_type`
come alone, together with the same value and together with two; each sample can be readable or not.

`CHECK_DEADLOCK FALSE` stands in the handler and server configurations: each
request is served once, and the process ends, so a behaviour may really stop.
A conversion ends with its result (`histogram`, `gmp_collector`), and `sampling` stops at
its `Horizon`. The cache and the collector go on for ever and are checked for deadlock.
`RequestSymmetry` is used in `scrape_monitoring` only, which has no liveness.

## Fairness

- *A lock that is waited for is obtained* (`SF` of `GetLocks`, `CloseLocks`):
  `sync.Mutex` switches to starvation mode and hands itself over to a goroutine
  that has waited for a millisecond.
- *The holder of the mutex goes on* (`WF` of `Build`, `Sweep`): token sources
  are built from files and from metadata probes that time out, gRPC clients are
  created without blocking.
- *A handler's goroutine goes on* (`WF` of `Gate`, `Parse`, `UseClient`,
  `Return`) and uses a token that is still valid (`GetToken`, for a client that
  is in `fresh`); a timer fires (`DeadlineFires`); an upstream call returns when
  its context is over (`GiveUp`).
- *`main` and the listener's goroutine go on, and the grace period ends* (`WF` of
  `Main`, `ListenReturns`).

Nothing is assumed of the upstream, which may never reply, of the token endpoint, which
may never answer (a token is fetched without the context of the request and without a
timeout, so `EveryRequestReturns` excepts a request that waits for one), of clients,
which may stay or leave, or, in `Server`, of the handlers beyond the holder of the mutex.

## Proofs

TLAPS checks the following for every value of the constants, under the
assumptions stated in the modules: `CacheAssumption` (the closer and "nobody" are
not callers, the empty account is not an account), `HandlerAssumption` (at least
one slot, finitely many requests), `ServerAssumption` (two finite disjoint sets of
requests), `CollectorAssumption` (the types of the collector's constants),
`HistogramAssumption`, `BoundsAssumption` and `UpperBoundsAssumption` (a distribution has a
layout, counts, a total and a mean, and its bounds are integers), `SamplingAssumption` (periods are
positive, the least delay is no more than the greatest), `GmpAssumption` (labels
and values have their types) and `ConfigAssumption` (garbage is neither a number
nor a word). `ConfiguredLimits` discharges the first half of `HandlerAssumption` for every
configuration the process accepts.

`ClientCacheProofs`. The inductive invariant `CacheInv` adds to type correctness:
`Exclusive` (whoever is in the critical section holds the mutex), `StillAbsent`
(while a caller dials, its key is still absent: this is what makes the late
insertion safe, and what `OneClientPerKey` alone does not give), `TableSound`
(the open clients are those in the table, each under its key), `MadeSound` (each
client's principal is that of its key) and `GotSound` (what a caller was given is of
its key). `OneClientPerKey`, `RightPrincipal` and `CloseReleasesAll` follow, and
step by step that the cache implements `GetOrBuild`: an entry of the table
vanishes, for the callers, when `Close` takes the mutex, and everything else
takes effect at the step that returns.

`ScrapeHandlerProofs`. First, every step of a handler is a step of the cache or
leaves it alone (`HandlerUsesCache`), so the cache's theorems hold here. `HandlerInv`
adds `Serving` (where a request is in `ServeHTTP` determines where it is in `Get`) and
`Settled` (the key it asked for is its account, or the default). From these:
the slots match the requests in flight, by counting with the finite-set
theorems; rejection only when full; the right account; one client per
principal. `Blame` is proved for both endpoints and any credentials. On `/metrics` gRPC
makes a status of its own of a token that cannot be had, and a 504 for a deadline that the
upstream reports (`upstream_deadline`) is the documented answer. On `/gmp-metrics` user
credentials can have a request that has neither left nor timed out answered 499 or 504,
because the context whose end is reported is that of the request that built the client:
`BuilderOver` says so, and the proof that it is that context and no other rests on a
context that is over staying so. `DocumentedStatus` needs `~RefreshUsesCtx` for both.
`ClientGoneIs499` is proved for the GMP backend only: for the other one it is false, and
the answer is 499 or 502 (`ClientGoneAnswered`).
`StrandedForGood` is about the credentials that `~RefreshUsesCtx` leaves out: the
request that built a client has derived its context (`BuilderStarted`), a context
that is over stays over, and while the process serves an entry of the table is never
replaced; so a client with neither a token nor a live context stays both cached and
useless. `HandlersSeeGetOrBuild` puts `HandlerUsesCache` and the refinement of the
cache together.

`ServerProofs`. Every step of the process is a step of the handlers, of `Close`,
or leaves them alone, so the above carries over with `Close` at any point
(`HandlersInProcess`). `ServerInv` adds `CloseStage` (how far `Close` is, from where `main`
is), `Connected` (a request runs only on a served connection), `AllOpen` (no client is closed
before `main` closes the cache) and `CleanSoFar` (past the drain with exit code
0, everything is quiet); `CleanExit` and `NoUseAfterClose` follow. `GmpRejectedOnlyWhenFull`
needs that the second semaphore counts the requests behind the second gate, as the first
does in `SlotsMatch`.

`CollectorProofs`. `CollectorInv` adds to type correctness `Counted` (how many series a
scrape has read, by where it is, which gives `CapExact`) and `AllSorted` (in the family
table of each scrape the series of a family have its key, its type is the one
that key decides, and no two families share a key). A lemma on `AddToFamilies`
carries `AllSorted` over a new series; `OneTypePerFamily` follows, for any response.
`CachedOnlyIfAnswered` is inductive with the type. `FamiliesMatchStream` needs a relation
between the table and the stream at every point of the loop (`Accounted`): the families
account for the prefix that has been read. One more series is either not convertible, and
leaves every subsequence as it was, or it is appended to the subsequence of one key and
to no other. `SettledUnitStays` bounds the `collect_unit_lost` finding, whatever the rights of
the accounts: a unit that is cached while no lookup of its metric is under way is never lost.

`HistogramProofs`. `HistogramInv` adds `Growing`: the buckets made so far never fall, and none
exceeds what has been counted. That the last total is at least that is the comparison in
`Emit`; `WellFormed` follows, for any layout and any counts. `TallyInv` adds what the counts
are: the running total is the sum of the counts read so far and each bucket has the sum up
to its own (`Tallied`), and a histogram is made of them when all have been read (`Emitted`).
`SamplesConserved` is then a fact about sums: counts beyond the last are zero.
`ExplicitExact` and `OneBucketOff` compare the sum up to a bucket with `CountedBelow`; since
the upper bounds increase, the buckets that lie below a bound are a prefix. In an explicit
layout it is the prefix that was summed. In the other two the code pairs the sum with the
upper bound of the bucket *after* the last one summed: the `bucket_layout` finding, for
every such layout and not only the ones TLC tried.

`SequenceFoldsProofs`. The properties of the three conversions compare a loop with a sum or a
subsequence, which are recursive functions on the prefixes of a sequence. The induction
this needs is stated for a set instead of a predicate (`NatSetInduction`), and follows from
the well-foundedness of `<` in the library: the complement of the set would have a least
element. From it come the existence of a function with given steps (`RecursionExists`), so
that the definitions of `PartialSums` and `Kept` can be unfolded (`PartialSumsStep`,
`KeptStep`), that two functions with the same steps agree (`Lockstep`, `PartialSumsAgree`),
and what more elements do to a sum and to a subsequence (`SumOfZeroTail`, `OnlyOfAppend`).

`SamplingProofs`. Four conjuncts about different parties: `Pace` (the clock has passed no
point, no delay and no scrape that is due), `CounterRuns` (points of one run of the server
are contiguous and their values do not fall, and different runs are `MinUptime` apart),
`StoredArePoints` (each sample stored is the newest point of some moment, as it is
exported) and `NewestScraped` (all points but the newest one visible are stored, and if
that one is not, it has been seen for less than a scrape's time). That the
newest visible point is in every window is arithmetic from `Pace` (`NewestInWindow`); that
an aligned bucket holds one point, ending with it, is division with remainder. The
theorems hold without the bound on time, for any period, delays and parameters that
meet the stated conditions.

`GmpCollectorProofs`. `FamilySound` says of each family that its metrics have the normalised
labels of named samples, without a label twice. It is preserved when a sample starts a family
and when one joins it. `SeriesStayApart` is then a fact about `normalizeLabels`: of two
samples that both have `monitored_resource`, or neither, the label pairs tell the labels
(`PairsTellLabels`), since they tell whether it was renamed (`SameTypeLabel`). `AccountInv` relates the two loops to what they have gone through: the
samples are the readable ones of the prefix that is parsed (`Parsed`), and the families
account for the prefix of the samples that is collected (`Collected`);
`FamiliesMatchResponse` puts the two together.

`Config` is pure, so its theorems, in `ServerProofs`, are not invariants: what `loadConfig` accepts is in range, and the
healthcheck, which parses `PORT` by itself and with a default for what it cannot use, finds
the server whenever there is one.

The type invariants of `ClientCache`, `Histogram`, `Sampling` and `GmpCollector` are proved
(`CacheTypeCorrect`, `HistogramTypeCorrect`, `SamplingTypeCorrect`, `GmpTypeCorrect`) and not
checked by a run.

Every safety property that a passing run checks is proved. Model-checked only: the four
liveness properties (`GetReturnsInTheEnd`, `CloseReturnsInTheEnd`, `EveryRequestReturns`,
`ExitsAfterSignal`), since fairness is defined by `ENABLED`, which is beyond the prover.

## Where code and documents disagree

Each has a run in which TLC finds the documented property violated.

| Run | Document | Code |
|---|---|---|
| `monitoring_user_credentials` | README.md:375: clients are cached "for the lifetime of the process" | the client's token source keeps the context of the request that built it; with user credentials (README.md:277) it can fetch no token once that request is over |
| `monitoring_client_gone` | handler.go:40: 499 marks a request whose client gave up | gRPC's `Canceled` status is not matched by `mapError`: 502 |
| `collect_unit_lost` | descriptor.go:14: a unit is remembered for the life of the process | a refused lookup of another account overwrites it |
| `bucket_layout` | collector.go:571: bounds "are derived per the GCP bucket layout" and the counts summed up to them | in a linear or exponential layout the first count is that of the underflow bucket, whose bound is the offset (or scale); the code pairs it with the bound of the bucket after it, and so on |

The first one is for good: with such credentials an account whose client has lost its token
gets no answer but errors until the process is restarted (`StrandedForGood`). In the
second, 502 is all that can come in the place of 499 (`ClientGoneAnswered`). The third takes
two lookups of a metric that overlap: after them the unit stays as it is (`SettledUnitStays`).

The last one changes the values that are exported: of a latency distribution with
exponential buckets, each sample appears one bucket later than it is, and so does every
quantile computed from it (`OneBucketOffHolds`).

Seen on the way, without a run of their own:

- README.md:268 speaks of a cap "across all endpoints"; each handler has a semaphore of that size,
  so twice as many requests can be in flight. One request to each endpoint, with a limit of one,
  contradicts the document; `SlotsMatch` and `GmpRejectedOnlyWhenFull` say what each semaphore
  does guarantee.
- README.md:269 promises a cap on the series of a response; the GMP collector has none.
- collector.go:225 says mixed responses give well-formed families; two families of one name can result.
- README.md:165 and descriptor.go:34: a failed lookup of the unit never fails the scrape. It comes
  first and under the scrape's deadline, so one that hangs does.
- handler.go:52: the timeout caps the handler's time. The wait for the cache's mutex does not look
  at it, and neither does the fetch of a token, which has no timeout of its own.
- README.md:376: a reset makes a new series. Two resets within one second share their `start_time_unix`,
  which `CounterNeverFalls` excludes by its premise.
- config/prometheus.yml scrapes every 60 s, and the metrics of README.md:171 are sampled every 60 s: that does not
  meet `ScrapesOftenEnough`. With a delay that varies, two points can show up between two scrapes,
  and the older one is never exported.
- Concurrent first scrapes of a metric each look its descriptor up.
- GMP metrics whose names become equal when sanitised are in one family under the `HELP` of the
  first; and a sample with only `monitored_resource` and one with the same `resource_type` become one
  series with two values. `SeriesStayApart` shows that there is no third way to repeat a series.
- A GMP sample whose `metric` or `value` has another JSON shape than expected fails the whole
  response (client.go:136), though one whose value does not parse is only skipped.
- The labels of a metric, those of its resource, `resource_type` and `start_time_unix` are not
  kept apart (collector.go:508).
- A handler that outlives the grace period can leave a client open after `Close` (the exit code is then
  1, and the process is about to end); PLAN.md:189 would have running scrapes interrupted through their
  context at shutdown, which the code does not do.

## Not modelled

- The query-string syntax, log lines and the text encoding: no decision of the
  modelled state depends on them.
- Elapsed time in a request. A deadline can fire at any moment, so nothing here
  says that a request ends *within* its timeout. (`Sampling` has a clock, for
  the times of the data.)
- Panics. net/http recovers them and the deferred calls run as on a return.
- What is behind the upstream calls: paging, retries inside the gRPC client and
  inside the token sources are part of the call, of which only the outcome is
  modelled. gRPC codes that `mapError` treats alike are one.
- In `Server`, what a `/gmp-metrics` request does behind its gate (it is
  `ScrapeHandler` with `Backend = "gmp"`), `/healthz`, which answers a constant, the
  healthcheck's probe, which is one request, and a second signal.
- How a key file is read and parsed (`internal/auth`): one failure among others of `Get`.
- The names of a series' labels, since which of them can coincide is decided
  by Cloud Monitoring and not described in the repository.
- Floating point: rounding of bounds, means and sums.
- `scripts/`, the Docker files and the tests.

## Plan

Done, in the order of importance: `ClientCache` and its abstraction, `ScrapeHandler`
with `ErrorMapping`, `Server`, `Collector`, `Histogram`, `Sampling`, `GmpCollector`,
`Config`; the proofs of all of them.

Left, should the code move that way:

1. A clock in `ScrapeHandler`, for how long a request can wait for the mutex of
   the cache beyond its timeout. Worth it once the wait heeds the context.
2. The label names of a series, once the code keeps the sources apart.
3. `Close` for the GMP cache, should it get one; `ClientCache` has it under
   `Backend = "monitoring"`.
