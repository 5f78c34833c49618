# A verification project for todoku-go

todoku-go is an HTTP client library: one `Client` with retries, a circuit
breaker, a retry budget, and transport middlewares that share or cache reads.
Its interesting behaviour is concurrent (one client serves many goroutines)
and timed (deadlines, backoff, open periods, time to live). This directory
holds TLA+ models of that behaviour, the TLC configurations that check them on
small instances, and TLAPS proofs of the main results for every instance.

## Inventory

### The parts and how they interact

    caller --> Client.do -----------+                 +--> ResultCache --> SingleFlight --> http transport
    caller --> retry RoundTripper --+-- retry loop ---+        (middlewares on the transport, in any order)
                                    |        |
                                    |        +-- RetryBudget   (shared by all calls, asked before a retry)
                                    +-- CircuitBreaker         (shared by all calls: Allow, then done)

| Part | Source | State | Operations | What is hard | What makes it correct |
|---|---|---|---|---|---|
| Circuit breaker | `breaker.go` | state, five counters, expiry, under one mutex | `Allow`, its done callback, `State` | a callback reports in a later state than its `Allow`, or never, after a panic; lazy time | never wedged, trial budget, open for exactly its timeout, trips on recent evidence |
| Client engine | `client.go` | none of its own; one call per goroutine | `Do` and its verbs | three verdicts on one attempt; every path must report | attempts bounded, truthful results, slots released, calls return |
| Retry loop | `retry.go` | attempt number, timer | one loop with hooks | context, timer, budget and breaker race | at most one request after the context ended; retries are paid for |
| Retrying transport | `transport.go` | none | `RoundTrip` | same loop, another rule for answers | as the engine |
| Policy and carriers | `checkretry.go`, `error.go` | none | `DefaultCheckRetry`, `retryableViaCarrier`, `unwrapClientError` | carriers override wrappers | classification agrees with what is reported |
| Retry budget | `budget/budget.go` | tokens of a `rate.Limiter` | `AllowRetry` | shared by all calls | never above the burst; no unpaid retry |
| Idempotency | `idempotency.go` | none | method table, key functions | - | unsafe requests are sent once under the strict gate |
| Single-flight | `dedup.go` | map of flights, a channel per flight | `RoundTrip` | two critical sections with a round trip between; wake-up order | one owner, nobody stranded, own answers, own errors |
| Result cache | `dedup.go` | map of entries with expiry | `RoundTrip` | a clock reading used long after it was taken | answers of bounded age; only expired entries are evicted |
| Wiring, options, configuration | `dedup.go`, `client.go`, `config.go` | the client under construction and its `http.Client` | `New`, `FromConfig`, options in order | order of options matters; an `http.Client` may be shared and is changed in place | the timeout and the order of layers are those asked for |
| Delays | `retry.go`, `jitter.go`, `checkretry.go` | none | `BackoffFor`, jitter modes, `RetryAfter` | overflow, clamps, zero, two ways to ask for jitter | delay follows the formula, within the cap; the server is obeyed |
| Probe | `probe.go` | result of the walk | schemes times paths | layers below it that do not look at its deadline, and flights of other goroutines | first acceptable candidate in order; it returns |
| Auth, h2, metadata | `auth.go`, `h2/`, `todoku.go` | immutable | - | - | - |

PROJECT.json lists under `hazards` what can go wrong in this code that a test
would hardly reach, at its line, with the properties that watch it; those with
no property yet say why.

## The modules

| Module | Models | Proofs |
|---|---|---|
| `CircuitBreaker` | `breaker.go`, whole | `CircuitBreaker_proofs` |
| `ClientCall` | `client.go` `do`, `transport.go` `RoundTrip`, the loop of `retry.go`, policy, carriers, budget; INSTANCEs `CircuitBreaker` | `ClientCall_proofs` |
| `CallPromise` | abstract: what a client promises of its calls | refined by `ClientCall` |
| `SingleFlight` | the single-flight half of `dedup.go` | `SingleFlight_proofs` |
| `ResultCache` | the cache half of `dedup.go` | `ResultCache_proofs` |
| `BoundedRead` | abstract: what a cache promises | refined by `ResultCache` |
| `ReadStack` | both middlewares installed, in either order; INSTANCEs `ResultCache`, `SingleFlight`, `BoundedRead` | `ReadStack_proofs` |
| `RetryLoop` | `retry.go`, `jitter.go`, `RetryAfter`, `toRetryConfig`, with delays as numbers | `RetryLoop_proofs` |
| `ClientSetup` | `New`, `FromConfig`, the options that work on the `http.Client` | `ClientSetup_proofs` |
| `Probe` | `probe.go` | in `ProbedClient_proofs` |
| `ProbedClient` | clients built by `ClientSetup`, one of which probes; INSTANCEs `Probe` | `ProbedClient_proofs` |
| `MC...` | constants and predicates for TLC | |

Operators named `Mutant` in their comment are deliberately wrong variants of the
definition that follows them. No specification uses them; they exist to show
that each property notices the bug it is there for.

### CircuitBreaker

`cb` is the struct (`state`, `counts`, `expiry`) with three history fields
(`since`, when the state was entered; `oldest`, the oldest outcome in the
counts; `evidence`, the oldest outcome behind the last trip). `reserved` are
the goroutines that hold a done callback, `trial` (history) those whose
callback was obtained in the current half-open period. Each method takes the
mutex for its whole body and is one action: `Admit` and `Reject` are `Allow`,
`Done` is the callback, `ReadState` is `State`, `Tick` is time. `Evaluate`,
`SetState`, `OnSuccess`, `OnFailure` are the private helpers. The code keeps no
generation number, so `Done` may come in any later state. The counters wrap at
`Span`, which stands for 2^32. `ReadyToTrip` is an operator parameter: the
proofs assume nothing of it. `OnStateChange` only observes and is left out.

### ClientCall

`call[c]` is the state of one goroutine's call: where it is (`head` of the
loop, `ready` once it has looked at the context, `admitted` by the breaker,
`sending`, `retrying` before the budget, `sleeping`, `done`), its request,
context and attempt number, its result, and four history fields (requests
`sent`, those of them `late`, that is after the end of the context, tokens
`paid`, `last` outcome). Steps that touch shared state are actions:
`Check`/`Abort` (the look at the context at the head of the loop),
`Admit`/`Shed` (Allow, which may wait for the breaker's mutex), `Send` (the
dispatch), `Return` (transport, policy, report, classification),
`Retry`/`Denied` (budget), `Wake`/`CancelSleep` (the select in the sleep),
`Refuse` (a request that cannot be read or built), `CtxEnds`. The context is
looked at once per attempt, at the head (`retry.go:249`); it may end before the
breaker is asked and before the transport gets the request, so that one request
may go out late. `AtMostOneLateRequest` says that it is never more than one. What a goroutine computes alone is folded into the
action before. An attempt meets one of eight outcomes, which differ in status
class or in the carrier their error has: `timeout` and `deadline` answer
`Temporary()` with true, `fatal` answers `Retryable()` with false. A custom
`CheckRetry` may return any verdict. `Configs` are records of the client
options that matter. Delays are not numbers: a sleep may be skipped (zero
delay), or end at any time, or never.

`Panic` is a goroutine unwinding from the transport or the `CheckRetry` hook: the
callback is not deferred, so the breaker never hears of the attempt, although
`breaker.go:148-150` demands it. `Panicking` are the goroutines that may do so.

`CallPromise` is the abstract call: an account of what a caller was allowed, has
sent and has paid for, and a purse of tokens that all share. It has no loop, no
policy, no backoff and no breaker. A request goes out only while one more is
allowed, the last was paid for, and the context is live or the one late request
is still unused; a result is given once, and the account bears it out. `Account` maps a call to its account; what happens
between two requests (`Wake`, a retry without a budget, an answer that leads to
a retry) changes nothing in it.

Two details are abstracted: a second `NonRetryableError` around an error counts
as one, and the budget holds whole tokens.

### SingleFlight

`flying` is the map, `flight` the heap of flight structs (`done` is the closed
channel), `ref` the pointers goroutines hold, `pc` where they are. `Lead` and
`Join` are the critical section of the look-up, `Capture` the end of the
owner's round trip, `Release` the second critical section, `Signal` the close
of the channel and the return, `Wake` a sharer that finds it closed, `Finish`
an unshared round trip. A struct nobody points at may be allocated again, so
that a confusion of two flights at one address would show. An answer records
who dialed and for which key. `Panic` is an owner that unwinds from its round
trip: neither the entry nor the channel is ever cleared, and the flight stays
listed for good.

### ResultCache and BoundedRead

`now[c]` is the one reading of the clock a `RoundTrip` takes; it is used for
freshness in `Hit`/`Miss` and for the expiry in `Store`, with any number of
ticks in between. `told[c]` is the moment the response describes. The map
`Promise` (asked from `now`, told once the goroutine has returned) takes
`ResultCache` to `BoundedRead`, where a reader is simply told what held at a
moment at most TTL - 1 units before it asked, or after. An older response may
replace a newer one in the cache; the promise covers that.

### ReadStack

`outer` says which layer is outside: `WithSingleFlight` then `WithResultCache`
puts the cache there, the other order the single-flight. Each layer is an
INSTANCE of its own module; a step of the composition is a step of one layer,
joined with the call of the next layer or the return from it. `produced` is a
response on its way back; `payload` what a flight was captured with; `opened`
when a flight was registered, which `Tick` uses to keep every flight within
`MaxFlight` (the `http.Client`'s timeout). Only cacheable requests are asked.

The two orders differ. With the single-flight outside, entries are stored under
the clock reading of the goroutine that fetched, and an entry is never more
than TTL old; but a reader that joins a flight late gets an answer from before
it asked. With the cache outside, a sharer stores what it was handed under its
own reading of the clock, and a flight's duration comes on top of TTL
(`EntriesExpireInTime`). Either way the whole implements `BoundedRead` with the
sum of both (`ReadsAreBounded`), which is tight: with any less slack TLC finds
a counterexample.

### RetryLoop

`cfg`, `attempt`, `ctx`, `delay`, `result` are the variables of
`retryWithClassifier`; `runs` and `waited` are history. `Fail` is one run of the
operation that failed, with what the loop does next: `Stop` (permanent),
`Exhaust`, `Gate` (`BeforeRetry`), `Wait`. `Delays` computes the wait. Durations
are integers in units of 100ms with the width `Span` (2^63 ns in the code), a
multiplier and a band are fractions, a random draw is a multiple of `1/Grain`;
`Wrapped` is the product of int64 in `RetryAfter`, and `ToDuration` the
conversion of a float, which outside the range is up to the processor.
`Truncated` is the other conversion, of a power to a Duration, towards zero.
Nothing validates a `RetryConfig`, so backoff, cap, multiplier and band may all
be negative. Fractions are computed exactly where the code rounds floats;
multipliers that are NaN or infinite are left out.

What the loop may wait is said without `BackoffFor`: `Formula` is the minimum
the comment gives, and `Backoffs` adds the two cases in which `MaxBackoff`
stands in for it: a power below zero, and a multiplier below one that has met
the cap on its way down. `WaitsFollowTheFormula` says of every wait, slept or
not, that it keeps the distance its jitter allows from one of these.

### ClientSetup, Probe and ProbedClient

`http` is a heap of `http.Client`s: one address for each client's own, and
those the user supplies, which may be given to several clients. A Transport is
the sequence of its layers, innermost first. `Construct` is `New` or
`FromConfig` with the options it puts in front, `ApplyConfigured` and
`ApplyPassed` run one option, `Build` is the end of `New`. The options that
assign one field are left out: they commute with all others. `given`, one log
of all options with the client each was given to, and `supplied` are history,
from which `TimeoutIsAskedFor` and `StackIsInOrder` say what every
`http.Client` must look like, without following the steps.

`Probe` walks: `Attempt` begins the next candidate, and `ahead` are the layers
it still has before it. `Fails` and `Answers` end it. At any single-flight layer
it may `Join` a flight that another goroutine leads, for the group is shared by
all requests of the client and by other clients; the flight and its owner
belong to the environment. If the owner returns, the sharer is handed an answer
of any status (`Shares`), late or not, or goes on through the layers below
(`Redials`). If it does not return, because it panicked or has no deadline, the
attempt is stranded: neither its timeout nor the caller's context ends its wait.
`Hangs` needs one single-flight group twice before the attempt: the goroutine
leads the flight at the outer layer and joins it at the inner one. An answer
from a cache can arrive after the context has ended (`CanArrive`). `ProbedClient` gives the probe the stack of a client
that `ClientSetup` built.

## What the runs check

| Run | Instance | Shows |
|---|---|---|
| `circuit_breaker` | 3 callers, 2 trials, threshold 2, timeout 1, interval 2, counters mod 4, clock to 6 | `NeverWedged`, `TrialBudget`, `OpenPeriodEnds`, `TripEvidenceIsRecent`, `OpenHoldsForTimeout`, `HalfOpenResolves`, and the proofs' `IInv` |
| `client_call` | 1 goroutine, any number of calls, 5 clients, 4 kinds of request, 8 outcomes, 2 retries, burst 2, clock to 3 | `SendBound`, `ResultIsTruthful`, `OpensOnFailureOnly`, `AtMostOneLateRequest`, `CallsReturn` |
| `client_pair` | 2 goroutines, one of which may panic, gated client (breaker, budget, strict), 4 outcomes, burst 1, 1 retry, clock to 2 | `RetriesArePaidFor`, `SlotsAreAttempts`, `KeepsBreakerContract` |
| `single_flight` | 3 goroutines, two cacheable keys and one that is not, 3 addresses, one goroutine that may be canceled and may panic | `OneOwnerPerKey`, `ListedFlightIsOwned`, `SharersHaveAnOwner`, `AnswersTheRequest`, `RequestsReturn`, and `IInv` |
| `result_cache` | 3 goroutines (symmetric), one cacheable key and one not, TTL 2, clock to 4 | `ReadsAreBounded` (refinement), `FreshEntriesStay`, and `IInv` |
| `read_stack` | 2 goroutines, 1 key, 2 addresses, TTL 2, flights of at most 1, clock to 3, both orders | `ReadsAreBounded` (refinement), `EntriesExpireInTime`, `CacheGoesForward`, `ReadsReturn`, `TypeOK` |
| `retry_loop` | 19 configurations, 17 errors, durations below 1024, 3 draws | `WaitsAreCapped`, `WaitsFollowTheFormula`, `ServerIsObeyed`, `OutcomeIsAccountedFor`, `LoopReturns`, `TypeOK` |
| `probed_client` | 2 clients, 1 user-supplied `http.Client`, a group, a cache, 2 timeouts, every sequence of up to 3 options, one probe, of one scheme and the default paths, or of the default schemes and a path named twice | `TimeoutIsAskedFor`, `StackIsInOrder`, `FirstAnswerWins`, `ProbeReturns` |

Why the bounds are enough. Three breaker callers are one more than the trial
budget, so late outcomes and all trials can be out together; the clock bound
leaves room for closed, open, half-open, open again and half-open. The counters
wrap within the run. Two calls with one token fight for it. `MaxRetries` 2 has
a first, a middle and a last retry. In single-flight, three goroutines are an
owner, a sharer, and one that arrives after the release and before the signal;
the second cacheable key shows that a panic poisons its own key only. In the cache, a slow
fetch that began before two ticks overlaps with a second fetch and a third
reader. In the stack, two goroutines on
one key are an owner and a sharer, and after two ticks a reader of what either
stored; the clock covers a flight, the entry's life and its end. The
configurations of the loop are the presets, each mode with and without the
legacy band, a cap below the first backoff, no cap, a cap, a first backoff, a
multiplier and a band below zero, a shrinking multiplier, and products that
overflow `Span`. Three options are a supplied `http.Client`, a layer and
something before, between or after them, or one group twice. `MaxClock` only
stops time: nothing else is disabled at the bound, so the final states are those of a system in which time has stopped.

`KeepsBreakerContract` ties the two levels together: every behaviour of the
client's calls, seen through the breaker's variables, is a behaviour of
`CircuitBreaker` (which adds `State` readers) and does invoke its callbacks, so
what is shown or proved of the breaker holds inside the client (the safety part
is a theorem, `UsesTheBreaker`). The other half
of `CircuitBreaker`'s fairness, that requests keep arriving, is an assumption
on the application.

### Fairness

* Breaker: a request admitted reports (the comment on `Allow` demands it, and
  `KeepsBreakerContract` shows that the client does, unless it panics), and requests that would be
  admitted keep coming. Time needs no fairness for `HalfOpenResolves`, since
  half-open has no timeout.
* Calls: a runnable goroutine runs, and gets the breaker's lock; the transport
  returns, at the latest when the context ends, or panics; every context ends.
  Timers are not assumed to fire.
* Read stack: as single-flight; a flight lasts at most `MaxFlight`, and time
  needs no fairness.
* Retry loop: the operation returns and timers fire; the context need not end.
* Probe: the walk goes on, an attempt that waits for nobody ends, at the latest
  with its timeout (a transport honours the context of its request), and a
  flight that was joined ends when its owner returns. Nothing is assumed of an
  attempt that waits for an owner that does not return, or for itself, so
  `ProbeReturns` excepts GET and HEAD through a single-flight group.
* Single-flight: goroutines run, and round trips end (a client timeout bounds
  them) or panic.

### Where the code and its comments disagree

Four runs are expected to fail; each checks what the repository says in a
sentence or two.

1. `closed_by_a_trial`, `breaker.go:20-21`: "up to MaxRequests trial requests
   are admitted; a success closes the breaker". A request admitted before the
   trip that succeeds late closes a half-open breaker; no trial is needed.
2. `closes_on_an_answer`, `client.go:339-341`: "the server is reachable and
   answering". An attempt its context cut off is reported as a success too and
   may close the breaker.
3. `canceled_returns`, `client.go:274-275`: "a context cancellation aborts
   immediately", and `dedup.go:126-129`: a failed flight "surfaces only to the
   caller that performed it". A single-flight sharer waits for the channel only,
   and an owner that panics neither delists its flight nor closes the channel:
   requests for the key wait for ever, whatever their contexts.
4. `later_timeout_wins`, `client.go:85-86`: "later options win on conflict", and
   `config.go:142-143`: callers' options "win over config". A `WithTimeout` after
   the first transport or middleware has no effect, and `FromConfig` installs
   its transport before the caller's options.

Five more configurations, which are not among the runs, fail in the same way.
TLC shows each with the module and the property named:

5. `MCClient_SlotsComeBack.cfg` (`MCClientCall`, `SlotsComeBack`),
   `breaker.go:148-149`: Allow's callback is one "that the caller MUST invoke". A
   panic in the attempt skips it, and the slot stays taken; a half-open breaker,
   which has no timeout, is then wedged for good. Of the passing runs,
   `client_pair` has the panic, and shows that nothing else leaks a slot.
6. `MCClient_ContextErrorStops.cfg` (`MCClientCall`, `ContextErrorStops`),
   `client.go:430-433`: context errors stop the loop. A deadline answers
   `Temporary()` with true, and the carrier is looked for through the wrapper:
   the loop spends a budget token before it stops.
7. `MCRetry_DocumentedFormula.cfg` (`MCRetryLoop`, `DocumentedFormula`),
   `retry.go:16-18`: `min(InitialBackoff * Multiplier^n, MaxBackoff)`. With a
   multiplier below one the loop returns the cap as soon as any power has
   reached it, although the n-th has shrunk below it. A negative
   `InitialBackoff` waits `MaxBackoff`, not its negative power (`retry.go:122`).
8. `MCRetry_WishIsHonoured.cfg` (`MCRetryLoop`, `WishIsHonoured`),
   `client.go:143-145`: Retry-After "overrides the computed exponential backoff
   for that wait". Very many seconds overflow to a negative delay, and the loop
   does not sleep at all; `ServerIsObeyed` therefore speaks of delays that are
   Durations.
9. `MCProbe_ProbeIsBounded.cfg` (`MCProbedClient`, `ProbeIsBounded`),
   `probe.go:150-151`: candidates are walked "each bounded by the per-attempt
   timeout". An attempt that joins a flight waits for its owner alone (3.), and
   one that meets a group twice on its own stack waits for itself.

Where a passing run states what the code does and a comment says otherwise:

* "The same *SingleFlight may wrap multiple transports" (`dedup.go:167-169`):
  not two layers of one stack (`ProbeReturns`).
* `RetryConfig.JitterMode`: "The zero value is JitterFull" (`retry.go:43-44`, and
  the comment on `jitter`): the zero value with a zero band is no jitter at all.
* Retry-After "still respecting MaxBackoff" (`retry.go:54-57`): with no
  `MaxBackoff` it is not clamped, while the exponential wait is then zero
  (`WaitsAreCapped`).
* A target that is a URL without a host is probed at a host named after its
  scheme, not refused as empty (`HostOf`).

Noticed while reading, and not the subject of a run: "a success closes the
breaker" (`breaker.go:20-21`) takes `MaxRequests` consecutive ones; a
`CheckRetry` hard stop whose error is `Temporary()` does not stop the loop
(`checkretry.go:13-15`); `callRetryConfig`'s comment says the gate is budget
and breaker, its code asks the budget only; `Do` returns a 2xx that the policy
wants retried, `RoundTrip` retries it; `Probe`'s comment says that the client's
retry is applied to each attempt (`probe.go:147-148`), `singleAttempt` makes one;
`StandardClient` takes the `WithTimeout` value even where a supplied
`http.Client` has its own; no configuration asks for zero retries, as zero means
the default (`config.go:57`), but a negative one does; `h2.Config` says that a
`ReadIdleTimeout` of 0 disables pings, `Configure` takes it for the default.

## What is proved

Every proof is checked to the last leaf, for all values of the constants that
satisfy the module's ASSUME.

* `CircuitBreaker_proofs` (`BreakerAssumption`: finitely many callers, sensible
  times, `MaxRequests` below the counters' width). `IInv` is types plus three
  facts. `NeverWedged` and `TrialBudget` are not inductive: a late callback
  changes the counters of a half-open period without being one of its trials.
  `HalfOpenAccounting` says why that is harmless. Requests counts this period's
  admissions, is never more than the budget (so it cannot wrap), and is at most
  the trials still out plus the consecutive successes; these are below the
  budget, for otherwise the breaker would be closed. So if Requests has reached
  the budget a trial is out. `OpenWindowIsFixed` gives `OpenPeriodEnds` and the
  action property `OpenHoldsForTimeout`. `Dated` (the window of a closed breaker
  began in the past, and not after the oldest outcome it counts) is inductive
  on top of `IInv` and gives `TripEvidenceIsRecent`.
* `SingleFlight_proofs` (`FlightAssumption`: nil is neither a flight nor an
  answer). `IInv` is `Sound` (who holds a pointer, that no flight has two
  owners, that a leader is the one its key leads to, what a flight contains at
  each stage) with `AnswersTheRequest`; the four safety properties follow.
  `Sound` is inductive alone, and says nothing of answers: that is the part the
  stack uses, where a flight hands out what the cache below it stored.
* `ResultCache_proofs` (`CacheAssumption`). `EntriesAreBounded` (an entry
  expires at most TTL after the moment its response describes) and
  `ReadsAreTimed` (a read took the time in the past, its answer is later) are
  inductive, make every step a step of `BoundedRead` or a stutter, and give the
  refinement for any callers, keys and TTL, and `FreshEntriesStay`.
* `ReadStack_proofs` (`StackAssumption`: the assumptions of the layers, and that
  nil is not a response), for both orders at once. The single-flight layer
  brings its invariant `Sound` from its own proofs: a step of the stack is a step
  of that layer or leaves it alone. What the cache promises alone is false in
  the stack, so its part is proved anew, with times measured against the
  flights: `IsNested` (the inner layer is busy only while the outer one waits
  for it), `TakesItsTime`, `ResponseIsTimed`, `FlightIsTimed` and
  `PayloadIsTimed` follow one moment from the question through the opening of a
  flight, the reading of the clock and the response to what a sharer is handed.
  `EntriesAreTimed` then gives `EntriesExpireInTime`, `IsAccounted` the refinement
  `ReadsAreBounded`, and `FetchesAlone` (with the single-flight outside, a key
  that is being fetched has no entry, unless a sharer dials for itself) the
  action property `CacheGoesForward`.
* `ClientCall_proofs` (`CallAssumption`; nothing is assumed of hooks, outcomes or
  the breaker's settings). `IInv` says of each call how its counters relate at
  each `pc`: `Counts` (requests sent are one ahead of the loop's counter from a
  request to the next head, and a retry is only under way below the limit),
  `Pays` (the token is spent between the answer and the sleep, so that sent and
  paid are equal from there to the next request), `Truthful` (an accepted answer
  never leads to another attempt, and what has ended keeps its reasons), `Late`
  (an attempt that is still to be sent is the first that may be late), and of
  all calls `SlotsAreAttempts`. `SendBound`, `RetriesArePaidFor` and
  `AtMostOneLateRequest` say nothing of `pc`, and are not inductive without it. `CallStep` reduces a step to the
  one call that takes it; `ReturnedFacts` and `AfterAttemptFacts` are what the
  classification may do. `UsesTheBreaker` shows that the client implements
  `CircuitBreaker!Spec`, so that with `BreakerAssumption` the theorems about
  the breaker hold inside any client (`BreakerKeepsItsPromises`); its type
  invariant then gives `OpensOnFailureOnly`. `KeepsItsPromiseHolds` is the
  refinement of `CallPromise`: `AccountMoves` reduces a step to the account of
  the call that takes it, and one lemma per kind of step finds the abstract
  action, whose guards are `Counts`, `Pays`, `Truthful` and `Late` at that `pc`. For the
  return of an attempt they are taken from the state after it (`Closes`).
* `RetryLoop_proofs` (`LoopAssumption`). `Counting` relates the runs to the
  loop's counter; with `Undecided` (no result before the end) it makes
  `OutcomeIsAccountedFor` inductive, without a look inside `Delays`. `Timing`
  says that the delay the loop sleeps for, or has just got over, is one of
  `Delays` for the last error, and that the operation has waited for it before it runs again. The rest is
  arithmetic about `Delays`: the product of int64 in `RetryAfter` is exact below
  `Span` (`WrappedSmall`), jitter and band stay in their bounds (`JitterFacts`),
  and the loop of `BackoffFor`, which leaves early at the cap, agrees with the
  power it stands for (`BackoffFacts`): where the multiplier is at least one and
  the first backoff positive, once a power has reached the cap it stays there
  (`CapIsFinal`); where the first backoff is negative the powers stay negative
  (`NegativeGrowth`), and one that has reached a cap below zero ends at that cap
  either way. `JitterWithin` adds the jitter. That gives `WaitsAreCapped`,
  `WaitsFollowTheFormula` and `ServerIsObeyed` for every configuration, negative
  fields and the band included. Powers are the
  recursive function `Power`, and the facts about it need induction; the
  library's theorems for that take an operator, so it is done here over sets
  of naturals, from the existence of a least element (`Least`, `Induction`).
* `ClientSetup_proofs` (`SetupAssumption`: nil is none of the values, and no
  client has the name of a supplied `http.Client`) holds the lemmas,
  `ProbedClient_proofs` the theorems: a probe changes no client. What a log of
  options says is defined for any log, and the lemmas say how one more entry
  changes it (`TimeoutGrows`, `TargetGrows`, `StackStays`, `StackIsReplaced`,
  `StackIsWrapped`). `SetupInv` says that a client's pointer, its timeout and
  every stack are at any moment what the log so far says. Neither property is
  inductive: they speak of clients that are built, and of stacks without the
  pointers that will decide where the next layer goes.
* `ProbedClient_proofs` (`ProbeAssumption` besides). The n-th candidate lies in
  the row and column of a table that n divided by its width gives (`RowOrder`,
  `TablePlace`), which makes the order of the two loops the order of numbers.
  `WalkInv` says that what was tried are the first candidates, one for each
  attempt, and what is known at each stage. `FirstAnswerWins` follows for
  lists of any length; where a list names a scheme or a path twice, it
  speaks of the candidates that were not tried yet.

Model-checked only: the liveness properties `HalfOpenResolves`, `CallsReturn`,
`RequestsReturn`, `ReadsReturn`, `LoopReturns`, `ProbeReturns`, and of
`KeepsBreakerContract` the fairness part, because the prover does not reason
about fairness or ENABLED. Every invariant and every action property of the
passing runs is a theorem. The other way round, `KeepsItsPromise` and
`BreakerKeepsItsPromises` are proved and part of no run.

## What is not modelled

User callbacks that re-enter the breaker (they are the user's; listed as a
hazard); the herd of sharers that dial again after a failed flight, which the
code intends; keys without bound, as the models have few; data races between
two constructions on one `http.Client`; response bodies, headers and keys as
data (a key is a model value); the distribution of random draws;
multipliers that are NaN or infinite; flights that other goroutines make a probe
wait for, other than by what becomes of them; the options
that assign one field; SSE and JSON helpers; the copying of transport and
breaker settings from a configuration; authentication, HTTP/2 knobs and
metadata, which hold no state that changes. A timeout per attempt is an outcome
of `ClientCall`, not a clock of its own: that `RoundTrip` bypasses the
`http.Client` and its timeout (`transport.go:105`) does not show.

## Plan

Done: `CircuitBreaker`, `ClientCall` composed with it and refining `CallPromise`,
`SingleFlight`, `ResultCache` refining `BoundedRead`, `ReadStack` composing the
two, `RetryLoop`, `ClientSetup` and `Probe` composed in `ProbedClient`; the safety
of all of them proved. Next: `CallPromise` with `RetryLoop` for its loop, so that
one account covers the numbers of both.
