------------------------------- MODULE RetryLoop ------------------------------
(***************************************************************************)
(* The generic retry loop of retry.go with its delays as numbers: backoff, *)
(* jitter, the server's Retry-After, the cap.  One goroutine, any          *)
(* RetryConfig whose floats are finite, the negative ones included, any    *)
(* sequence of errors, a context that may end at any moment.  (ClientCall  *)
(* has the same loop inside the client, with breaker and budget; there a   *)
(* sleep may take any time.)                                               *)
(***************************************************************************)
EXTENDS Integers

CONSTANTS
  Configs,   \* the configurations to consider: a set of Config records
  Errors,    \* the errors an operation may fail with: a set of Failure records
  Span,      \* a Duration is in -Span .. Span-1; in the code Span is 2^63
  Second,    \* time.Second in the units of the model
  Grain      \* a random draw is one of 0/Grain .. (Grain-1)/Grain

(***************************************************************************)
(* RetryConfig; a float is a fraction, computed with exactly, and a band   *)
(* that is not positive is none.  honours: DelayOverride passes the        *)
(* server's Retry-After on; gated: there is a BeforeRetry; classified: the *)
(* caller gave a Classifier.                                               *)
(***************************************************************************)
Config == [maxRetries : Int, initial : Int, cap : Int,
           multiplier : Int \X (Nat \ {0}), mode : {"unset", "full", "none", "equal"},
           band : Int \X (Nat \ {0}),
           honours : BOOLEAN, gated : BOOLEAN, classified : BOOLEAN]

\* The Retry-After header of a response: delta-seconds, or a date n from now.
Header == [form : {"absent", "garbage", "delta", "date"}, n : Int]

\* carrier: what the error says of itself; transient: what the classifier says.
Failure == [carrier : {"none", "transient", "permanent"}, transient : BOOLEAN,
            header : Header]

ASSUME LoopAssumption ==
  /\ Configs \subseteq Config
  /\ Errors \subseteq Failure
  /\ Span \in Nat \ {0} /\ Second \in Nat \ {0} /\ Grain \in Nat \ {0}
  /\ \A c \in Configs : {c.initial, c.cap} \subseteq -Span .. Span - 1

VARIABLES
  cfg,        \* the RetryConfig
  pc,         \* where the loop is
  attempt,    \* its counter
  ctx,        \* whether the context has ended
  last,       \* the error of the latest run
  delay,      \* the wait that was computed after it
  result,     \* what the loop returned
  attempts,   \* ExhaustedError.Attempts
  runs,       \* history: how often the operation ran
  waited      \* history: the time since the latest run failed

vars == <<cfg, pc, attempt, ctx, last, delay, result, attempts, runs, waited>>

-----------------------------------------------------------------------------
\* DefaultRetry and its variants, in units of 100ms.
DefaultRetry ==
  [maxRetries |-> 3, initial |-> 5, cap |-> 300, multiplier |-> <<2, 1>>,
   mode |-> "unset", band |-> <<1, 5>>,
   honours |-> TRUE, gated |-> FALSE, classified |-> FALSE]

NoRetry == [DefaultRetry EXCEPT !.maxRetries = 0]

AggressiveRetry ==
  [DefaultRetry EXCEPT !.maxRetries = 5, !.initial = 2, !.cap = 600]

(***************************************************************************)
(* RetryConfigSpec.toRetryConfig: a field that is zero keeps its default,  *)
(* so no specification asks for zero retries but a negative one does; an   *)
(* unnamed jitter is the full one, and the legacy band is gone.            *)
(***************************************************************************)
OrElse(x, default) == IF x = 0 THEN default ELSE x

FromSpec(spec) ==
  [DefaultRetry EXCEPT
     !.maxRetries = OrElse(spec.maxRetries, @),
     !.initial = OrElse(spec.initial, @),
     !.cap = OrElse(spec.cap, @),
     !.multiplier = IF spec.multiplier[1] = 0 THEN @ ELSE spec.multiplier,
     !.mode = IF spec.jitter \in {"none", "equal"} THEN spec.jitter ELSE "full",
     !.band = <<0, 1>>]

MaxRetries(c) == IF c.maxRetries < 0 THEN 0 ELSE c.maxRetries

\* The powers of b: what n multiplications by it come to.
Power(b) == LET p[n \in Nat] == IF n = 0 THEN 1 ELSE b * p[n - 1] IN p

\* The backoff has grown to the cap, or beyond, by the i-th multiplication.
ReachesCap(c, i) ==
  c.initial * Power(c.multiplier[1])[i] >= c.cap * Power(c.multiplier[2])[i]

\* The whole units of a fraction, as time.Duration(float64) has them.
Truncated(a, b) == IF a < 0 THEN -((-a) \div b) ELSE a \div b

\* InitialBackoff * Multiplier^n.
Grown(c, n) ==
  Truncated(c.initial * Power(c.multiplier[1])[n], Power(c.multiplier[2])[n])

\* Mutant: a backoff below zero is let through.
BackoffUnguarded(c, n) ==
  LET d == Grown(c, n)
  IN  IF (\E i \in 1 .. n : ReachesCap(c, i)) \/ d > c.cap THEN c.cap ELSE d

(***************************************************************************)
(* RetryConfig.BackoffFor: the loop that multiplies stops as soon as it    *)
(* may, and what is out of range, or below zero, becomes MaxBackoff.       *)
(***************************************************************************)
BackoffFor(c, n) ==
  LET d == Grown(c, n)
  IN  IF \/ \E i \in 1 .. n : ReachesCap(c, i)
         \/ d > c.cap
         \/ d < 0
      THEN c.cap
      ELSE d

\* time.Duration of a float that is out of range differs between processors.
ToDuration(x) == IF x < Span THEN {x} ELSE {-Span, Span - 1}

NonNegative(x) == IF x < 0 THEN 0 ELSE x

\* legacyBandJitter, for the random number k / Grain.
BandJitter(c, d, k) ==
  LET whole == Grain * c.band[2]
      scaled == d * (whole + c.band[1] * (2 * k - Grain))
  IN  {NonNegative(x) : x \in ToDuration(scaled \div whole)}

\* applyJitter, likewise.
TypedJitter(mode, d, k) ==
  CASE mode = "none"  -> d
    [] mode = "equal" -> (d \div 2) + ((d \div 2) * k) \div Grain
    [] mode = "full"  -> (d * k) \div Grain

\* RetryConfig.jitter: the typed strategy, else the band, else no jitter.
Jittered(c, d) ==
  UNION { IF d <= 0 THEN {d}
          ELSE IF c.mode # "unset" THEN {TypedJitter(c.mode, d, k)}
          ELSE IF c.band[1] > 0 THEN BandJitter(c, d, k) ELSE {d}
          : k \in 0 .. Grain - 1 }

\* A product of int64 wraps around.
Wrapped(x) == ((x + Span) % (2 * Span)) - Span

AtMost(x, bound) == IF x > bound THEN bound ELSE x

\* The header is one that RetryAfter can parse.
Asks(h) == h.form \in {"delta", "date"}

\* Mutant: the seconds are taken for a Duration.
RetryAfterUnscaled(h) ==
  CASE h.form = "delta" -> NonNegative(h.n)
    [] h.form = "date"  -> AtMost(NonNegative(h.n), Span - 1)

\* The delay it yields; the distance to a date saturates.
RetryAfter(h) ==
  CASE h.form = "delta" -> IF h.n < 0 THEN 0 ELSE Wrapped(h.n * Second)
    [] h.form = "date"  -> AtMost(NonNegative(h.n), Span - 1)

Overrides(c, e) == c.honours /\ Asks(e.header)

\* Mutant: what the server asks is not clamped.
DelaysUnclamped(c, n, e) ==
  IF Overrides(c, e) THEN {RetryAfter(e.header)} ELSE Jittered(c, BackoffFor(c, n))

\* The wait after the failure of attempt n.
Delays(c, n, e) ==
  IF Overrides(c, e)
  THEN {IF c.cap > 0 THEN AtMost(RetryAfter(e.header), c.cap)
                     ELSE RetryAfter(e.header)}
  ELSE Jittered(c, BackoffFor(c, n))

\* Mutant: the classifier overrules an error that classifies itself.
PermanentByClassifier(c, e) ==
  IF c.classified THEN ~e.transient ELSE e.carrier = "permanent"

\* A carrier in the error wins over the classifier; without either, retry.
Permanent(c, e) ==
  \/ e.carrier = "permanent"
  \/ e.carrier = "none" /\ c.classified /\ ~e.transient

-----------------------------------------------------------------------------
NoError == [carrier |-> "none", transient |-> TRUE,
            header |-> [form |-> "absent", n |-> 0]]

\* Mutant: one retry too many.
OutOfRetriesLate == attempt > MaxRetries(cfg)

OutOfRetries == attempt >= MaxRetries(cfg)

Init ==
  /\ cfg \in Configs
  /\ pc = "head" /\ attempt = 0 /\ ctx = "live"
  /\ last = NoError /\ delay = 0
  /\ result = "none" /\ attempts = 0
  /\ runs = 0 /\ waited = 0

Return(what) ==
  /\ pc' = "done"
  /\ result' = what

Abort ==
  /\ pc = "head" /\ ctx = "ended"
  /\ Return("ctx")
  /\ UNCHANGED <<cfg, attempt, ctx, last, delay, attempts, runs, waited>>

Run ==
  /\ pc = "head" /\ ctx = "live"
  /\ pc' = "running"
  /\ runs' = runs + 1
  /\ UNCHANGED <<cfg, attempt, ctx, last, delay, result, attempts, waited>>

Succeed ==
  /\ pc = "running"
  /\ Return("value")
  /\ UNCHANGED <<cfg, attempt, ctx, last, delay, attempts, runs, waited>>

Stop(e) ==
  /\ Permanent(cfg, e)
  /\ Return("permanent")
  /\ UNCHANGED <<attempt, delay, attempts>>

Exhaust(e) ==
  /\ ~Permanent(cfg, e)
  /\ OutOfRetries
  /\ Return("exhausted")
  /\ attempts' = attempt + 1
  /\ UNCHANGED <<attempt, delay>>

\* BeforeRetry lets no more retries through.
Gate(e) ==
  /\ ~Permanent(cfg, e)
  /\ ~OutOfRetries
  /\ cfg.gated
  /\ Return("stopped")
  /\ UNCHANGED <<attempt, delay, attempts>>

\* A retry is due, after a delay; a delay that is not positive is no sleep.
Wait(e) ==
  /\ ~Permanent(cfg, e)
  /\ ~OutOfRetries
  /\ delay' \in Delays(cfg, attempt, e)
  /\ IF delay' > 0 THEN pc' = "sleeping" /\ UNCHANGED attempt
                   ELSE pc' = "head" /\ attempt' = attempt + 1
  /\ UNCHANGED <<result, attempts>>

Fail(e) ==
  /\ pc = "running"
  /\ last' = e
  /\ waited' = 0
  /\ Stop(e) \/ Exhaust(e) \/ Gate(e) \/ Wait(e)
  /\ UNCHANGED <<cfg, ctx, runs>>

\* Mutant: one timer serves all sleeps, and is not reset.
FireOnce ==
  /\ pc = "sleeping" /\ attempt = 0
  /\ waited' = delay
  /\ pc' = "head"
  /\ attempt' = attempt + 1
  /\ UNCHANGED <<cfg, ctx, last, delay, result, attempts, runs>>

\* The timer fires; the goroutine may run a little later.
Fire ==
  /\ pc = "sleeping"
  /\ waited' \in {delay, delay + 1}
  /\ pc' = "head"
  /\ attempt' = attempt + 1
  /\ UNCHANGED <<cfg, ctx, last, delay, result, attempts, runs>>

CancelSleep ==
  /\ pc = "sleeping" /\ ctx = "ended"
  /\ Return("ctx")
  /\ UNCHANGED <<cfg, attempt, ctx, last, delay, attempts, runs, waited>>

CtxEnds ==
  /\ pc # "done" /\ ctx = "live"
  /\ ctx' = "ended"
  /\ UNCHANGED <<cfg, pc, attempt, last, delay, result, attempts, runs, waited>>

Loop == Abort \/ Run \/ Succeed \/ (\E e \in Errors : Fail(e)) \/ Fire \/ CancelSleep

Next == Loop \/ CtxEnds

Spec == Init /\ [][Next]_vars

\* The operation returns, and timers fire; the context need not end.
FairSpec == Spec /\ WF_vars(Loop)

-----------------------------------------------------------------------------
\* The variables keep their types, and the counter stays within the retries.
TypeOK ==
  /\ cfg \in Configs
  /\ pc \in {"head", "running", "sleeping", "done"}
  /\ attempt \in 0 .. MaxRetries(cfg)
  /\ ctx \in {"live", "ended"}
  /\ last \in Errors \cup {NoError}
  /\ delay \in Int
  /\ result \in {"none", "value", "ctx", "permanent", "exhausted", "stopped"}
  /\ attempts \in Nat /\ runs \in Nat /\ waited \in Nat

\* What the legacy band may add to a delay.
BandExcess(c, d) == (d * NonNegative(c.band[1])) \div c.band[2]

(***************************************************************************)
(* MaxBackoff caps every wait, the server's included; only the legacy band *)
(* goes beyond it, by its fraction.  A cap that is not positive means      *)
(* "no backoff", yet leaves the server's wish uncapped.                    *)
(***************************************************************************)
WaitsAreCapped ==
  pc = "sleeping" =>
    IF Overrides(cfg, last)
    THEN cfg.cap > 0 => delay <= cfg.cap
    ELSE /\ cfg.cap > 0
         /\ delay <= cfg.cap + (IF cfg.mode = "unset" THEN BandExcess(cfg, cfg.cap)
                                                      ELSE 0)

\* The formula of retry.go:18, min(InitialBackoff * Multiplier^n, MaxBackoff).
Formula(c, n) == AtMost(Grown(c, n), c.cap)

Grows(c) == c.multiplier[1] >= c.multiplier[2]

(***************************************************************************)
(* What the backoff before retry n may be: the documented one, unless the  *)
(* exponential is below zero, when there is none to speak of and MaxBackoff *)
(* stands in; and with a multiplier below one, which may have met the cap  *)
(* on its way down, also MaxBackoff.                                       *)
(***************************************************************************)
Backoffs(c, n) ==
  IF Grown(c, n) < 0 THEN {c.cap}
  ELSE {Formula(c, n)} \cup (IF Grows(c) THEN {} ELSE {c.cap})

(***************************************************************************)
(* What jitter may make of a backoff: nothing of one that is no wait; at   *)
(* least its half with equal jitter, anything below it with the full one,  *)
(* and with the legacy band up to its fraction more or less -- no less     *)
(* than that as long as the band stays within a Duration.                  *)
(***************************************************************************)
WithinJitter(c, b, d) ==
  IF b <= 0 THEN d = b
  ELSE CASE c.mode = "none"  -> d = b
         [] c.mode = "equal" -> d >= b \div 2 /\ d <= b
         [] c.mode = "full"  -> d >= 0 /\ d < b
         [] c.mode = "unset" ->
              IF c.band[1] <= 0 THEN d = b
              ELSE LET excess == BandExcess(c, b)
                   IN  /\ d >= 0 /\ d <= b + excess
                       /\ b + excess < Span => d >= b - excess - 1

(***************************************************************************)
(* The wait before retry n, whether the loop sleeps or has gone on, keeps  *)
(* the distance its jitter allows from a backoff that it may have.         *)
(***************************************************************************)
WaitsFollowTheFormula ==
  pc \in {"sleeping", "head"} /\ runs > 0 /\ ~Overrides(cfg, last) =>
    \E b \in Backoffs(cfg, runs - 1) : WithinJitter(cfg, b, delay)

(***************************************************************************)
(* What retry.go:16-18 says of every configuration: the backoff is         *)
(* min(InitialBackoff * Multiplier^n, MaxBackoff).  Stated where no jitter *)
(* hides it; the code falls short of it (see the README).                  *)
(***************************************************************************)
DocumentedFormula ==
  pc \in {"sleeping", "head"} /\ runs > 0 /\ ~Overrides(cfg, last) /\ cfg.mode = "none"
    => delay = Formula(cfg, runs - 1)

(***************************************************************************)
(* The server is obeyed: after an answer with a Retry-After the operation  *)
(* does not run again before the time asked for, or the cap, has passed -- *)
(* as long as that time is a Duration at all (see the README).             *)
(***************************************************************************)
Wish(h) == IF h.form = "delta" THEN h.n * Second ELSE h.n

WaitedAsAsked ==
  \/ waited >= Wish(last.header)
  \/ cfg.cap > 0 /\ waited >= cfg.cap

ServerIsObeyed ==
  pc = "head" /\ runs > 0 /\ Overrides(cfg, last) /\ Wish(last.header) < Span
    => WaitedAsAsked

(***************************************************************************)
(* What client.go:143-145 and checkretry.go:53-55 say of every Retry-After *)
(* that parses: it is the wait, within MaxBackoff.  The code falls short   *)
(* of it (see the README).                                                 *)
(***************************************************************************)
WishIsHonoured ==
  pc = "head" /\ runs > 0 /\ Overrides(cfg, last) => WaitedAsAsked

(***************************************************************************)
(* The outcome is accounted for: the loop gives up only on an error that   *)
(* is permanent by its own word or, failing that, the classifier's; or it  *)
(* has run the operation 1 + MaxRetries times, and says so.                *)
(***************************************************************************)
OutcomeIsAccountedFor ==
  /\ runs <= MaxRetries(cfg) + 1
  /\ result = "exhausted" =>
       /\ attempts = runs /\ runs = MaxRetries(cfg) + 1
       /\ last.carrier # "permanent"
       /\ last.carrier = "none" /\ cfg.classified => last.transient
  /\ result = "permanent" =>
       /\ last.carrier # "transient"
       /\ last.carrier = "none" => cfg.classified /\ ~last.transient
  /\ result = "stopped" => cfg.gated /\ runs <= MaxRetries(cfg)
  /\ result = "ctx" => ctx = "ended"

(***************************************************************************)
(* The loop ends of its own accord, without help from the context.         *)
(***************************************************************************)
LoopReturns == <>(pc = "done")
=============================================================================
