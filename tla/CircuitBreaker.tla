---------------------------- MODULE CircuitBreaker ----------------------------
(***************************************************************************)
(* The opt-in circuit breaker of breaker.go.  Every method takes cb.mu for *)
(* its whole body, so each method is one atomic action; what interleaves   *)
(* is the time between the Allow of a request and the done callback that   *)
(* reports its outcome.  The breaker keeps no generation number: a         *)
(* callback obtained in one state may be invoked in any later one.         *)
(***************************************************************************)
EXTENDS Integers, FiniteSets

CONSTANTS
  Callers,          \* goroutines, each holding at most one done callback
  MaxRequests,      \* BreakerSettings.MaxRequests; 0 is treated as 1
  Timeout,          \* BreakerSettings.Timeout, after its default
  Interval,         \* BreakerSettings.Interval; 0 never clears
  ReadyToTrip(_),   \* BreakerSettings.ReadyToTrip, after its default
  Span,             \* the counters are unsigned and wrap at Span (2^32)
  MaxClock          \* bound of the model: the clock stops here

ASSUME BreakerAssumption ==
  /\ IsFiniteSet(Callers)
  /\ Span \in Nat
  /\ MaxRequests \in 0 .. Span - 1
  /\ 1 < Span
  /\ Timeout \in Nat \ {0}
  /\ Interval \in Nat
  /\ MaxClock \in Nat

VARIABLES
  cb,        \* the CircuitBreaker struct, and three history fields
  clock,     \* what time.Now returns
  reserved,  \* callers that hold a done callback not yet invoked
  trial      \* history: the reservations made in this half-open period

breakerVars == <<cb, clock, reserved, trial>>

Closed   == "closed"
Open     == "open"
HalfOpen == "half-open"

NoTime == -1    \* the zero time.Time

Count == 0 .. Span - 1

Counts == [Requests : Count, TotalSuccesses : Count, TotalFailures : Count,
           ConsecutiveSuccesses : Count, ConsecutiveFailures : Count]

NoCounts == [Requests |-> 0, TotalSuccesses |-> 0, TotalFailures |-> 0,
             ConsecutiveSuccesses |-> 0, ConsecutiveFailures |-> 0]

Time == Nat \cup {NoTime}

Breaker == [state : {Closed, Open, HalfOpen}, counts : Counts, expiry : Time,
            \* history: when this state was entered; the oldest outcome in
            \* counts; the oldest outcome behind the last Closed->Open trip
            since : Nat, oldest : Time, evidence : Time]

-----------------------------------------------------------------------------
maxRequests == IF MaxRequests = 0 THEN 1 ELSE MaxRequests

\* Mutant: a counter that outgrows its width.
IncUnbounded(n) == n + 1

Inc(n) == IF n + 1 = Span THEN 0 ELSE n + 1

OnRequest(n) == [n EXCEPT !.Requests = Inc(@)]

CountSuccess(n) == [n EXCEPT !.TotalSuccesses = Inc(@),
                             !.ConsecutiveSuccesses = Inc(@),
                             !.ConsecutiveFailures = 0]

CountFailure(n) == [n EXCEPT !.TotalFailures = Inc(@),
                             !.ConsecutiveFailures = Inc(@),
                             !.ConsecutiveSuccesses = 0]

\* When the window that opens with a state ends.
Expiry(to, now) ==
  CASE to = Open -> now + Timeout
    [] to = Closed /\ Interval > 0 -> now + Interval
    [] OTHER -> NoTime

\* Mutant: the counts survive a change of state.
SetStateKeepsCounts(b, to, now) ==
  [b EXCEPT !.state = to, !.expiry = Expiry(to, now), !.since = now]

\* Changing to the state the breaker is in does nothing, unless it is Closed.
SetState(b, to, now) ==
  IF b.state = to /\ to # Closed
  THEN b
  ELSE [state |-> to, counts |-> NoCounts, expiry |-> Expiry(to, now),
        since |-> now, oldest |-> NoTime,
        evidence |-> IF b.state = Closed /\ to = Open THEN b.oldest
                                                      ELSE NoTime]

\* Mutant: the window ends one instant early.
ExpiredEarly(b, now) == b.expiry # NoTime /\ now >= b.expiry

Expired(b, now) == b.expiry # NoTime /\ now > b.expiry

\* Time-based transitions, made lazily at the start of every method.
Evaluate(b, now) ==
  CASE b.state = Open /\ Expired(b, now) -> SetState(b, HalfOpen, now)
    [] b.state = Closed /\ Interval > 0 /\ Expired(b, now) ->
         [b EXCEPT !.counts = NoCounts, !.expiry = now + Interval,
                   !.oldest = NoTime]
    [] OTHER -> b

Aged(b, now) == [b EXCEPT !.oldest = IF @ = NoTime THEN now ELSE @]

\* Mutant: one success too many is asked for.
OnSuccessOneMore(b, now) ==
  LET n == [Aged(b, now) EXCEPT !.counts = CountSuccess(@)]
  IN  IF n.state = HalfOpen /\ n.counts.ConsecutiveSuccesses > maxRequests
      THEN SetState(n, Closed, now)
      ELSE n

(***************************************************************************)
(* toClosed reads the clock a second time.  It is reached only from        *)
(* half-open, where evaluate does nothing more as time passes, so both     *)
(* reads may be taken to be the later one.                                 *)
(***************************************************************************)
OnSuccess(b, now) ==
  LET n == [Aged(b, now) EXCEPT !.counts = CountSuccess(@)]
  IN  IF n.state = HalfOpen /\ n.counts.ConsecutiveSuccesses >= maxRequests
      THEN SetState(n, Closed, now)
      ELSE n

\* Mutant: a late failure re-arms the window of an open breaker.
OnFailureRearms(b, now) ==
  LET n == [Aged(b, now) EXCEPT !.counts = CountFailure(@)]
  IN  CASE n.state = Open -> [n EXCEPT !.expiry = now + Timeout]
        [] n.state = Closed /\ ~ReadyToTrip(n.counts) -> n
        [] OTHER -> SetState(n, Open, now)

OnFailure(b, now) ==
  LET n == [Aged(b, now) EXCEPT !.counts = CountFailure(@)]
  IN  IF \/ n.state = Closed /\ ReadyToTrip(n.counts)
         \/ n.state = HalfOpen
      THEN SetState(n, Open, now)
      ELSE n

\* Mutant: the outcome is counted before the clock is looked at.
ReportUnevaluated(b, success, now) ==
  IF success THEN OnSuccess(b, now) ELSE OnFailure(b, now)

Report(b, success, now) ==
  IF success THEN OnSuccess(Evaluate(b, now), now)
             ELSE OnFailure(Evaluate(b, now), now)

\* Mutant: one trial too many.
ShedsOneLate(b) ==
  \/ b.state = Open
  \/ b.state = HalfOpen /\ b.counts.Requests > maxRequests

\* Whether Allow turns a request away, once it has evaluated the clock.
Sheds(b) ==
  \/ b.state = Open
  \/ b.state = HalfOpen /\ b.counts.Requests >= maxRequests

-----------------------------------------------------------------------------
\* NewCircuitBreaker: a zero struct, then toClosed.
NewBreaker(now) ==
  SetState([state |-> Closed, counts |-> NoCounts, expiry |-> NoTime,
            since |-> now, oldest |-> NoTime, evidence |-> NoTime],
           Closed, now)

Init ==
  /\ clock = 0
  /\ cb = NewBreaker(clock)
  /\ reserved = {}
  /\ trial = {}

\* Allow: the request is let through and owes the breaker a done callback.
Admit(c) ==
  LET b == Evaluate(cb, clock)
  IN  /\ c \notin reserved
      /\ ~Sheds(b)
      /\ cb' = [b EXCEPT !.counts = OnRequest(@)]
      /\ reserved' = reserved \cup {c}
      /\ trial' = IF b.state = HalfOpen THEN trial \cup {c} ELSE {}
      /\ UNCHANGED clock

\* Allow: ErrBreakerOpen.
Reject(c) ==
  LET b == Evaluate(cb, clock)
  IN  /\ c \notin reserved
      /\ Sheds(b)
      /\ cb' = b
      /\ UNCHANGED <<clock, reserved, trial>>

\* The done callback of a reservation.
Done(c, success) ==
  /\ c \in reserved
  /\ cb' = Report(cb, success, clock)
  /\ reserved' = reserved \ {c}
  /\ trial' = IF cb'.state = HalfOpen THEN trial \ {c} ELSE {}
  /\ UNCHANGED clock

\* State(): reading the state advances it.
ReadState ==
  /\ cb' = Evaluate(cb, clock)
  /\ UNCHANGED <<clock, reserved, trial>>

Tick ==
  /\ clock < MaxClock
  /\ clock' = clock + 1
  /\ UNCHANGED <<cb, reserved, trial>>

Next ==
  \/ \E c \in Callers : Admit(c)
  \/ \E c \in Callers : Reject(c)
  \/ \E c \in Callers, success \in BOOLEAN : Done(c, success)
  \/ ReadState
  \/ Tick

Spec == Init /\ [][Next]_breakerVars

(***************************************************************************)
(* The caller of Allow MUST invoke the callback (breaker.go, Allow), and   *)
(* the client does so on every path; requests keep arriving.               *)
(***************************************************************************)
Fairness ==
  /\ \A c \in Callers : WF_breakerVars(\E success \in BOOLEAN : Done(c, success))
  /\ WF_breakerVars(\E c \in Callers : Admit(c))

FairSpec == Spec /\ Fairness

-----------------------------------------------------------------------------
\* The variables keep their types; the counters stay inside their width.
TypeOK ==
  /\ cb \in Breaker
  /\ clock \in Nat
  /\ reserved \in SUBSET Callers
  /\ trial \in SUBSET reserved

(***************************************************************************)
(* A half-open breaker whose trial budget is used up still waits for at    *)
(* least one of those trials: outcomes of requests admitted in an earlier  *)
(* state, which also reach the counters, can never leave it shedding load  *)
(* with nobody left to move it (half-open has no timeout).                 *)
(***************************************************************************)
NeverWedged ==
  cb.state = HalfOpen /\ cb.counts.Requests >= maxRequests => trial # {}

(***************************************************************************)
(* At most MaxRequests trials are out in one half-open period, whatever    *)
(* late outcomes arrive in it.                                             *)
(***************************************************************************)
TrialBudget == Cardinality(trial) <= maxRequests

(***************************************************************************)
(* Late outcomes never prolong an open period: once Timeout has passed     *)
(* since the breaker opened, the next Allow is not shed.                   *)
(***************************************************************************)
OpenPeriodEnds ==
  cb.state = Open /\ clock > cb.since + Timeout => ~Sheds(Evaluate(cb, clock))

(***************************************************************************)
(* A Closed breaker trips on outcomes that were all reported within one    *)
(* Interval: lazily cleared counts never let an old failure weigh in.      *)
(***************************************************************************)
TripEvidenceIsRecent ==
  cb.state = Open /\ Interval > 0 /\ cb.evidence # NoTime =>
    cb.since - cb.evidence <= Interval

(***************************************************************************)
(* No step lets a request through, or leaves the open state, before        *)
(* Timeout has passed since the breaker opened; and a Closed breaker is    *)
(* never probing without having been open.                                 *)
(***************************************************************************)
OpenHoldsForTimeout ==
  [][/\ cb.state = Open /\ clock <= cb.since + Timeout =>
          cb'.state = Open /\ reserved' \subseteq reserved
     /\ cb.state = Closed => cb'.state # HalfOpen]_breakerVars

(***************************************************************************)
(* While requests arrive and report, every half-open period ends.          *)
(***************************************************************************)
HalfOpenResolves == cb.state = HalfOpen ~> cb.state # HalfOpen

(***************************************************************************)
(* Why a half-open breaker cannot be wedged or oversubscribed.  Requests   *)
(* counts this period's trials and late callbacks never touch it; a trial  *)
(* that is no longer out ended in success, for a failure ends the period;  *)
(* and the successes, late ones included, are still too few to close.      *)
(***************************************************************************)
HalfOpenAccounting ==
  cb.state = HalfOpen =>
    /\ cb.counts.Requests <= maxRequests
    /\ Cardinality(trial) <= cb.counts.Requests
    /\ cb.counts.Requests <= Cardinality(trial) + cb.counts.ConsecutiveSuccesses
    /\ cb.counts.ConsecutiveSuccesses < maxRequests

\* Trials belong to the half-open period they were admitted in.
TrialsAreHalfOpen == cb.state # HalfOpen => trial = {}

\* The open window is set when the breaker opens and never moved.
OpenWindowIsFixed == cb.state = Open => cb.expiry = cb.since + Timeout

\* What every step preserves, whatever the values of the constants.
IInv ==
  /\ TypeOK
  /\ HalfOpenAccounting
  /\ TrialsAreHalfOpen
  /\ OpenWindowIsFixed

-----------------------------------------------------------------------------
(***************************************************************************)
(* breaker.go:20-21 describes half-open: "up to MaxRequests trial requests *)
(* are admitted; a success closes the breaker, a failure reopens it".      *)
(* Read as: it is a trial's success that closes the breaker.               *)
(***************************************************************************)
ClosedByATrial ==
  [][cb.state # Closed /\ cb'.state = Closed =>
       \E c \in trial : c \notin reserved']_breakerVars
=============================================================================
