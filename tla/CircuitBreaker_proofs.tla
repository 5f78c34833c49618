------------------------ MODULE CircuitBreaker_proofs -------------------------
(***************************************************************************)
(* Proofs about CircuitBreaker, for every number of callers, every trip    *)
(* predicate and every value of the settings.  The clock need not stop: no *)
(* step of these proofs uses MaxClock.                                     *)
(***************************************************************************)
EXTENDS CircuitBreaker, FiniteSetTheorems, TLAPS

-----------------------------------------------------------------------------
(***************************************************************************)
(* Facts about the operators that compute the breaker's next state.        *)
(***************************************************************************)

\* MaxRequests after its default is a positive number that a counter can hold.
LEMMA MaxRequestsType == maxRequests \in Nat /\ 0 < maxRequests /\ maxRequests < Span
BY BreakerAssumption DEF maxRequests

\* The counters' arithmetic stays inside their width.
LEMMA CountsType ==
  ASSUME NEW n \in Counts
  PROVE  /\ NoCounts \in Counts
         /\ OnRequest(n) \in Counts
         /\ CountSuccess(n) \in Counts
         /\ CountFailure(n) \in Counts
<1>1. 0 \in Count /\ \A i \in Count : Inc(i) \in Count
  BY BreakerAssumption DEF Count, Inc
<1>2. NoCounts \in Counts
  BY <1>1 DEF NoCounts, Counts
<1>3. OnRequest(n) \in Counts
  BY <1>1 DEF OnRequest, Counts
<1>4. CountSuccess(n) \in Counts
  BY <1>1 DEF CountSuccess, Counts
<1>5. CountFailure(n) \in Counts
  BY <1>1 DEF CountFailure, Counts
<1> QED BY <1>2, <1>3, <1>4, <1>5

\* A breaker record in good order: well typed, with the open window it was given.
Sound(b) == b \in Breaker /\ (b.state = Open => b.expiry = b.since + Timeout)

\* A transition leaves a sound breaker with empty counts, and Closed -> Closed too.
LEMMA SetStateSound ==
  ASSUME NEW b, Sound(b), NEW now \in Nat, NEW to \in {Closed, Open, HalfOpen}
  PROVE  /\ Sound(SetState(b, to, now))
         /\ SetState(b, to, now).state = to
         /\ b.state # to => SetState(b, to, now).counts = NoCounts
<1>1. NoCounts \in Counts
  BY CountsType DEF Sound, Breaker
<1>2. Expiry(to, now) \in Time /\ (to = Open => Expiry(to, now) = now + Timeout)
  BY BreakerAssumption DEF Expiry, Time, Open, Closed
<1>3. CASE b.state = to /\ to # Closed
  BY <1>3 DEF SetState, Sound
<1>4. CASE ~(b.state = to /\ to # Closed)
  BY <1>1, <1>2, <1>4 DEF SetState, Sound, Breaker, Time
<1> QED BY <1>3, <1>4

\* evaluate keeps the breaker sound, and can only move it from Open to HalfOpen.
LEMMA EvaluateSound ==
  ASSUME NEW b, Sound(b), NEW now \in Nat
  PROVE  /\ Sound(Evaluate(b, now))
         /\ b.state = HalfOpen => Evaluate(b, now) = b
         /\ Evaluate(b, now).state # b.state =>
              /\ b.state = Open
              /\ Evaluate(b, now).state = HalfOpen
              /\ Evaluate(b, now).counts = NoCounts
<1>1. CASE b.state = Open /\ Expired(b, now)
  BY <1>1, SetStateSound DEF Evaluate, Open, HalfOpen, Closed
<1>2. CASE b.state = Closed /\ Interval > 0 /\ Expired(b, now)
  <2>1. NoCounts \in Counts /\ now + Interval \in Time /\ NoTime \in Time
    BY CountsType, BreakerAssumption DEF Sound, Breaker, Time
  <2>2. Evaluate(b, now) = [b EXCEPT !.counts = NoCounts, !.expiry = now + Interval,
                                     !.oldest = NoTime]
    BY <1>2 DEF Evaluate, Open, Closed
  <2>3. Evaluate(b, now) \in Breaker /\ Evaluate(b, now).state = b.state
    BY <2>1, <2>2 DEF Sound, Breaker
  <2> QED BY <2>3, <1>2 DEF Sound, Open, Closed, HalfOpen
<1>3. CASE /\ ~(b.state = Open /\ Expired(b, now))
           /\ ~(b.state = Closed /\ Interval > 0 /\ Expired(b, now))
  BY <1>3 DEF Evaluate
<1> QED BY <1>1, <1>2, <1>3

\* What counting one outcome does to a sound breaker, before any transition.
LEMMA CountedSound ==
  ASSUME NEW b, Sound(b), NEW now \in Nat,
         NEW n, n = CountSuccess(b.counts) \/ n = CountFailure(b.counts)
  PROVE  LET a == [Aged(b, now) EXCEPT !.counts = n]
         IN  /\ Sound(a)
             /\ a.state = b.state
             /\ a.counts = n
<1>1. b.counts \in Counts /\ n \in Counts
  BY CountsType DEF Sound, Breaker
<1>2. Aged(b, now) \in Breaker /\ Aged(b, now).state = b.state
      /\ Aged(b, now).expiry = b.expiry /\ Aged(b, now).since = b.since
  BY DEF Aged, Sound, Breaker, Time
<1> QED BY <1>1, <1>2 DEF Sound, Breaker

-----------------------------------------------------------------------------
\* Init establishes the inductive invariant.
LEMMA InitIInv == Init => IInv
<1> SUFFICES ASSUME Init PROVE IInv
  OBVIOUS
<1>1. Sound([state |-> Closed, counts |-> NoCounts, expiry |-> NoTime,
             since |-> 0, oldest |-> NoTime, evidence |-> NoTime])
  <2>1. NoCounts \in Counts
    BY BreakerAssumption DEF NoCounts, Counts, Count
  <2> QED BY <2>1 DEF Sound, Breaker, Time, Closed, Open
<1>2. Sound(cb) /\ cb.state = Closed
  BY <1>1, SetStateSound DEF Init, NewBreaker
<1> QED BY <1>2 DEF Init, IInv, TypeOK, HalfOpenAccounting, TrialsAreHalfOpen,
                    OpenWindowIsFixed, Sound, Closed, HalfOpen

(***************************************************************************)
(* The parts of the invariant that speak of the breaker record alone.      *)
(***************************************************************************)
LEMMA IInvSound == IInv => Sound(cb) /\ clock \in Nat
BY DEF IInv, TypeOK, OpenWindowIsFixed, Sound

\* The trials are a finite set, which grows and shrinks by one.
LEMMA TrialCardinality ==
  ASSUME TypeOK, NEW c \in Callers
  PROVE  /\ Cardinality(trial) \in Nat
         /\ Cardinality({}) = 0
         /\ c \notin trial => Cardinality(trial \cup {c}) = Cardinality(trial) + 1
         /\ Cardinality(trial \ {c}) \in Nat
         /\ Cardinality(trial) <= Cardinality(trial \ {c}) + 1
         /\ Cardinality(trial \ {c}) <= Cardinality(trial)
<1>1. IsFiniteSet(trial)
  BY FS_Subset, BreakerAssumption DEF TypeOK
<1>2. Cardinality(trial) \in Nat /\ Cardinality({}) = 0
  BY <1>1, FS_CardinalityType, FS_EmptySet
<1>3. c \notin trial => Cardinality(trial \cup {c}) = Cardinality(trial) + 1
  BY <1>1, FS_AddElement
<1>4. /\ IsFiniteSet(trial \ {c})
      /\ Cardinality(trial \ {c}) =
           IF c \in trial THEN Cardinality(trial) - 1 ELSE Cardinality(trial)
  BY <1>1, FS_RemoveElement
<1>5. Cardinality(trial \ {c}) \in Nat
  BY <1>4, FS_CardinalityType
<1> QED BY <1>2, <1>3, <1>4, <1>5

\* Evaluating the clock, which every method does first, preserves the invariant.
LEMMA EvaluateAccounting ==
  ASSUME IInv, NEW b, b = Evaluate(cb, clock)
  PROVE  /\ Sound(b)
         /\ b.state = HalfOpen =>
              /\ b.counts.Requests \in Count
              /\ b.counts.ConsecutiveSuccesses \in Count
              /\ b.counts.Requests <= maxRequests
              /\ Cardinality(trial) <= b.counts.Requests
              /\ b.counts.Requests <=
                   Cardinality(trial) + b.counts.ConsecutiveSuccesses
              /\ b.counts.ConsecutiveSuccesses < maxRequests
         /\ b.state # HalfOpen => trial = {}
<1>1. Sound(cb) /\ clock \in Nat
  BY IInvSound
<1>2. Sound(b)
  BY <1>1, EvaluateSound
<1>3. b.counts.Requests \in Count /\ b.counts.ConsecutiveSuccesses \in Count
  BY <1>2 DEF Sound, Breaker, Counts
<1>4. CASE cb.state = HalfOpen
  <2>1. b = cb
    BY <1>1, <1>4, EvaluateSound
  <2> QED BY <1>2, <1>3, <1>4, <2>1 DEF IInv, HalfOpenAccounting
<1>5. CASE cb.state # HalfOpen /\ b.state = HalfOpen
  <2>1. b.counts = NoCounts
    BY <1>1, <1>5, EvaluateSound
  <2>2. trial = {} /\ Cardinality({}) = 0
    BY <1>5, FS_EmptySet DEF IInv, TrialsAreHalfOpen
  <2> QED BY <1>2, <1>3, <1>5, <2>1, <2>2, MaxRequestsType DEF NoCounts
<1>6. CASE cb.state # HalfOpen /\ b.state # HalfOpen
  BY <1>2, <1>6 DEF IInv, TrialsAreHalfOpen
<1> QED BY <1>4, <1>5, <1>6

\* Allow lets a request through.
LEMMA AdmitIInv == ASSUME IInv, NEW c \in Callers, Admit(c) PROVE IInv'
<1> DEFINE b == Evaluate(cb, clock)
<1>1. b \in Breaker /\ b.counts \in Counts /\ OnRequest(b.counts) \in Counts
  BY EvaluateAccounting, CountsType DEF Sound, Breaker
<1>2. cb' = [b EXCEPT !.counts = OnRequest(@)]
  BY DEF Admit
<1> HIDE DEF b
<1>3. /\ cb' \in Breaker
      /\ cb'.state = b.state /\ cb'.counts = OnRequest(b.counts)
      /\ cb'.expiry = b.expiry /\ cb'.since = b.since
  BY <1>1, <1>2 DEF Breaker
<1>4. TypeOK'
  <2>1. trial' \subseteq reserved' /\ reserved' \subseteq Callers
    BY DEF Admit, IInv, TypeOK
  <2> QED BY <1>3, <2>1 DEF Admit, IInv, TypeOK
<1>5. HalfOpenAccounting'
  <2> SUFFICES ASSUME b.state = HalfOpen
               PROVE  /\ cb'.counts.Requests <= maxRequests
                      /\ Cardinality(trial') <= cb'.counts.Requests
                      /\ cb'.counts.Requests <=
                           Cardinality(trial') + cb'.counts.ConsecutiveSuccesses
                      /\ cb'.counts.ConsecutiveSuccesses < maxRequests
    BY <1>3 DEF HalfOpenAccounting
  <2>1. b.counts.Requests < maxRequests /\ c \notin trial
        /\ trial' = trial \cup {c}
    <3>1. ~Sheds(b) /\ c \notin reserved /\ trial' = trial \cup {c}
      BY DEF Admit, b
    <3>2. b.counts.Requests \in Nat
      BY <1>1 DEF Counts, Count
    <3> QED BY <3>1, <3>2, MaxRequestsType DEF Sheds, IInv, TypeOK
  <2>2. Cardinality(trial') = Cardinality(trial) + 1 /\ Cardinality(trial) \in Nat
    BY <2>1, TrialCardinality DEF IInv
  <2>3. /\ cb'.counts.Requests = b.counts.Requests + 1
        /\ cb'.counts.ConsecutiveSuccesses = b.counts.ConsecutiveSuccesses
    BY <1>1, <1>3, <2>1, MaxRequestsType DEF OnRequest, Inc, Counts, Count
  <2>4. /\ b.counts.Requests \in Nat
        /\ b.counts.ConsecutiveSuccesses \in Nat
        /\ Cardinality(trial) <= b.counts.Requests
        /\ b.counts.Requests <=
             Cardinality(trial) + b.counts.ConsecutiveSuccesses
        /\ b.counts.ConsecutiveSuccesses < maxRequests
    BY EvaluateAccounting DEF b, Count
  <2> QED BY <2>1, <2>2, <2>3, <2>4, MaxRequestsType
<1>6. TrialsAreHalfOpen'
  BY <1>3 DEF TrialsAreHalfOpen, Admit, b
<1>7. OpenWindowIsFixed'
  BY <1>3, EvaluateAccounting DEF OpenWindowIsFixed, Sound, b
<1> QED BY <1>4, <1>5, <1>6, <1>7 DEF IInv

\* Allow sheds a request.
LEMMA RejectIInv == ASSUME IInv, NEW c \in Callers, Reject(c) PROVE IInv'
<1>1. cb' = Evaluate(cb, clock) /\ UNCHANGED <<clock, reserved, trial>>
  BY DEF Reject
<1> QED BY <1>1, EvaluateAccounting
        DEF IInv, TypeOK, HalfOpenAccounting, TrialsAreHalfOpen,
            OpenWindowIsFixed, Sound

\* State() advances the breaker and nothing else.
LEMMA ReadStateIInv == ASSUME IInv, ReadState PROVE IInv'
<1>1. cb' = Evaluate(cb, clock) /\ UNCHANGED <<clock, reserved, trial>>
  BY DEF ReadState
<1> QED BY <1>1, EvaluateAccounting
        DEF IInv, TypeOK, HalfOpenAccounting, TrialsAreHalfOpen,
            OpenWindowIsFixed, Sound

(***************************************************************************)
(* The breaker after an outcome.  A success is counted, and closes a       *)
(* half-open breaker that has had enough of them; after a failure the      *)
(* breaker is not half-open.                                               *)
(***************************************************************************)
LEMMA ReportEffect ==
  ASSUME NEW b, Sound(b), NEW now \in Nat, NEW success \in BOOLEAN,
         NEW r, r = IF success THEN OnSuccess(b, now) ELSE OnFailure(b, now)
  PROVE  /\ Sound(r)
         /\ r.state = HalfOpen =>
              /\ success /\ b.state = HalfOpen
              /\ r.counts = CountSuccess(b.counts)
              /\ ~(r.counts.ConsecutiveSuccesses >= maxRequests)
         /\ b.state = Open => r.state = Open
<1> DEFINE ok == [Aged(b, now) EXCEPT !.counts = CountSuccess(b.counts)]
           ko == [Aged(b, now) EXCEPT !.counts = CountFailure(b.counts)]
<1>1. /\ Sound(ok) /\ ok.state = b.state /\ ok.counts = CountSuccess(b.counts)
      /\ Sound(ko) /\ ko.state = b.state /\ ko.counts = CountFailure(b.counts)
  BY CountedSound
<1>2. Aged(b, now).counts = b.counts
  BY DEF Aged, Sound, Breaker
<1>3. /\ [Aged(b, now) EXCEPT !.counts = CountSuccess(@)] = ok
      /\ [Aged(b, now) EXCEPT !.counts = CountFailure(@)] = ko
  BY <1>2
<1>4. CASE success
  <2>1. r = IF ok.state = HalfOpen
               /\ ok.counts.ConsecutiveSuccesses >= maxRequests
            THEN SetState(ok, Closed, now) ELSE ok
    BY <1>3, <1>4 DEF OnSuccess
  <2> HIDE DEF ok
  <2>2. Sound(SetState(ok, Closed, now)) /\ SetState(ok, Closed, now).state = Closed
    BY <1>1, SetStateSound
  <2> QED BY <1>1, <1>4, <2>1, <2>2 DEF Closed, HalfOpen, Open
<1>5. CASE ~success
  <2>1. r = IF \/ ko.state = Closed /\ ReadyToTrip(ko.counts)
               \/ ko.state = HalfOpen
            THEN SetState(ko, Open, now) ELSE ko
    BY <1>3, <1>5 DEF OnFailure
  <2> HIDE DEF ko
  <2>2. Sound(SetState(ko, Open, now)) /\ SetState(ko, Open, now).state = Open
    BY <1>1, SetStateSound
  <2>3. r = SetState(ko, Open, now) \/ (r = ko /\ ko.state # HalfOpen)
    BY <2>1
  <2> QED BY <1>1, <2>2, <2>3 DEF HalfOpen, Open
<1> QED BY <1>4, <1>5

\* A done callback, whichever state its request was admitted in.
LEMMA DoneIInv ==
  ASSUME IInv, NEW c \in Callers, NEW success \in BOOLEAN, Done(c, success)
  PROVE  IInv'
<1> DEFINE b == Evaluate(cb, clock)
<1>1. Sound(b) /\ clock \in Nat
  BY EvaluateAccounting, IInvSound
<1>2. /\ cb' = IF success THEN OnSuccess(b, clock) ELSE OnFailure(b, clock)
      /\ reserved' = reserved \ {c}
      /\ trial' = IF cb'.state = HalfOpen THEN trial \ {c} ELSE {}
      /\ clock' = clock
  BY DEF Done, Report
<1> HIDE DEF b
<1>3. /\ Sound(cb')
      /\ cb'.state = HalfOpen =>
           /\ b.state = HalfOpen
           /\ cb'.counts = CountSuccess(b.counts)
           /\ ~(cb'.counts.ConsecutiveSuccesses >= maxRequests)
  BY <1>1, <1>2, ReportEffect
<1>4. TypeOK' /\ TrialsAreHalfOpen' /\ OpenWindowIsFixed'
  BY <1>2, <1>3
     DEF IInv, TypeOK, TrialsAreHalfOpen, OpenWindowIsFixed, Sound
<1>5. HalfOpenAccounting'
  <2> SUFFICES ASSUME cb'.state = HalfOpen
               PROVE  /\ cb'.counts.Requests <= maxRequests
                      /\ Cardinality(trial') <= cb'.counts.Requests
                      /\ cb'.counts.Requests <=
                           Cardinality(trial') + cb'.counts.ConsecutiveSuccesses
                      /\ cb'.counts.ConsecutiveSuccesses < maxRequests
    BY DEF HalfOpenAccounting
  <2>1. /\ b.counts.Requests \in Nat
        /\ b.counts.ConsecutiveSuccesses \in Nat
        /\ b.counts.Requests <= maxRequests
        /\ Cardinality(trial) <= b.counts.Requests
        /\ b.counts.Requests <=
             Cardinality(trial) + b.counts.ConsecutiveSuccesses
        /\ b.counts.ConsecutiveSuccesses < maxRequests
    BY <1>3, EvaluateAccounting DEF b, Count
  <2>2. b.counts \in Counts
    BY <1>1 DEF Sound, Breaker
  <2>3. /\ cb'.counts.Requests = b.counts.Requests
        /\ cb'.counts.ConsecutiveSuccesses = b.counts.ConsecutiveSuccesses + 1
    <3>1. ASSUME NEW n \in Counts
          PROVE  /\ CountSuccess(n).Requests = n.Requests
                 /\ CountSuccess(n).ConsecutiveSuccesses =
                      Inc(n.ConsecutiveSuccesses)
      BY DEF CountSuccess, Counts
    <3>2. Inc(b.counts.ConsecutiveSuccesses) = b.counts.ConsecutiveSuccesses + 1
      BY <2>1, MaxRequestsType, BreakerAssumption DEF Inc
    <3> QED BY <1>3, <2>2, <3>1, <3>2
  <2>4. trial' = trial \ {c}
    BY <1>2
  <2>5. /\ Cardinality(trial) \in Nat
        /\ Cardinality(trial \ {c}) \in Nat
        /\ Cardinality(trial) <= Cardinality(trial \ {c}) + 1
        /\ Cardinality(trial \ {c}) <= Cardinality(trial)
    BY TrialCardinality DEF IInv
  <2> QED BY <1>3, <2>1, <2>3, <2>4, <2>5, MaxRequestsType
<1> QED BY <1>4, <1>5 DEF IInv

\* Time passes.
LEMMA TickIInv == ASSUME IInv, Tick PROVE IInv'
BY DEF Tick, IInv, TypeOK, HalfOpenAccounting, TrialsAreHalfOpen, OpenWindowIsFixed

-----------------------------------------------------------------------------
(***************************************************************************)
(* The inductive invariant holds in every state of the breaker: the types, *)
(* the half-open accounting and the fixed open window.                     *)
(***************************************************************************)
THEOREM Invariance == Spec => []IInv
<1>1. Init => IInv
  BY InitIInv
<1>2. IInv /\ [Next]_breakerVars => IInv'
  <2> SUFFICES ASSUME IInv, [Next]_breakerVars PROVE IInv'
    OBVIOUS
  <2>1. CASE \E c \in Callers : Admit(c)
    BY <2>1, AdmitIInv
  <2>2. CASE \E c \in Callers : Reject(c)
    BY <2>2, RejectIInv
  <2>3. CASE \E c \in Callers, success \in BOOLEAN : Done(c, success)
    BY <2>3, DoneIInv
  <2>4. CASE ReadState
    BY <2>4, ReadStateIInv
  <2>5. CASE Tick
    BY <2>5, TickIInv
  <2>6. CASE UNCHANGED breakerVars
    BY <2>6 DEF breakerVars, IInv, TypeOK, HalfOpenAccounting,
                TrialsAreHalfOpen, OpenWindowIsFixed
  <2> QED BY <2>1, <2>2, <2>3, <2>4, <2>5, <2>6 DEF Next
<1> QED BY <1>1, <1>2, PTL DEF Spec

(***************************************************************************)
(* A half-open breaker is never wedged: when its trial budget is used up,  *)
(* one of its trials is still out.  Late callbacks cannot break this.      *)
(***************************************************************************)
THEOREM NeverWedgedHolds == Spec => []NeverWedged
<1>1. IInv => NeverWedged
  <2> SUFFICES ASSUME IInv, cb.state = HalfOpen,
                      cb.counts.Requests >= maxRequests, trial = {}
               PROVE  FALSE
    BY DEF NeverWedged
  <2>1. Cardinality(trial) = 0
    BY FS_EmptySet
  <2>2. cb.counts.Requests \in Nat /\ cb.counts.ConsecutiveSuccesses \in Nat
    BY DEF IInv, TypeOK, Breaker, Counts, Count
  <2> QED BY <2>1, <2>2, MaxRequestsType DEF IInv, HalfOpenAccounting
<1> QED BY <1>1, Invariance, PTL

(***************************************************************************)
(* At most MaxRequests trials are out at any time.                         *)
(***************************************************************************)
THEOREM TrialBudgetHolds == Spec => []TrialBudget
<1>1. IInv => TrialBudget
  <2> SUFFICES ASSUME IInv PROVE Cardinality(trial) <= maxRequests
    BY DEF TrialBudget
  <2>1. IsFiniteSet(trial)
    BY FS_Subset, BreakerAssumption DEF IInv, TypeOK
  <2>2. Cardinality(trial) \in Nat /\ Cardinality({}) = 0
    BY <2>1, FS_CardinalityType, FS_EmptySet
  <2>3. CASE cb.state = HalfOpen
    <3>1. cb.counts.Requests \in Nat
      BY DEF IInv, TypeOK, Breaker, Counts, Count
    <3> QED BY <2>2, <2>3, <3>1, MaxRequestsType DEF IInv, HalfOpenAccounting
  <2>4. CASE cb.state # HalfOpen
    BY <2>2, <2>4, MaxRequestsType DEF IInv, TrialsAreHalfOpen
  <2> QED BY <2>3, <2>4
<1> QED BY <1>1, Invariance, PTL

(***************************************************************************)
(* Late outcomes never prolong an open period: the first Allow after       *)
(* Timeout is let through.                                                 *)
(***************************************************************************)
THEOREM OpenPeriodEndsHolds == Spec => []OpenPeriodEnds
<1>1. IInv => OpenPeriodEnds
  <2> SUFFICES ASSUME IInv, cb.state = Open, clock > cb.since + Timeout
               PROVE  ~Sheds(Evaluate(cb, clock))
    BY DEF OpenPeriodEnds
  <2>1. cb.expiry = cb.since + Timeout /\ cb.since \in Nat
    BY DEF IInv, OpenWindowIsFixed, TypeOK, Breaker
  <2>2. Expired(cb, clock)
    BY <2>1, BreakerAssumption DEF Expired, NoTime
  <2>3. Evaluate(cb, clock) = SetState(cb, HalfOpen, clock)
    BY <2>2 DEF Evaluate, Open, Closed
  <2>4. /\ Evaluate(cb, clock).state = HalfOpen
        /\ Evaluate(cb, clock).counts = NoCounts
    <3>1. Sound(cb) /\ clock \in Nat /\ cb.state # HalfOpen
      BY IInvSound DEF HalfOpen, Open
    <3> QED BY <2>3, <3>1, SetStateSound
  <2> QED BY <2>4, MaxRequestsType DEF Sheds, NoCounts, HalfOpen, Open
<1> QED BY <1>1, Invariance, PTL

(***************************************************************************)
(* Nothing is let through, and the open state is not left, before Timeout  *)
(* has passed; and a Closed breaker never starts probing.                  *)
(***************************************************************************)
THEOREM OpenHoldsForTimeoutHolds == Spec => OpenHoldsForTimeout
<1> DEFINE Holds ==
      /\ cb.state = Open /\ clock <= cb.since + Timeout =>
           cb'.state = Open /\ reserved' \subseteq reserved
      /\ cb.state = Closed => cb'.state # HalfOpen
<1>1. IInv /\ [Next]_breakerVars => [Holds]_breakerVars
  <2> SUFFICES ASSUME IInv, Next PROVE Holds
    OBVIOUS
  <2> DEFINE b == Evaluate(cb, clock)
  <2>1. /\ cb.state = Open /\ clock <= cb.since + Timeout => b = cb
        /\ cb.state = Closed => b.state = Closed
        /\ Sound(b) /\ clock \in Nat
    <3>1. cb.state = Open /\ clock <= cb.since + Timeout => ~Expired(cb, clock)
      BY BreakerAssumption
         DEF Expired, IInv, OpenWindowIsFixed, TypeOK, Breaker
    <3>2. cb.state = Open /\ clock <= cb.since + Timeout => b = cb
      BY <3>1 DEF Evaluate, Open, Closed
    <3>3. cb.state = Closed => b.state = Closed
      BY EvaluateSound, IInvSound DEF Open, Closed
    <3> QED BY <3>2, <3>3, EvaluateAccounting, IInvSound
  <2> HIDE DEF b
  <2>2. ASSUME NEW c \in Callers, Admit(c) PROVE Holds
    <3>1. ~Sheds(b) /\ cb' = [b EXCEPT !.counts = OnRequest(@)]
      BY <2>2 DEF Admit, b
    <3>2. cb'.state = b.state
      BY <2>1, <3>1 DEF Sound, Breaker
    <3> QED BY <2>1, <3>1, <3>2 DEF Sheds, Open, Closed, HalfOpen
  <2>3. ASSUME NEW c \in Callers, Reject(c) PROVE Holds
    BY <2>1, <2>3 DEF Reject, b, Open, Closed, HalfOpen
  <2>4. ASSUME NEW c \in Callers, NEW success \in BOOLEAN, Done(c, success)
        PROVE  Holds
    <3>1. /\ cb' = IF success THEN OnSuccess(b, clock) ELSE OnFailure(b, clock)
          /\ reserved' = reserved \ {c}
      BY <2>4 DEF Done, Report, b
    <3>2. /\ b.state = Open => cb'.state = Open
          /\ cb'.state = HalfOpen => b.state = HalfOpen
      BY <2>1, <3>1, ReportEffect
    <3> QED BY <2>1, <3>1, <3>2 DEF Closed, HalfOpen
  <2>5. CASE ReadState
    BY <2>1, <2>5 DEF ReadState, b, Open, Closed, HalfOpen
  <2>6. CASE Tick
    BY <2>6 DEF Tick, Open, Closed, HalfOpen
  <2> QED BY <2>2, <2>3, <2>4, <2>5, <2>6 DEF Next
<1> QED BY <1>1, Invariance, PTL DEF Spec, OpenHoldsForTimeout

-----------------------------------------------------------------------------
(***************************************************************************)
(* Why old outcomes do not trip a breaker: the window of a closed breaker  *)
(* began in the past, and not after the oldest outcome it counts.          *)
(***************************************************************************)
Dated(b, now) ==
  /\ b.state = Closed /\ Interval > 0 =>
       /\ b.expiry # NoTime
       /\ b.expiry <= now + Interval
       /\ b.oldest # NoTime => b.expiry <= b.oldest + Interval
  /\ b.state = Open /\ Interval > 0 /\ b.evidence # NoTime =>
       b.since - b.evidence <= Interval

\* The window of a closed breaker is open, as evaluate leaves it.
Current(b, now) == b.state = Closed /\ Interval > 0 => now <= b.expiry

\* A new breaker, or one that changes to another state than Open, is dated.
LEMMA SetStateDated ==
  ASSUME NEW b, Sound(b), NEW now \in Nat, NEW to \in {Closed, HalfOpen},
         to = Closed \/ b.state # to
  PROVE  Dated(SetState(b, to, now), now)
BY BreakerAssumption DEF SetState, Expiry, Dated, Closed, Open, HalfOpen, NoTime

\* evaluate leaves a dated breaker dated, and its window open.
LEMMA EvaluateDated ==
  ASSUME NEW b, Sound(b), NEW now \in Nat, Dated(b, now)
  PROVE  Dated(Evaluate(b, now), now) /\ Current(Evaluate(b, now), now)
<1> DEFINE e == Evaluate(b, now)
<1>1. CASE b.state = Open /\ Expired(b, now)
  <2>1. e = SetState(b, HalfOpen, now) /\ b.state # HalfOpen
    BY <1>1 DEF Evaluate, Open, HalfOpen, Closed
  <2>2. e.state = HalfOpen
    BY <2>1, SetStateSound
  <2> QED BY <2>1, <2>2, SetStateDated DEF Current, Closed, HalfOpen
<1>2. CASE b.state = Closed /\ Interval > 0 /\ Expired(b, now)
  <2>1. e = [b EXCEPT !.counts = NoCounts, !.expiry = now + Interval, !.oldest = NoTime]
    BY <1>2 DEF Evaluate, Open, Closed
  <2>2. e.state = Closed /\ e.expiry = now + Interval /\ e.oldest = NoTime
    BY <1>2, <2>1 DEF Sound, Breaker
  <2>3. /\ now + Interval # NoTime
        /\ now <= now + Interval /\ now + Interval <= now + Interval
    BY BreakerAssumption DEF NoTime
  <2> HIDE DEF e
  <2>4. Dated(e, now) /\ Current(e, now)
    BY <2>2, <2>3 DEF Dated, Current, Closed, Open
  <2> QED BY <2>4 DEF e
<1>3. CASE /\ ~(b.state = Open /\ Expired(b, now))
           /\ ~(b.state = Closed /\ Interval > 0 /\ Expired(b, now))
  <2>1. e = b
    BY <1>3 DEF Evaluate
  <2>2. b.expiry \in Int
    BY DEF Sound, Breaker, Time, NoTime
  <2> QED BY <1>3, <2>1, <2>2 DEF Dated, Current, Expired
<1> QED BY <1>1, <1>2, <1>3

\* An outcome is counted, and trips a closed breaker within its window only.
LEMMA ReportDated ==
  ASSUME NEW b, Sound(b), NEW now \in Nat, Dated(b, now), Current(b, now),
         NEW success \in BOOLEAN,
         NEW r, r = IF success THEN OnSuccess(b, now) ELSE OnFailure(b, now)
  PROVE  Dated(r, now)
<1>1. ASSUME NEW n, n = CountSuccess(b.counts) \/ n = CountFailure(b.counts)
      PROVE  LET a == [Aged(b, now) EXCEPT !.counts = n]
             IN  /\ Sound(a) /\ Dated(a, now) /\ Current(a, now)
                 /\ a.state = Closed /\ Interval > 0 =>
                      a.oldest # NoTime /\ a.oldest \in Int /\ now - a.oldest <= Interval
                 /\ a.state = b.state
  <2> DEFINE a == [Aged(b, now) EXCEPT !.counts = n]
  <2>1. /\ a.state = b.state /\ a.expiry = b.expiry /\ a.since = b.since
        /\ a.evidence = b.evidence
        /\ a.oldest = IF b.oldest = NoTime THEN now ELSE b.oldest
    BY DEF Aged, Sound, Breaker
  <2>2. b.expiry \in Int /\ b.oldest \in Int /\ b.since \in Int /\ b.evidence \in Int
    BY DEF Sound, Breaker, Time, NoTime
  <2>3. Sound(a)
    BY <1>1, CountedSound
  <2> HIDE DEF a
  <2>4. Dated(a, now) /\ Current(a, now)
    BY <2>1, <2>2, BreakerAssumption DEF Dated, Current, NoTime
  <2>5. a.state = Closed /\ Interval > 0 =>
          a.oldest # NoTime /\ a.oldest \in Int /\ now - a.oldest <= Interval
    BY <2>1, <2>2, BreakerAssumption DEF Dated, Current, NoTime
  <2> QED BY <2>1, <2>3, <2>4, <2>5 DEF a
<1>2. Aged(b, now).counts = b.counts
  BY DEF Aged, Sound, Breaker
<1>3. CASE success
  <2> DEFINE ok == [Aged(b, now) EXCEPT !.counts = CountSuccess(b.counts)]
  <2>1. Sound(ok) /\ Dated(ok, now)
    BY <1>1
  <2>2. r = SetState(ok, Closed, now) \/ r = ok
    BY <1>2, <1>3 DEF OnSuccess
  <2> HIDE DEF ok
  <2> QED BY <2>1, <2>2, SetStateDated
<1>4. CASE ~success
  <2> DEFINE ko == [Aged(b, now) EXCEPT !.counts = CountFailure(b.counts)]
  <2>1. /\ Sound(ko) /\ Dated(ko, now)
        /\ ko.state = Closed /\ Interval > 0 =>
             ko.oldest # NoTime /\ ko.oldest \in Int /\ now - ko.oldest <= Interval
    BY <1>1
  <2>2. \/ r = ko
        \/ r = SetState(ko, Open, now) /\ ko.state # Open
    BY <1>2, <1>4 DEF OnFailure, Open, Closed, HalfOpen
  <2> HIDE DEF ko
  <2>3. CASE r = SetState(ko, Open, now) /\ ko.state # Open
    <3>1. /\ r.state = Open /\ r.since = now
          /\ r.evidence = IF ko.state = Closed THEN ko.oldest ELSE NoTime
      BY <2>3 DEF SetState, Open, Closed
    <3> QED BY <2>1, <3>1 DEF Dated, Open, Closed
  <2> QED BY <2>1, <2>2, <2>3
<1> QED BY <1>3, <1>4

\* Every step keeps the breaker dated.
LEMMA StepDated ==
  ASSUME IInv, Dated(cb, clock), [Next]_breakerVars
  PROVE  Dated(cb, clock)'
<1> DEFINE b == Evaluate(cb, clock)
<1>1. Sound(cb) /\ clock \in Nat /\ Sound(b) /\ Dated(b, clock) /\ Current(b, clock)
  BY IInvSound, EvaluateSound, EvaluateDated
<1>2. ASSUME NEW c \in Callers, Admit(c) PROVE Dated(cb, clock)'
  <2>1. cb' = [b EXCEPT !.counts = OnRequest(@)] /\ clock' = clock
    BY <1>2 DEF Admit
  <2> HIDE DEF b
  <2>2. /\ cb'.state = b.state /\ cb'.expiry = b.expiry /\ cb'.since = b.since
        /\ cb'.oldest = b.oldest /\ cb'.evidence = b.evidence
    BY <1>1, <2>1 DEF Sound, Breaker
  <2> QED BY <1>1, <2>1, <2>2 DEF Dated
<1>3. ASSUME NEW c \in Callers, Reject(c) PROVE Dated(cb, clock)'
  BY <1>1, <1>3 DEF Reject, Dated
<1>4. ASSUME NEW c \in Callers, NEW success \in BOOLEAN, Done(c, success)
      PROVE  Dated(cb, clock)'
  <2>1. /\ cb' = IF success THEN OnSuccess(b, clock) ELSE OnFailure(b, clock)
        /\ clock' = clock
    BY <1>4 DEF Done, Report
  <2> HIDE DEF b
  <2>2. Dated(cb', clock)
    BY <1>1, <2>1, ReportDated
  <2> QED BY <2>1, <2>2 DEF Dated
<1>5. CASE ReadState
  BY <1>1, <1>5 DEF ReadState, Dated
<1>6. CASE Tick
  <2>1. cb' = cb /\ clock' = clock + 1 /\ cb.expiry \in Int
    BY <1>1, <1>6 DEF Tick, Sound, Breaker, Time, NoTime
  <2> QED BY <1>1, <2>1, BreakerAssumption DEF Dated
<1>7. CASE UNCHANGED breakerVars
  BY <1>7 DEF breakerVars, Dated
<1> QED BY <1>2, <1>3, <1>4, <1>5, <1>6, <1>7 DEF Next

(***************************************************************************)
(* Lazily cleared counts never let an old failure weigh in: a closed       *)
(* breaker trips on outcomes that lie within one Interval, for every       *)
(* predicate and however rarely the breaker is asked.                      *)
(***************************************************************************)
THEOREM TripEvidenceIsRecentHolds == Spec => []TripEvidenceIsRecent
<1>1. Init => Dated(cb, clock)
  <2> SUFFICES ASSUME Init PROVE Dated(cb, clock)
    OBVIOUS
  <2>1. /\ cb.state = Closed /\ cb.oldest = NoTime /\ clock = 0
        /\ cb.expiry = Expiry(Closed, 0)
    BY DEF Init, NewBreaker, SetState
  <2> QED BY <2>1, BreakerAssumption DEF Dated, Expiry, Closed, Open, NoTime
<1>2. Dated(cb, clock) => TripEvidenceIsRecent
  BY DEF Dated, TripEvidenceIsRecent
<1> QED BY <1>1, <1>2, Invariance, StepDated, PTL DEF Spec
=============================================================================
