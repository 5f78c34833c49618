-------------------------- MODULE ClientCall_proofs ---------------------------
(***************************************************************************)
(* Proofs about ClientCall, for any number of goroutines, any clients,     *)
(* requests and outcomes, any MaxRetries and any burst of the budget.      *)
(***************************************************************************)
EXTENDS ClientCall, TLAPS

\* A call that holds a slot of the breaker, if there is a breaker.
Out(k) == k.pc \in {"admitted", "sending", "panicked"}

\* Before an attempt: at the head of the loop, or past its check.
Ahead == {"idle", "head", "ready", "admitted"}

\* The counter of the loop is one behind from a request to the next head.
Counts(k) ==
  /\ k.attempt <= Limit(k)
  /\ k.pc \in Ahead => k.sent = k.attempt
  /\ k.pc \in {"sending", "retrying", "sleeping", "panicked"} => k.sent = k.attempt + 1
  /\ k.pc \in {"retrying", "sleeping"} => k.attempt < Limit(k)
  /\ k.pc = "done" => k.sent \in {k.attempt, k.attempt + 1}

\* A token is spent between the answer that is to be retried and the sleep.
Pays(k) ==
  config.budget =>
    /\ k.pc \in Ahead \cup {"sleeping"} => k.sent = k.paid
    /\ k.pc \in {"sending", "retrying", "panicked"} => k.sent = k.paid + 1
    /\ k.pc = "done" =>
         \/ k.sent = k.paid + 1
         \/ k.sent = k.paid /\ k.result \in {"ctx", "breakerOpen", "unsendable"}

\* What ResultIsTruthful says of one call; and an accepted answer ends a call.
Truthful(k) ==
  /\ k.pc # "done" => (k.last \in {"2xx", "otherStatus"} => config.custom)
  /\ k.pc = "done" =>
       /\ k.result # "none"
       /\ k.result = "response" =>
            k.last \in IF k.req.entry = "Do" THEN {"2xx"} ELSE Answers
       /\ ~config.custom => Delivered(k)
       /\ k.result \in Failures => k.last = k.result
       /\ k.result = "ctx" => k.ctx # "live"
       /\ k.result = "unsendable" => k.sent = 0
       /\ k.result = "exhausted" => k.sent = Limit(k) + 1

\* A late request is the last one: its context had ended already.
Late(k) ==
  /\ k.late <= 1
  /\ k.ctx = "live" \/ k.pc \in {"ready", "admitted"} => k.late = 0

Sound(k) == Counts(k) /\ Pays(k) /\ Truthful(k) /\ Late(k)

\* The inductive invariant.
IInv ==
  /\ config \in Configs
  /\ call \in [Calls -> Call]
  /\ tokens \in 0 .. Burst
  /\ \A c \in Calls : Sound(call[c])
  /\ SlotsAreAttempts

-----------------------------------------------------------------------------
\* The retries of a call are 0 or MaxRetries.
LEMMA LimitBound ==
  ASSUME NEW k
  PROVE  Limit(k) \in Nat /\ Limit(k) <= MaxRetries
BY CallAssumption DEF Limit

\* A new call is sound.
LEMMA NewCallSound ==
  ASSUME NEW req \in Requests, NEW pc \in {"idle", "head"}
  PROVE  /\ NewCall(req) \in Call /\ Sound(NewCall(req))
         /\ NewCall(req).pc = "head"
         /\ [NewCall(req) EXCEPT !.pc = "idle"] \in Call
         /\ Sound([NewCall(req) EXCEPT !.pc = "idle"])
<1>1. req \in Request
  BY CallAssumption
<1>2. /\ NewCall(req) \in Call
      /\ [NewCall(req) EXCEPT !.pc = "idle"] \in Call
      /\ NewCall(req).pc = "head"
  BY <1>1 DEF NewCall, Call, Results
<1>3. Sound(NewCall(req))
  BY LimitBound DEF NewCall, Sound, Counts, Pays, Truthful, Late
<1>4. Sound([NewCall(req) EXCEPT !.pc = "idle"])
  BY LimitBound DEF NewCall, Sound, Counts, Pays, Truthful, Late
<1> QED BY <1>2, <1>3, <1>4

\* Init establishes the inductive invariant.
LEMMA InitIInv == Init => IInv
<1> SUFFICES ASSUME Init PROVE IInv
  OBVIOUS
<1>1. PICK req \in Requests :
        call = [c \in Calls |-> [NewCall(req) EXCEPT !.pc = "idle"]]
  BY DEF Init
<1>2. /\ [NewCall(req) EXCEPT !.pc = "idle"] \in Call
      /\ Sound([NewCall(req) EXCEPT !.pc = "idle"])
      /\ [NewCall(req) EXCEPT !.pc = "idle"].pc = "idle"
  <2>1. "pc" \in DOMAIN NewCall(req)
    BY DEF NewCall
  <2> QED BY NewCallSound, <2>1
<1>3. SlotsAreAttempts
  BY <1>1, <1>2 DEF SlotsAreAttempts, Init, Breaker!Init
<1> QED BY <1>1, <1>2, <1>3, CallAssumption DEF Init, IInv

(***************************************************************************)
(* A step of one call keeps the invariant if the call stays sound and its  *)
(* slot follows it.                                                        *)
(***************************************************************************)
LEMMA CallStep ==
  ASSUME IInv, NEW c \in Calls, NEW n \in Call, Sound(n),
         config' = config, tokens' \in 0 .. Burst,
         call' = [call EXCEPT ![c] = n],
         config.breaker => reserved' = IF Out(n) THEN reserved \cup {c}
                                                 ELSE reserved \ {c}
  PROVE  IInv'
<1>1. /\ call' \in [Calls -> Call] /\ call'[c] = n
      /\ \A d \in Calls \ {c} : call'[d] = call[d]
  BY DEF IInv
<1>2. ASSUME NEW d \in Calls PROVE Sound(call[d])'
  <2>1. Sound(call'[d])
    BY <1>1 DEF IInv
  <2> QED BY <2>1
          DEF Sound, Counts, Pays, Truthful, Late, Limit, RetryAllowedForMethod
<1>3. SlotsAreAttempts'
  BY <1>1 DEF IInv, SlotsAreAttempts, Out
<1> QED BY <1>1, <1>2, <1>3 DEF IInv

\* The slot of a call that has none, in a step that leaves the breaker alone.
LEMMA NoSlot ==
  ASSUME IInv, NEW c \in Calls, ~Out(call[c]), UNCHANGED breakerVars
  PROVE  config.breaker => reserved' = reserved \ {c}
BY DEF IInv, SlotsAreAttempts, Out, breakerVars

-----------------------------------------------------------------------------
\* A goroutine starts a call.
LEMMA StartIInv == ASSUME IInv, NEW c \in Calls, Start(c) PROVE IInv'
<1>1. PICK req \in Requests : call' = [call EXCEPT ![c] = NewCall(req)]
  BY DEF Start
<1>2. ~Out(call[c]) /\ config' = config /\ tokens' = tokens /\ UNCHANGED breakerVars
  BY DEF Start, Out
<1>3. NewCall(req) \in Call /\ Sound(NewCall(req)) /\ ~Out(NewCall(req))
  BY NewCallSound DEF Out
<1> QED BY <1>1, <1>2, <1>3, NoSlot, CallStep DEF IInv

\* A call ends before it sends anything (more): its fields are as they were.
LEMMA FinishSound ==
  ASSUME IInv, NEW k \in Call, Sound(k),
         k.pc \in {"head", "ready", "sleeping", "retrying"},
         NEW result \in {"ctx", "breakerOpen", "unsendable", "budget"},
         result = "ctx" => k.ctx # "live",
         result = "unsendable" => k.pc \in {"head", "ready"} /\ k.attempt = 0,
         result = "budget" => k.pc = "retrying",
         k.pc = "retrying" => result = "budget"
  PROVE  Finish(k, result) \in Call /\ Sound(Finish(k, result)) /\ ~Out(Finish(k, result))
<1> DEFINE n == Finish(k, result)
<1>1. /\ n.pc = "done" /\ n.result = result /\ n.req = k.req /\ n.ctx = k.ctx
      /\ n.attempt = k.attempt /\ n.sent = k.sent /\ n.paid = k.paid
      /\ n.last = k.last /\ n.late = k.late /\ n \in Call
  BY DEF Finish, Call, Results
<1>2. k.attempt \in Nat /\ k.sent \in Nat /\ k.paid \in Nat
  BY DEF Call
<1> HIDE DEF n
<1>3. Counts(n)
  BY <1>1, <1>2 DEF Sound, Counts, Limit, Ahead
<1>4. Pays(n)
  BY <1>1, <1>2 DEF Sound, Pays, Ahead
<1>5. Truthful(n)
  BY <1>1, <1>2 DEF Sound, Truthful, Counts, Delivered, Failures, CtxErrors, Ahead
<1>6. Late(n)
  BY <1>1 DEF Sound, Late
<1> QED BY <1>1, <1>3, <1>4, <1>5, <1>6 DEF n, Sound, Out

\* The request cannot be built, or the head of the loop finds the context ended.
LEMMA HeadEndsIInv ==
  ASSUME IInv, NEW c \in Calls, Refuse(c) \/ Abort(c) PROVE IInv'
<1>1. /\ config' = config /\ tokens' = tokens /\ UNCHANGED breakerVars
      /\ call[c].pc \in {"head", "ready"} /\ ~Out(call[c])
  BY DEF Refuse, Abort, Out
<1>2. PICK result \in {"ctx", "unsendable"} :
        /\ call' = [call EXCEPT ![c] = Finish(call[c], result)]
        /\ result = "ctx" => call[c].ctx # "live"
        /\ result = "unsendable" => call[c].attempt = 0
  BY DEF Refuse, Abort
<1>3. call[c] \in Call /\ Sound(call[c])
  BY DEF IInv
<1>4. /\ Finish(call[c], result) \in Call /\ Sound(Finish(call[c], result))
      /\ ~Out(Finish(call[c], result))
  BY <1>1, <1>2, <1>3, FinishSound
<1> QED BY <1>1, <1>2, <1>4, NoSlot, CallStep DEF IInv

\* The context ends a sleep.
LEMMA CancelSleepIInv == ASSUME IInv, NEW c \in Calls, CancelSleep(c) PROVE IInv'
<1>1. /\ config' = config /\ tokens' = tokens /\ UNCHANGED breakerVars
      /\ call[c].pc = "sleeping" /\ ~Out(call[c]) /\ call[c].ctx # "live"
      /\ call' = [call EXCEPT ![c] = Finish(call[c], "ctx")]
  BY DEF CancelSleep, Out
<1>2. call[c] \in Call /\ Sound(call[c])
  BY DEF IInv
<1>3. /\ Finish(call[c], "ctx") \in Call /\ Sound(Finish(call[c], "ctx"))
      /\ ~Out(Finish(call[c], "ctx"))
  BY <1>1, <1>2, FinishSound
<1> QED BY <1>1, <1>3, NoSlot, CallStep DEF IInv

\* The budget is empty.
LEMMA DeniedIInv == ASSUME IInv, NEW c \in Calls, Denied(c) PROVE IInv'
<1>1. /\ config' = config /\ tokens' = tokens /\ UNCHANGED breakerVars
      /\ call[c].pc = "retrying" /\ ~Out(call[c])
      /\ call' = [call EXCEPT ![c] = Finish(call[c], "budget")]
  BY DEF Denied, Out
<1>2. call[c] \in Call /\ Sound(call[c])
  BY DEF IInv
<1>3. /\ Finish(call[c], "budget") \in Call /\ Sound(Finish(call[c], "budget"))
      /\ ~Out(Finish(call[c], "budget"))
  BY <1>1, <1>2, FinishSound
<1> QED BY <1>1, <1>3, NoSlot, CallStep DEF IInv

\* The breaker turns the attempt away.
LEMMA ShedIInv == ASSUME IInv, NEW c \in Calls, Shed(c) PROVE IInv'
<1>1. /\ config' = config /\ tokens' = tokens /\ reserved' = reserved
      /\ call[c].pc = "ready" /\ ~Out(call[c])
      /\ call' = [call EXCEPT ![c] = Finish(call[c], "breakerOpen")]
  BY DEF Shed, Out, Breaker!Reject
<1>2. call[c] \in Call /\ Sound(call[c])
  BY DEF IInv
<1>3. /\ Finish(call[c], "breakerOpen") \in Call /\ Sound(Finish(call[c], "breakerOpen"))
      /\ ~Out(Finish(call[c], "breakerOpen"))
  BY <1>1, <1>2, FinishSound
<1>4. config.breaker => reserved' = reserved \ {c}
  BY <1>1 DEF IInv, SlotsAreAttempts, Out
<1> QED BY <1>1, <1>3, <1>4, CallStep DEF IInv

\* The head of the loop lets an attempt pass, and then the breaker does.
LEMMA AdmitIInv ==
  ASSUME IInv, NEW c \in Calls, Check(c) \/ Admit(c) PROVE IInv'
<1> DEFINE k == call[c]
<1>1. k \in Call /\ Sound(k)
  BY DEF IInv
<1>2. PICK pc \in {"ready", "admitted"} :
        /\ config' = config /\ tokens' = tokens
        /\ call' = [call EXCEPT ![c] = [k EXCEPT !.pc = pc]]
        /\ k.pc \in {"head", "ready"}
        /\ pc = "ready" => k.ctx = "live" /\ UNCHANGED breakerVars
        /\ pc = "admitted" => k.pc = "ready" /\ reserved' = reserved \cup {c}
  BY DEF Check, Admit, Breaker!Admit
<1> DEFINE n == [k EXCEPT !.pc = pc]
<1>3. /\ n.pc = pc /\ n.req = k.req /\ n.ctx = k.ctx /\ n.attempt = k.attempt
      /\ n.sent = k.sent /\ n.paid = k.paid /\ n.last = k.last
      /\ n.late = k.late /\ n \in Call
  BY <1>1, <1>2 DEF Call
<1>4. config.breaker => reserved' = IF Out(n) THEN reserved \cup {c}
                                             ELSE reserved \ {c}
  <2>1. CASE pc = "ready"
    <3>1. ~Out(k) /\ ~Out(n)
      BY <1>2, <1>3, <2>1 DEF Out
    <3> QED BY <1>2, <2>1, <3>1, NoSlot
  <2>2. CASE pc = "admitted"
    BY <1>2, <1>3, <2>2 DEF Out
  <2> QED BY <1>2, <2>1, <2>2
<1> HIDE DEF k, n
<1>5. Counts(n) /\ Pays(n)
  BY <1>1, <1>2, <1>3 DEF Sound, Counts, Pays, Limit, Ahead
<1>6. Truthful(n) /\ Late(n)
  BY <1>1, <1>2, <1>3 DEF Sound, Truthful, Late
<1> QED BY <1>2, <1>3, <1>4, <1>5, <1>6, CallStep DEF IInv, Sound, n

\* The request is handed to the transport.
LEMMA SendIInv == ASSUME IInv, NEW c \in Calls, Send(c) PROVE IInv'
<1> DEFINE k == call[c]
           late == IF k.ctx = "live" THEN 0 ELSE 1
           n == [k EXCEPT !.pc = "sending", !.sent = @ + 1, !.late = @ + late]
<1>1. k \in Call /\ Sound(k)
  BY DEF IInv
<1>2. /\ config' = config /\ tokens' = tokens
      /\ k.pc = IF config.breaker THEN "admitted" ELSE "ready"
      /\ call' = [call EXCEPT ![c] = n]
      /\ reserved' = reserved
  BY DEF Send, breakerVars
<1>3. config.breaker => reserved' = reserved \cup {c}
  BY <1>2 DEF IInv, SlotsAreAttempts
<1> HIDE DEF k
<1>4. /\ k.attempt \in Nat /\ k.sent \in Nat /\ k.paid \in Nat /\ k.late \in Nat
      /\ late \in {0, 1} /\ (k.ctx = "live" => late = 0)
  BY <1>1 DEF Call
<1> HIDE DEF late
<1>5. /\ n.pc = "sending" /\ n.req = k.req /\ n.ctx = k.ctx
      /\ n.attempt = k.attempt /\ n.sent = k.sent + 1 /\ n.paid = k.paid
      /\ n.last = k.last /\ n.late = k.late + late
  BY <1>1 DEF Call
<1>6. n \in Call
  <2>1. k.sent + 1 \in Nat /\ k.late + late \in Nat
    BY <1>4
  <2>2. ASSUME NEW s \in Nat, NEW l \in Nat
        PROVE  [k EXCEPT !.pc = "sending", !.sent = s, !.late = l] \in Call
    BY <1>1 DEF Call
  <2> QED BY <2>1, <2>2
<1> HIDE DEF n
<1>7. Counts(n)
  BY <1>1, <1>2, <1>4, <1>5 DEF Sound, Counts, Limit, Ahead
<1>8. Pays(n)
  BY <1>1, <1>2, <1>4, <1>5 DEF Sound, Pays, Ahead
<1>9. Truthful(n)
  BY <1>1, <1>2, <1>5 DEF Sound, Truthful
<1>10. Late(n)
  BY <1>1, <1>2, <1>4, <1>5 DEF Sound, Late
<1> QED BY <1>2, <1>3, <1>5, <1>6, <1>7, <1>8, <1>9, <1>10, CallStep
       DEF IInv, Sound, Out

\* The goroutine of an attempt unwinds and keeps its slot.
LEMMA PanicIInv == ASSUME IInv, NEW c \in Calls, Panic(c) PROVE IInv'
<1> DEFINE k == call[c]
           n == [k EXCEPT !.pc = "panicked"]
<1>1. k \in Call /\ Sound(k)
  BY DEF IInv
<1>2. /\ config' = config /\ tokens' = tokens /\ k.pc = "sending"
      /\ call' = [call EXCEPT ![c] = n]
      /\ reserved' = reserved
  BY DEF Panic, breakerVars
<1>3. /\ n.pc = "panicked" /\ n.req = k.req
      /\ n.attempt = k.attempt /\ n.sent = k.sent /\ n.paid = k.paid
      /\ n.last = k.last /\ n.late = k.late /\ n.ctx = k.ctx /\ n \in Call
  BY <1>1 DEF Call
<1>4. config.breaker => reserved' = reserved \cup {c}
  BY <1>2 DEF IInv, SlotsAreAttempts
<1> HIDE DEF n, k
<1>5. Sound(n)
  BY <1>1, <1>2, <1>3 DEF Sound, Counts, Pays, Truthful, Late, Limit, Ahead
<1> QED BY <1>2, <1>3, <1>4, <1>5, CallStep DEF IInv, Out

-----------------------------------------------------------------------------
(***************************************************************************)
(* What the attempt closure returns for an outcome and a verdict: an error *)
(* of the transport is the one that was met, a response is never an answer *)
(* the entry does not hand over, and the default policy lets a 2xx through. *)
(***************************************************************************)
LEMMA ReturnedFacts ==
  ASSUME NEW entry \in {"Do", "RoundTrip"}, NEW o \in Answers \cup Failures,
         NEW v \in Verdict, NEW r, r = Returned(entry, o, v)
  PROVE  /\ r.cause \in {"response", "http", "policy", "policyTemporary"} \cup Failures
         /\ r.cause = "response" <=> r = Response
         /\ r = Response => o \in IF entry = "Do" THEN {"2xx"} ELSE Answers
         /\ r.cause \in Failures => r.cause = o
         /\ o = "2xx" /\ ~v.retry /\ v.stop = "none" => r = Response
<1>1. v.retry \in BOOLEAN /\ v.stop \in {"none", "policy", "policyTemporary"}
  BY DEF Verdict
<1>2. CASE v.stop # "none"
  BY <1>1, <1>2 DEF Returned, Error, Response, Answers, Failures, CtxErrors
<1>3. CASE v.stop = "none" /\ o \in Failures
  BY <1>1, <1>3 DEF Returned, Error, Response, Answers, Failures, CtxErrors
<1>4. CASE v.stop = "none" /\ o \in Answers
  BY <1>1, <1>4 DEF Returned, Error, Response, Answers, Failures, CtxErrors
<1> QED BY <1>1, <1>2, <1>3, <1>4

\* A bad status that is not to be retried: its error through Do, else itself.
LEMMA PermanentStatus ==
  ASSUME NEW entry \in {"Do", "RoundTrip"}, NEW v \in Verdict,
         ~v.retry, v.stop = "none"
  PROVE  Returned(entry, "otherStatus", v) =
           IF entry = "Do" THEN Error(TRUE, "http") ELSE Response
BY DEF Returned, Answers, Failures, CtxErrors

\* What the loop makes of it: a result, or a retry that is within the limit.
LEMMA AfterAttemptFacts ==
  ASSUME NEW k \in Call, NEW r,
         r.cause \in {"response", "http", "policy", "policyTemporary"} \cup Failures,
         r.cause = "response" <=> r = Response,
         NEW n, n = AfterAttempt(k, r)
  PROVE  /\ n \in Call
         /\ n.req = k.req /\ n.ctx = k.ctx /\ n.attempt = k.attempt
         /\ n.sent = k.sent /\ n.paid = k.paid /\ n.last = k.last
         /\ n.late = k.late
         /\ \/ n.pc = "retrying" /\ r # Response /\ ~(k.attempt >= Limit(k))
            \/ /\ n.pc = "done"
               /\ n.result = "response" <=> r = Response
               /\ n.result \in {r.cause, "exhausted"}
               /\ n.result = "exhausted" => k.attempt >= Limit(k)
<1>1. /\ [k EXCEPT !.pc = "retrying"] \in Call
      /\ r.cause \in Results
      /\ \A result \in Results : Finish(k, result) \in Call
  BY DEF Call, Finish, Results
<1>2. /\ {"response", "exhausted", "http"} \subseteq Results
      /\ "exhausted" \notin {r.cause, "response"}
  BY DEF Results, Failures, CtxErrors
<1>3. Exhausted(r) \in {r.cause, "exhausted"}
  BY DEF Exhausted
<1>4. \A result \in Results :
        LET f == Finish(k, result)
        IN  /\ f.pc = "done" /\ f.result = result /\ f.req = k.req /\ f.ctx = k.ctx
            /\ f.attempt = k.attempt /\ f.sent = k.sent /\ f.paid = k.paid
            /\ f.last = k.last /\ f.late = k.late
  BY DEF Finish, Call
<1>5. CASE r = Response
  BY <1>1, <1>2, <1>4, <1>5 DEF AfterAttempt
<1>6. CASE r # Response /\ ~Retryable(r)
  BY <1>1, <1>2, <1>4, <1>6 DEF AfterAttempt
<1>7. CASE r # Response /\ Retryable(r) /\ k.attempt >= Limit(k)
  BY <1>1, <1>2, <1>3, <1>4, <1>7 DEF AfterAttempt
<1>8. CASE r # Response /\ Retryable(r) /\ ~(k.attempt >= Limit(k))
  <2>1. n = [k EXCEPT !.pc = "retrying"]
    BY <1>8 DEF AfterAttempt
  <2> QED BY <1>1, <1>8, <2>1 DEF Call
<1> QED BY <1>5, <1>6, <1>7, <1>8

\* A bad status that is not to be retried ends the call with its error.
LEMMA PermanentEnds ==
  ASSUME NEW k \in Call, NEW r, r = Error(TRUE, "http")
  PROVE  AfterAttempt(k, r).pc = "done" /\ AfterAttempt(k, r).result = "http"
<1>1. r # Response /\ ~Retryable(r) /\ r.cause = "http"
  BY DEF Error, Response, Retryable
<1>2. AfterAttempt(k, r) = Finish(k, "http")
  BY <1>1 DEF AfterAttempt
<1> QED BY <1>2 DEF Finish, Call

\* A verdict of the policy in use; the default one retries no accepted answer.
LEMMA VerdictFacts ==
  ASSUME NEW ctx, NEW o, NEW v \in Verdicts(ctx, o)
  PROVE  /\ v \in Verdict
         /\ ~config.custom => v.stop = "none"
         /\ ~config.custom => (v.retry => o \in {"retryStatus", "transport", "timeout"})
<1>1. CASE config.custom
  BY <1>1 DEF Verdicts
<1>2. CASE ~config.custom
  <2> DEFINE b == ctx = "live" /\ o \in {"retryStatus", "transport", "timeout"}
  <2>1. v = [retry |-> b, stop |-> "none"]
    BY <1>2 DEF Verdicts, DefaultCheckRetry
  <2>2. b \in BOOLEAN
    OBVIOUS
  <2>3. b => o \in {"retryStatus", "transport", "timeout"}
    OBVIOUS
  <2> HIDE DEF b
  <2>4. v \in Verdict /\ v.stop = "none" /\ v.retry = b
    BY <2>1, <2>2 DEF Verdict
  <2> QED BY <2>3, <2>4
<1> QED BY <1>1, <1>2

\* The transport returns.
LEMMA ReceiveIInv ==
  ASSUME IInv, NEW c \in Calls, NEW o \in CanMeet(call[c].ctx),
         NEW v \in Verdicts(call[c].ctx, o), Receive(c, o, v)
  PROVE  IInv'
<1> DEFINE k == call[c]
           m == [k EXCEPT !.last = o]
           r == Returned(k.req.entry, o, v)
           n == AfterAttempt(m, r)
<1>1. /\ k \in Call /\ Sound(k) /\ v \in Verdict /\ o \in Answers \cup Failures
      /\ ~config.custom /\ o \in {"2xx", "otherStatus"} => ~v.retry /\ v.stop = "none"
  BY VerdictFacts, CallAssumption DEF IInv, CanMeet
<1>2. /\ config' = config /\ tokens' = tokens /\ k.pc = "sending"
      /\ config.breaker => reserved' = reserved \ {c}
  BY DEF Receive, TellBreaker, Breaker!Done
<1>3. m \in Call
  BY <1>1 DEF Call
<1>4. /\ m.req = k.req /\ m.ctx = k.ctx /\ m.attempt = k.attempt
      /\ m.sent = k.sent /\ m.paid = k.paid /\ m.last = o /\ m.late = k.late
  BY <1>1 DEF Call
<1>5. call' = [call EXCEPT ![c] = n]
  BY <1>4 DEF Receive
<1> HIDE DEF k, m, n, r
<1>6. /\ r.cause \in {"response", "http", "policy", "policyTemporary"} \cup Failures
      /\ r.cause = "response" <=> r = Response
      /\ r = Response => o \in IF k.req.entry = "Do" THEN {"2xx"} ELSE Answers
      /\ r.cause \in Failures => r.cause = o
      /\ o = "2xx" /\ ~v.retry /\ v.stop = "none" => r = Response
  <2>1. k.req.entry \in {"Do", "RoundTrip"}
    BY <1>1 DEF Call, Request
  <2> QED BY <1>1, <2>1, ReturnedFacts DEF r
<1>7. o = "otherStatus" /\ ~v.retry /\ v.stop = "none" =>
         IF k.req.entry = "Do" THEN r = Error(TRUE, "http") ELSE r = Response
  <2>1. k.req.entry \in {"Do", "RoundTrip"}
    BY <1>1 DEF Call, Request
  <2> QED BY <1>1, <2>1, PermanentStatus DEF r
<1>8. /\ n \in Call
      /\ n.req = m.req /\ n.ctx = m.ctx /\ n.attempt = m.attempt
      /\ n.sent = m.sent /\ n.paid = m.paid /\ n.last = m.last
      /\ n.late = m.late
      /\ \/ n.pc = "retrying" /\ r # Response /\ ~(m.attempt >= Limit(m))
         \/ /\ n.pc = "done"
            /\ n.result = "response" <=> r = Response
            /\ n.result \in {r.cause, "exhausted"}
            /\ n.result = "exhausted" => m.attempt >= Limit(m)
  BY <1>3, <1>6, AfterAttemptFacts DEF n
<1>9. r = Error(TRUE, "http") => n.pc = "done" /\ n.result = "http"
  BY <1>3, PermanentEnds DEF n
<1>10. /\ k.attempt \in Nat /\ k.sent = k.attempt + 1 /\ k.attempt <= Limit(k)
      /\ Limit(m) = Limit(k) /\ Limit(n) = Limit(k) /\ Limit(k) \in Nat
  BY <1>1, <1>2, <1>4, <1>8, LimitBound DEF Call, Sound, Counts, Limit
<1>11. Counts(n)
  BY <1>4, <1>8, <1>10 DEF Counts, Ahead
<1>12. Pays(n)
  BY <1>1, <1>2, <1>4, <1>8 DEF Sound, Pays, Ahead
<1>13. ~config.custom =>
         /\ o = "2xx" => n.pc = "done" /\ n.result = "response"
         /\ o = "otherStatus" =>
              /\ n.pc = "done"
              /\ n.result = IF n.req.entry = "Do" THEN "http" ELSE "response"
  BY <1>1, <1>4, <1>6, <1>8, <1>9, <1>7
<1>14. Truthful(n)
  <2>1. CASE n.pc = "retrying"
    BY <1>4, <1>8, <1>13, <2>1 DEF Truthful
  <2>2. CASE n.pc = "done"
    <3>1. n.result \notin {"none", "ctx", "unsendable"}
      BY <1>6, <1>8, <2>2 DEF Failures, CtxErrors
    <3>2. n.result \in Failures => n.last = n.result
      BY <1>4, <1>6, <1>8, <2>2 DEF Failures, CtxErrors
    <3>3. n.result = "exhausted" => n.sent = Limit(n) + 1
      BY <1>4, <1>8, <1>10, <2>2
    <3>4. ~config.custom => Delivered(n)
      BY <1>4, <1>8, <1>13, <2>2 DEF Delivered
    <3>5. n.result = "response" =>
            n.last \in IF n.req.entry = "Do" THEN {"2xx"} ELSE Answers
      BY <1>4, <1>6, <1>8, <2>2
    <3> QED BY <2>2, <3>1, <3>2, <3>3, <3>4, <3>5 DEF Truthful
  <2> QED BY <1>8, <2>1, <2>2
<1>15. Late(n)
  BY <1>1, <1>4, <1>8 DEF Sound, Late
<1>16. Sound(n)
  BY <1>11, <1>12, <1>14, <1>15 DEF Sound
<1> QED BY <1>2, <1>5, <1>8, <1>16, CallStep DEF IInv, Out

\* Another attempt is due once the retry is paid for, now or after a sleep.
LEMMA NextAttemptSound ==
  ASSUME NEW k \in Call, Counts(k), Truthful(k), Late(k), k.pc = "retrying",
         config.budget => k.paid = k.sent, NEW n \in NextAttempt(k)
  PROVE  n \in Call /\ Sound(n) /\ ~Out(n)
<1>1. /\ k.attempt \in Nat /\ k.attempt + 1 \in Nat /\ k.sent = k.attempt + 1
      /\ k.attempt < Limit(k)
  BY DEF Call, Counts
<1>2. /\ n \in Call
      /\ n.req = k.req /\ n.sent = k.sent /\ n.paid = k.paid /\ n.last = k.last
      /\ n.late = k.late /\ n.ctx = k.ctx
      /\ \/ n.pc = "head" /\ n.attempt = k.attempt + 1
         \/ n.pc = "sleeping" /\ n.attempt = k.attempt
  <2>1. CASE n = [k EXCEPT !.pc = "sleeping"]
    BY <2>1 DEF Call
  <2>2. CASE n = [k EXCEPT !.pc = "head", !.attempt = k.attempt + 1]
    <3>1. \A a \in Nat : [k EXCEPT !.pc = "head", !.attempt = a] \in Call
      BY DEF Call
    <3>2. n \in Call
      BY <1>1, <2>2, <3>1
    <3>3. /\ n.req = k.req /\ n.sent = k.sent /\ n.paid = k.paid /\ n.last = k.last
          /\ n.late = k.late /\ n.ctx = k.ctx
          /\ n.pc = "head" /\ n.attempt = k.attempt + 1
      BY <2>2 DEF Call
    <3> QED BY <3>2, <3>3
  <2> QED BY <2>1, <2>2 DEF NextAttempt
<1>3. Limit(n) = Limit(k) /\ Limit(k) \in Nat
  BY <1>2, LimitBound DEF Limit
<1>4. Counts(n)
  BY <1>1, <1>2, <1>3 DEF Counts, Ahead
<1>5. Pays(n)
  BY <1>2 DEF Pays, Ahead
<1>6. Truthful(n) /\ Late(n)
  BY <1>2 DEF Truthful, Late
<1> QED BY <1>2, <1>4, <1>5, <1>6 DEF Sound, Out

\* A retry, paid for if there is a budget.
LEMMA RetryIInv == ASSUME IInv, NEW c \in Calls, Retry(c) PROVE IInv'
<1> DEFINE k == call[c]
           m == [k EXCEPT !.paid = IF config.budget THEN @ + 1 ELSE @]
<1>1. /\ k \in Call /\ Counts(k) /\ Pays(k) /\ Truthful(k) /\ Late(k)
      /\ k.paid \in Nat /\ k.paid + 1 \in Nat
  BY DEF IInv, Sound, Call
<1>2. /\ config' = config /\ k.pc = "retrying" /\ UNCHANGED breakerVars
      /\ config.budget => tokens > 0
      /\ tokens' = IF config.budget THEN tokens - 1 ELSE tokens
  BY DEF Retry
<1>3. PICK n \in NextAttempt(m) : call' = [call EXCEPT ![c] = n]
  BY DEF Retry
<1>4. ~Out(k)
  BY <1>2 DEF Out
<1>5. tokens' \in 0 .. Burst
  BY <1>2, CallAssumption DEF IInv
<1>6. config.breaker => reserved' = reserved \ {c}
  BY <1>2, <1>4, NoSlot
<1>7. m \in Call
  <2>1. \A p \in Nat : [k EXCEPT !.paid = p] \in Call
    BY <1>1 DEF Call
  <2> QED BY <1>1, <2>1
<1>8. /\ m.pc = "retrying" /\ m.req = k.req /\ m.attempt = k.attempt
      /\ m.sent = k.sent /\ m.last = k.last /\ m.late = k.late /\ m.ctx = k.ctx
      /\ m.paid = IF config.budget THEN k.paid + 1 ELSE k.paid
  BY <1>1, <1>2 DEF Call
<1> HIDE DEF k, m
<1>9. Counts(m) /\ Truthful(m) /\ Late(m)
  BY <1>1, <1>2, <1>8 DEF Counts, Truthful, Late, Limit, Ahead
<1>10. config.budget => m.paid = m.sent
  BY <1>1, <1>2, <1>8 DEF Pays
<1>11. n \in Call /\ Sound(n) /\ ~Out(n)
  BY <1>3, <1>7, <1>8, <1>9, <1>10, NextAttemptSound
<1> QED BY <1>2, <1>3, <1>5, <1>6, <1>11, CallStep

\* The timer of a sleep fires.
LEMMA WakeIInv == ASSUME IInv, NEW c \in Calls, Wake(c) PROVE IInv'
<1> DEFINE k == call[c]
           n == [k EXCEPT !.pc = "head", !.attempt = @ + 1]
<1>1. k \in Call /\ Sound(k) /\ k.attempt \in Nat /\ k.attempt + 1 \in Nat
  BY DEF IInv, Call
<1>2. /\ config' = config /\ tokens' = tokens /\ k.pc = "sleeping"
      /\ UNCHANGED breakerVars
      /\ call' = [call EXCEPT ![c] = n]
  BY DEF Wake
<1>3. config.breaker => reserved' = reserved \ {c}
  BY <1>2, NoSlot DEF Out
<1>4. n \in Call
  <2>1. \A a \in Nat : [k EXCEPT !.pc = "head", !.attempt = a] \in Call
    BY <1>1 DEF Call
  <2> QED BY <1>1, <2>1
<1>5. /\ n.pc = "head" /\ n.req = k.req /\ n.attempt = k.attempt + 1
      /\ n.sent = k.sent /\ n.paid = k.paid /\ n.last = k.last
      /\ n.late = k.late /\ n.ctx = k.ctx
  BY <1>1 DEF Call
<1> HIDE DEF k, n
<1>6. Limit(n) = Limit(k) /\ Limit(k) \in Nat
  BY <1>5, LimitBound DEF Limit
<1>7. Counts(n)
  BY <1>1, <1>2, <1>5, <1>6 DEF Sound, Counts, Ahead
<1>8. Pays(n) /\ Truthful(n) /\ Late(n)
  BY <1>1, <1>2, <1>5 DEF Sound, Pays, Truthful, Late, Ahead
<1> QED BY <1>2, <1>3, <1>4, <1>5, <1>7, <1>8, CallStep DEF IInv, Sound, Out

\* The context of a call that has not returned ends.
LEMMA CtxEndsIInv == ASSUME IInv, NEW c \in Calls, CtxEnds(c) PROVE IInv'
<1> DEFINE k == call[c]
<1>1. k \in Call /\ Sound(k)
  BY DEF IInv
<1>2. /\ config' = config /\ tokens' = tokens /\ k.pc # "done" /\ k.ctx = "live"
      /\ UNCHANGED breakerVars
  BY DEF CtxEnds, Running
<1>3. PICK why \in CtxErrors : call' = [call EXCEPT ![c] = [k EXCEPT !.ctx = why]]
  BY DEF CtxEnds
<1> DEFINE n == [k EXCEPT !.ctx = why]
<1>4. n \in Call
  BY <1>1 DEF Call
<1>5. /\ n.pc = k.pc /\ n.req = k.req /\ n.attempt = k.attempt
      /\ n.sent = k.sent /\ n.paid = k.paid /\ n.last = k.last /\ n.late = k.late
  BY <1>1 DEF Call
<1>6. config.breaker => reserved' = IF Out(n) THEN reserved \cup {c}
                                             ELSE reserved \ {c}
  BY <1>2, <1>5 DEF IInv, SlotsAreAttempts, Out, breakerVars
<1> HIDE DEF k, n
<1>7. Sound(n)
  BY <1>1, <1>2, <1>5 DEF Sound, Counts, Pays, Truthful, Late, Limit, Ahead
<1> QED BY <1>2, <1>3, <1>4, <1>6, <1>7, CallStep DEF IInv, n

\* The bucket refills, time passes, or nothing happens.
LEMMA OthersIInv ==
  ASSUME IInv, Refill \/ Tick \/ UNCHANGED vars PROVE IInv'
<1>1. /\ config' = config /\ call' = call /\ reserved' = reserved
      /\ tokens' \in 0 .. Burst
  BY CallAssumption DEF Refill, Tick, Breaker!Tick, vars, breakerVars, IInv
<1>2. ASSUME NEW c \in Calls PROVE Sound(call[c])'
  <2>1. Sound(call[c])
    BY DEF IInv
  <2> QED BY <1>1, <2>1
          DEF Sound, Counts, Pays, Truthful, Late, Limit, RetryAllowedForMethod
<1>3. SlotsAreAttempts'
  BY <1>1 DEF IInv, SlotsAreAttempts
<1> QED BY <1>1, <1>2, <1>3 DEF IInv

\* Every step preserves the inductive invariant.
LEMMA StepIInv == IInv /\ [Next]_vars => IInv'
<1> SUFFICES ASSUME IInv, [Next]_vars PROVE IInv'
  OBVIOUS
<1>1. CASE Refill \/ Tick \/ UNCHANGED vars
  BY <1>1, OthersIInv
<1>2. ASSUME NEW c \in Calls, Return(c) PROVE IInv'
  BY <1>2, ReceiveIInv DEF Return
<1>3. ASSUME NEW c \in Calls,
             \/ Start(c) \/ Refuse(c) \/ Abort(c) \/ Check(c) \/ Admit(c)
             \/ Shed(c) \/ Send(c) \/ Panic(c) \/ Retry(c) \/ Denied(c)
             \/ Wake(c) \/ CancelSleep(c) \/ CtxEnds(c)
      PROVE  IInv'
  BY <1>3, StartIInv, HeadEndsIInv, AdmitIInv, SendIInv, ShedIInv, PanicIInv, RetryIInv,
     DeniedIInv, WakeIInv, CancelSleepIInv, CtxEndsIInv
<1> QED BY <1>1, <1>2, <1>3 DEF Next

-----------------------------------------------------------------------------
\* The invariant holds in every reachable state.
LEMMA Invariance == Spec => []IInv
BY InitIInv, StepIInv, PTL DEF Spec

(***************************************************************************)
(* No hook, carrier, budget or breaker makes a call send more than         *)
(* 1 + MaxRetries requests, nor a strict client send an unsafe one twice.  *)
(***************************************************************************)
THEOREM SendBoundHolds == Spec => []SendBound
<1>1. IInv => SendBound
  <2> SUFFICES ASSUME IInv, NEW c \in Calls
               PROVE  /\ call[c].sent <= 1 + MaxRetries
                      /\ config.strict /\ ~config.allowNonIdempotent
                           /\ ~call[c].req.retrySafe => call[c].sent <= 1
    BY DEF SendBound
  <2>1. /\ call[c].attempt \in Nat /\ call[c].sent \in Nat
        /\ call[c].attempt <= Limit(call[c]) /\ Counts(call[c])
        /\ call[c].pc \in Ahead \cup {"sending", "retrying", "sleeping",
                                      "done", "panicked"}
    BY DEF IInv, Call, Sound, Counts, Ahead
  <2>2. call[c].sent <= 1 + Limit(call[c])
    BY <2>1, LimitBound DEF Counts
  <2>3. config.strict /\ ~config.allowNonIdempotent /\ ~call[c].req.retrySafe =>
          Limit(call[c]) = 0
    BY DEF Limit, RetryAllowedForMethod
  <2> QED BY <2>1, <2>2, <2>3, LimitBound, CallAssumption
<1> QED BY <1>1, Invariance, PTL

(***************************************************************************)
(* Whatever races for the tokens, a client with a budget sends no request  *)
(* after the first of a call that was not paid for.                        *)
(***************************************************************************)
THEOREM RetriesArePaidForHolds == Spec => []RetriesArePaidFor
<1>1. IInv => RetriesArePaidFor
  <2> SUFFICES ASSUME IInv, config.budget, NEW c \in Calls
               PROVE  /\ call[c].sent <= call[c].paid + 1
                      /\ call[c].paid <= call[c].sent
                      /\ call[c].pc = "done" /\ call[c].result \notin
                           {"ctx", "breakerOpen", "unsendable"} =>
                             call[c].sent = call[c].paid + 1
    BY DEF RetriesArePaidFor
  <2>1. /\ call[c].paid \in Nat /\ call[c].sent \in Nat /\ Pays(call[c])
        /\ call[c].pc \in Ahead \cup {"sending", "retrying", "sleeping",
                                      "done", "panicked"}
    BY DEF IInv, Call, Sound, Ahead
  <2> QED BY <2>1 DEF Pays
<1> QED BY <1>1, Invariance, PTL

(***************************************************************************)
(* A slot of the breaker is held by an attempt in flight, or was leaked by *)
(* one that panicked, and by nobody else.                                  *)
(***************************************************************************)
THEOREM SlotsAreAttemptsHolds == Spec => []SlotsAreAttempts
<1>1. IInv => SlotsAreAttempts
  BY DEF IInv
<1> QED BY <1>1, Invariance, PTL

(***************************************************************************)
(* Whatever the hook, the carriers and the machinery around the transport  *)
(* do, what a call returns is what happened to it.                         *)
(***************************************************************************)
THEOREM ResultIsTruthfulHolds == Spec => []ResultIsTruthful
<1>1. IInv => ResultIsTruthful
  BY DEF IInv, Sound, Truthful, ResultIsTruthful
<1> QED BY <1>1, Invariance, PTL

-----------------------------------------------------------------------------
(***************************************************************************)
(* Of a call whose context has ended at most one request still goes out,   *)
(* however the end races with the head of the loop, the breaker, the timer *)
(* of a sleep and the budget, and whatever the carriers call transient.    *)
(***************************************************************************)
THEOREM AtMostOneLateRequestHolds == Spec => []AtMostOneLateRequest
<1>1. IInv => AtMostOneLateRequest
  BY DEF IInv, Sound, Late, AtMostOneLateRequest
<1> QED BY <1>1, Invariance, PTL

-----------------------------------------------------------------------------
(***************************************************************************)
(* The client uses the breaker as it is meant to be used: whatever it does *)
(* is a behaviour of a breaker whose callers are the calls, so that what   *)
(* CircuitBreaker_proofs proves of the breaker holds inside the client.    *)
(***************************************************************************)
THEOREM UsesTheBreaker == Spec => Breaker!Spec
<1>1. Init => Breaker!Init
  BY DEF Init
<1>2. [Next]_vars => [Breaker!Next]_(Breaker!breakerVars)
  <2> SUFFICES ASSUME [Next]_vars
               PROVE  Breaker!Next \/ UNCHANGED breakerVars
    BY DEF breakerVars, Breaker!breakerVars
  <2>1. ASSUME NEW c \in Calls, Admit(c)
        PROVE  Breaker!Next \/ UNCHANGED breakerVars
    BY <2>1 DEF Admit, Breaker!Next
  <2>2. ASSUME NEW c \in Calls, Shed(c)
        PROVE  Breaker!Next \/ UNCHANGED breakerVars
    BY <2>2 DEF Shed, Breaker!Next
  <2>3. ASSUME NEW c \in Calls, Return(c)
        PROVE  Breaker!Next \/ UNCHANGED breakerVars
    <3>1. PICK o, v : TellBreaker(c, o, v)
      BY <2>3 DEF Return, Receive
    <3>2. CountsAsSuccess(o, v) \in BOOLEAN
      BY DEF CountsAsSuccess
    <3> QED BY <3>1, <3>2 DEF TellBreaker, Breaker!Next
  <2>4. ASSUME NEW c \in Calls,
               \/ Start(c) \/ Refuse(c) \/ Abort(c) \/ Check(c) \/ Send(c)
               \/ Panic(c) \/ Retry(c) \/ Denied(c) \/ Wake(c)
               \/ CancelSleep(c) \/ CtxEnds(c)
        PROVE  UNCHANGED breakerVars
    BY <2>4 DEF Start, Refuse, Abort, Check, Send, Panic, Retry, Denied, Wake,
                CancelSleep, CtxEnds
  <2>5. CASE Refill \/ Tick \/ UNCHANGED vars
    BY <2>5 DEF Refill, Tick, Breaker!Next, vars, breakerVars
  <2> QED BY <2>1, <2>2, <2>3, <2>4, <2>5 DEF Next
<1> QED BY <1>1, <1>2, PTL DEF Spec, Breaker!Spec

-----------------------------------------------------------------------------
\* The same breaker, with the theorems proved about it.
BreakerProofs == INSTANCE CircuitBreaker_proofs WITH Callers <- Calls

\* The two instances have the same definitions.
LEMMA SameBreaker ==
  /\ Breaker!Init => BreakerProofs!Init
  /\ [Breaker!Next]_(Breaker!breakerVars) =>
       [BreakerProofs!Next]_(BreakerProofs!breakerVars)
BY DEF Breaker!Init, BreakerProofs!Init, Breaker!Next, BreakerProofs!Next,
       Breaker!breakerVars, BreakerProofs!breakerVars, Breaker!Admit,
       BreakerProofs!Admit, Breaker!Reject, BreakerProofs!Reject,
       Breaker!Done, BreakerProofs!Done, Breaker!ReadState,
       BreakerProofs!ReadState, Breaker!Tick, BreakerProofs!Tick,
       Breaker!Evaluate, BreakerProofs!Evaluate, Breaker!Sheds,
       BreakerProofs!Sheds, Breaker!OnRequest, BreakerProofs!OnRequest,
       Breaker!Report, BreakerProofs!Report, Breaker!OnSuccess,
       BreakerProofs!OnSuccess, Breaker!OnFailure, BreakerProofs!OnFailure,
       Breaker!SetState, BreakerProofs!SetState, Breaker!Expiry,
       BreakerProofs!Expiry, Breaker!Expired, BreakerProofs!Expired,
       Breaker!Aged, BreakerProofs!Aged, Breaker!CountSuccess,
       BreakerProofs!CountSuccess, Breaker!CountFailure,
       BreakerProofs!CountFailure, Breaker!Inc, BreakerProofs!Inc,
       Breaker!NewBreaker, BreakerProofs!NewBreaker, Breaker!NoCounts,
       BreakerProofs!NoCounts, Breaker!NoTime, BreakerProofs!NoTime,
       Breaker!Open, BreakerProofs!Open, Breaker!Closed,
       BreakerProofs!Closed, Breaker!HalfOpen, BreakerProofs!HalfOpen,
       Breaker!maxRequests, BreakerProofs!maxRequests

\* So have the promises of the breaker.
LEMMA SamePromises ==
  /\ BreakerProofs!NeverWedged => Breaker!NeverWedged
  /\ BreakerProofs!TrialBudget => Breaker!TrialBudget
  /\ BreakerProofs!OpenPeriodEnds => Breaker!OpenPeriodEnds
<1>1. BreakerProofs!NeverWedged => Breaker!NeverWedged
  BY DEF Breaker!NeverWedged, BreakerProofs!NeverWedged,
         Breaker!HalfOpen, BreakerProofs!HalfOpen,
         Breaker!maxRequests, BreakerProofs!maxRequests
<1>2. BreakerProofs!TrialBudget => Breaker!TrialBudget
  BY DEF Breaker!TrialBudget, BreakerProofs!TrialBudget,
         Breaker!maxRequests, BreakerProofs!maxRequests,
         Breaker!Cardinality, BreakerProofs!Cardinality,
         Breaker!IsFiniteSet, BreakerProofs!IsFiniteSet
<1>3. BreakerProofs!OpenPeriodEnds => Breaker!OpenPeriodEnds
  BY DEF Breaker!OpenPeriodEnds, BreakerProofs!OpenPeriodEnds,
         Breaker!Sheds, BreakerProofs!Sheds, Breaker!Evaluate, BreakerProofs!Evaluate,
         Breaker!SetState, BreakerProofs!SetState, Breaker!Expired, BreakerProofs!Expired,
         Breaker!Expiry, BreakerProofs!Expiry, Breaker!NoTime, BreakerProofs!NoTime,
         Breaker!NoCounts, BreakerProofs!NoCounts,
         Breaker!maxRequests, BreakerProofs!maxRequests, Breaker!Open, BreakerProofs!Open,
         Breaker!Closed, BreakerProofs!Closed, Breaker!HalfOpen, BreakerProofs!HalfOpen
<1> QED BY <1>1, <1>2, <1>3

\* The client is a behaviour of the breaker the theorems are about.
LEMMA UsesTheSameBreaker == Spec => BreakerProofs!Spec
BY UsesTheBreaker, SameBreaker, PTL
   DEF Breaker!Spec, BreakerProofs!Spec

(***************************************************************************)
(* Inside a client, whatever its calls meet, the breaker keeps what its    *)
(* own theorems promise: its trials are within the budget, a half-open     *)
(* period has a trial out or room for one, and an open period ends on      *)
(* time.  (A trial that panicked counts as one that is out.)               *)
(***************************************************************************)
THEOREM BreakerKeepsItsPromises ==
  ASSUME BreakerProofs!BreakerAssumption
  PROVE  Spec => [](Breaker!NeverWedged /\ Breaker!TrialBudget /\ Breaker!OpenPeriodEnds)
<1>1. BreakerProofs!Spec => []BreakerProofs!NeverWedged
  BY BreakerProofs!NeverWedgedHolds, PTL
<1>2. BreakerProofs!Spec => []BreakerProofs!TrialBudget
  BY BreakerProofs!TrialBudgetHolds, PTL
<1>3. BreakerProofs!Spec => []BreakerProofs!OpenPeriodEnds
  BY BreakerProofs!OpenPeriodEndsHolds, PTL
<1> QED BY <1>1, <1>2, <1>3, UsesTheSameBreaker, SamePromises, PTL

\* The breaker inside keeps its types.
LEMMA BreakerTypes ==
  ASSUME BreakerProofs!BreakerAssumption
  PROVE  Spec => []Breaker!TypeOK
<1>1. BreakerProofs!Spec => []BreakerProofs!IInv
  BY BreakerProofs!Invariance, PTL
<1>2. BreakerProofs!IInv => Breaker!TypeOK
  BY DEF BreakerProofs!IInv, BreakerProofs!TypeOK, Breaker!TypeOK,
         BreakerProofs!Breaker, Breaker!Breaker,
         BreakerProofs!Counts, Breaker!Counts, BreakerProofs!Count, Breaker!Count,
         BreakerProofs!Time, Breaker!Time, BreakerProofs!NoTime, Breaker!NoTime,
         BreakerProofs!Open, Breaker!Open, BreakerProofs!Closed, Breaker!Closed,
         BreakerProofs!HalfOpen, Breaker!HalfOpen
<1> QED BY <1>1, <1>2, UsesTheSameBreaker, PTL

\* The variables keep their types, and the budget stays within its burst.
THEOREM TypesHold ==
  ASSUME BreakerProofs!BreakerAssumption
  PROVE  Spec => []TypeOK
<1>1. IInv /\ Breaker!TypeOK => TypeOK
  BY DEF IInv, TypeOK
<1> QED BY <1>1, Invariance, BreakerTypes, PTL

\* Looking at the clock never opens a breaker, nor does a success.
LEMMA NeitherOpens ==
  ASSUME NEW b \in Breaker!Breaker, b.state # "open", NEW now
  PROVE  /\ Breaker!Evaluate(b, now).state # "open"
         /\ Breaker!Report(b, TRUE, now).state # "open"
         /\ [Breaker!Evaluate(b, now) EXCEPT !.counts = Breaker!OnRequest(@)].state # "open"
<1> DEFINE e == Breaker!Evaluate(b, now)
           f == [Breaker!Aged(e, now) EXCEPT !.counts = Breaker!CountSuccess(@)]
<1>1. e.state # "open" /\ "state" \in DOMAIN e
  BY DEF Breaker!Evaluate, Breaker!SetState, Breaker!Breaker,
         Breaker!Open, Breaker!Closed, Breaker!HalfOpen
<1> HIDE DEF e
<1>2. f.state # "open"
  BY <1>1 DEF Breaker!Aged
<1>3. Breaker!Report(b, TRUE, now) = Breaker!OnSuccess(e, now)
  BY DEF Breaker!Report, e
<1> HIDE DEF f
<1>4. Breaker!OnSuccess(e, now).state # "open"
  BY <1>2 DEF Breaker!OnSuccess, Breaker!SetState, Breaker!Open, Breaker!Closed,
              Breaker!HalfOpen, f
<1>5. [e EXCEPT !.counts = Breaker!OnRequest(@)].state # "open"
  BY <1>1
<1> QED BY <1>1, <1>3, <1>4, <1>5 DEF e

\* A step that opens the breaker is the return of an attempt that failed.
LEMMA OpeningIsAFailure ==
  ASSUME IInv, cb \in Breaker!Breaker, Next, cb.state # "open", cb'.state = "open"
  PROVE  \E c \in reserved \ reserved' :
           /\ call'[c].last # "2xx"
           /\ call'[c].last = "otherStatus" => config.custom
<1>1. ASSUME cb' = cb PROVE FALSE
  BY <1>1
<1>2. ASSUME NEW c \in Calls, Admit(c) PROVE FALSE
  BY <1>1, <1>2, NeitherOpens DEF Admit, breakerVars, Breaker!Admit
<1>3. ASSUME NEW c \in Calls, Shed(c) PROVE FALSE
  BY <1>3, NeitherOpens DEF Shed, Breaker!Reject
<1>4. ASSUME NEW c \in Calls,
             \/ Start(c) \/ Refuse(c) \/ Abort(c) \/ Check(c) \/ Send(c)
             \/ Panic(c) \/ Retry(c) \/ Denied(c) \/ Wake(c)
             \/ CancelSleep(c) \/ CtxEnds(c)
      PROVE  FALSE
  BY <1>1, <1>4 DEF Start, Refuse, Abort, Check, Send, Panic, Retry, Denied, Wake,
                    CancelSleep, CtxEnds, breakerVars
<1>5. CASE Refill \/ Tick
  BY <1>1, <1>5 DEF Refill, Tick, Breaker!Tick, breakerVars
<1>6. ASSUME NEW c \in Calls, Return(c)
      PROVE  /\ c \in reserved \ reserved'
             /\ call'[c].last # "2xx"
             /\ call'[c].last = "otherStatus" => config.custom
  <2>1. PICK o \in CanMeet(call[c].ctx) :
          \E v \in Verdicts(call[c].ctx, o) : Receive(c, o, v)
    BY <1>6 DEF Return
  <2>2. PICK v \in Verdicts(call[c].ctx, o) : Receive(c, o, v)
    BY <2>1
  <2>3. Breaker!Done(c, CountsAsSuccess(o, v))
    BY <1>1, <2>2 DEF Receive, TellBreaker, breakerVars
  <2>4. CountsAsSuccess(o, v) # TRUE
    BY <2>3, NeitherOpens DEF Breaker!Done
  <2>5. v.retry /\ o # "2xx"
    BY <2>4 DEF CountsAsSuccess
  <2>6. o = "otherStatus" => config.custom
    BY <2>5, VerdictFacts
  <2> DEFINE k == [call[c] EXCEPT !.last = o]
             r == Returned(k.req.entry, o, v)
  <2>7. call'[c] = AfterAttempt(k, r)
    BY <2>2 DEF Receive, IInv
  <2>8. k \in Call /\ k.last = o /\ o \in Answers \cup Failures
    BY CallAssumption DEF IInv, Call, CanMeet
  <2>9. call'[c].last = o
    <3>1. k.req.entry \in {"Do", "RoundTrip"} /\ v \in Verdict
      BY <2>8, VerdictFacts DEF Call, Request
    <3> HIDE DEF k
    <3>2. /\ r.cause \in {"response", "http", "policy", "policyTemporary"} \cup Failures
          /\ r.cause = "response" <=> r = Response
      BY <2>8, <3>1, ReturnedFacts
    <3> HIDE DEF r
    <3> QED BY <2>7, <2>8, <3>2, AfterAttemptFacts
  <2> QED BY <2>3, <2>5, <2>6, <2>9 DEF Breaker!Done
<1> QED BY <1>2, <1>3, <1>4, <1>5, <1>6 DEF Next

(***************************************************************************)
(* Whoever reports late and whatever time passes in between, only an       *)
(* attempt that failed and that the policy would retry opens the breaker.  *)
(***************************************************************************)
THEOREM OpensOnFailureOnlyHolds ==
  ASSUME BreakerProofs!BreakerAssumption
  PROVE  Spec => OpensOnFailureOnly
<1> DEFINE Trips ==
      cb.state # "open" /\ cb'.state = "open" =>
        \E c \in reserved \ reserved' :
          /\ call'[c].last # "2xx"
          /\ call'[c].last = "otherStatus" => config.custom
<1>1. Breaker!TypeOK => cb \in Breaker!Breaker
  BY DEF Breaker!TypeOK
<1>2. IInv /\ cb \in Breaker!Breaker /\ [Next]_vars => [Trips]_vars
  BY OpeningIsAFailure
<1>3. Spec => [][Trips]_vars
  BY <1>1, <1>2, Invariance, BreakerTypes, PTL DEF Spec
<1> QED BY <1>3 DEF OpensOnFailureOnly

-----------------------------------------------------------------------------
\* A step of one call moves the account of that call, and no other.
LEMMA AccountMoves ==
  ASSUME IInv, NEW c \in Calls, NEW n, config' = config,
         call' = [call EXCEPT ![c] = n]
  PROVE  Accounts' = [Accounts EXCEPT ![c] = Account(n)]
<1>1. Accounts' = [d \in Calls |-> Account(call'[d])]
  BY DEF Accounts, Account, Limit, RetryAllowedForMethod
<1>2. ASSUME NEW d \in Calls
      PROVE  Account(call'[d]) = IF d = c THEN Account(n) ELSE Accounts[d]
  BY DEF IInv, Accounts
<1>3. Accounts' = [d \in Calls |-> IF d = c THEN Account(n) ELSE Accounts[d]]
  BY <1>1, <1>2
<1>4. Accounts = [d \in Calls |-> Accounts[d]]
  BY DEF Accounts
<1> QED BY <1>3, <1>4

\* The account of a call, field by field.
LEMMA AccountFields ==
  ASSUME NEW k
  PROVE  /\ Account(k).stage = Stage(k.pc) /\ Account(k).most = 1 + Limit(k)
         /\ Account(k).context = Context(k.ctx)
         /\ Account(k).sent = k.sent /\ Account(k).paid = k.paid
         /\ Account(k).late = k.late /\ Account(k).result = k.result
BY DEF Account

\* A call that moves inside the loop leaves its account alone.
LEMMA SameAccount ==
  ASSUME IInv, NEW c \in Calls, NEW n, config' = config,
         call' = [call EXCEPT ![c] = n],
         Stage(n.pc) = Stage(call[c].pc), n.req = call[c].req, n.ctx = call[c].ctx,
         n.sent = call[c].sent, n.late = call[c].late, n.paid = call[c].paid,
         n.result = call[c].result
  PROVE  Accounts' = Accounts
<1>1. Account(n) = Account(call[c])
  BY DEF Account, Limit, Context
<1>2. Accounts' = [Accounts EXCEPT ![c] = Account(n)]
  BY AccountMoves
<1>3. Accounts = [d \in Calls |-> Accounts[d]] /\ Accounts[c] = Account(n)
  BY <1>1 DEF Accounts
<1> QED BY <1>2, <1>3

\* A call that returns closes its account with its result, if it may.
LEMMA Closes ==
  ASSUME IInv, NEW c \in Calls, NEW n \in Call, config' = config, tokens' = tokens,
         call' = [call EXCEPT ![c] = n], Stage(call[c].pc) = "open",
         n.pc = "done", n.req = call[c].req, n.ctx = call[c].ctx,
         n.sent = call[c].sent, n.late = call[c].late, n.paid = call[c].paid, Sound(n),
         n.result \in CtxErrors => n.ctx # "live",
         n.result = "budget" => config.budget /\ tokens = 0,
         n.result \notin Promise!Early => n.sent > 0
  PROVE  Promise!Next
<1> DEFINE a == Account(call[c])
<1>1. Accounts' = [Accounts EXCEPT ![c] = Account(n)] /\ Accounts[c] = a
  BY AccountMoves DEF Accounts
<1>2. Account(n) = [a EXCEPT !.stage = "over", !.result = n.result]
  <2>1. /\ Stage(n.pc) = "over" /\ Limit(n) = Limit(call[c])
        /\ Context(n.ctx) = Context(call[c].ctx)
    BY DEF Stage, Limit, Context
  <2> DEFINE b == [a EXCEPT !.stage = "over"]
  <2>2. b = [stage |-> "over", most |-> 1 + Limit(n), context |-> Context(n.ctx),
             sent |-> n.sent, late |-> n.late, paid |-> n.paid,
             result |-> call[c].result]
    BY <2>1 DEF Account
  <2> HIDE DEF b
  <2>3. [b EXCEPT !.result = n.result] = Account(n)
    BY <2>1, <2>2 DEF Account
  <2> QED BY <2>3 DEF b
<1>3. Accounts' = [Accounts EXCEPT ![c].stage = "over", ![c].result = n.result]
  BY <1>1, <1>2 DEF Accounts
<1>4. /\ a.stage = "open" /\ a.context = Context(n.ctx) /\ a.sent = n.sent
      /\ a.paid = n.paid /\ a.most = 1 + Limit(n)
  BY AccountFields DEF Limit, Context
<1>5. n.result \in Results
  BY DEF Call
<1>6. /\ n.result # "none"
      /\ n.result \in Promise!OfContext => Context(n.ctx) = "ended"
      /\ n.result = "unsendable" => n.sent = 0
      /\ n.result = "exhausted" => n.sent = 1 + Limit(n)
  BY LimitBound DEF Sound, Truthful, Promise!OfContext, CtxErrors, Context
<1>7. n.result \notin Promise!Early => (config.budget => n.sent = n.paid + 1)
  BY DEF Sound, Pays, Promise!Early
<1> HIDE DEF a
<1>8. Promise!Close(c, n.result)
  BY <1>1, <1>3, <1>4, <1>6, <1>7 DEF Promise!Close
<1> QED BY <1>5, <1>8 DEF Promise!Next

\* A goroutine starts a call: an account is opened.
LEMMA StartKeepsPromise ==
  ASSUME IInv, NEW c \in Calls, Start(c) PROVE Promise!Next
<1>1. PICK req \in Requests : call' = [call EXCEPT ![c] = NewCall(req)]
  BY DEF Start
<1>2. config' = config /\ tokens' = tokens /\ call[c].pc \in {"idle", "done"}
  BY DEF Start
<1> DEFINE most == 1 + Limit(NewCall(req))
<1>3. Account(NewCall(req)) = Promise!Open(most)
  BY DEF Account, NewCall, Promise!Open, Stage, Context
<1>4. most \in 1 .. 1 + MaxRetries
  BY LimitBound, CallAssumption
<1>5. Accounts' = [Accounts EXCEPT ![c] = Promise!Open(most)]
  BY <1>1, <1>2, <1>3, AccountMoves
<1>6. Accounts[c].stage \in {"idle", "over"}
  BY <1>2, AccountFields DEF Accounts, Stage
<1> HIDE DEF most
<1>7. Promise!Begin(c)
  BY <1>2, <1>4, <1>5, <1>6 DEF Promise!Begin
<1> QED BY <1>7 DEF Promise!Next

\* A call ends without an answer: its context, its budget, the breaker.
LEMMA EndingKeepsPromise ==
  ASSUME IInv, NEW c \in Calls,
         Refuse(c) \/ Abort(c) \/ Shed(c) \/ Denied(c) \/ CancelSleep(c)
  PROVE  Promise!Next
<1> DEFINE k == call[c]
<1>1. PICK result \in {"ctx", "unsendable", "breakerOpen", "budget"} :
        /\ call' = [call EXCEPT ![c] = Finish(k, result)]
        /\ k.pc \in {"head", "ready", "retrying", "sleeping"}
        /\ result = "ctx" => k.ctx # "live"
        /\ result = "unsendable" => k.pc \in {"head", "ready"} /\ k.attempt = 0
        /\ result = "budget" => k.pc = "retrying" /\ config.budget /\ tokens = 0
        /\ k.pc = "retrying" => result = "budget"
  BY DEF Refuse, Abort, Shed, Denied, CancelSleep
<1>2. config' = config /\ tokens' = tokens
  BY DEF Refuse, Abort, Shed, Denied, CancelSleep
<1>3. k \in Call /\ Sound(k)
  BY DEF IInv
<1> HIDE DEF k
<1>4. Finish(k, result) \in Call /\ Sound(Finish(k, result))
  BY <1>1, <1>3, FinishSound
<1> DEFINE n == Finish(k, result)
<1>5. /\ n.pc = "done" /\ n.result = result /\ n.req = k.req /\ n.ctx = k.ctx
      /\ n.sent = k.sent /\ n.late = k.late /\ n.paid = k.paid
  BY <1>3 DEF Finish, Call
<1>6. result = "budget" => k.sent > 0
  BY <1>1, <1>3 DEF Sound, Counts, Call
<1>7. Stage(k.pc) = "open"
  BY <1>1 DEF Stage
<1> HIDE DEF n
<1>8. n.result \notin CtxErrors
  BY <1>5 DEF CtxErrors
<1>9. n.result \notin Promise!Early => n.sent > 0
  BY <1>1, <1>5, <1>6 DEF Promise!Early
<1> QED BY <1>1, <1>2, <1>4, <1>5, <1>7, <1>8, <1>9, Closes DEF k, n

\* The loop and the breaker let an attempt pass: no account moves.
LEMMA AdmitKeepsPromise ==
  ASSUME IInv, NEW c \in Calls, Check(c) \/ Admit(c)
  PROVE  UNCHANGED Promise!promiseVars
<1>1. PICK pc \in {"ready", "admitted"} :
        call' = [call EXCEPT ![c] = [call[c] EXCEPT !.pc = pc]]
  BY DEF Check, Admit
<1> DEFINE n == [call[c] EXCEPT !.pc = pc]
<1>2. /\ config' = config /\ tokens' = tokens /\ call[c].pc \in {"head", "ready"}
      /\ call[c] \in Call
  BY DEF IInv, Check, Admit
<1>3. /\ n.pc = pc /\ n.req = call[c].req /\ n.ctx = call[c].ctx
      /\ n.sent = call[c].sent /\ n.late = call[c].late
      /\ n.paid = call[c].paid /\ n.result = call[c].result
  BY <1>2 DEF Call
<1>4. Stage(n.pc) = "open" /\ Stage(call[c].pc) = "open"
  BY <1>1, <1>2, <1>3 DEF Stage
<1>5. call' = [call EXCEPT ![c] = n]
  BY <1>1
<1> HIDE DEF n
<1>6. Accounts' = Accounts
  BY <1>2, <1>3, <1>4, <1>5, SameAccount
<1> QED BY <1>2, <1>6 DEF Promise!promiseVars

\* A request goes out.
LEMMA SendKeepsPromise ==
  ASSUME IInv, NEW c \in Calls, Send(c) PROVE Promise!Next
<1> DEFINE k == call[c]
           late == IF k.ctx = "live" THEN 0 ELSE 1
           m == [k EXCEPT !.pc = "sending", !.sent = @ + 1]
           n == [k EXCEPT !.pc = "sending", !.sent = @ + 1, !.late = @ + late]
           a == Account(k)
<1>1. /\ config' = config /\ tokens' = tokens /\ k.pc \in {"ready", "admitted"}
      /\ call' = [call EXCEPT ![c] = n]
  BY DEF Send
<1>2. k \in Call /\ Sound(k)
  BY DEF IInv
<1>3. Accounts' = [Accounts EXCEPT ![c] = Account(n)] /\ Accounts[c] = a
  BY <1>1, AccountMoves DEF Accounts
<1> HIDE DEF k
<1>4. late = IF Context(k.ctx) = "live" THEN 0 ELSE 1
  BY DEF Context
<1> HIDE DEF late
<1>5. /\ n.pc = "sending" /\ n.req = k.req /\ n.ctx = k.ctx /\ n.sent = k.sent + 1
      /\ n.late = k.late + late /\ n.paid = k.paid /\ n.result = k.result
  BY <1>2 DEF Call
<1> HIDE DEF n
<1>6. Account(n) = [a EXCEPT !.sent = @ + 1, !.late = @ + late]
  <2>1. /\ Limit(n) = Limit(k) /\ Context(n.ctx) = Context(k.ctx)
        /\ Stage(n.pc) = Stage(k.pc)
    BY <1>1, <1>5 DEF Limit, Stage, Context
  <2> DEFINE b == [a EXCEPT !.sent = @ + 1]
  <2>2. b = [stage |-> Stage(k.pc), most |-> 1 + Limit(k), context |-> Context(k.ctx),
             sent |-> k.sent + 1, late |-> k.late, paid |-> k.paid,
             result |-> k.result]
    BY DEF Account
  <2> HIDE DEF b
  <2>3. [b EXCEPT !.late = @ + late] = Account(n)
    BY <1>5, <2>1, <2>2 DEF Account
  <2> QED BY <2>3 DEF b
<1>7. /\ a.stage = "open" /\ a.context = Context(k.ctx)
      /\ a.sent = k.sent /\ a.late = k.late /\ a.paid = k.paid
      /\ a.most = 1 + Limit(k)
  BY <1>1, AccountFields DEF Stage
<1>8. k.sent < 1 + Limit(k) /\ (config.budget => k.sent = k.paid)
  <2>1. k.sent = k.attempt /\ k.attempt <= Limit(k) /\ k.attempt \in Nat
    BY <1>1, <1>2 DEF Sound, Counts, Call, Ahead
  <2>2. config.budget => k.sent = k.paid
    BY <1>1, <1>2 DEF Sound, Pays, Ahead
  <2> QED BY <2>1, <2>2, LimitBound
<1>9. k.late + late <= 1
  BY <1>1, <1>2, <1>4 DEF Sound, Late
<1> HIDE DEF a
<1>10. Accounts' = [Accounts EXCEPT ![c].sent = @ + 1, ![c].late = @ + late]
  BY <1>3, <1>6
<1>11. late = IF a.context = "live" THEN 0 ELSE 1
  BY <1>4, <1>7
<1>12. Promise!Dispatch(c)
  BY <1>1, <1>3, <1>7, <1>8, <1>9, <1>10, <1>11 DEF Promise!Dispatch
<1> QED BY <1>12 DEF Promise!Next

\* A call that goes on after an attempt has no result yet.
LEMMA StillRetrying ==
  ASSUME NEW k \in Call, NEW r, AfterAttempt(k, r).pc = "retrying"
  PROVE  AfterAttempt(k, r).result = k.result
<1>1. \A result : Finish(k, result).pc = "done"
  BY DEF Finish, Call
<1>2. AfterAttempt(k, r) = [k EXCEPT !.pc = "retrying"]
  <2>1. CASE r = Response
    BY <1>1, <2>1 DEF AfterAttempt
  <2>2. CASE r # Response /\ ~Retryable(r)
    BY <1>1, <2>2 DEF AfterAttempt
  <2>3. CASE r # Response /\ Retryable(r) /\ k.attempt >= Limit(k)
    BY <1>1, <2>3 DEF AfterAttempt
  <2>4. CASE r # Response /\ Retryable(r) /\ ~(k.attempt >= Limit(k))
    BY <2>4 DEF AfterAttempt
  <2> QED BY <2>1, <2>2, <2>3, <2>4
<1> QED BY <1>2 DEF Call

\* The transport returns: the call goes on, or closes with what it met.
LEMMA ReturnKeepsPromise ==
  ASSUME IInv, NEW c \in Calls, NEW o \in CanMeet(call[c].ctx),
         NEW v \in Verdicts(call[c].ctx, o), Receive(c, o, v)
  PROVE  Promise!Next \/ UNCHANGED Promise!promiseVars
<1> DEFINE k == call[c]
           m == [k EXCEPT !.last = o]
           r == Returned(k.req.entry, o, v)
           n == AfterAttempt(m, r)
<1>1. k \in Call /\ Sound(k) /\ v \in Verdict /\ o \in Answers \cup Failures
  BY VerdictFacts, CallAssumption DEF IInv, CanMeet
<1>2. config' = config /\ tokens' = tokens /\ k.pc = "sending"
  BY DEF Receive
<1>3. m \in Call
  BY <1>1 DEF Call
<1>4. /\ m.req = k.req /\ m.ctx = k.ctx /\ m.attempt = k.attempt
      /\ m.sent = k.sent /\ m.paid = k.paid /\ m.last = o /\ m.result = k.result
      /\ m.late = k.late
  BY <1>1 DEF Call
<1>5. call' = [call EXCEPT ![c] = n]
  BY <1>4 DEF Receive
<1>6. o \in CtxErrors => k.ctx = o
  BY DEF CanMeet
<1>7. Sound(call'[c])
  <2>1. IInv'
    BY ReceiveIInv
  <2>2. Sound(call[c])'
    BY <2>1 DEF IInv
  <2> QED BY <1>2, <2>2
          DEF Sound, Counts, Pays, Truthful, Late, Limit, RetryAllowedForMethod
<1>8. call'[c] = n
  BY <1>5 DEF IInv
<1> HIDE DEF k, m, n, r
<1>9. /\ r.cause \in {"response", "http", "policy", "policyTemporary"} \cup Failures
      /\ r.cause = "response" <=> r = Response
      /\ r.cause \in Failures => r.cause = o
  <2>1. k.req.entry \in {"Do", "RoundTrip"}
    BY <1>1 DEF Call, Request
  <2> QED BY <1>1, <2>1, ReturnedFacts DEF r
<1>10. /\ n \in Call
       /\ n.req = m.req /\ n.ctx = m.ctx
       /\ n.sent = m.sent /\ n.late = m.late /\ n.paid = m.paid
       /\ n.pc \in {"retrying", "done"}
       /\ n.pc = "done" => n.result \in {r.cause, "exhausted"}
  BY <1>3, <1>9, AfterAttemptFacts DEF n
<1>11. Stage(k.pc) = "open" /\ Stage("retrying") = "open"
  BY <1>2 DEF Stage
<1>12. CASE n.pc = "retrying"
  <2>1. n.result = k.result
    BY <1>3, <1>4, <1>12, StillRetrying DEF n
  <2>2. Accounts' = Accounts
    BY <1>2, <1>4, <1>5, <1>10, <1>11, <1>12, <2>1, SameAccount DEF k
  <2> QED BY <1>2, <2>2 DEF Promise!promiseVars
<1>13. CASE n.pc = "done"
  <2>1. n.result \in CtxErrors => n.ctx # "live"
    BY <1>4, <1>6, <1>9, <1>10, <1>13 DEF CtxErrors, Failures
  <2>2. n.result # "budget"
    BY <1>9, <1>10, <1>13 DEF CtxErrors, Failures
  <2>3. n.sent > 0
    BY <1>1, <1>2, <1>4, <1>10 DEF Sound, Counts, Call
  <2> QED BY <1>2, <1>4, <1>5, <1>7, <1>8, <1>10, <1>11, <1>13, <2>1, <2>2, <2>3,
             Closes DEF k
<1> QED BY <1>10, <1>12, <1>13

\* A retry buys its next request, if the client has a budget.
LEMMA RetryKeepsPromise ==
  ASSUME IInv, NEW c \in Calls, Retry(c)
  PROVE  Promise!Next \/ UNCHANGED Promise!promiseVars
<1> DEFINE k == call[c]
           m == [k EXCEPT !.paid = IF config.budget THEN @ + 1 ELSE @]
<1>1. k \in Call /\ Sound(k)
  BY DEF IInv
<1>2. /\ config' = config /\ k.pc = "retrying"
      /\ config.budget => tokens > 0
      /\ tokens' = IF config.budget THEN tokens - 1 ELSE tokens
  BY DEF Retry
<1>3. PICK n \in NextAttempt(m) : call' = [call EXCEPT ![c] = n]
  BY DEF Retry
<1>4. Accounts' = [Accounts EXCEPT ![c] = Account(n)] /\ Accounts[c] = Account(k)
  BY <1>2, <1>3, AccountMoves DEF Accounts
<1>5. /\ DOMAIN m = DOMAIN k /\ m.req = k.req /\ m.ctx = k.ctx /\ m.sent = k.sent
      /\ m.late = k.late
      /\ m.result = k.result /\ m.paid = IF config.budget THEN k.paid + 1 ELSE k.paid
  BY <1>1 DEF Call
<1>6. {"pc", "req", "ctx", "attempt", "result", "sent", "late", "paid"} \subseteq DOMAIN k
  BY <1>1 DEF Call
<1> HIDE DEF m
<1>7. /\ n.pc \in {"head", "sleeping"} /\ n.req = m.req /\ n.ctx = m.ctx
      /\ n.sent = m.sent /\ n.late = m.late /\ n.paid = m.paid /\ n.result = m.result
  BY <1>3, <1>5, <1>6 DEF NextAttempt
<1>8. Stage(n.pc) = "open" /\ Stage(k.pc) = "open"
  BY <1>2, <1>7 DEF Stage
<1>9. CASE ~config.budget
  <2>1. Accounts' = Accounts
    BY <1>2, <1>3, <1>5, <1>7, <1>8, <1>9, SameAccount
  <2> QED BY <1>2, <1>9, <2>1 DEF Promise!promiseVars
<1>10. CASE config.budget
  <2> HIDE DEF k
  <2>1. Account(n) = [Account(k) EXCEPT !.paid = @ + 1]
    <3>1. Limit(n) = Limit(k) /\ Context(n.ctx) = Context(k.ctx)
      BY <1>5, <1>7 DEF Limit, Context
    <3> QED BY <1>5, <1>7, <1>8, <1>10, <3>1 DEF Account
  <2>2. Accounts' = [Accounts EXCEPT ![c].paid = @ + 1]
    BY <1>4, <2>1
  <2>3. /\ Account(k).stage = "open" /\ Account(k).sent = k.sent
        /\ Account(k).paid = k.paid /\ Account(k).most = 1 + Limit(k)
    BY <1>8, AccountFields
  <2>4. k.sent = k.paid + 1
    BY <1>1, <1>2, <1>10 DEF Sound, Pays
  <2>5. k.sent < 1 + Limit(k)
    <3>1. k.attempt \in Nat /\ k.sent = k.attempt + 1 /\ k.attempt < Limit(k)
      BY <1>1, <1>2 DEF Sound, Counts, Call
    <3> QED BY <3>1, LimitBound
  <2>6. Promise!Pay(c)
    BY <1>2, <1>4, <1>10, <2>2, <2>3, <2>4, <2>5 DEF Promise!Pay
  <2> QED BY <2>6 DEF Promise!Next
<1> QED BY <1>9, <1>10

\* The goroutine of a call unwinds: its account is lost.
LEMMA PanicKeepsPromise ==
  ASSUME IInv, NEW c \in Calls, Panic(c) PROVE Promise!Next
<1> DEFINE k == call[c]
           n == [k EXCEPT !.pc = "panicked"]
<1>1. k \in Call /\ Sound(k)
  BY DEF IInv
<1>2. /\ config' = config /\ tokens' = tokens /\ k.pc = "sending"
      /\ call' = [call EXCEPT ![c] = n]
  BY DEF Panic
<1>3. Accounts' = [Accounts EXCEPT ![c] = Account(n)] /\ Accounts[c] = Account(k)
  BY <1>2, AccountMoves DEF Accounts
<1>4. Account(n) = [Account(k) EXCEPT !.stage = "lost"]
  <2>1. /\ Limit(n) = Limit(k) /\ Context(n.ctx) = Context(k.ctx)
        /\ Stage(n.pc) = "lost"
        /\ n.sent = k.sent /\ n.late = k.late /\ n.paid = k.paid
        /\ n.result = k.result
    BY <1>1 DEF Limit, Context, Stage, Call
  <2> HIDE DEF k, n
  <2> QED BY <2>1 DEF Account
<1>5. Accounts' = [Accounts EXCEPT ![c].stage = "lost"]
  BY <1>3, <1>4
<1>6. Account(k).stage = "open" /\ Account(k).sent > 0
  BY <1>1, <1>2, AccountFields DEF Stage, Sound, Counts, Call
<1>7. Promise!Lose(c)
  BY <1>2, <1>3, <1>5, <1>6 DEF Promise!Lose
<1> QED BY <1>7 DEF Promise!Next

\* The context of a call ends.
LEMMA CtxEndsKeepsPromise ==
  ASSUME IInv, NEW c \in Calls, CtxEnds(c) PROVE Promise!Next
<1> DEFINE k == call[c]
<1>1. k \in Call
  BY DEF IInv
<1>2. /\ config' = config /\ tokens' = tokens /\ k.ctx = "live"
      /\ k.pc \notin {"idle", "done", "panicked"}
  BY DEF CtxEnds, Running
<1>3. PICK why \in CtxErrors : call' = [call EXCEPT ![c] = [k EXCEPT !.ctx = why]]
  BY DEF CtxEnds
<1> DEFINE n == [k EXCEPT !.ctx = why]
<1>4. Accounts' = [Accounts EXCEPT ![c] = Account(n)] /\ Accounts[c] = Account(k)
  BY <1>2, <1>3, AccountMoves DEF Accounts
<1>5. Account(n) = [Account(k) EXCEPT !.context = "ended"]
  <2>1. /\ n.ctx # "live" /\ n.pc = k.pc /\ n.req = k.req
        /\ n.sent = k.sent /\ n.late = k.late /\ n.paid = k.paid
        /\ n.result = k.result
    BY <1>1, <1>3 DEF Call, CtxErrors
  <2>2. Limit(n) = Limit(k)
    BY <2>1 DEF Limit
  <2> HIDE DEF k, n
  <2>3. Context(n.ctx) = "ended"
    BY <2>1 DEF Context
  <2> QED BY <2>1, <2>2, <2>3 DEF Account
<1>6. Accounts' = [Accounts EXCEPT ![c].context = "ended"]
  BY <1>4, <1>5
<1>7. Account(k).stage = "open" /\ Account(k).context = "live"
  BY <1>2, AccountFields DEF Stage, Context
<1>8. Promise!End(c)
  BY <1>2, <1>4, <1>6, <1>7 DEF Promise!End
<1> QED BY <1>8 DEF Promise!Next

\* The bucket refills, a timer fires, time passes, or nothing happens.
LEMMA OthersKeepPromise ==
  ASSUME IInv, Refill \/ Tick \/ UNCHANGED vars \/ \E c \in Calls : Wake(c)
  PROVE  Promise!Next \/ UNCHANGED Promise!promiseVars
<1>1. ASSUME config' = config, call' = call PROVE Accounts' = Accounts
  BY <1>1 DEF Accounts, Account, Limit, RetryAllowedForMethod, Context
<1>2. CASE Refill
  BY <1>1, <1>2 DEF Refill, Promise!Refill, Promise!Next
<1>3. CASE Tick \/ UNCHANGED vars
  BY <1>1, <1>3 DEF Tick, vars, Promise!promiseVars
<1>4. ASSUME NEW c \in Calls, Wake(c) PROVE UNCHANGED Promise!promiseVars
  <2> DEFINE n == [call[c] EXCEPT !.pc = "head", !.attempt = @ + 1]
  <2>1. /\ config' = config /\ tokens' = tokens /\ call[c].pc = "sleeping"
        /\ call' = [call EXCEPT ![c] = n]
    BY <1>4 DEF Wake
  <2>2. /\ n.pc = "head" /\ n.req = call[c].req /\ n.ctx = call[c].ctx
        /\ n.sent = call[c].sent /\ n.paid = call[c].paid
        /\ n.late = call[c].late /\ n.result = call[c].result
    BY DEF IInv, Call
  <2> HIDE DEF n
  <2>3. Stage(n.pc) = Stage(call[c].pc)
    BY <2>1, <2>2 DEF Stage
  <2>4. Accounts' = Accounts
    BY <2>1, <2>2, <2>3, SameAccount
  <2> QED BY <2>1, <2>4 DEF Promise!promiseVars
<1> QED BY <1>2, <1>3, <1>4

(***************************************************************************)
(* The loop, the policy, the budget and the breaker together implement the *)
(* account a client keeps of its calls: what a call may send, what it pays *)
(* for it, when it has to stop and what its result stands for.             *)
(***************************************************************************)
THEOREM KeepsItsPromiseHolds == Spec => KeepsItsPromise
<1>1. Init => Promise!Init
  <2> SUFFICES ASSUME Init PROVE Promise!Init
    OBVIOUS
  <2>1. config.budget \in BOOLEAN
    BY CallAssumption DEF Init, Config
  <2>2. PICK req \in Requests :
          call = [c \in Calls |-> [NewCall(req) EXCEPT !.pc = "idle"]]
    BY DEF Init
  <2> DEFINE k == [NewCall(req) EXCEPT !.pc = "idle"]
  <2>3. 1 + Limit(k) \in 1 .. 1 + MaxRetries
    BY LimitBound, CallAssumption
  <2>4. Account(k) = [Promise!Open(1 + Limit(k)) EXCEPT !.stage = "idle"]
    <3>1. /\ k.pc = "idle" /\ k.ctx = "live" /\ k.sent = 0 /\ k.late = 0 /\ k.paid = 0
          /\ k.result = "none"
      BY DEF NewCall
    <3>2. Stage(k.pc) = "idle" /\ Context(k.ctx) = "live"
      BY <3>1 DEF Stage, Context
    <3> HIDE DEF k
    <3> QED BY <3>1, <3>2 DEF Account, Promise!Open
  <2>5. Accounts = [c \in Calls |-> Account(k)]
    BY <2>2 DEF Accounts
  <2> HIDE DEF k
  <2>6. Accounts \in [Calls -> {[Promise!Open(m) EXCEPT !.stage = "idle"] :
                                  m \in 1 .. 1 + MaxRetries}]
    BY <2>3, <2>4, <2>5
  <2> QED BY <2>1, <2>6 DEF Init, Promise!Init
<1>2. IInv /\ [Next]_vars => [Promise!Next]_(Promise!promiseVars)
  <2> SUFFICES ASSUME IInv, [Next]_vars
               PROVE  Promise!Next \/ UNCHANGED Promise!promiseVars
    OBVIOUS
  <2>1. CASE Refill \/ Tick \/ UNCHANGED vars \/ \E c \in Calls : Wake(c)
    BY <2>1, OthersKeepPromise
  <2>2. ASSUME NEW c \in Calls, Return(c)
        PROVE  Promise!Next \/ UNCHANGED Promise!promiseVars
    BY <2>2, ReturnKeepsPromise DEF Return
  <2>3. ASSUME NEW c \in Calls,
               \/ Refuse(c) \/ Abort(c) \/ Shed(c) \/ Denied(c) \/ CancelSleep(c)
        PROVE  Promise!Next
    BY <2>3, EndingKeepsPromise
  <2>4. ASSUME NEW c \in Calls,
               Start(c) \/ Check(c) \/ Admit(c) \/ Send(c) \/ Panic(c) \/ Retry(c) \/ CtxEnds(c)
        PROVE  Promise!Next \/ UNCHANGED Promise!promiseVars
    BY <2>4, StartKeepsPromise, AdmitKeepsPromise, SendKeepsPromise, PanicKeepsPromise,
       RetryKeepsPromise, CtxEndsKeepsPromise
  <2> QED BY <2>1, <2>2, <2>3, <2>4 DEF Next
<1> QED BY <1>1, <1>2, Invariance, PTL DEF Spec, KeepsItsPromise, Promise!Spec
=============================================================================
