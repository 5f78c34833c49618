------------------------------ MODULE ClientCall ------------------------------
(***************************************************************************)
(* Calls through a todoku Client: Client.do (client.go) and the retrying   *)
(* RoundTripper (transport.go), which share the retry loop of retry.go,    *)
(* the circuit breaker and the retry budget.  A call is one goroutine.     *)
(* Shared state is touched in six places -- the look at the context,       *)
(* Allow, the dispatch, the done callback, the budget, the timer or        *)
(* context that ends a sleep -- and each is an action of its own, so that  *)
(* anything may happen in between; what a goroutine computes alone is      *)
(* folded into the action before it.                                       *)
(***************************************************************************)
EXTENDS Integers, FiniteSets

CONSTANTS
  Calls,            \* goroutines that make calls, one after the other
  Configs,          \* the clients to consider: a set of Config records
  Requests,         \* the requests to consider: a set of Request records
  Outcomes,         \* what an attempt may meet
  Panicking,        \* goroutines whose transport or CheckRetry hook may panic
  MaxRetries,       \* RetryConfig.MaxRetries, negative read as 0
  Burst,            \* budget.Config.Burst, after its default
  MaxRequests, Timeout, Interval, ReadyToTrip(_), Span,  \* the breaker's
  MaxClock          \* bound of the model, see CircuitBreaker

\* The fields of a Client that a call depends on; custom: WithCheckRetry.
Config == [breaker : BOOLEAN, budget : BOOLEAN, strict : BOOLEAN,
           allowNonIdempotent : BOOLEAN, custom : BOOLEAN]

\* retrySafe: the method is idempotent or the call carries a key.
Request == [entry : {"Do", "RoundTrip"}, retrySafe : BOOLEAN]

(***************************************************************************)
(* What one attempt can meet.  The errors differ in the carrier they have: *)
(* "timeout" (the http.Client timeout) and "deadline" (the deadline of the *)
(* context) answer Temporary() with true, "fatal" answers Retryable() with *)
(* false, "transport" and "canceled" do not classify themselves.           *)
(***************************************************************************)
Answers == {"2xx", "retryStatus", "otherStatus"}

CtxErrors == {"deadline", "canceled"}

Failures == {"transport", "timeout", "fatal"} \cup CtxErrors

ASSUME CallAssumption ==
  /\ Configs \subseteq Config
  /\ Requests \subseteq Request
  /\ Outcomes \subseteq Answers \cup Failures
  /\ Panicking \subseteq Calls
  /\ MaxRetries \in Nat
  /\ Burst \in Nat \ {0}

VARIABLES
  config,                        \* the Client, immutable once built
  call,                          \* the state of each goroutine's call
  tokens,                        \* whole tokens in the retry budget
  cb, clock, reserved, trial     \* the circuit breaker

Breaker == INSTANCE CircuitBreaker WITH Callers <- Calls

vars == <<config, call, tokens, cb, clock, reserved, trial>>

-----------------------------------------------------------------------------
\* The transport reports a context error only once the context has ended.
CanMeet(ctx) == Outcomes \ (CtxErrors \ {ctx})

\* What a CheckRetry hook returns; stop is its error, which may be Temporary().
Verdict == [retry : BOOLEAN, stop : {"none", "policy", "policyTemporary"}]

DefaultCheckRetry(ctx, o) ==
  [retry |-> ctx = "live" /\ o \in {"retryStatus", "transport", "timeout"},
   stop |-> "none"]

Verdicts(ctx, o) ==
  IF config.custom THEN Verdict ELSE {DefaultCheckRetry(ctx, o)}

\* Mutant: a permanent status is held against the server.
CountsOnly2xx(o, v) == o = "2xx"

\* What the breaker is told of an attempt.
CountsAsSuccess(o, v) == ~(v.retry /\ o # "2xx")

-----------------------------------------------------------------------------
(***************************************************************************)
(* What the attempt closure returns: a response to hand to the caller, or  *)
(* an error, wrapped in a NonRetryableError or bare.                       *)
(***************************************************************************)
Response == [wrapped |-> FALSE, cause |-> "response"]

Error(wrapped, cause) == [wrapped |-> wrapped, cause |-> cause]

\* Mutant: Do hands over whatever the policy does not retry.
ReturnedLive(entry, o, v) ==
  CASE v.stop # "none"  -> Error(TRUE, v.stop)
    [] v.stop = "none" /\ o \in Failures -> Error(~v.retry, o)
    [] OTHER -> IF v.retry THEN Error(FALSE, "http") ELSE Response

\* Client.do and RoundTrip differ in what they do with an answer.
Returned(entry, o, v) ==
  CASE v.stop # "none"  -> Error(TRUE, v.stop)
    [] v.stop = "none" /\ o \in Failures -> Error(~v.retry, o)
    [] v.stop = "none" /\ o \in Answers /\ entry = "Do" ->
         IF o = "2xx" THEN Response ELSE Error(~v.retry, "http")
    [] OTHER -> IF v.retry THEN Error(FALSE, "http") ELSE Response

\* retryableViaCarrier, then clientRetryable.
Retryable(e) ==
  CASE e.cause = "fatal" -> FALSE
    [] e.cause \in {"timeout", "deadline", "policyTemporary"} -> TRUE
    [] OTHER -> ~e.wrapped

\* unwrapClientError of an ExhaustedError.
Exhausted(e) == IF e.wrapped \/ e.cause = "http" THEN e.cause ELSE "exhausted"

-----------------------------------------------------------------------------
Results == {"none", "response", "http", "ctx", "unsendable", "breakerOpen",
            "budget", "exhausted", "policy", "policyTemporary"} \cup Failures

(***************************************************************************)
(* sent, late, paid and last are history: the requests this call handed to *)
(* its transport, those of them after the end of its context, the tokens   *)
(* it spent and what its latest attempt met.                               *)
(***************************************************************************)
Call == [pc : {"idle", "head", "ready", "admitted", "sending", "retrying",
               "sleeping", "done", "panicked"},
         req : Request, ctx : {"live"} \cup CtxErrors, attempt : Nat, result : Results,
         sent : Nat, late : Nat, paid : Nat,
         last : {"nothing"} \cup Answers \cup Failures]

NewCall(req) ==
  [pc |-> "head", req |-> req, ctx |-> "live", attempt |-> 0,
   result |-> "none", sent |-> 0, late |-> 0, paid |-> 0, last |-> "nothing"]

RetryAllowedForMethod(req) ==
  config.strict => req.retrySafe \/ config.allowNonIdempotent

\* Mutant: the gate on unsafe methods is forgotten.
LimitUngated(k) == MaxRetries

Limit(k) == IF RetryAllowedForMethod(k.req) THEN MaxRetries ELSE 0

Finish(k, result) == [k EXCEPT !.pc = "done", !.result = result]

\* The loop, once the attempt has returned r.
AfterAttempt(k, r) ==
  CASE r = Response -> Finish(k, "response")
    [] r # Response /\ ~Retryable(r) -> Finish(k, r.cause)
    [] r # Response /\ Retryable(r) /\ k.attempt >= Limit(k) ->
         Finish(k, Exhausted(r))
    [] OTHER -> [k EXCEPT !.pc = "retrying"]

Running(k) == k.pc \notin {"idle", "done", "panicked"}

breakerVars == <<cb, clock, reserved, trial>>

-----------------------------------------------------------------------------
Init ==
  /\ config \in Configs
  /\ \E req \in Requests :
       call = [c \in Calls |-> [NewCall(req) EXCEPT !.pc = "idle"]]
  /\ tokens = Burst
  /\ Breaker!Init

Start(c) ==
  /\ call[c].pc \in {"idle", "done"}
  /\ \E req \in Requests : call' = [call EXCEPT ![c] = NewCall(req)]
  /\ UNCHANGED <<config, tokens, breakerVars>>

\* The body cannot be read or, for Do, the request cannot be built.
Refuse(c) ==
  /\ call[c].attempt = 0
  /\ \/ call[c].pc = "head"
     \/ call[c].pc = "ready" /\ call[c].req.entry = "Do"
  /\ call' = [call EXCEPT ![c] = Finish(@, "unsendable")]
  /\ UNCHANGED <<config, tokens, breakerVars>>

\* The head of the loop finds the context ended.
Abort(c) ==
  /\ call[c].pc = "head"
  /\ call[c].ctx # "live"
  /\ call' = [call EXCEPT ![c] = Finish(@, "ctx")]
  /\ UNCHANGED <<config, tokens, breakerVars>>

\* Mutant: the head of the loop does not look at the context.
PassHead(c) ==
  /\ call[c].pc = "head"
  /\ call' = [call EXCEPT ![c].pc = "ready"]
  /\ UNCHANGED <<config, tokens, breakerVars>>

\* The head of the loop finds it live, and does not look again.
Check(c) ==
  /\ call[c].pc = "head"
  /\ call[c].ctx = "live"
  /\ call' = [call EXCEPT ![c].pc = "ready"]
  /\ UNCHANGED <<config, tokens, breakerVars>>

\* The breaker lets the attempt pass, whatever became of the context.
Admit(c) ==
  /\ call[c].pc = "ready"
  /\ config.breaker
  /\ Breaker!Admit(c)
  /\ call' = [call EXCEPT ![c].pc = "admitted"]
  /\ UNCHANGED <<config, tokens>>

\* The breaker turns the attempt away, which ends the call.
Shed(c) ==
  /\ call[c].pc = "ready"
  /\ config.breaker
  /\ Breaker!Reject(c)
  /\ call' = [call EXCEPT ![c] = Finish(@, "breakerOpen")]
  /\ UNCHANGED <<config, tokens>>

\* The request is handed to the transport, whatever became of the context.
Send(c) ==
  LET late == IF call[c].ctx = "live" THEN 0 ELSE 1
  IN  /\ call[c].pc = IF config.breaker THEN "admitted" ELSE "ready"
      /\ call' = [call EXCEPT ![c].pc = "sending", ![c].sent = @ + 1,
                              ![c].late = @ + late]
      /\ UNCHANGED <<config, tokens, breakerVars>>

\* Mutant: an attempt its context ended is not reported.
TellUnlessEnded(c, o, v) ==
  IF config.breaker /\ call[c].ctx = "live"
  THEN Breaker!Done(c, CountsAsSuccess(o, v))
  ELSE UNCHANGED breakerVars

TellBreaker(c, o, v) ==
  IF config.breaker THEN Breaker!Done(c, CountsAsSuccess(o, v))
                    ELSE UNCHANGED breakerVars

\* The transport returns: policy, report to the breaker, classification.
Receive(c, o, v) ==
  LET k == [call[c] EXCEPT !.last = o]
  IN  /\ call[c].pc = "sending"
      /\ TellBreaker(c, o, v)
      /\ call' = [call EXCEPT ![c] =
                    AfterAttempt(k, Returned(k.req.entry, o, v))]
      /\ UNCHANGED <<config, tokens>>

Return(c) ==
  \E o \in CanMeet(call[c].ctx) :
    \E v \in Verdicts(call[c].ctx, o) : Receive(c, o, v)

(***************************************************************************)
(* The goroutine unwinds from the middle of the attempt.  The callback is  *)
(* not deferred, so the breaker is never told, though somebody further up  *)
(* may recover; this goroutine calls no more.                              *)
(***************************************************************************)
Panic(c) ==
  /\ c \in Panicking
  /\ call[c].pc = "sending"
  /\ call' = [call EXCEPT ![c].pc = "panicked"]
  /\ UNCHANGED <<config, tokens, breakerVars>>

\* The delay may be zero: full jitter may draw it, Retry-After may ask it.
NextAttempt(k) ==
  {[k EXCEPT !.pc = "head", !.attempt = @ + 1], [k EXCEPT !.pc = "sleeping"]}

\* Mutant: an empty budget does not stop a retry.
RetryUnpaid(c) ==
  /\ call[c].pc = "retrying"
  /\ \E next \in NextAttempt(call[c]) : call' = [call EXCEPT ![c] = next]
  /\ UNCHANGED <<config, tokens, breakerVars>>

\* BeforeRetry: a retry costs a token of the budget, if there is a budget.
Retry(c) ==
  LET k == [call[c] EXCEPT !.paid = IF config.budget THEN @ + 1 ELSE @]
  IN  /\ call[c].pc = "retrying"
      /\ config.budget => tokens > 0
      /\ tokens' = IF config.budget THEN tokens - 1 ELSE tokens
      /\ \E next \in NextAttempt(k) : call' = [call EXCEPT ![c] = next]
      /\ UNCHANGED <<config, breakerVars>>

Denied(c) ==
  /\ call[c].pc = "retrying"
  /\ config.budget
  /\ tokens = 0
  /\ call' = [call EXCEPT ![c] = Finish(@, "budget")]
  /\ UNCHANGED <<config, tokens, breakerVars>>

Wake(c) ==
  /\ call[c].pc = "sleeping"
  /\ call' = [call EXCEPT ![c].pc = "head", ![c].attempt = @ + 1]
  /\ UNCHANGED <<config, tokens, breakerVars>>

\* Mutant: the sleep does not watch the context.
SleepUnwatched(c) == FALSE

CancelSleep(c) ==
  /\ call[c].pc = "sleeping"
  /\ call[c].ctx # "live"
  /\ call' = [call EXCEPT ![c] = Finish(@, "ctx")]
  /\ UNCHANGED <<config, tokens, breakerVars>>

\* The caller cancels, or its deadline passes.
CtxEnds(c) ==
  /\ Running(call[c])
  /\ call[c].ctx = "live"
  /\ \E why \in CtxErrors \cap Outcomes : call' = [call EXCEPT ![c].ctx = why]
  /\ UNCHANGED <<config, tokens, breakerVars>>

\* Mutant: the bucket has no brim.
RefillUncapped ==
  /\ tokens' = tokens + 1
  /\ UNCHANGED <<config, call, breakerVars>>

Refill ==
  /\ tokens < Burst
  /\ tokens' = tokens + 1
  /\ UNCHANGED <<config, call, breakerVars>>

Tick == config.breaker /\ Breaker!Tick /\ UNCHANGED <<config, call, tokens>>

Next ==
  \/ \E c \in Calls : \/ Start(c) \/ Refuse(c) \/ Abort(c) \/ Check(c)
                      \/ Admit(c) \/ Shed(c) \/ Send(c) \/ Return(c)
                      \/ Panic(c) \/ Retry(c) \/ Denied(c)
                      \/ Wake(c) \/ CancelSleep(c) \/ CtxEnds(c)
  \/ Refill
  \/ Tick

Spec == Init /\ [][Next]_vars

(***************************************************************************)
(* A goroutine that can run does; the transport returns, at the latest     *)
(* when the context ends; every context ends, for it has a deadline or its *)
(* owner cancels it.  Nothing is assumed of timers: a backoff may be       *)
(* longer than any deadline.                                               *)
(***************************************************************************)
Fairness ==
  \A c \in Calls : /\ WF_vars(Abort(c) \/ Check(c))
                   /\ WF_vars(Admit(c) \/ Shed(c) \/ Send(c))
                   /\ WF_vars(Return(c) \/ Panic(c))
                   /\ WF_vars(Retry(c) \/ Denied(c))
                   /\ WF_vars(CancelSleep(c))
                   /\ WF_vars(CtxEnds(c))

FairSpec == Spec /\ Fairness

-----------------------------------------------------------------------------
\* The variables keep their types; the budget stays within its burst.
TypeOK ==
  /\ config \in Configs
  /\ call \in [Calls -> Call]
  /\ tokens \in 0 .. Burst
  /\ Breaker!TypeOK

(***************************************************************************)
(* A call sends its request at most 1 + MaxRetries times, and under strict *)
(* idempotency a request that is not safe to repeat is sent at most once,  *)
(* whatever hook, carrier, budget and breaker say.                         *)
(***************************************************************************)
SendBound ==
  \A c \in Calls :
    /\ call[c].sent <= 1 + MaxRetries
    /\ config.strict /\ ~config.allowNonIdempotent /\ ~call[c].req.retrySafe =>
         call[c].sent <= 1

(***************************************************************************)
(* Storm control: with a budget, every request after the first of its call *)
(* was paid for with a token; and a token is spent for nothing only by a   *)
(* call that its context or the breaker stops.                             *)
(***************************************************************************)
RetriesArePaidFor ==
  config.budget =>
    \A c \in Calls :
      LET k == call[c]
      IN  /\ k.sent <= k.paid + 1
          /\ k.paid <= k.sent
          /\ k.pc = "done" /\ k.result \notin {"ctx", "breakerOpen", "unsendable"} =>
               k.sent = k.paid + 1

(***************************************************************************)
(* The breaker's slots are held by the attempts it admitted, until their   *)
(* callback runs, and for ever by those that panicked.                     *)
(***************************************************************************)
SlotsAreAttempts ==
  config.breaker =>
    reserved = {c \in Calls : call[c].pc \in {"admitted", "sending", "panicked"}}

\* What the caller gets of an answer that is not to be retried.
Delivered(k) ==
  /\ k.last = "2xx" => k.result = "response"
  /\ k.last = "otherStatus" =>
       k.result = IF k.req.entry = "Do" THEN "http" ELSE "response"

(***************************************************************************)
(* The caller is told what happened: Do returns a response only for a 2xx  *)
(* answer; an answer that the default policy does not retry is never lost  *)
(* behind an error of the retry machinery: it is the response or, for a    *)
(* permanent status through Do, the error that carries it; the context is  *)
(* blamed only once it has ended; and "exhausted" means that every         *)
(* permitted attempt was made.                                             *)
(***************************************************************************)
ResultIsTruthful ==
  \A c \in Calls :
    LET k == call[c]
    IN  k.pc = "done" =>
          /\ k.result # "none"
          /\ k.result = "response" =>
               k.last \in IF k.req.entry = "Do" THEN {"2xx"} ELSE Answers
          /\ ~config.custom => Delivered(k)
          /\ k.result \in Failures => k.last = k.result
          /\ k.result = "ctx" => k.ctx # "live"
          /\ k.result = "unsendable" => k.sent = 0
          /\ k.result = "exhausted" => k.sent = Limit(k) + 1

(***************************************************************************)
(* Once its context has ended, a call makes at most the one request that   *)
(* had already passed the head of the loop (retry.go:249), which may have  *)
(* to wait for the breaker's lock meanwhile: no carrier that calls the     *)
(* deadline temporary, no policy, token or timer brings about another.     *)
(***************************************************************************)
AtMostOneLateRequest == \A c \in Calls : call[c].late <= 1

(***************************************************************************)
(* The client is a proper caller of the breaker: it only uses Allow and    *)
(* the callback Allow returned, and unless it panics it does invoke that   *)
(* callback.                                                               *)
(***************************************************************************)
KeepsBreakerContract ==
  /\ Breaker!Spec
  /\ \A c \in Calls :
       \/ WF_breakerVars(\E success \in BOOLEAN : Breaker!Done(c, success))
       \/ <>(call[c].pc = "panicked")

\* The account of a call, as CallPromise keeps it.
Stage(pc) ==
  CASE pc = "idle" -> "idle"
    [] pc = "done" -> "over"
    [] pc = "panicked" -> "lost"
    [] OTHER -> "open"

Context(ctx) == IF ctx = "live" THEN "live" ELSE "ended"

Account(k) ==
  [stage |-> Stage(k.pc), most |-> 1 + Limit(k), context |-> Context(k.ctx),
   sent |-> k.sent, late |-> k.late, paid |-> k.paid, result |-> k.result]

Accounts == [c \in Calls |-> Account(call[c])]

Promise == INSTANCE CallPromise
             WITH Callers <- Calls, Most <- 1 .. 1 + MaxRetries,
                  budgeted <- config.budget, purse <- tokens, account <- Accounts

(***************************************************************************)
(* A client keeps the promise of CallPromise, which knows nothing of the   *)
(* loop: its calls never send more than they are allowed, nor an unpaid    *)
(* retry, nor more than one request once their context has ended, and each *)
(* ends at most once, with a result that its account bears out.            *)
(***************************************************************************)
KeepsItsPromise == Promise!Spec

(***************************************************************************)
(* Only an attempt that failed, and that the policy would retry, opens the *)
(* breaker: an answer the client accepts (2xx, a permanent status) never   *)
(* does.                                                                   *)
(***************************************************************************)
OpensOnFailureOnly ==
  [][cb.state # "open" /\ cb'.state = "open" =>
       \E c \in reserved \ reserved' :
         /\ call'[c].last # "2xx"
         /\ call'[c].last = "otherStatus" => config.custom]_vars

(***************************************************************************)
(* Every call returns, whatever backoff or Retry-After delay it is in:     *)
(* the end of its context is enough.                                       *)
(***************************************************************************)
CallsReturn == \A c \in Calls : Running(call[c]) ~> ~Running(call[c])

-----------------------------------------------------------------------------
(***************************************************************************)
(* client.go:339-341: "success/permanent 4xx count as a success (the       *)
(* server is reachable and answering)": a trial closes a half-open breaker *)
(* only when the server answered it.                                       *)
(***************************************************************************)
ClosesOnAnAnswer ==
  [][cb.state = "half-open" /\ cb'.state = "closed" =>
       \E c \in reserved \ reserved' : call'[c].last \in Answers]_vars

(***************************************************************************)
(* client.go:430-433: "anything already wrapped in [*NonRetryableError]    *)
(* (context errors, ...) stops the loop": a call whose attempt failed with *)
(* the error of its own context does not pay for a retry after it.         *)
(***************************************************************************)
ContextErrorStops ==
  \A c \in Calls : config.budget /\ call[c].last \in CtxErrors =>
    call[c].paid < call[c].sent

(***************************************************************************)
(* breaker.go:148-149: "a done callback that the caller MUST invoke with   *)
(* the request outcome": a slot that an attempt took is given back, if     *)
(* goroutines run, transports return and contexts end.                     *)
(***************************************************************************)
SlotsComeBack == \A c \in Calls : c \in reserved ~> c \notin reserved
=============================================================================
