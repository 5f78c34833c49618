-------------------------------- MODULE Probe ---------------------------------
(***************************************************************************)
(* Client.Probe: one walk over schemes and paths, in order, that ends at   *)
(* the first answer below 500.  Each attempt is one call of the client's   *)
(* http.Client, without the retry loop, the breaker or the budget.  Its    *)
(* context ends with the caller's, or at the attempt's own timeout; but a  *)
(* layer that answers from a cache does not look at it, nor does one that  *)
(* waits for another goroutine's flight (dedup.go:191).  The flights of    *)
(* others belong to the environment: any attempt may meet one, and its     *)
(* owner may return late or never.                                         *)
(***************************************************************************)
EXTENDS Naturals, Sequences, Functions

CONSTANTS
  Probes,    \* what callers ask for: pairs of a Target and a ProbeConfig
  Statuses,  \* statuses servers answer with
  Groups, Caches,  \* the middlewares that are single-flight groups, and caches
  NoHost     \* an empty host

VARIABLES
  stack,   \* the layers of the client's transport, innermost first
  walk,    \* where the probe is, and the local variables of the walk
  ahead,   \* the layers that the attempt under way has still before it
  result,  \* the Reachability it builds up and returns
  tried, answered  \* history: the candidates tried, and those below 500

probeVars == <<walk, ahead, result, tried, answered>>

\* A target with or without a scheme, and with or without a host; paths drop.
Target == [url : BOOLEAN, host : {"host", NoHost}]

(***************************************************************************)
(* hostOf: the host of a URL, or of a target without a scheme what comes   *)
(* before the path.  A URL without a host is cut at its first slash, which *)
(* leaves its scheme in the place of the host.                             *)
(***************************************************************************)
HostOf(t) == IF t.url /\ t.host = NoHost THEN "https:" ELSE t.host

\* The ordered lists may name one scheme or path twice.
ProbeConfig == [schemes : Seq(STRING), paths : Seq(STRING), method : STRING]

OrDefault(s, default) == IF s = <<>> THEN default ELSE s

\* ProbeConfig.resolve, without the timeout.
Resolve(cfg) ==
  [schemes |-> OrDefault(cfg.schemes, <<"https", "http">>),
   paths |-> OrDefault(cfg.paths, <<"/api/v2", "/v2", "">>),
   method |-> IF cfg.method = "" THEN "GET" ELSE cfg.method]

\* The n-th pass of the two nested loops: the path varies faster.
Candidate(cfg, n) ==
  [scheme |-> cfg.schemes[((n - 1) \div Len(cfg.paths)) + 1],
   prefix |-> cfg.paths[((n - 1) % Len(cfg.paths)) + 1]]

Candidates(cfg) == Len(cfg.schemes) * Len(cfg.paths)

\* The zero ProbeConfig.
ZeroConfig == [schemes |-> <<>>, paths |-> <<>>, method |-> ""]

NoResult ==
  [reachable |-> FALSE, base |-> <<>>, host |-> NoHost, status |-> 0,
   attempts |-> 0, err |-> "none"]

ProbeInit ==
  /\ walk = [stage |-> "idle", cfg |-> ZeroConfig, ctx |-> "live"]
  /\ ahead = {}
  /\ result = NoResult
  /\ tried = <<>>
  /\ answered = {}

\* isCacheableMethod
Cacheable == walk.cfg.method \in {"GET", "HEAD"}

\* Mutant: a group is in its own way as soon as it is installed.
TangledAtOnce == \E i \in ahead : stack[i] \in Groups

\* One single-flight group wraps two layers: the inner waits for the outer.
Tangled == \E i, j \in ahead : i # j /\ stack[i] = stack[j] /\ stack[i] \in Groups

Begin(t, cfg) ==
  /\ walk.stage = "idle"
  /\ LET host == HostOf(t)
     IN  IF host = NoHost
         THEN /\ walk' = [walk EXCEPT !.stage = "done", !.cfg = Resolve(cfg)]
              /\ result' = [result EXCEPT !.err = "empty"]
         ELSE /\ walk' = [walk EXCEPT !.stage = "walking", !.cfg = Resolve(cfg)]
              /\ result' = [result EXCEPT !.host = host]
  /\ UNCHANGED <<ahead, tried, answered>>

\* The next attempt is under way.
Attempt ==
  /\ walk.stage = "walking"
  /\ walk' = [walk EXCEPT !.stage = "attempt"]
  /\ ahead' = DOMAIN stack
  /\ result' = [result EXCEPT !.attempts = @ + 1]
  /\ tried' = Append(tried, Candidate(walk.cfg, result.attempts + 1))
  /\ UNCHANGED answered

\* The walk continues with the next candidate, if there is one.
GoOn ==
  /\ walk' = [walk EXCEPT !.stage =
                IF result.attempts < Candidates(walk.cfg) THEN "walking" ELSE "done"]
  /\ ahead' = {}

\* The request cannot be built, the round trip fails, or a context ends.
Fails ==
  /\ walk.stage = "attempt"
  /\ result' = [result EXCEPT !.err = "transport"]
  /\ GoOn
  /\ UNCHANGED <<tried, answered>>

\* Mutant: the boundary is off by one.
AcceptableTo500(status) == status <= 500

Acceptable(status) == status < 500

\* An answer of this status, and what the walk makes of it.
Take(status) ==
  /\ IF Acceptable(status)
     THEN /\ result' = [reachable |-> TRUE, host |-> result.host,
                        base |-> <<Candidate(walk.cfg, result.attempts)>>,
                        status |-> status, attempts |-> result.attempts,
                        err |-> "none"]
          /\ walk' = [walk EXCEPT !.stage = "done"]
          /\ ahead' = {}
     ELSE /\ result' = [result EXCEPT !.err = "status"]
          /\ GoOn
  /\ answered' = IF status < 500 THEN answered \cup {tried[Len(tried)]} ELSE answered
  /\ UNCHANGED tried

\* A server needs a live context, and no tangle in the way; a cache, which holds
\* 2xx, needs neither.
CanArrive(status) ==
  \/ walk.ctx = "live" /\ ~(Cacheable /\ Tangled)
  \/ Cacheable /\ (\E i \in ahead : stack[i] \in Caches) /\ status \in 200 .. 299

Answers(status) ==
  /\ walk.stage = "attempt"
  /\ CanArrive(status)
  /\ Take(status)

(***************************************************************************)
(* The attempt meets a flight of its key in the group at layer i, led by   *)
(* another goroutine, and waits for its end alone.  Where the same group   *)
(* has a layer further out, the attempt leads there itself (see Hangs).    *)
(* Stranded: the owner does not return; it panicked, which leaves the key  *)
(* listed (dedup.go:205), or has no deadline of its own.                   *)
(***************************************************************************)
Join(i) ==
  /\ walk.stage = "attempt"
  /\ Cacheable /\ i \in ahead /\ stack[i] \in Groups
  /\ ~\E j \in ahead : i < j /\ stack[j] = stack[i]
  /\ \E fate \in {"joined", "stranded"} : walk' = [walk EXCEPT !.stage = fate]
  /\ ahead' = {j \in ahead : j < i}
  /\ UNCHANGED <<result, tried, answered>>

\* The flight is over, and shares its answer, of whatever status.
Shares(status) ==
  /\ walk.stage = "joined"
  /\ Take(status)

\* Or it failed: the attempt goes on through the layers below.
Redials ==
  /\ walk.stage = "joined"
  /\ walk' = [walk EXCEPT !.stage = "attempt"]
  /\ UNCHANGED <<ahead, result, tried, answered>>

\* The attempt leads the outer flight of its key, and waits for it inside.
Hangs ==
  /\ walk.stage = "attempt"
  /\ Cacheable /\ Tangled
  /\ walk' = [walk EXCEPT !.stage = "hung"]
  /\ UNCHANGED <<ahead, result, tried, answered>>

CtxEnds ==
  /\ walk.stage \notin {"idle", "done"} /\ walk.ctx = "live"
  /\ walk' = [walk EXCEPT !.ctx = "ended"]
  /\ UNCHANGED <<ahead, result, tried, answered>>

\* What becomes of an attempt that waits for no other goroutine ...
Trying ==
  \/ Fails
  \/ \E s \in Statuses : Answers(s)
  \/ \E i \in ahead : Join(i)
  \/ Hangs

\* ... and of one that has joined a flight which its owner ends.
Sharing == (\E s \in Statuses : Shares(s)) \/ Redials

ProbeRuns == Attempt \/ Trying \/ Sharing

ProbeStep == ProbeRuns \/ CtxEnds

-----------------------------------------------------------------------------
\* The candidate a comes before b in the order of the configuration.
Precedes(a, b) ==
  LET s == walk.cfg.schemes
      p == walk.cfg.paths
  IN  \E i, j \in DOMAIN s, m, n \in DOMAIN p :
        /\ a = [scheme |-> s[i], prefix |-> p[m]]
        /\ b = [scheme |-> s[j], prefix |-> p[n]]
        /\ i < j \/ (i = j /\ m < n)

(***************************************************************************)
(* The first answer wins: a probe that reports a base URL has had an       *)
(* answer below 500 from it and from nothing before it, having tried every *)
(* candidate that comes before, once and in order; a probe that reports    *)
(* none has tried them all, had no such answer, and says why.              *)
(***************************************************************************)
FirstAnswerWins ==
  walk.stage = "done" =>
    LET all == {[scheme |-> s, prefix |-> p] :
                  s \in Range(walk.cfg.schemes), p \in Range(walk.cfg.paths)}
    IN  /\ result.attempts = Len(tried)
        /\ \A i, j \in DOMAIN tried : i < j => Precedes(tried[i], tried[j])
        /\ IF result.reachable
           THEN /\ result.base = <<tried[Len(tried)]>>
                /\ answered = {tried[Len(tried)]}
                /\ \A a \in all \ Range(tried) : Precedes(tried[Len(tried)], a)
                /\ result.status < 500 /\ result.err = "none"
                /\ result.host # NoHost
           ELSE /\ answered = {}
                /\ result.host # NoHost => Range(tried) = all
                /\ result.base = <<>> /\ result.err # "none"
=============================================================================
