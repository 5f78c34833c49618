------------------------- MODULE ProbedClient_proofs --------------------------
(***************************************************************************)
(* Proofs about ProbedClient, for any clients and options and any probes,  *)
(* with lists of schemes and paths of any length: what construction leaves *)
(* behind (the lemmas are in ClientSetup_proofs), and what a walk reports. *)
(***************************************************************************)
EXTENDS ProbedClient, ClientSetup_proofs

-----------------------------------------------------------------------------
(***************************************************************************)
(* The construction: its invariant holds in every reachable state, since a *)
(* probe changes no client.                                                *)
(***************************************************************************)
THEOREM SetupInvariance == Spec => []SetupInv
<1>1. Init => SetupInv
  BY InitSetup DEF Init
<1>2. SetupInv /\ [Next]_vars => SetupInv'
  <2> SUFFICES ASSUME SetupInv, [Next]_vars PROVE SetupInv'
    OBVIOUS
  <2>1. SetupStep \/ UNCHANGED setupVars
    BY DEF Next, Setup, Begin, Attempt, Trying, Sharing, CtxEnds, vars
  <2> QED BY <2>1, StepSetup
<1> QED BY <1>1, <1>2, PTL DEF Spec

(***************************************************************************)
(* A built client has the timeout of the user's http.Client, if there is   *)
(* one, else one it was given itself or the default; the last one it was   *)
(* given, if none comes after a layer.                                     *)
(***************************************************************************)
THEOREM TimeoutIsAskedForHolds == Spec => []TimeoutIsAskedFor
BY SetupInvariance, AskedFollows, PTL

(***************************************************************************)
(* The layers of every http.Client, own or shared, are those that its      *)
(* clients asked for, in order.                                            *)
(***************************************************************************)
THEOREM StackIsInOrderHolds == Spec => []StackIsInOrder
BY SetupInvariance, OrderFollows, PTL

-----------------------------------------------------------------------------
(***************************************************************************)
(* The candidates in the order of the walk.                                *)
(***************************************************************************)

\* Positions in a table of rows of length w: quotient and remainder.
LEMMA DivMod ==
  ASSUME NEW x \in Nat, NEW w \in Nat, 0 < w
  PROVE  /\ x \div w \in Nat /\ x % w \in Nat /\ x % w < w
         /\ x = (x \div w) * w + (x % w)
OBVIOUS

\* A position inside the table lies in one of its rows.
LEMMA RowBound ==
  ASSUME NEW x \in Nat, NEW w \in Nat, 0 < w, NEW h \in Nat, x < h * w
  PROVE  x \div w < h
<1> DEFINE q == x \div w
<1>1. q \in Nat /\ q * w <= x
  BY DivMod
<1> HIDE DEF q
<1>2. q < h
  BY <1>1
<1> QED BY <1>2 DEF q

\* A later position lies in a later row, or further on in the same one.
LEMMA RowOrder ==
  ASSUME NEW x \in Nat, NEW y \in Nat, NEW w \in Nat, 0 < w, x < y
  PROVE  \/ x \div w < y \div w
         \/ x \div w = y \div w /\ x % w < y % w
<1> DEFINE q == x \div w
           r == x % w
           t == y \div w
           u == y % w
<1>1. /\ q \in Nat /\ r \in Nat /\ x = q * w + r
      /\ t \in Nat /\ u \in Nat /\ u < w /\ y = t * w + u
  BY DivMod
<1> HIDE DEF q, r, t, u
<1>2. CASE t < q
  <2>1. PICK d \in Nat : q = t + 1 + d
    BY <1>1, <1>2, q - t - 1 \in Nat
  <2>2. q * w = t * w + w + d * w /\ d * w >= 0 /\ t * w \in Nat /\ d * w \in Nat
    BY <1>1, <2>1
  <2> QED BY <1>1, <2>2
<1>3. CASE q = t
  <2>1. q * w = t * w /\ t * w \in Nat
    BY <1>1, <1>3
  <2>2. r < u
    BY <1>1, <2>1
  <2> QED BY <1>3, <2>2 DEF q, r, t, u
<1>4. CASE q < t
  BY <1>4 DEF q, t
<1> QED BY <1>1, <1>2, <1>3, <1>4

\* Every place of the table is a position.
LEMMA RowPlace ==
  ASSUME NEW i \in Nat, NEW m \in Nat, NEW w \in Nat, m < w
  PROVE  /\ (i * w + m) \div w = i
         /\ (i * w + m) % w = m
<1> DEFINE x == i * w + m
           q == x \div w
           r == x % w
<1>1. x \in Nat /\ i * w \in Nat
  OBVIOUS
<1>2. q \in Nat /\ r \in Nat /\ r < w /\ x = q * w + r
  BY <1>1, DivMod
<1> HIDE DEF q, r
<1>3. q * w + r = i * w + m /\ q * w \in Nat
  BY <1>2
<1>4. ~(q < i)
  <2> SUFFICES ASSUME q < i PROVE FALSE
    OBVIOUS
  <2>1. PICK d \in Nat : i = q + 1 + d
    BY <1>2, i - q - 1 \in Nat
  <2>2. i * w = q * w + w + d * w /\ d * w \in Nat
    BY <1>2, <2>1
  <2> QED BY <1>2, <1>3, <2>2
<1>5. ~(i < q)
  <2> SUFFICES ASSUME i < q PROVE FALSE
    OBVIOUS
  <2>1. PICK d \in Nat : q = i + 1 + d
    BY <1>2, q - i - 1 \in Nat
  <2>2. q * w = i * w + w + d * w /\ d * w \in Nat
    BY <1>2, <2>1
  <2> QED BY <1>1, <1>2, <1>3, <2>2
<1>6. q = i
  BY <1>2, <1>4, <1>5
<1>7. r = m
  BY <1>2, <1>3, <1>6
<1> QED BY <1>6, <1>7 DEF q, r

\* The same, counted from one: a table of h rows ...
LEMMA TableBound ==
  ASSUME NEW h \in Nat, NEW w \in Nat, 0 < w, NEW n \in 1 .. (h * w)
  PROVE  /\ ((n - 1) \div w) + 1 \in 1 .. h
         /\ ((n - 1) % w) + 1 \in 1 .. w
<1> DEFINE q == (n - 1) \div w
           r == (n - 1) % w
<1>1. h * w \in Nat /\ n - 1 \in Nat /\ n - 1 < h * w
  OBVIOUS
<1>2. q \in Nat /\ r \in Nat /\ r < w /\ q < h
  BY <1>1, DivMod, RowBound
<1> HIDE DEF q, r
<1>3. q + 1 \in 1 .. h /\ r + 1 \in 1 .. w
  BY <1>2
<1> QED BY <1>3 DEF q, r

\* ... with a position for each of its places ...
HasPlace(h, w, i, m) ==
  \E n \in 1 .. (h * w) : ((n - 1) \div w) + 1 = i /\ ((n - 1) % w) + 1 = m

LEMMA TablePlace ==
  ASSUME NEW h \in Nat, NEW w \in Nat, NEW i \in 1 .. h, NEW m \in 1 .. w
  PROVE  HasPlace(h, w, i, m)
<1>1. PICK j \in Nat : i = j + 1
  BY i - 1 \in Nat
<1>2. PICK k \in Nat : m = k + 1
  BY m - 1 \in Nat
<1>3. PICK d \in Nat : h = i + d
  BY h - i \in Nat
<1> DEFINE x == j * w + k
<1>4. /\ x \in Nat /\ x \div w = j /\ x % w = k
  BY <1>2, RowPlace
<1>5. /\ h * w = j * w + w + d * w
      /\ j * w \in Nat /\ d * w \in Nat
  BY <1>1, <1>3
<1>6. x + 1 <= h * w
  BY <1>2, <1>5
<1> HIDE DEF x
<1>7. x + 1 \in 1 .. (h * w) /\ (x + 1) - 1 = x
  BY <1>4, <1>6
<1> QED BY <1>1, <1>2, <1>4, <1>7 DEF HasPlace

\* ... in the order of the rows.
LEMMA TableOrder ==
  ASSUME NEW x \in Nat \ {0}, NEW y \in Nat \ {0}, NEW w \in Nat, 0 < w, x < y
  PROVE  \/ ((x - 1) \div w) + 1 < ((y - 1) \div w) + 1
         \/ /\ ((x - 1) \div w) + 1 = ((y - 1) \div w) + 1
            /\ ((x - 1) % w) + 1 < ((y - 1) % w) + 1
<1> DEFINE a == (x - 1) \div w
           b == (x - 1) % w
           c == (y - 1) \div w
           d == (y - 1) % w
<1>1. x - 1 \in Nat /\ y - 1 \in Nat /\ x - 1 < y - 1
  OBVIOUS
<1>2. a \in Nat /\ b \in Nat /\ c \in Nat /\ d \in Nat
  BY <1>1, DivMod
<1>3. a < c \/ (a = c /\ b < d)
  BY <1>1, RowOrder
<1> HIDE DEF a, b, c, d
<1>4. a + 1 < c + 1 \/ (a + 1 = c + 1 /\ b + 1 < d + 1)
  BY <1>2, <1>3
<1> QED BY <1>4 DEF a, b, c, d

\* A configuration as the walk uses it: resolved, so that no list is empty.
NonEmpty(q) == Len(q) \in Nat \ {0} /\ DOMAIN q = 1 .. Len(q)
Resolved(cfg) == NonEmpty(cfg.schemes) /\ NonEmpty(cfg.paths)

\* The defaults leave no list empty.
LEMMA ResolveType ==
  ASSUME NEW cfg \in P!ProbeConfig
  PROVE  Resolved(P!Resolve(cfg))
<1>1. cfg.schemes \in Seq(STRING) /\ cfg.paths \in Seq(STRING)
  BY DEF P!ProbeConfig
<1>2. ASSUME NEW q \in Seq(STRING), NEW d, NonEmpty(d)
      PROVE  NonEmpty(P!OrDefault(q, d))
  BY <1>2 DEF P!OrDefault, NonEmpty
<1>3. NonEmpty(<<"https", "http">>) /\ NonEmpty(<<"/api/v2", "/v2", "">>)
  BY DEF NonEmpty
<1>4. /\ P!Resolve(cfg).schemes = P!OrDefault(cfg.schemes, <<"https", "http">>)
      /\ P!Resolve(cfg).paths = P!OrDefault(cfg.paths, <<"/api/v2", "/v2", "">>)
  BY DEF P!Resolve
<1> QED BY <1>1, <1>2, <1>3, <1>4 DEF Resolved

\* The candidate that pairs the i-th scheme and the m-th path.
Pair(cfg, i, m) == [scheme |-> cfg.schemes[i], prefix |-> cfg.paths[m]]

\* Where the n-th candidate comes from.
Row(cfg, n) == ((n - 1) \div Len(cfg.paths)) + 1
Column(cfg, n) == ((n - 1) % Len(cfg.paths)) + 1

\* The n-th candidate pairs the scheme of its row and the path of its column.
LEMMA CandidatePlace ==
  ASSUME NEW cfg, Resolved(cfg), NEW n \in 1 .. P!Candidates(cfg)
  PROVE  /\ Row(cfg, n) \in 1 .. Len(cfg.schemes)
         /\ Column(cfg, n) \in 1 .. Len(cfg.paths)
         /\ P!Candidate(cfg, n) = Pair(cfg, Row(cfg, n), Column(cfg, n))
<1>1. /\ Len(cfg.schemes) \in Nat /\ Len(cfg.paths) \in Nat
      /\ 0 < Len(cfg.schemes) /\ 0 < Len(cfg.paths)
  BY DEF Resolved, NonEmpty
<1>2. n \in 1 .. (Len(cfg.schemes) * Len(cfg.paths))
  BY DEF P!Candidates
<1> QED BY <1>1, <1>2, TableBound DEF Row, Column, P!Candidate, Pair

\* The walk meets every pair of a scheme and a path.
LEMMA CandidateOfPair ==
  ASSUME NEW cfg, Resolved(cfg),
         NEW i \in 1 .. Len(cfg.schemes), NEW m \in 1 .. Len(cfg.paths)
  PROVE  \E n \in 1 .. P!Candidates(cfg) : P!Candidate(cfg, n) = Pair(cfg, i, m)
<1> DEFINE h == Len(cfg.schemes)
           w == Len(cfg.paths)
<1>1. h \in Nat /\ w \in Nat /\ i \in 1 .. h /\ m \in 1 .. w
  BY DEF Resolved, NonEmpty
<1> HIDE DEF h, w
<1>2. HasPlace(h, w, i, m)
  BY <1>1, TablePlace
<1>4. PICK n \in 1 .. (h * w) : ((n - 1) \div w) + 1 = i /\ ((n - 1) % w) + 1 = m
  BY <1>2 DEF HasPlace
<1> USE DEF h, w
<1>3. P!Candidate(cfg, n) = Pair(cfg, i, m)
  BY <1>4 DEF P!Candidate, Pair
<1> QED BY <1>4, <1>3 DEF P!Candidates

\* A later candidate comes later in the order of the configuration.
LEMMA CandidateOrder ==
  ASSUME Resolved(walk.cfg), NEW x \in 1 .. P!Candidates(walk.cfg),
         NEW y \in 1 .. P!Candidates(walk.cfg), x < y
  PROVE  P!Precedes(P!Candidate(walk.cfg, x), P!Candidate(walk.cfg, y))
<1> DEFINE cfg == walk.cfg
           w == Len(cfg.paths)
<1>1. /\ w \in Nat /\ 0 < w /\ Len(cfg.schemes) \in Nat
      /\ DOMAIN cfg.schemes = 1 .. Len(cfg.schemes) /\ DOMAIN cfg.paths = 1 .. w
  BY DEF Resolved, NonEmpty
<1>2. /\ Row(cfg, x) \in DOMAIN cfg.schemes /\ Row(cfg, y) \in DOMAIN cfg.schemes
      /\ Column(cfg, x) \in DOMAIN cfg.paths /\ Column(cfg, y) \in DOMAIN cfg.paths
      /\ P!Candidate(cfg, x) = Pair(cfg, Row(cfg, x), Column(cfg, x))
      /\ P!Candidate(cfg, y) = Pair(cfg, Row(cfg, y), Column(cfg, y))
  BY <1>1, CandidatePlace
<1>3. x \in Nat \ {0} /\ y \in Nat \ {0}
  <2>1. P!Candidates(cfg) \in Int
    BY <1>1 DEF P!Candidates
  <2> QED BY <2>1
<1>6. \/ Row(cfg, x) < Row(cfg, y)
      \/ Row(cfg, x) = Row(cfg, y) /\ Column(cfg, x) < Column(cfg, y)
  BY <1>1, <1>3, TableOrder DEF Row, Column
<1> HIDE DEF cfg, w
<1>7. \E i, j \in DOMAIN cfg.schemes, m, n \in DOMAIN cfg.paths :
        /\ P!Candidate(cfg, x) = [scheme |-> cfg.schemes[i], prefix |-> cfg.paths[m]]
        /\ P!Candidate(cfg, y) = [scheme |-> cfg.schemes[j], prefix |-> cfg.paths[n]]
        /\ i < j \/ (i = j /\ m < n)
  BY <1>2, <1>6 DEF Pair
<1> QED BY <1>7 DEF P!Precedes, cfg

-----------------------------------------------------------------------------
(***************************************************************************)
(* The inductive invariant of the walk.  It does not say which layers are  *)
(* ahead of an attempt: whatever answers, the report is the same.          *)
(***************************************************************************)

\* The stages of an attempt that is under way.
Trials == {"attempt", "joined", "stranded", "hung"}

WalkType ==
  /\ walk \in [stage : {"idle", "walking", "done"} \cup Trials,
               cfg : {P!ZeroConfig} \cup {P!Resolve(p[2]) : p \in Probes},
               ctx : {"live", "ended"}]
  /\ walk.stage # "idle" => walk.cfg \in {P!Resolve(p[2]) : p \in Probes}
  /\ result \in [reachable : BOOLEAN,
                 base : {<<>>} \cup
                   {<<P!Candidate(walk.cfg, n)>> :
                      n \in 1 .. P!Candidates(walk.cfg)},
                 host : {"host", "https:", NoHost},
                 status : Statuses \cup {0},
                 attempts : Nat,
                 err : {"none", "empty", "transport", "status"}]

\* The candidates tried are the first ones, in order: one for each attempt.
TriedInOrder ==
  tried = [n \in 1 .. result.attempts |-> P!Candidate(walk.cfg, n)]

\* Until it is over, a walk has no answer, and its attempts are counted.
WalkUnderWay ==
  /\ walk.stage = "idle" => result.attempts = 0 /\ result.host = NoHost
  /\ walk.stage = "walking" => result.attempts < P!Candidates(walk.cfg)
  /\ walk.stage \in Trials =>
       result.attempts \in 1 .. P!Candidates(walk.cfg)
  /\ walk.stage \in {"walking"} \cup Trials => result.host # NoHost
  /\ walk.stage # "done" =>
       ~result.reachable /\ answered = {} /\ result.base = <<>>

\* A walk that is over ended at its only answer, or after the last candidate.
WalkOver ==
  walk.stage = "done" =>
    IF result.reachable
    THEN /\ result.attempts \in 1 .. P!Candidates(walk.cfg)
         /\ result.base = <<tried[result.attempts]>>
         /\ answered = {tried[result.attempts]}
         /\ result.status < 500 /\ result.err = "none" /\ result.host # NoHost
    ELSE /\ IF result.host = NoHost THEN result.attempts = 0
            ELSE result.attempts = P!Candidates(walk.cfg)
         /\ answered = {} /\ result.base = <<>> /\ result.err # "none"

WalkInv == WalkType /\ TriedInOrder /\ WalkUnderWay /\ WalkOver

\* The configurations that a walk can have, and how many candidates they name.
WalkConfigs == {P!Resolve(p[2]) : p \in Probes}

\* There is always something to try.
LEMMA ConfigFacts ==
  ASSUME NEW cfg \in WalkConfigs
  PROVE  Resolved(cfg) /\ P!Candidates(cfg) \in Nat \ {0}
<1>1. PICK p \in Probes : cfg = P!Resolve(p[2])
  BY DEF WalkConfigs
<1>2. p[2] \in P!ProbeConfig
  BY ProbeAssumption
<1>3. Resolved(cfg)
  BY <1>1, <1>2, ResolveType
<1> DEFINE h == Len(cfg.schemes)
           w == Len(cfg.paths)
<1>4. h \in Nat \ {0} /\ w \in Nat \ {0}
  BY <1>3 DEF Resolved, NonEmpty
<1> HIDE DEF h, w
<1>5. h * w \in Nat /\ h * w # 0
  BY <1>4
<1> QED BY <1>3, <1>5 DEF P!Candidates, h, w

\* Nothing is tried at first.
LEMMA InitWalk == P!ProbeInit => WalkInv
<1> SUFFICES ASSUME P!ProbeInit PROVE WalkInv
  OBVIOUS
<1>1. /\ walk = [stage |-> "idle", cfg |-> P!ZeroConfig, ctx |-> "live"]
      /\ result = [reachable |-> FALSE, base |-> <<>>, host |-> NoHost, status |-> 0,
                   attempts |-> 0, err |-> "none"]
      /\ tried = <<>> /\ answered = {}
  BY DEF P!ProbeInit, P!NoResult
<1> QED BY <1>1 DEF WalkInv, WalkType, TriedInOrder, WalkUnderWay, WalkOver, Trials

\* A target without a host ends the walk at once; any other starts it.
LEMMA BeginWalk ==
  ASSUME WalkInv, NEW p \in Probes, P!Begin(p[1], p[2])
  PROVE  WalkInv'
<1> DEFINE cfg == P!Resolve(p[2])
           host == P!HostOf(p[1])
<1>1. /\ walk.stage = "idle" /\ result.attempts = 0 /\ result.host = NoHost
      /\ ~result.reachable
      /\ answered = {} /\ result.base = <<>>
      /\ walk.ctx \in {"live", "ended"} /\ WalkType /\ TriedInOrder
  BY DEF WalkInv, WalkType, WalkUnderWay, P!Begin
<1>2. cfg \in WalkConfigs
  BY DEF WalkConfigs
<1>3. P!Candidates(cfg) \in Nat \ {0}
  BY <1>2, ConfigFacts
<1>4. host \in {"host", "https:", NoHost}
  <2>1. p[1] \in P!Target
    BY ProbeAssumption
  <2> QED BY <2>1 DEF P!Target, P!HostOf
<1>5. /\ walk' = [walk EXCEPT !.stage = IF host = NoHost THEN "done" ELSE "walking",
                              !.cfg = cfg]
      /\ result' = IF host = NoHost THEN [result EXCEPT !.err = "empty"]
                   ELSE [result EXCEPT !.host = host]
      /\ UNCHANGED <<tried, answered>>
  BY DEF P!Begin
<1> HIDE DEF cfg, host
<1>6. /\ walk'.stage = IF host = NoHost THEN "done" ELSE "walking"
      /\ walk'.cfg = cfg
      /\ result' = [reachable |-> FALSE, base |-> <<>>, host |-> host,
                   status |-> result.status, attempts |-> 0,
                   err |-> IF host = NoHost THEN "empty" ELSE result.err]
  BY <1>1, <1>5 DEF WalkType
<1>7. WalkType'
  <2>1. walk'.cfg \in WalkConfigs
    BY <1>2, <1>6
  <2>2. walk' = [stage |-> IF host = NoHost THEN "done" ELSE "walking",
                 cfg |-> cfg, ctx |-> walk.ctx]
    BY <1>1, <1>5 DEF WalkType
  <2>3. /\ result'.reachable \in BOOLEAN /\ result'.base = <<>>
        /\ result'.host \in {"host", "https:", NoHost}
        /\ result'.attempts \in Nat
        /\ result'.status \in Statuses \cup {0}
        /\ result'.err \in {"none", "empty", "transport", "status"}
    BY <1>1, <1>4, <1>6 DEF WalkType
  <2>4. result' = [reachable |-> result'.reachable, base |-> <<>>,
                   host |-> result'.host, status |-> result'.status,
                   attempts |-> result'.attempts, err |-> result'.err]
    BY <1>6
  <2> QED BY <1>1, <2>1, <2>2, <2>3, <2>4 DEF WalkType, WalkConfigs, Trials
<1>8. TriedInOrder'
  BY <1>1, <1>5, <1>6 DEF TriedInOrder
<1>9. WalkUnderWay' /\ WalkOver'
  BY <1>1, <1>3, <1>5, <1>6 DEF WalkUnderWay, WalkOver, Trials
<1> QED BY <1>7, <1>8, <1>9 DEF WalkInv

\* What holds of a walk that has begun.
LEMMA WalkFacts ==
  ASSUME WalkInv, walk.stage # "idle"
  PROVE  /\ walk.cfg \in WalkConfigs /\ Resolved(walk.cfg)
         /\ P!Candidates(walk.cfg) \in Nat \ {0}
         /\ result.attempts \in Nat
         /\ WalkType /\ TriedInOrder /\ WalkUnderWay /\ WalkOver
<1>1. walk.cfg \in WalkConfigs /\ result.attempts \in Nat
  BY DEF WalkInv, WalkType, WalkConfigs
<1> QED BY <1>1, ConfigFacts DEF WalkInv

\* An attempt is of the candidate that comes next.
LEMMA AttemptWalk == ASSUME WalkInv, P!Attempt PROVE WalkInv'
<1> DEFINE cfg == walk.cfg
           n == result.attempts
<1>1. /\ walk.stage = "walking" /\ n < P!Candidates(cfg) /\ result.host # NoHost
      /\ ~result.reachable /\ answered = {} /\ result.base = <<>>
      /\ n \in Nat /\ P!Candidates(cfg) \in Nat \ {0}
      /\ WalkType /\ TriedInOrder
  BY WalkFacts DEF WalkUnderWay, P!Attempt
<1>2. /\ walk' = [walk EXCEPT !.stage = "attempt"]
      /\ result' = [result EXCEPT !.attempts = @ + 1]
      /\ tried' = Append(tried, P!Candidate(cfg, n + 1))
      /\ answered' = answered
  BY DEF P!Attempt
<1>3. /\ walk'.stage = "attempt" /\ walk'.cfg = cfg
      /\ result'.attempts = n + 1 /\ result'.host = result.host
      /\ result'.reachable = result.reachable /\ result'.base = result.base
  BY <1>1, <1>2 DEF WalkType
<1>4. WalkType'
  BY <1>1, <1>2, <1>3 DEF WalkType, Trials
<1>5. TriedInOrder'
  <2> HIDE DEF n, cfg
  <2>1. tried = [k \in 1 .. n |-> P!Candidate(cfg, k)]
    BY <1>1 DEF TriedInOrder, n, cfg
  <2>2. Append([k \in 1 .. n |-> P!Candidate(cfg, k)], P!Candidate(cfg, n + 1)) =
          [k \in 1 .. n + 1 |-> P!Candidate(cfg, k)]
    BY <1>1
  <2>3. tried' = [k \in 1 .. n + 1 |-> P!Candidate(cfg, k)]
    BY <1>2, <2>1, <2>2
  <2> QED BY <2>3, <1>3 DEF TriedInOrder
<1>6. WalkUnderWay' /\ WalkOver'
  BY <1>1, <1>2, <1>3 DEF WalkUnderWay, WalkOver, Trials
<1> QED BY <1>4, <1>5, <1>6 DEF WalkInv

\* What a step leaves of a walk that goes on, or is over without an answer.
LEMMA GoOnWalk ==
  ASSUME WalkInv, walk.stage \in {"attempt", "joined"}, NEW e \in {"transport", "status"},
         result' = [result EXCEPT !.err = e], P!GoOn, UNCHANGED <<tried, answered>>
  PROVE  WalkInv'
<1> DEFINE n == result.attempts
           c == P!Candidates(walk.cfg)
<1>1. /\ n \in 1 .. c /\ c \in Nat \ {0} /\ n \in Nat
      /\ result.host # NoHost /\ ~result.reachable
      /\ answered = {} /\ result.base = <<>>
      /\ WalkType /\ TriedInOrder
  BY WalkFacts DEF WalkUnderWay, Trials
<1>2. walk' = [walk EXCEPT !.stage = IF n < c THEN "walking" ELSE "done"]
  BY DEF P!GoOn
<1>3. /\ walk'.stage = IF n < c THEN "walking" ELSE "done"
      /\ walk'.cfg = walk.cfg
      /\ result'.attempts = n /\ result'.host = result.host /\ result'.err = e
      /\ result'.reachable = result.reachable /\ result'.base = result.base
  BY <1>1, <1>2 DEF WalkType
<1>4. WalkType'
  BY <1>1, <1>2, <1>3 DEF WalkType, Trials
<1>5. TriedInOrder'
  BY <1>1, <1>3 DEF TriedInOrder
<1> HIDE DEF n, c
<1>6. WalkUnderWay' /\ WalkOver'
  BY <1>1, <1>3 DEF WalkUnderWay, WalkOver, n, c
<1> QED BY <1>4, <1>5, <1>6 DEF WalkInv

\* An answer below 500 ends the walk; any other lets it go on.
LEMMA TakeWalk ==
  ASSUME WalkInv, walk.stage \in {"attempt", "joined"}, NEW s \in Statuses, P!Take(s)
  PROVE  WalkInv'
<1> DEFINE n == result.attempts
           c == P!Candidates(walk.cfg)
<1>1. /\ n \in 1 .. c /\ c \in Nat \ {0} /\ n \in Nat
      /\ result.host # NoHost /\ ~result.reachable
      /\ answered = {} /\ result.base = <<>>
      /\ WalkType /\ TriedInOrder
  BY WalkFacts DEF WalkUnderWay, Trials
<1>2. CASE ~(s < 500)
  <2>1. /\ result' = [result EXCEPT !.err = "status"] /\ P!GoOn
        /\ UNCHANGED <<tried, answered>>
    BY <1>2 DEF P!Take, P!Acceptable
  <2> QED BY <2>1, <1>1, GoOnWalk
<1>3. CASE s < 500
  <2>1. Len(tried) = n /\ tried[n] = P!Candidate(walk.cfg, n)
    <3> DEFINE cfg == walk.cfg
    <3>1. tried = [k \in 1 .. n |-> P!Candidate(cfg, k)]
      BY <1>1 DEF TriedInOrder
    <3> HIDE DEF n, cfg
    <3>2. Len(tried) = n /\ tried[n] = P!Candidate(cfg, n)
      BY <3>1, <1>1
    <3> QED BY <3>2 DEF cfg
  <2>2. /\ result' = [reachable |-> TRUE, host |-> result.host,
                      base |-> <<P!Candidate(walk.cfg, n)>>,
                      status |-> s, attempts |-> n, err |-> "none"]
        /\ walk' = [walk EXCEPT !.stage = "done"]
        /\ answered' = {tried[n]}
        /\ tried' = tried
    BY <1>1, <1>3, <2>1 DEF P!Take, P!Acceptable
  <2>3. walk'.stage = "done" /\ walk'.cfg = walk.cfg
    BY <1>1, <2>2 DEF WalkType
  <2>4. WalkType'
    <3>1. <<P!Candidate(walk.cfg, n)>> \in
            {<<P!Candidate(walk.cfg, k)>> : k \in 1 .. P!Candidates(walk.cfg)}
      BY <1>1
    <3> QED BY <1>1, <2>2, <2>3, <3>1 DEF WalkType
  <2>5. TriedInOrder'
    BY <1>1, <2>2, <2>3 DEF TriedInOrder
  <2>6. WalkUnderWay' /\ WalkOver'
    BY <1>1, <1>3, <2>1, <2>2, <2>3 DEF WalkUnderWay, WalkOver, Trials
  <2> QED BY <2>4, <2>5, <2>6 DEF WalkInv
<1> QED BY <1>2, <1>3

\* The other steps of a walk end it nowhere.
LEMMA OtherWalk ==
  ASSUME WalkInv, P!Hangs \/ P!CtxEnds \/ P!Redials \/ (\E i \in ahead : P!Join(i))
  PROVE  WalkInv'
<1>1. WalkType /\ TriedInOrder /\ WalkUnderWay /\ WalkOver
  BY DEF WalkInv
<1>2. UNCHANGED <<result, tried, answered>>
  BY DEF P!Hangs, P!CtxEnds, P!Redials, P!Join
<1>3. \/ \E stage \in Trials : /\ walk.stage \in Trials
                               /\ walk' = [walk EXCEPT !.stage = stage]
      \/ walk' = [walk EXCEPT !.ctx = "ended"]
  BY DEF P!Hangs, P!CtxEnds, P!Redials, P!Join, Trials
<1>4. /\ walk'.cfg = walk.cfg
      /\ walk'.stage = walk.stage \/ (walk.stage \in Trials /\ walk'.stage \in Trials)
  BY <1>1, <1>3 DEF WalkType
<1>5. WalkType'
  BY <1>1, <1>2, <1>3, <1>4 DEF WalkType, Trials
<1>6. "done" \notin Trials /\ "idle" \notin Trials /\ "walking" \notin Trials
  BY DEF Trials
<1> QED BY <1>1, <1>2, <1>4, <1>5, <1>6
        DEF WalkInv, TriedInOrder, WalkUnderWay, WalkOver

\* The invariant holds in every reachable state: a construction starts no walk.
THEOREM WalkInvariance == Spec => []WalkInv
<1>1. Init => WalkInv
  BY InitWalk DEF Init
<1>2. WalkInv /\ [Next]_vars => WalkInv'
  <2> SUFFICES ASSUME WalkInv, [Next]_vars PROVE WalkInv'
    OBVIOUS
  <2>1. CASE UNCHANGED walkVars
    BY <2>1 DEF walkVars, WalkInv, WalkType, TriedInOrder, WalkUnderWay, WalkOver
  <2>2. ASSUME NEW c \in Clients, Begin(c) PROVE WalkInv'
    BY <2>2, BeginWalk DEF Begin
  <2>3. CASE Attempt
    BY <2>3, AttemptWalk DEF Attempt
  <2>4. CASE P!Fails
    <3>1. /\ walk.stage = "attempt"
          /\ result' = [result EXCEPT !.err = "transport"] /\ P!GoOn
          /\ UNCHANGED <<tried, answered>>
      BY <2>4 DEF P!Fails
    <3> QED BY <3>1, GoOnWalk
  <2>5. ASSUME NEW s \in Statuses, P!Answers(s) \/ P!Shares(s) PROVE WalkInv'
    BY <2>5, TakeWalk DEF P!Answers, P!Shares
  <2>6. CASE P!Hangs \/ P!Redials \/ \E i \in ahead : P!Join(i)
    BY <2>6, OtherWalk
  <2>7. CASE Trying \/ Sharing
    BY <2>4, <2>5, <2>6, <2>7 DEF Trying, Sharing, P!Trying, P!Sharing
  <2>8. CASE CtxEnds
    BY <2>8, OtherWalk DEF CtxEnds
  <2> QED BY <2>1, <2>2, <2>3, <2>7, <2>8 DEF Next, Setup, vars
<1> QED BY <1>1, <1>2, PTL DEF Spec

(***************************************************************************)
(* A probe that reports a base URL has had an answer below 500 from it and *)
(* from nothing before it, having tried what comes before once and in      *)
(* order; one that reports none has tried every candidate, and says why.   *)
(***************************************************************************)
THEOREM FirstAnswerWinsHolds == Spec => []FirstAnswerWins
<1>1. WalkInv => FirstAnswerWins
  <2> DEFINE cfg == walk.cfg
             n == result.attempts
             c == P!Candidates(cfg)
             all == {[scheme |-> x, prefix |-> y] :
                       x \in P!Range(cfg.schemes), y \in P!Range(cfg.paths)}
  <2> SUFFICES ASSUME WalkInv, walk.stage = "done"
               PROVE  /\ result.attempts = Len(tried)
                      /\ \A i, j \in DOMAIN tried :
                           i < j => P!Precedes(tried[i], tried[j])
                      /\ IF result.reachable
                         THEN /\ result.base = <<tried[Len(tried)]>>
                              /\ answered = {tried[Len(tried)]}
                              /\ \A a \in all \ P!Range(tried) :
                                   P!Precedes(tried[Len(tried)], a)
                              /\ result.status < 500 /\ result.err = "none"
                              /\ result.host # NoHost
                         ELSE /\ answered = {}
                              /\ result.host # NoHost => P!Range(tried) = all
                              /\ result.base = <<>> /\ result.err # "none"
    BY DEF FirstAnswerWins, P!FirstAnswerWins
  <2>1. /\ Resolved(cfg) /\ c \in Nat \ {0} /\ n \in Nat /\ n <= c
        /\ WalkOver /\ TriedInOrder
    BY WalkFacts DEF WalkOver
  <2>2. /\ DOMAIN tried = 1 .. n /\ Len(tried) = n
        /\ \A k \in 1 .. n : tried[k] = P!Candidate(cfg, k)
    BY <2>1 DEF TriedInOrder
  <2>3. ASSUME NEW i \in 1 .. n, NEW j \in 1 .. c, i < j
        PROVE  P!Precedes(P!Candidate(cfg, i), P!Candidate(cfg, j))
    <3>1. i \in 1 .. c
      BY <2>1
    <3> QED BY <3>1, <2>1, <2>3, CandidateOrder
  <2>4. \A i, j \in DOMAIN tried : i < j => P!Precedes(tried[i], tried[j])
    BY <2>1, <2>2, <2>3
  <2>5. all = {P!Candidate(cfg, k) : k \in 1 .. c}
    <3>1. /\ DOMAIN cfg.schemes = 1 .. Len(cfg.schemes)
          /\ DOMAIN cfg.paths = 1 .. Len(cfg.paths)
      BY <2>1 DEF Resolved, NonEmpty
    <3>2. ASSUME NEW k \in 1 .. c PROVE P!Candidate(cfg, k) \in all
      <4>1. /\ Row(cfg, k) \in DOMAIN cfg.schemes
            /\ Column(cfg, k) \in DOMAIN cfg.paths
            /\ P!Candidate(cfg, k) = Pair(cfg, Row(cfg, k), Column(cfg, k))
        BY <2>1, <3>1, CandidatePlace
      <4>2. /\ cfg.schemes[Row(cfg, k)] \in P!Range(cfg.schemes)
            /\ cfg.paths[Column(cfg, k)] \in P!Range(cfg.paths)
        BY <4>1 DEF P!Range
      <4> QED BY <4>1, <4>2 DEF Pair
    <3>3. ASSUME NEW a \in all PROVE \E k \in 1 .. c : P!Candidate(cfg, k) = a
      <4>1. PICK i \in 1 .. Len(cfg.schemes), m \in 1 .. Len(cfg.paths) :
              a = Pair(cfg, i, m)
        BY <3>1 DEF P!Range, Pair
      <4> QED BY <4>1, <2>1, CandidateOfPair
    <3> HIDE DEF all, c, cfg
    <3> QED BY <3>2, <3>3
  <2>6. P!Range(tried) = {P!Candidate(cfg, k) : k \in 1 .. n}
    BY <2>2 DEF P!Range
  <2>7. CASE result.reachable
    <3>1. /\ n \in 1 .. c /\ result.base = <<tried[n]>> /\ answered = {tried[n]}
          /\ result.status < 500 /\ result.err = "none" /\ result.host # NoHost
      BY <2>1, <2>7 DEF WalkOver
    <3>2. \A a \in all \ P!Range(tried) : P!Precedes(tried[n], a)
      <4> TAKE a \in all \ P!Range(tried)
      <4>1. PICK k \in 1 .. c : a = P!Candidate(cfg, k)
        BY <2>5
      <4>2. k \notin 1 .. n
        BY <4>1, <2>6
      <4>3. n < k
        BY <4>2, <2>1
      <4> QED BY <4>1, <4>3, <3>1, <2>1, <2>2, <2>3
    <3> QED BY <2>2, <2>4, <2>7, <3>1, <3>2
  <2>8. CASE ~result.reachable
    <3>1. /\ answered = {} /\ result.base = <<>> /\ result.err # "none"
          /\ result.host # NoHost => n = c
      BY <2>1, <2>8 DEF WalkOver
    <3> QED BY <2>2, <2>4, <2>5, <2>6, <2>8, <3>1
  <2> QED BY <2>7, <2>8
<1> QED BY <1>1, WalkInvariance, PTL
=============================================================================
