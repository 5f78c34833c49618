-------------------------- MODULE ClientSetup_proofs --------------------------
(***************************************************************************)
(* Proofs about ClientSetup, for any clients, http.Clients and options and *)
(* any number of options: an invariant of SetupStep that says which        *)
(* http.Client a client points at, which timeout it has, and that every    *)
(* stack is in order.  What the options given so far amount to depends on  *)
(* the log of them alone, so that the lemmas about it are about any log.   *)
(***************************************************************************)
EXTENDS ClientSetup, FiniteSetTheorems, TLAPS

-----------------------------------------------------------------------------
(***************************************************************************)
(* Positions: the greatest of them, and those in a given place.            *)
(***************************************************************************)

\* The order of the naturals, as a relation.
Less == {p \in Nat \X Nat : p[1] < p[2]}

\* Any naturals have a least one.
LEMMA Least ==
  ASSUME NEW T \in SUBSET Nat, T # {}
  PROVE  \E m \in T : \A n \in T : m <= n
<1>1. IsWellFoundedOn(Less, Nat)
  BY NatLessThanWellFounded DEF OpToRel, Less
<1>2. \E m \in T : \A n \in T : <<n, m>> \notin Less
  BY <1>1, WFMin
<1>3. \E m \in T : \A n \in T : ~(n < m)
  BY <1>2 DEF Less
<1> QED BY <1>3

\* S is a set of positions in a log of n entries.
Positions(S, n) == \A i \in S : i \in Nat /\ 1 <= i /\ i <= n

\* The greatest position.
LEMMA MaxFacts ==
  ASSUME NEW n \in Nat, NEW S, Positions(S, n), S # {}
  PROVE  /\ Max(S) \in S
         /\ \A y \in S : y <= Max(S)
<1> DEFINE Bounds == {k \in Nat : \A y \in S : y <= k}
<1>0. \A y \in S : y \in Nat /\ 1 <= y /\ y <= n
  BY DEF Positions
<1>1. n \in Bounds
  BY <1>0
<1>2. PICK b \in Bounds : \A k \in Bounds : b <= k
  <2> HIDE DEF Bounds
  <2>1. Bounds \in SUBSET Nat
    BY DEF Bounds
  <2> QED BY <1>1, <2>1, Least
<1>3. b \in S
  <2> SUFFICES ASSUME b \notin S PROVE FALSE
    OBVIOUS
  <2>1. PICK y \in S : TRUE
    OBVIOUS
  <2>2. b >= y /\ b \in Nat
    BY <1>2
  <2>3. b - 1 \in Nat
    BY <2>2, <1>0
  <2>4. \A x \in S : x <= b - 1
    BY <1>0, <1>2
  <2> QED BY <2>3, <2>4, <1>2
<1>4. \E x \in S : \A y \in S : x >= y
  BY <1>2, <1>3, <1>0
<1>5. Max(S) \in S /\ \A y \in S : Max(S) >= y
  BY <1>4, Zenon DEF Max
<1> QED BY <1>5, <1>0

\* The last position is the greatest.
LEMMA MaxLast ==
  ASSUME NEW n \in Nat, NEW S, Positions(S, n)
  PROVE  Max(S \cup {n + 1}) = n + 1
<1>1. Positions(S \cup {n + 1}, n + 1)
  BY DEF Positions
<1>2. /\ Max(S \cup {n + 1}) \in S \cup {n + 1}
      /\ n + 1 <= Max(S \cup {n + 1})
  BY <1>1, MaxFacts
<1> QED BY <1>2 DEF Positions

\* Sets of positions are finite.
LEMMA PositionsFinite ==
  ASSUME NEW n \in Nat, NEW S, Positions(S, n)
  PROVE  IsFiniteSet(S) /\ Cardinality(S) \in Nat
<1>1. IsFiniteSet(1 .. n)
  BY FS_Interval
<1>2. S \in SUBSET (1 .. n)
  BY DEF Positions
<1> QED BY <1>1, <1>2, FS_Subset, FS_CardinalityType

\* The positions of S up to i, and how many there are.
UpTo(S, i) == {j \in S : j <= i}
Rank(S, i) == Cardinality(UpTo(S, i))

\* Ranks are natural numbers.
LEMMA RankType ==
  ASSUME NEW n \in Nat, NEW S, Positions(S, n), NEW i \in Nat
  PROVE  Positions(UpTo(S, i), n) /\ IsFiniteSet(UpTo(S, i)) /\ Rank(S, i) \in Nat
<1>1. Positions(UpTo(S, i), n)
  BY DEF Positions, UpTo
<1> QED BY <1>1, PositionsFinite DEF Rank

\* Every rank is that of some position.
LEMMA RankIsTaken ==
  ASSUME NEW n \in Nat, NEW S, Positions(S, n), NEW k \in Nat,
         1 <= k, k <= Cardinality(S)
  PROVE  \E i \in S : Rank(S, i) = k
<1> DEFINE High == {i \in Nat : Rank(S, i) >= k}
<1>1. n \in High
  <2>1. UpTo(S, n) = S
    BY DEF UpTo, Positions
  <2> QED BY <2>1, PositionsFinite DEF Rank
<1>2. PICK i \in High : \A j \in High : i <= j
  <2> HIDE DEF High
  <2>1. High \in SUBSET Nat
    BY DEF High
  <2> QED BY <1>1, <2>1, Least
<1>3. i \in Nat /\ Rank(S, i) >= k /\ Rank(S, i) \in Nat
  BY <1>2, RankType
<1>4. i # 0
  <2>1. UpTo(S, 0) = {}
    BY DEF UpTo, Positions
  <2>2. Rank(S, 0) = 0
    BY <2>1, FS_EmptySet DEF Rank
  <2> QED BY <2>2, <1>3
<1>5. PICK p \in Nat : i = p + 1
  BY <1>3, <1>4, i - 1 \in Nat
<1>6. Rank(S, p) \in Nat /\ Rank(S, p) < k
  <2>1. p \notin High
    BY <1>2, <1>5
  <2>2. Rank(S, p) \in Nat
    BY RankType
  <2> QED BY <2>1, <2>2
<1>7. CASE i \in S
  <2>1. UpTo(S, i) = UpTo(S, p) \cup {i} /\ i \notin UpTo(S, p)
    <3>1. \A x \in S : x \in Nat /\ (x <= i <=> x <= p \/ x = i)
      BY <1>3, <1>5 DEF Positions
    <3>2. ~(i <= p)
      BY <1>5
    <3> QED BY <3>1, <3>2, <1>7 DEF UpTo
  <2>2. Rank(S, i) = Rank(S, p) + 1
    BY <2>1, RankType, FS_AddElement DEF Rank
  <2>3. Rank(S, i) = k
    BY <2>2, <1>3, <1>6
  <2> QED BY <2>3, <1>7
<1>8. CASE i \notin S
  <2>1. UpTo(S, i) = UpTo(S, p)
    BY <1>5, <1>8 DEF UpTo, Positions
  <2>2. Rank(S, i) = Rank(S, p)
    BY <2>1 DEF Rank
  <2>3. FALSE
    BY <2>2, <1>3, <1>6
  <2> QED BY <2>3
<1> QED BY <1>7, <1>8

\* Two positions do not have one rank.
LEMMA RankIsUnique ==
  ASSUME NEW n \in Nat, NEW S, Positions(S, n), NEW i \in S, NEW j \in S,
         Rank(S, i) = Rank(S, j)
  PROVE  i = j
<1>1. /\ i \in Nat /\ j \in Nat
      /\ IsFiniteSet(UpTo(S, i)) /\ IsFiniteSet(UpTo(S, j))
      /\ i \in UpTo(S, i) /\ j \in UpTo(S, j)
  <2>1. i \in Nat /\ j \in Nat
    BY DEF Positions
  <2> QED BY <2>1, RankType DEF UpTo
<1>2. CASE i <= j
  <2>1. UpTo(S, i) \in SUBSET UpTo(S, j)
    <3>1. \A x \in S : x <= i => x <= j
      BY <1>1, <1>2 DEF Positions
    <3> QED BY <3>1 DEF UpTo
  <2>2. UpTo(S, i) = UpTo(S, j)
    BY <2>1, <1>1, FS_Subset DEF Rank
  <2>3. j \in UpTo(S, i)
    BY <2>2, <1>1
  <2>4. j <= i
    BY <2>3 DEF UpTo
  <2> QED BY <2>4, <1>1, <1>2
<1>3. CASE j <= i
  <2>1. UpTo(S, j) \in SUBSET UpTo(S, i)
    <3>1. \A x \in S : x <= j => x <= i
      BY <1>1, <1>3 DEF Positions
    <3> QED BY <3>1 DEF UpTo
  <2>2. UpTo(S, i) = UpTo(S, j)
    BY <2>1, <1>1, FS_Subset DEF Rank
  <2>3. i \in UpTo(S, j)
    BY <2>2, <1>1
  <2>4. i <= j
    BY <2>3 DEF UpTo
  <2> QED BY <2>4, <1>1, <1>3
<1> QED BY <1>1, <1>2, <1>3

-----------------------------------------------------------------------------
(***************************************************************************)
(* A log of options: what its length says, and what one more entry adds.   *)
(* The operators are those of ClientSetup, of any log g.                   *)
(***************************************************************************)
Entry == [by : Clients, option : Option]

PlacesIn(g, c, kinds) ==
  {i \in DOMAIN g : g[i].by = c /\ Effective(g[i].option, kinds)}

LastIn(g, S, otherwise) == IF S = {} THEN otherwise ELSE g[Max(S)].option.arg

\* The k-th position, and what the options at these positions are given with.
At(S, k) == CHOOSE i \in S : Rank(S, i) = k
OrderIn(g, S) == [n \in 1 .. Cardinality(S) |-> g[At(S, n)].option.arg]

\* The position of the next entry.
Next1(g) == Len(g) + 1

\* The positions of a log, and of the options of given kinds in it.
LEMMA LogFacts ==
  ASSUME NEW g \in Seq(Entry)
  PROVE  /\ Len(g) \in Nat /\ Next1(g) \in Nat
         /\ DOMAIN g = 1 .. Len(g)
         /\ \A i \in DOMAIN g : i \in Nat /\ 1 <= i /\ i <= Len(g) /\ g[i] \in Entry
         /\ \A c, kinds : Positions(PlacesIn(g, c, kinds), Len(g))
BY DEF Next1, PlacesIn, Positions

\* One more entry comes last and changes none.
LEMMA LogGrows ==
  ASSUME NEW g \in Seq(Entry), NEW e \in Entry
  PROVE  /\ Append(g, e) \in Seq(Entry)
         /\ Len(Append(g, e)) = Next1(g)
         /\ DOMAIN Append(g, e) = DOMAIN g \cup {Next1(g)}
         /\ \A i \in DOMAIN g : Append(g, e)[i] = g[i]
         /\ Append(g, e)[Next1(g)] = e
         /\ Next1(g) \notin DOMAIN g
BY DEF Next1

\* An option has its place, unless it is ignored or of another kind.
LEMMA PlacesGrow ==
  ASSUME NEW g \in Seq(Entry), NEW e \in Entry, NEW c, NEW kinds
  PROVE  PlacesIn(Append(g, e), c, kinds) =
           IF e.by = c /\ Effective(e.option, kinds)
           THEN PlacesIn(g, c, kinds) \cup {Next1(g)} ELSE PlacesIn(g, c, kinds)
<1> DEFINE h == Append(g, e)
<1>1. /\ DOMAIN h = DOMAIN g \cup {Next1(g)}
      /\ \A i \in DOMAIN g : h[i] = g[i]
      /\ h[Next1(g)] = e
  BY LogGrows
<1> HIDE DEF h
<1>2. PlacesIn(h, c, kinds) =
        IF e.by = c /\ Effective(e.option, kinds)
        THEN PlacesIn(g, c, kinds) \cup {Next1(g)} ELSE PlacesIn(g, c, kinds)
  BY <1>1 DEF PlacesIn
<1> QED BY <1>2 DEF h

\* What the last option said stays, until there is another one.
LEMMA LastStays ==
  ASSUME NEW g \in Seq(Entry), NEW e \in Entry, NEW S, Positions(S, Len(g)), NEW o
  PROVE  LastIn(Append(g, e), S, o) = LastIn(g, S, o)
<1>1. CASE S # {}
  <2>1. Max(S) \in DOMAIN g
    BY <1>1, MaxFacts, LogFacts DEF Positions
  <2> QED BY <2>1, LogGrows DEF LastIn
<1>2. CASE S = {}
  BY <1>2 DEF LastIn
<1> QED BY <1>1, <1>2

\* Then it is that one's argument.
LEMMA LastIsNew ==
  ASSUME NEW g \in Seq(Entry), NEW e \in Entry, NEW S, Positions(S, Len(g)), NEW o
  PROVE  LastIn(Append(g, e), S \cup {Next1(g)}, o) = e.option.arg
<1>1. Max(S \cup {Next1(g)}) = Next1(g)
  BY MaxLast, LogFacts DEF Next1
<1> QED BY <1>1, LogGrows DEF LastIn

\* Every position of the set is the k-th for one k.
LEMMA AtFacts ==
  ASSUME NEW n \in Nat, NEW S, Positions(S, n), NEW k \in 1 .. Cardinality(S)
  PROVE  At(S, k) \in S /\ Rank(S, At(S, k)) = k
<1>1. Cardinality(S) \in Nat
  BY PositionsFinite
<1>2. k \in Nat /\ 1 <= k /\ k <= Cardinality(S)
  BY <1>1
<1>3. \E i \in S : Rank(S, i) = k
  BY <1>2, RankIsTaken
<1> QED BY <1>3, Zenon DEF At

\* A position behind the others comes last, and moves none of them.
LEMMA AtGrows ==
  ASSUME NEW n \in Nat, NEW S, Positions(S, n)
  PROVE  /\ Cardinality(S \cup {n + 1}) = Cardinality(S) + 1
         /\ At(S \cup {n + 1}, Cardinality(S) + 1) = n + 1
         /\ \A k \in 1 .. Cardinality(S) : At(S \cup {n + 1}, k) = At(S, k)
<1> DEFINE T == S \cup {n + 1}
           m == n + 1
<1>1. Positions(T, m) /\ m \in Nat /\ m \notin S
  BY DEF Positions
<1>2. Cardinality(S) \in Nat /\ IsFiniteSet(S)
  BY PositionsFinite
<1>3. Cardinality(T) = Cardinality(S) + 1
  BY <1>1, <1>2, FS_AddElement
<1>4. UpTo(T, m) = T
  BY <1>1 DEF UpTo, Positions
<1>5. \A i \in S : UpTo(T, i) = UpTo(S, i)
  <2> TAKE i \in S
  <2>1. i \in Nat /\ i <= n
    BY DEF Positions
  <2>2. ~(m <= i)
    BY <2>1
  <2> QED BY <2>2 DEF UpTo
<1> HIDE DEF T, m
<1>6. At(T, Cardinality(S) + 1) = m
  <2>1. Rank(T, m) = Cardinality(S) + 1
    BY <1>3, <1>4 DEF Rank
  <2>2. Cardinality(S) + 1 \in 1 .. Cardinality(T)
    BY <1>2, <1>3
  <2>3. /\ At(T, Cardinality(S) + 1) \in T
        /\ Rank(T, At(T, Cardinality(S) + 1)) = Cardinality(S) + 1
    BY <2>2, <1>1, AtFacts
  <2>4. m \in T
    BY DEF T, m
  <2> QED BY <2>1, <2>3, <2>4, <1>1, RankIsUnique
<1>7. ASSUME NEW k \in 1 .. Cardinality(S) PROVE At(T, k) = At(S, k)
  <2>1. At(S, k) \in S /\ Rank(S, At(S, k)) = k
    BY AtFacts
  <2>2. At(S, k) \in T /\ Rank(T, At(S, k)) = k
    BY <2>1, <1>5 DEF T, Rank
  <2>3. k \in 1 .. Cardinality(T)
    BY <1>2, <1>3
  <2>4. At(T, k) \in T /\ Rank(T, At(T, k)) = k
    BY <2>3, <1>1, AtFacts
  <2> QED BY <2>2, <2>4, <1>1, RankIsUnique
<1> QED BY <1>3, <1>6, <1>7 DEF T, m

\* So that the options at these positions keep their order, and the new one ends it.
LEMMA OrderGrows ==
  ASSUME NEW g \in Seq(Entry), NEW e \in Entry, NEW S, Positions(S, Len(g))
  PROVE  /\ OrderIn(Append(g, e), S) = OrderIn(g, S)
         /\ OrderIn(Append(g, e), S \cup {Next1(g)}) =
              Append(OrderIn(g, S), e.option.arg)
<1> DEFINE n == Cardinality(S)
           h == Append(g, e)
           T == S \cup {Next1(g)}
<1>1. n \in Nat
  BY PositionsFinite, LogFacts
<1>2. \A k \in 1 .. n : h[At(S, k)] = g[At(S, k)]
  <2> TAKE k \in 1 .. n
  <2>1. At(S, k) \in DOMAIN g
    BY AtFacts, LogFacts DEF Positions
  <2> QED BY <2>1, LogGrows
<1>3. /\ Cardinality(T) = n + 1
      /\ At(T, n + 1) = Next1(g)
      /\ \A k \in 1 .. n : At(T, k) = At(S, k)
  BY AtGrows, LogFacts DEF Next1
<1>4. h[Next1(g)] = e
  BY LogGrows
<1> HIDE DEF n, h, T
<1>5. OrderIn(h, S) = OrderIn(g, S)
  BY <1>2 DEF OrderIn, n
<1>6. OrderIn(h, T) = Append(OrderIn(g, S), e.option.arg)
  <2>1. OrderIn(g, S) = [k \in 1 .. n |-> g[At(S, k)].option.arg]
    BY DEF OrderIn, n
  <2>2. OrderIn(h, T) = [k \in 1 .. n + 1 |-> h[At(T, k)].option.arg]
    BY <1>3 DEF OrderIn
  <2>3. \A k \in 1 .. n + 1 :
          h[At(T, k)].option.arg =
            IF k = n + 1 THEN e.option.arg ELSE g[At(S, k)].option.arg
    BY <1>1, <1>2, <1>3, <1>4
  <2>4. Append([k \in 1 .. n |-> g[At(S, k)].option.arg], e.option.arg) =
          [k \in 1 .. n + 1 |->
             IF k = n + 1 THEN e.option.arg ELSE g[At(S, k)].option.arg]
    BY <1>1
  <2> QED BY <2>1, <2>2, <2>3, <2>4
<1> QED BY <1>5, <1>6 DEF h, T

\* No positions, no options.
LEMMA OrderOfNone == \A g : OrderIn(g, {}) = <<>>
BY FS_EmptySet DEF OrderIn

-----------------------------------------------------------------------------
(***************************************************************************)
(* What a log says of timeouts and of stacks, and how one more option      *)
(* changes that.                                                           *)
(***************************************************************************)
InTimeIn(g, c) ==
  {i \in PlacesIn(g, c, {"timeout"}) : \A j \in PlacesIn(g, c, Layers) : i < j}

TimeoutIn(g, c) == LastIn(g, InTimeIn(g, c), Default)

\* The http.Client that c's next layer is meant for.
Target(g, c) == LastIn(g, PlacesIn(g, c, {"httpClient"}), c)

\* The http.Client that the layer at i was meant for, if c installed it.
TargetAt(g, c, i) ==
  LastIn(g, {j \in PlacesIn(g, c, {"httpClient"}) : j < i}, c)

MeantIn(g, a) ==
  {i \in UNION {PlacesIn(g, c, Layers) : c \in Clients} :
     TargetAt(g, g[i].by, i) = a}

TransportsIn(g, a) == {i \in MeantIn(g, a) : g[i].option.kind = "transport"}
AboveIn(g, a) == {i \in MeantIn(g, a) : \A j \in TransportsIn(g, a) : i > j}

BaseIn(g, s, a) ==
  IF TransportsIn(g, a) # {} THEN <<LastIn(g, TransportsIn(g, a), None)>>
  ELSE IF a \in UserHTTP THEN s[a] ELSE <<>>

StackIn(g, s, a) ==
  (IF BaseIn(g, s, a) = <<>> /\ OrderIn(g, AboveIn(g, a)) # <<>>
   THEN <<DefaultTransport>> ELSE BaseIn(g, s, a)) \o OrderIn(g, AboveIn(g, a))

\* The kinds of options, and what the effective ones are given with.
LEMMA OptionFacts ==
  ASSUME NEW o \in Option
  PROVE  /\ o.kind \in {"timeout", "httpClient"} \cup Layers
         /\ o.kind = "timeout" => o.arg \in Timeouts /\ o.arg # None
         /\ o.kind = "httpClient" /\ o.arg # None => o.arg \in UserHTTP
         /\ o.kind = "transport" /\ o.arg # None => o.arg \in Transports
         /\ o.kind = "middleware" /\ o.arg # None => o.arg \in Middlewares
BY SetupAssumption DEF Option, Layers

\* A timeout is in time only if there is no layer yet.
LEMMA TimeoutGrows ==
  ASSUME NEW g \in Seq(Entry), NEW e \in Entry, NEW c
  PROVE  TimeoutIn(Append(g, e), c) =
           IF e.by = c /\ e.option.kind = "timeout" /\ PlacesIn(g, c, Layers) = {}
           THEN e.option.arg ELSE TimeoutIn(g, c)
<1> DEFINE h == Append(g, e)
           m == Next1(g)
           inTime == /\ e.by = c /\ e.option.kind = "timeout"
                     /\ PlacesIn(g, c, Layers) = {}
<1>1. /\ PlacesIn(h, c, {"timeout"}) =
           IF e.by = c /\ e.option.kind = "timeout"
           THEN PlacesIn(g, c, {"timeout"}) \cup {m} ELSE PlacesIn(g, c, {"timeout"})
      /\ PlacesIn(h, c, Layers) =
           IF e.by = c /\ Effective(e.option, Layers)
           THEN PlacesIn(g, c, Layers) \cup {m} ELSE PlacesIn(g, c, Layers)
  <2>1. e.option.kind = "timeout" <=> Effective(e.option, {"timeout"})
    BY OptionFacts DEF Effective, Entry
  <2>2. PlacesIn(h, c, {"timeout"}) =
          IF e.by = c /\ Effective(e.option, {"timeout"})
          THEN PlacesIn(g, c, {"timeout"}) \cup {m} ELSE PlacesIn(g, c, {"timeout"})
    BY PlacesGrow
  <2>3. PlacesIn(h, c, Layers) =
          IF e.by = c /\ Effective(e.option, Layers)
          THEN PlacesIn(g, c, Layers) \cup {m} ELSE PlacesIn(g, c, Layers)
    BY PlacesGrow
  <2> QED BY <2>1, <2>2, <2>3
<1>2. \A kinds : \A i \in PlacesIn(g, c, kinds) : i \in Nat /\ m \in Nat /\ i < m
  BY LogFacts DEF Positions, Next1
<1>3. Effective(e.option, Layers) => e.option.kind # "timeout"
  BY DEF Effective, Layers
<1> HIDE DEF h, m
<1>4. InTimeIn(h, c) = IF inTime THEN InTimeIn(g, c) \cup {m} ELSE InTimeIn(g, c)
  <2>1. CASE Effective(e.option, Layers) /\ e.by = c
    BY <2>1, <1>1, <1>2, <1>3 DEF InTimeIn
  <2>2. CASE ~(Effective(e.option, Layers) /\ e.by = c)
    <3>1. PlacesIn(h, c, Layers) = PlacesIn(g, c, Layers)
      BY <1>1, <2>2
    <3>2. (\A j \in PlacesIn(g, c, Layers) : m < j) <=> PlacesIn(g, c, Layers) = {}
      BY <1>2
    <3> QED BY <3>1, <3>2, <1>1 DEF InTimeIn
  <2> QED BY <2>1, <2>2
<1>5. Positions(InTimeIn(g, c), Len(g))
  BY LogFacts DEF InTimeIn, Positions
<1>6. /\ LastIn(h, InTimeIn(g, c), Default) = LastIn(g, InTimeIn(g, c), Default)
      /\ LastIn(h, InTimeIn(g, c) \cup {m}, Default) = e.option.arg
  BY <1>5, LastStays, LastIsNew DEF h, m
<1>7. TimeoutIn(h, c) = IF inTime THEN e.option.arg ELSE TimeoutIn(g, c)
  BY <1>4, <1>6 DEF TimeoutIn
<1> QED BY <1>7 DEF h

\* The target changes with an http.Client that the user supplies.
LEMMA TargetGrows ==
  ASSUME NEW g \in Seq(Entry), NEW e \in Entry, NEW c
  PROVE  Target(Append(g, e), c) =
           IF e.by = c /\ Effective(e.option, {"httpClient"})
           THEN e.option.arg ELSE Target(g, c)
<1> DEFINE S == PlacesIn(g, c, {"httpClient"})
           h == Append(g, e)
<1>1. PlacesIn(h, c, {"httpClient"}) =
        IF e.by = c /\ Effective(e.option, {"httpClient"})
        THEN S \cup {Next1(g)} ELSE S
  BY PlacesGrow
<1>2. Positions(S, Len(g))
  BY LogFacts
<1> HIDE DEF S, h
<1>3. /\ LastIn(h, S, c) = LastIn(g, S, c)
      /\ LastIn(h, S \cup {Next1(g)}, c) = e.option.arg
  BY <1>2, LastStays, LastIsNew DEF h
<1>4. Target(h, c) = IF e.by = c /\ Effective(e.option, {"httpClient"})
                     THEN e.option.arg ELSE LastIn(g, S, c)
  BY <1>1, <1>3 DEF Target
<1> QED BY <1>4 DEF Target, S, h

\* It is c's own http.Client until then.
LEMMA TargetType ==
  ASSUME NEW g \in Seq(Entry), NEW c
  PROVE  IF PlacesIn(g, c, {"httpClient"}) = {}
         THEN Target(g, c) = c ELSE Target(g, c) \in UserHTTP
<1> DEFINE S == PlacesIn(g, c, {"httpClient"})
<1>1. ASSUME S # {} PROVE LastIn(g, S, c) \in UserHTTP
  <2>1. Max(S) \in S
    BY <1>1, LogFacts, MaxFacts
  <2>2. /\ g[Max(S)] \in Entry
        /\ Effective(g[Max(S)].option, {"httpClient"})
    BY <2>1, LogFacts DEF PlacesIn
  <2> QED BY <2>2, <1>1, OptionFacts DEF Entry, Effective, LastIn
<1> QED BY <1>1 DEF Target, LastIn

\* The target of a layer is settled when it is installed.
LEMMA TargetIsSettled ==
  ASSUME NEW g \in Seq(Entry), NEW e \in Entry, NEW c
  PROVE  /\ \A i \in DOMAIN g : TargetAt(Append(g, e), c, i) = TargetAt(g, c, i)
         /\ ~Effective(e.option, {"httpClient"}) =>
              TargetAt(Append(g, e), c, Next1(g)) = Target(g, c)
<1> DEFINE S == PlacesIn(g, c, {"httpClient"})
           h == Append(g, e)
           T == PlacesIn(h, c, {"httpClient"})
           m == Next1(g)
<1>1. T = IF e.by = c /\ Effective(e.option, {"httpClient"}) THEN S \cup {m} ELSE S
  BY PlacesGrow
<1>2. \A j \in S \cup DOMAIN g : j \in Nat /\ m \in Nat /\ j < m
  BY LogFacts DEF Positions, Next1
<1>3. Positions(S, Len(g))
  BY LogFacts
<1>0. \A P : Positions(P, Len(g)) => LastIn(h, P, c) = LastIn(g, P, c)
  BY LastStays
<1> HIDE DEF S, h, T, m
<1>4. ASSUME NEW i \in DOMAIN g PROVE TargetAt(h, c, i) = TargetAt(g, c, i)
  <2>1. {j \in T : j < i} = {j \in S : j < i}
    BY <1>1, <1>2
  <2>2. Positions({j \in S : j < i}, Len(g))
    BY <1>3 DEF Positions
  <2>3. LastIn(h, {j \in S : j < i}, c) = LastIn(g, {j \in S : j < i}, c)
    BY <2>2, <1>0
  <2>4. /\ TargetAt(h, c, i) = LastIn(h, {j \in T : j < i}, c)
        /\ TargetAt(g, c, i) = LastIn(g, {j \in S : j < i}, c)
    BY DEF TargetAt, S, T
  <2> QED BY <2>1, <2>3, <2>4
<1>5. ASSUME ~Effective(e.option, {"httpClient"})
      PROVE  TargetAt(h, c, m) = Target(g, c)
  <2>1. {j \in T : j < m} = S
    BY <1>1, <1>2, <1>5
  <2>2. LastIn(h, S, c) = LastIn(g, S, c)
    BY <1>3, <1>0
  <2>3. TargetAt(h, c, m) = LastIn(h, {j \in T : j < m}, c)
    BY DEF TargetAt, T
  <2> QED BY <2>1, <2>2, <2>3 DEF Target, S
<1> QED BY <1>4, <1>5 DEF h, m

\* A layer is meant for its client's target at that time.
LEMMA MeantGrows ==
  ASSUME NEW g \in Seq(Entry), NEW e \in Entry, NEW a
  PROVE  MeantIn(Append(g, e), a) =
           IF Effective(e.option, Layers) /\ Target(g, e.by) = a
           THEN MeantIn(g, a) \cup {Next1(g)} ELSE MeantIn(g, a)
<1> DEFINE h == Append(g, e)
           m == Next1(g)
           All(l) == UNION {PlacesIn(l, c, Layers) : c \in Clients}
<1>1. All(h) = IF Effective(e.option, Layers) THEN All(g) \cup {m} ELSE All(g)
  <2>1. e.by \in Clients
    BY DEF Entry
  <2>2. \A c \in Clients :
          PlacesIn(h, c, Layers) =
            IF e.by = c /\ Effective(e.option, Layers)
            THEN PlacesIn(g, c, Layers) \cup {m} ELSE PlacesIn(g, c, Layers)
    <3> TAKE c \in Clients
    <3> QED BY PlacesGrow
  <2> HIDE DEF h, m
  <2>3. CASE Effective(e.option, Layers)
    <3>1. \A x : (\E c \in Clients : x \in PlacesIn(h, c, Layers))
                  <=> (\E c \in Clients : x \in PlacesIn(g, c, Layers)) \/ x = m
      BY <2>1, <2>2, <2>3
    <3> QED BY <3>1, <2>3
  <2>4. CASE ~Effective(e.option, Layers)
    BY <2>2, <2>4
  <2> QED BY <2>3, <2>4
<1>2. /\ \A i \in DOMAIN g : h[i] = g[i]
      /\ h[m] = e /\ m \notin DOMAIN g
  BY LogGrows
<1>3. All(g) \in SUBSET DOMAIN g
  BY DEF PlacesIn
<1>4. \A c : \A i \in DOMAIN g : TargetAt(h, c, i) = TargetAt(g, c, i)
  BY TargetIsSettled
<1>5. Effective(e.option, Layers) => TargetAt(h, e.by, m) = Target(g, e.by)
  BY TargetIsSettled DEF Effective, Layers
<1>6. /\ MeantIn(h, a) = {i \in All(h) : TargetAt(h, h[i].by, i) = a}
      /\ MeantIn(g, a) = {i \in All(g) : TargetAt(g, g[i].by, i) = a}
  BY DEF MeantIn
<1> HIDE DEF h, m, All
<1>7. MeantIn(h, a) =
        IF Effective(e.option, Layers) /\ Target(g, e.by) = a
        THEN MeantIn(g, a) \cup {m} ELSE MeantIn(g, a)
  BY <1>1, <1>2, <1>3, <1>4, <1>5, <1>6
<1> QED BY <1>7 DEF h, m

\* The layers meant for one http.Client are positions of effective layer options.
LEMMA MeantFacts ==
  ASSUME NEW g \in Seq(Entry), NEW a
  PROVE  /\ Positions(MeantIn(g, a), Len(g))
         /\ Positions(TransportsIn(g, a), Len(g))
         /\ Positions(AboveIn(g, a), Len(g))
         /\ MeantIn(g, a) \in SUBSET DOMAIN g
         /\ \A i \in MeantIn(g, a) : g[i].option.arg \in Transports \cup Middlewares
<1>1. \A i \in MeantIn(g, a) : i \in DOMAIN g /\ Effective(g[i].option, Layers)
  BY DEF MeantIn, PlacesIn
<1>2. Positions(MeantIn(g, a), Len(g))
  BY <1>1, LogFacts DEF Positions
<1>3. \A i \in MeantIn(g, a) : g[i].option.arg \in Transports \cup Middlewares
  <2> TAKE i \in MeantIn(g, a)
  <2>1. g[i].option \in Option /\ Effective(g[i].option, Layers)
    BY <1>1, LogFacts DEF Entry
  <2> QED BY <2>1, OptionFacts DEF Effective, Layers
<1> QED BY <1>1, <1>2, <1>3 DEF TransportsIn, AboveIn, Positions

\* What stacks are made of.
Layer == Transports \cup Middlewares \cup {DefaultTransport}

\* The base of a stack, and all of it, are sequences of layers.
LEMMA StackType ==
  ASSUME NEW g \in Seq(Entry), NEW s \in [UserHTTP -> Seq(Layer)], NEW a
  PROVE  /\ OrderIn(g, AboveIn(g, a)) \in Seq(Layer)
         /\ BaseIn(g, s, a) \in Seq(Layer)
         /\ StackIn(g, s, a) \in Seq(Layer)
<1> DEFINE S == AboveIn(g, a)
           n == Cardinality(S)
<1>1. Positions(S, Len(g)) /\ Len(g) \in Nat /\ n \in Nat
  BY MeantFacts, LogFacts, PositionsFinite
<1>2. \A k \in 1 .. n : g[At(S, k)].option.arg \in Layer
  <2> TAKE k \in 1 .. n
  <2>1. At(S, k) \in S
    BY <1>1, AtFacts
  <2>2. At(S, k) \in MeantIn(g, a)
    BY <2>1 DEF AboveIn
  <2> QED BY <2>2, MeantFacts DEF Layer
<1>3. OrderIn(g, S) \in Seq(Layer)
  <2> HIDE DEF S, n
  <2>1. OrderIn(g, S) = [k \in 1 .. n |-> g[At(S, k)].option.arg]
    BY DEF OrderIn, n
  <2> QED BY <2>1, <1>1, <1>2
<1>4. BaseIn(g, s, a) \in Seq(Layer)
  <2>1. CASE TransportsIn(g, a) # {}
    <3>1. Max(TransportsIn(g, a)) \in TransportsIn(g, a)
      BY <2>1, MeantFacts, LogFacts, MaxFacts
    <3>2. Max(TransportsIn(g, a)) \in MeantIn(g, a)
      BY <3>1 DEF TransportsIn
    <3>3. g[Max(TransportsIn(g, a))].option.arg \in Layer
      BY <3>2, MeantFacts DEF Layer
    <3> QED BY <2>1, <3>3 DEF BaseIn, LastIn
  <2>2. CASE TransportsIn(g, a) = {}
    BY <2>2 DEF BaseIn
  <2> QED BY <2>1, <2>2
<1> HIDE DEF S, n
<1>5. StackIn(g, s, a) =
        (IF BaseIn(g, s, a) = <<>> /\ OrderIn(g, S) # <<>>
         THEN <<DefaultTransport>> ELSE BaseIn(g, s, a)) \o OrderIn(g, S)
  BY DEF StackIn, S
<1>6. <<DefaultTransport>> \in Seq(Layer)
  BY DEF Layer
<1> QED BY <1>3, <1>4, <1>5, <1>6 DEF S

\* An option that is not meant for http.Client a leaves its stack alone.
LEMMA StackStays ==
  ASSUME NEW g \in Seq(Entry), NEW e \in Entry, NEW s, NEW a,
         ~(Effective(e.option, Layers) /\ Target(g, e.by) = a)
  PROVE  StackIn(Append(g, e), s, a) = StackIn(g, s, a)
<1> DEFINE h == Append(g, e)
<1>1. MeantIn(h, a) = MeantIn(g, a)
  BY MeantGrows
<1>2. \A i \in MeantIn(g, a) : h[i] = g[i]
  BY LogGrows, MeantFacts
<1>3. OrderIn(h, AboveIn(g, a)) = OrderIn(g, AboveIn(g, a))
  BY OrderGrows, MeantFacts
<1>4. \A o : LastIn(h, TransportsIn(g, a), o) = LastIn(g, TransportsIn(g, a), o)
  <2> TAKE o
  <2> QED BY LastStays, MeantFacts
<1> HIDE DEF h
<1>5. TransportsIn(h, a) = TransportsIn(g, a)
  BY <1>1, <1>2 DEF TransportsIn
<1>6. AboveIn(h, a) = AboveIn(g, a)
  BY <1>1, <1>5 DEF AboveIn
<1>7. BaseIn(h, s, a) = BaseIn(g, s, a)
  BY <1>4, <1>5 DEF BaseIn
<1>8. StackIn(h, s, a) = StackIn(g, s, a)
  BY <1>3, <1>6, <1>7 DEF StackIn
<1> QED BY <1>8 DEF h

\* A transport that is meant for it replaces the stack.
LEMMA StackIsReplaced ==
  ASSUME NEW g \in Seq(Entry), NEW e \in Entry, NEW s, NEW a,
         e.option.kind = "transport", e.option.arg # None, Target(g, e.by) = a
  PROVE  StackIn(Append(g, e), s, a) = <<e.option.arg>>
<1> DEFINE h == Append(g, e)
           m == Next1(g)
<1>1. MeantIn(h, a) = MeantIn(g, a) \cup {m}
  BY MeantGrows DEF Effective, Layers
<1>2. h[m] = e /\ \A i \in MeantIn(g, a) : h[i] = g[i]
  BY LogGrows, MeantFacts
<1>3. \A i \in MeantIn(g, a) : i \in Nat /\ m \in Nat /\ i < m
  BY MeantFacts, LogFacts DEF Positions, Next1
<1>4. LastIn(h, TransportsIn(g, a) \cup {m}, None) = e.option.arg
  BY LastIsNew, MeantFacts
<1>0. m \in Nat
  BY LogFacts
<1> HIDE DEF h, m
<1>5. TransportsIn(h, a) = TransportsIn(g, a) \cup {m}
  BY <1>1, <1>2 DEF TransportsIn
<1>6. AboveIn(h, a) = {}
  <2>1. \A i \in MeantIn(h, a) : ~(i > m)
    BY <1>0, <1>1, <1>3
  <2> QED BY <2>1, <1>5 DEF AboveIn
<1>7. BaseIn(h, s, a) = <<e.option.arg>>
  BY <1>4, <1>5 DEF BaseIn
<1>8. OrderIn(h, AboveIn(h, a)) = <<>>
  BY <1>6, OrderOfNone
<1>9. StackIn(h, s, a) = <<e.option.arg>> \o <<>>
  BY <1>7, <1>8 DEF StackIn
<1> QED BY <1>9 DEF h

\* A middleware that is meant for it wraps the stack.
LEMMA StackIsWrapped ==
  ASSUME NEW g \in Seq(Entry), NEW e \in Entry, NEW s \in [UserHTTP -> Seq(Layer)],
         NEW a, e.option.kind = "middleware", e.option.arg # None,
         Target(g, e.by) = a
  PROVE  StackIn(Append(g, e), s, a) = Wrap(StackIn(g, s, a), e.option.arg)
<1> DEFINE h == Append(g, e)
           m == Next1(g)
           b == BaseIn(g, s, a)
           o == OrderIn(g, AboveIn(g, a))
           x == e.option.arg
<1>1. MeantIn(h, a) = MeantIn(g, a) \cup {m}
  BY MeantGrows DEF Effective, Layers
<1>2. h[m] = e /\ \A i \in MeantIn(g, a) : h[i] = g[i]
  BY LogGrows, MeantFacts
<1>3. \A i \in MeantIn(g, a) : i \in Nat /\ m \in Nat /\ i < m
  BY MeantFacts, LogFacts DEF Positions, Next1
<1>4. LastIn(h, TransportsIn(g, a), None) = LastIn(g, TransportsIn(g, a), None)
  BY LastStays, MeantFacts
<1>5. OrderIn(h, AboveIn(g, a) \cup {m}) = Append(OrderIn(g, AboveIn(g, a)), x)
  BY OrderGrows, MeantFacts
<1>6. b \in Seq(Layer) /\ o \in Seq(Layer) /\ x \in Layer
  BY StackType, OptionFacts DEF Entry, Layer
<1> HIDE DEF h, m, x
<1>7. TransportsIn(h, a) = TransportsIn(g, a)
  BY <1>1, <1>2 DEF TransportsIn
<1>8. AboveIn(h, a) = AboveIn(g, a) \cup {m}
  <2>1. \A j \in TransportsIn(g, a) : m > j
    BY <1>3 DEF TransportsIn
  <2> QED BY <2>1, <1>1, <1>7 DEF AboveIn
<1>9. BaseIn(h, s, a) = b
  BY <1>4, <1>7 DEF BaseIn
<1>10. OrderIn(h, AboveIn(h, a)) = Append(o, x)
  BY <1>5, <1>8
<1> HIDE DEF b, o
<1>11. StackIn(h, s, a) =
         (IF b = <<>> /\ Append(o, x) # <<>> THEN <<DefaultTransport>> ELSE b)
           \o Append(o, x)
  BY <1>9, <1>10 DEF StackIn
<1>12. StackIn(g, s, a) =
         (IF b = <<>> /\ o # <<>> THEN <<DefaultTransport>> ELSE b) \o o
  BY DEF StackIn, b, o
<1>13. Append(o, x) # <<>>
  BY <1>6
<1>14. <<DefaultTransport>> \in Seq(Layer)
  BY DEF Layer
<1>15. \A q \in Seq(Layer) : q \o Append(o, x) = Append(q \o o, x)
  BY <1>6
<1>16. CASE b = <<>> /\ o = <<>>
  <2>1. StackIn(g, s, a) = <<>>
    BY <1>12, <1>16
  <2>2. StackIn(h, s, a) = Append(<<DefaultTransport>>, x)
    BY <1>11, <1>13, <1>14, <1>15, <1>16,
       <<DefaultTransport>> \o <<>> = <<DefaultTransport>>
  <2> QED BY <2>1, <2>2 DEF Wrap, h, x
<1>17. CASE b # <<>> \/ o # <<>>
  <2> DEFINE q == IF b = <<>> THEN <<DefaultTransport>> ELSE b
  <2>1. q \in Seq(Layer) /\ q # <<>>
    BY <1>6, <1>14
  <2>2. StackIn(g, s, a) = q \o o
    BY <1>12, <1>17
  <2>3. StackIn(h, s, a) = q \o Append(o, x)
    BY <1>11, <1>13
  <2> HIDE DEF q
  <2>4. q \o o # <<>>
    BY <2>1, <1>6
  <2>5. q \o Append(o, x) = Append(q \o o, x)
    BY <2>1, <1>15
  <2> QED BY <2>2, <2>3, <2>4, <2>5 DEF Wrap, h, x
<1> QED BY <1>16, <1>17

-----------------------------------------------------------------------------
(***************************************************************************)
(* The inductive invariant of the construction.                            *)
(***************************************************************************)
AnyTimeout == Timeouts \cup {Default, UserTimeout, 0}

SetupTypeOK ==
  /\ supplied \in [UserHTTP -> Seq(Layer)]
  /\ http \in [HTTPs -> [timeout : AnyTimeout, transport : Seq(Layer)]]
  /\ client \in [Clients -> [stage : {"absent", "building", "built"},
                             timeout : AnyTimeout, http : HTTPs \cup {None}]]
  /\ queue \in Seq(Option)
  /\ given \in Seq(Entry)

\* Which http.Client a client points at, once it points at one.
Pointing(c) ==
  /\ client[c].http # None => client[c].http = Target(given, c)
  /\ client[c].http = None => Target(given, c) = c /\ PlacesIn(given, c, Layers) = {}
  /\ client[c].stage = "built" => client[c].http # None
  /\ client[c].stage = "absent" =>
       client[c].http = None /\ \A i \in DOMAIN given : given[i].by # c
  /\ client[c].http = c /\ client[c].stage = "building" =>
       PlacesIn(given, c, Layers) # {}

\* The timeout that a client has, and its own http.Client.
Timing(c) ==
  /\ client[c].stage # "absent" =>
       client[c].timeout = LastIn(given, PlacesIn(given, c, {"timeout"}), Default)
  /\ client[c].http = c => http[c].timeout = TimeoutIn(given, c)

UserTimeoutStays == \A a \in UserHTTP : http[a].timeout = UserTimeout

StacksInOrder == \A a \in HTTPs : http[a].transport = StackIn(given, supplied, a)

SetupInv ==
  /\ SetupTypeOK
  /\ \A c \in Clients : Pointing(c) /\ Timing(c)
  /\ UserTimeoutStays
  /\ StacksInOrder

\* With nothing above it the base is the stack.
LEMMA NoneAbove ==
  ASSUME NEW g, NEW s, NEW a, BaseIn(g, s, a) \in Seq(Layer),
         OrderIn(g, AboveIn(g, a)) = <<>>
  PROVE  StackIn(g, s, a) = BaseIn(g, s, a)
<1>1. StackIn(g, s, a) = BaseIn(g, s, a) \o <<>>
  BY DEF StackIn
<1> QED BY <1>1

\* Without layers meant for it, a client's own http.Client has an empty stack.
LEMMA OwnIsEmpty ==
  ASSUME NEW g \in Seq(Entry), NEW s, NEW c \in Clients, PlacesIn(g, c, Layers) = {}
  PROVE  StackIn(g, s, c) = <<>>
<1>1. c \notin UserHTTP
  BY SetupAssumption
<1>2. MeantIn(g, c) = {}
  <2> SUFFICES ASSUME NEW i \in MeantIn(g, c) PROVE FALSE
    OBVIOUS
  <2>1. PICK d \in Clients : i \in PlacesIn(g, d, Layers)
    BY DEF MeantIn
  <2>2. g[i].by = d /\ d # c
    BY <2>1 DEF PlacesIn
  <2>3. TargetAt(g, d, i) = c
    BY <2>2 DEF MeantIn
  <2> DEFINE S == {j \in PlacesIn(g, d, {"httpClient"}) : j < i}
  <2>4. Positions(S, Len(g)) /\ Len(g) \in Nat
    BY LogFacts DEF Positions
  <2>5. LastIn(g, S, d) = c
    BY <2>3 DEF TargetAt
  <2>6. S # {}
    BY <2>2, <2>5 DEF LastIn
  <2>7. Max(S) \in S
    BY <2>4, <2>6, MaxFacts
  <2>8. Max(S) \in DOMAIN g /\ Effective(g[Max(S)].option, {"httpClient"})
    BY <2>7 DEF PlacesIn
  <2>9. g[Max(S)].option \in Option
    BY <2>8, LogFacts DEF Entry
  <2>10. g[Max(S)].option.arg \in UserHTTP
    BY <2>8, <2>9, OptionFacts DEF Effective
  <2> QED BY <2>5, <2>6, <2>10, <1>1 DEF LastIn
<1>3. TransportsIn(g, c) = {} /\ AboveIn(g, c) = {}
  BY <1>2 DEF TransportsIn, AboveIn
<1>4. BaseIn(g, s, c) = <<>>
  BY <1>1, <1>3 DEF BaseIn
<1>5. OrderIn(g, AboveIn(g, c)) = <<>>
  BY <1>3, OrderOfNone
<1>6. StackIn(g, s, c) = <<>> \o <<>>
  BY <1>4, <1>5 DEF StackIn
<1> QED BY <1>6

\* Nothing is given at first: the stacks are those the user's http.Clients came with.
LEMMA EmptyLog ==
  ASSUME NEW g, g = <<>>
  PROVE  /\ \A c, kinds : PlacesIn(g, c, kinds) = {}
         /\ \A c : Target(g, c) = c
         /\ \A s \in [UserHTTP -> Seq(Layer)] : \A a :
              StackIn(g, s, a) = IF a \in UserHTTP THEN s[a] ELSE <<>>
<1>1. \A c, kinds : PlacesIn(g, c, kinds) = {}
  BY DEF PlacesIn
<1>2. \A c : Target(g, c) = c
  BY <1>1 DEF Target, LastIn
<1>3. ASSUME NEW s \in [UserHTTP -> Seq(Layer)], NEW a
      PROVE  StackIn(g, s, a) = IF a \in UserHTTP THEN s[a] ELSE <<>>
  <2>1. TransportsIn(g, a) = {} /\ AboveIn(g, a) = {}
    BY <1>1 DEF TransportsIn, AboveIn, MeantIn
  <2>2. OrderIn(g, AboveIn(g, a)) = <<>>
    BY <2>1, OrderOfNone
  <2>3. BaseIn(g, s, a) = IF a \in UserHTTP THEN s[a] ELSE <<>>
    BY <2>1 DEF BaseIn
  <2>4. BaseIn(g, s, a) \in Seq(Layer)
    <3>1. a \in UserHTTP => s[a] \in Seq(Layer)
      OBVIOUS
    <3>2. <<>> \in Seq(Layer)
      OBVIOUS
    <3> QED BY <2>3, <3>1, <3>2, Zenon
  <2>5. StackIn(g, s, a) = BaseIn(g, s, a)
    BY <2>2, <2>4, NoneAbove, Zenon
  <2> QED BY <2>3, <2>5
<1> QED BY <1>1, <1>2, <1>3

\* Nothing is given and no client is there: the invariant holds at first.
LEMMA InitSetup == SetupInit => SetupInv
<1> SUFFICES ASSUME SetupInit PROVE SetupInv
  OBVIOUS
<1>1. supplied \in [UserHTTP -> Seq(Layer)]
  <2>1. {<<>>} \cup {<<t>> : t \in Transports} \in SUBSET Seq(Layer)
    <3>1. \A t \in Transports : <<t>> \in Seq(Layer)
      BY DEF Layer
    <3>2. <<>> \in Seq(Layer)
      OBVIOUS
    <3> QED BY <3>1, <3>2, Zenon
  <2> QED BY <2>1 DEF SetupInit
<1>2. SetupTypeOK
  BY <1>1 DEF SetupInit, SetupTypeOK, NewHTTP, AnyTimeout, HTTPs
<1>3. ASSUME NEW c \in Clients PROVE Pointing(c) /\ Timing(c)
  <2>1. /\ client[c] = [stage |-> "absent", timeout |-> 0, http |-> None]
        /\ given = <<>> /\ c # None
    BY SetupAssumption DEF SetupInit
  <2> QED BY <2>1, EmptyLog DEF Pointing, Timing
<1>4. UserTimeoutStays
  BY DEF SetupInit, UserTimeoutStays, HTTPs
<1>5. StacksInOrder
  <2> SUFFICES ASSUME NEW a \in HTTPs
               PROVE  http[a].transport = StackIn(given, supplied, a)
    BY DEF StacksInOrder
  <2>1. StackIn(given, supplied, a) = IF a \in UserHTTP THEN supplied[a] ELSE <<>>
    BY <1>1, EmptyLog DEF SetupInit
  <2>2. http[a].transport = IF a \in UserHTTP THEN supplied[a] ELSE <<>>
    BY DEF SetupInit, NewHTTP
  <2> QED BY <2>1, <2>2
<1> QED BY <1>2, <1>3, <1>4, <1>5 DEF SetupInv

\* The http.Client an option installs on is the client's target; it keeps its stack.
LEMMA AllocatedFacts ==
  ASSUME SetupInv, NEW c \in Clients
  PROVE  /\ Ensured(c) = Target(given, c) /\ Ensured(c) \in HTTPs
         /\ Ensured(c) # None
         /\ Allocated(c) \in
              [HTTPs -> [timeout : AnyTimeout, transport : Seq(Layer)]]
         /\ \A a \in HTTPs : Allocated(c)[a].transport = http[a].transport
         /\ \A a \in HTTPs \ {c} : Allocated(c)[a].timeout = http[a].timeout
         /\ Allocated(c)[c].timeout =
              IF client[c].http = None THEN client[c].timeout ELSE http[c].timeout
<1>1. /\ client[c].http \in HTTPs \cup {None} /\ client[c].timeout \in AnyTimeout
      /\ http \in [HTTPs -> [timeout : AnyTimeout, transport : Seq(Layer)]]
      /\ c \in HTTPs /\ None \notin HTTPs
      /\ Pointing(c) /\ given \in Seq(Entry)
  BY SetupAssumption DEF SetupInv, SetupTypeOK, HTTPs
<1>2. CASE client[c].http = None
  <2>1. StackIn(given, supplied, c) = <<>>
    BY <1>1, <1>2, OwnIsEmpty DEF Pointing
  <2>2. http[c].transport = <<>>
    BY <2>1, <1>1 DEF SetupInv, StacksInOrder
  <2>3. Allocated(c) = [http EXCEPT ![c] = NewHTTP(client[c].timeout)]
    BY <1>2 DEF Allocated, Ensured
  <2>4. NewHTTP(client[c].timeout) \in [timeout : AnyTimeout, transport : Seq(Layer)]
    BY <1>1 DEF NewHTTP
  <2>5. Ensured(c) = c /\ Target(given, c) = c
    BY <1>1, <1>2 DEF Ensured, Pointing
  <2> QED BY <1>1, <1>2, <2>2, <2>3, <2>4, <2>5 DEF NewHTTP
<1>3. CASE client[c].http # None
  BY <1>1, <1>3 DEF Allocated, Ensured, Pointing
<1> QED BY <1>2, <1>3

\* An option of client c is nothing to the others.
LEMMA OthersStay ==
  ASSUME SetupInv, NEW c \in Clients, NEW d \in Clients \ {c}, NEW o \in Option,
         given' = Append(given, [by |-> c, option |-> o]),
         client'[d] = client[d], http'[d].timeout = http[d].timeout
  PROVE  Pointing(d)' /\ Timing(d)'
<1> DEFINE e == [by |-> c, option |-> o]
<1>1. /\ given \in Seq(Entry) /\ e \in Entry /\ e.by = c /\ d # c
      /\ Pointing(d) /\ Timing(d)
  BY DEF SetupInv, SetupTypeOK, Entry
<1>2. given' = Append(given, e)
  OBVIOUS
<1> HIDE DEF e
<1>3. \A kinds : PlacesIn(given', d, kinds) = PlacesIn(given, d, kinds)
  <2> TAKE kinds
  <2> QED BY <1>1, <1>2, PlacesGrow
<1>4. Target(given', d) = Target(given, d)
  BY <1>1, <1>2, TargetGrows
<1>5. TimeoutIn(given', d) = TimeoutIn(given, d)
  BY <1>1, <1>2, TimeoutGrows
<1>6. LastIn(given', PlacesIn(given, d, {"timeout"}), Default) =
        LastIn(given, PlacesIn(given, d, {"timeout"}), Default)
  BY <1>1, <1>2, LastStays, LogFacts
<1>7. (\A i \in DOMAIN given : given[i].by # d) =>
         \A i \in DOMAIN given' : given'[i].by # d
  BY <1>1, <1>2, LogGrows
<1>8. Pointing(d)'
  BY <1>1, <1>3, <1>4, <1>7 DEF Pointing
<1>9. Timing(d)'
  BY <1>1, <1>3, <1>5, <1>6 DEF Timing
<1> QED BY <1>8, <1>9

\* What an option does to the client that it is given to.
LEMMA OwnPlaces ==
  ASSUME SetupInv, NEW c \in Clients, NEW o \in Option,
         given' = Append(given, [by |-> c, option |-> o])
  PROVE  /\ given' \in Seq(Entry)
         /\ PlacesIn(given', c, Layers) =
              IF Effective(o, Layers)
              THEN PlacesIn(given, c, Layers) \cup {Next1(given)}
              ELSE PlacesIn(given, c, Layers)
         /\ Target(given', c) =
              IF Effective(o, {"httpClient"}) THEN o.arg ELSE Target(given, c)
         /\ TimeoutIn(given', c) =
              IF o.kind = "timeout" /\ PlacesIn(given, c, Layers) = {}
              THEN o.arg ELSE TimeoutIn(given, c)
         /\ LastIn(given', PlacesIn(given', c, {"timeout"}), Default) =
              IF o.kind = "timeout" THEN o.arg
              ELSE LastIn(given, PlacesIn(given, c, {"timeout"}), Default)
         /\ \A a \in HTTPs : ~(Effective(o, Layers) /\ Target(given, c) = a) =>
              StackIn(given', supplied, a) = StackIn(given, supplied, a)
<1> DEFINE e == [by |-> c, option |-> o]
<1>1. /\ given \in Seq(Entry) /\ e \in Entry /\ e.by = c /\ e.option = o
      /\ given' = Append(given, e)
  BY DEF SetupInv, SetupTypeOK, Entry
<1>2. o.kind = "timeout" <=> Effective(o, {"timeout"})
  BY OptionFacts DEF Effective
<1> HIDE DEF e
<1>3. given' \in Seq(Entry)
  BY <1>1, LogGrows
<1>0. \A kinds : PlacesIn(given', c, kinds) =
                    IF Effective(o, kinds)
                    THEN PlacesIn(given, c, kinds) \cup {Next1(given)}
                    ELSE PlacesIn(given, c, kinds)
  <2> TAKE kinds
  <2>1. PlacesIn(Append(given, e), c, kinds) =
          IF e.by = c /\ Effective(e.option, kinds)
          THEN PlacesIn(given, c, kinds) \cup {Next1(given)}
          ELSE PlacesIn(given, c, kinds)
    BY <1>1, PlacesGrow
  <2> QED BY <1>1, <2>1
<1>4. PlacesIn(given', c, Layers) =
        IF Effective(o, Layers)
        THEN PlacesIn(given, c, Layers) \cup {Next1(given)}
        ELSE PlacesIn(given, c, Layers)
  BY <1>0
<1>5. Target(given', c) =
        IF Effective(o, {"httpClient"}) THEN o.arg ELSE Target(given, c)
  BY <1>1, TargetGrows
<1>6. TimeoutIn(given', c) =
        IF o.kind = "timeout" /\ PlacesIn(given, c, Layers) = {}
        THEN o.arg ELSE TimeoutIn(given, c)
  BY <1>1, TimeoutGrows
<1>7. LastIn(given', PlacesIn(given', c, {"timeout"}), Default) =
        IF o.kind = "timeout" THEN o.arg
        ELSE LastIn(given, PlacesIn(given, c, {"timeout"}), Default)
  <2> DEFINE S == PlacesIn(given, c, {"timeout"})
  <2>1. PlacesIn(given', c, {"timeout"}) =
          IF o.kind = "timeout" THEN S \cup {Next1(given)} ELSE S
    BY <1>0, <1>2
  <2>2. Positions(S, Len(given))
    BY <1>1, LogFacts
  <2> HIDE DEF S
  <2>3. /\ LastIn(given', S, Default) = LastIn(given, S, Default)
        /\ LastIn(given', S \cup {Next1(given)}, Default) = o.arg
    BY <1>1, <2>2, LastStays, LastIsNew
  <2> QED BY <2>1, <2>3 DEF S
<1>8. ASSUME NEW a \in HTTPs, ~(Effective(o, Layers) /\ Target(given, c) = a)
      PROVE  StackIn(given', supplied, a) = StackIn(given, supplied, a)
  BY <1>1, <1>8, StackStays
<1> QED BY <1>3, <1>4, <1>5, <1>6, <1>7, <1>8

\* WithTimeout sets the timeout of the client, and of no http.Client.
LEMMA SetTimeoutSetup ==
  ASSUME SetupInv, NEW c \in Clients, NEW o \in Option, Building(c),
         SetTimeout(c, o),
         given' = Append(given, [by |-> c, option |-> o]), queue' \in Seq(Option),
         UNCHANGED supplied
  PROVE  SetupInv'
<1>1. /\ o.kind = "timeout" /\ o.arg \in Timeouts
      /\ ~Effective(o, Layers) /\ ~Effective(o, {"httpClient"})
  BY OptionFacts DEF SetTimeout, Effective, Layers
<1>2. SetupTypeOK /\ Pointing(c) /\ Timing(c) /\ c # None
  BY SetupAssumption DEF SetupInv
<1>3. /\ client'[c] = [client[c] EXCEPT !.timeout = o.arg]
      /\ \A d \in Clients \ {c} : client'[d] = client[d]
      /\ http' = http
  BY <1>2 DEF SetTimeout, SetupTypeOK
<1>4. SetupTypeOK'
  BY <1>1, <1>2, OwnPlaces DEF SetTimeout, SetupTypeOK, AnyTimeout
<1>5. Pointing(c)' /\ Timing(c)'
  <2>1. /\ client'[c].stage = "building" /\ client[c].stage = "building"
        /\ client'[c].http = client[c].http /\ client'[c].timeout = o.arg
    BY <1>2, <1>3 DEF Building, SetupTypeOK
  <2> QED BY <1>1, <1>2, <1>3, <2>1, OwnPlaces DEF Pointing, Timing
<1>6. \A d \in Clients : Pointing(d)' /\ Timing(d)'
  <2> TAKE d \in Clients
  <2> QED BY <1>3, <1>5, OthersStay
<1>7. UserTimeoutStays' /\ StacksInOrder'
  BY <1>1, <1>3, OwnPlaces DEF SetupInv, UserTimeoutStays, StacksInOrder
<1> QED BY <1>4, <1>6, <1>7 DEF SetupInv

\* WithHTTPClient makes the user's http.Client the target of what follows.
LEMMA UseHTTPClientSetup ==
  ASSUME SetupInv, NEW c \in Clients, NEW o \in Option, Building(c),
         UseHTTPClient(c, o),
         given' = Append(given, [by |-> c, option |-> o]), queue' \in Seq(Option),
         UNCHANGED supplied
  PROVE  SetupInv'
<1>1. /\ o.kind = "httpClient" /\ o.arg \in UserHTTP
      /\ o.arg # None /\ o.arg # c
      /\ ~Effective(o, Layers) /\ Effective(o, {"httpClient"})
  BY OptionFacts, SetupAssumption DEF UseHTTPClient, Effective, Layers
<1>2. SetupTypeOK /\ Pointing(c) /\ Timing(c)
  BY DEF SetupInv
<1>3. /\ client'[c] = [client[c] EXCEPT !.http = o.arg]
      /\ \A d \in Clients \ {c} : client'[d] = client[d]
      /\ http' = http
  BY <1>2 DEF UseHTTPClient, SetupTypeOK
<1>4. SetupTypeOK'
  BY <1>1, <1>2, OwnPlaces DEF UseHTTPClient, SetupTypeOK, HTTPs
<1>5. Pointing(c)' /\ Timing(c)'
  <2>1. /\ client'[c].stage = "building" /\ client[c].stage = "building"
        /\ client'[c].http = o.arg /\ client'[c].timeout = client[c].timeout
    BY <1>2, <1>3 DEF Building, SetupTypeOK
  <2> QED BY <1>1, <1>2, <1>3, <2>1, OwnPlaces DEF Pointing, Timing
<1>6. \A d \in Clients : Pointing(d)' /\ Timing(d)'
  <2> TAKE d \in Clients
  <2> QED BY <1>3, <1>5, OthersStay
<1>7. UserTimeoutStays' /\ StacksInOrder'
  BY <1>1, <1>3, OwnPlaces DEF SetupInv, UserTimeoutStays, StacksInOrder
<1> QED BY <1>4, <1>6, <1>7 DEF SetupInv

\* An option with nil is logged and has no effect.
LEMMA IgnoreSetup ==
  ASSUME SetupInv, NEW c \in Clients, NEW o \in Option, Building(c), Ignore(o),
         given' = Append(given, [by |-> c, option |-> o]), queue' \in Seq(Option),
         UNCHANGED supplied
  PROVE  SetupInv'
<1>1. /\ o.kind # "timeout"
      /\ ~Effective(o, Layers) /\ ~Effective(o, {"httpClient"})
  BY OptionFacts DEF Ignore, Effective
<1>2. SetupTypeOK /\ Pointing(c) /\ Timing(c)
  BY DEF SetupInv
<1>3. client' = client /\ http' = http
  BY DEF Ignore
<1>4. SetupTypeOK'
  BY <1>2, <1>3, OwnPlaces DEF SetupTypeOK
<1>5. Pointing(c)' /\ Timing(c)'
  <2>1. client[c].stage = "building"
    BY DEF Building
  <2> QED BY <1>1, <1>2, <1>3, <2>1, OwnPlaces DEF Pointing, Timing
<1>6. \A d \in Clients : Pointing(d)' /\ Timing(d)'
  <2> TAKE d \in Clients
  <2> QED BY <1>3, <1>5, OthersStay
<1>7. UserTimeoutStays' /\ StacksInOrder'
  BY <1>1, <1>3, OwnPlaces DEF SetupInv, UserTimeoutStays, StacksInOrder
<1> QED BY <1>4, <1>6, <1>7 DEF SetupInv

\* A transport or a middleware changes the stack of the client's target only.
LEMMA InstallSetup ==
  ASSUME SetupInv, NEW c \in Clients, NEW o \in Option, Building(c), Install(c, o),
         given' = Append(given, [by |-> c, option |-> o]), queue' \in Seq(Option),
         UNCHANGED supplied
  PROVE  SetupInv'
<1> DEFINE t == Ensured(c)
           x == IF o.kind = "transport" THEN <<o.arg>>
                ELSE Wrap(http[t].transport, o.arg)
<1>1. /\ o.kind # "timeout" /\ o.arg # None /\ o.kind \in {"transport", "middleware"}
      /\ Effective(o, Layers) /\ ~Effective(o, {"httpClient"})
      /\ o.arg \in Layer
  BY OptionFacts DEF Install, Effective, Layers, Layer
<1>2. SetupTypeOK /\ Pointing(c) /\ Timing(c) /\ c \notin UserHTTP
  BY SetupAssumption DEF SetupInv
<1>3. /\ t = Target(given, c) /\ t \in HTTPs /\ t # None
      /\ Allocated(c) \in [HTTPs -> [timeout : AnyTimeout, transport : Seq(Layer)]]
      /\ \A a \in HTTPs : Allocated(c)[a].transport = http[a].transport
      /\ \A a \in HTTPs \ {c} : Allocated(c)[a].timeout = http[a].timeout
      /\ Allocated(c)[c].timeout =
           IF client[c].http = None THEN client[c].timeout ELSE http[c].timeout
  BY AllocatedFacts
<1>4. /\ client' = [client EXCEPT ![c].http = t]
      /\ http' = [Allocated(c) EXCEPT ![t].transport = x]
  BY <1>3 DEF Install
<1>5. x \in Seq(Layer)
  <2>1. http[t].transport \in Seq(Layer) /\ DefaultTransport \in Layer
    BY <1>2, <1>3 DEF SetupTypeOK, Layer
  <2>2. <<o.arg>> \in Seq(Layer) /\ <<DefaultTransport>> \in Seq(Layer)
    BY <1>1, <2>1
  <2>3. Wrap(http[t].transport, o.arg) \in Seq(Layer)
    BY <1>1, <2>1, <2>2 DEF Wrap
  <2> QED BY <2>2, <2>3
<1>6. x = StackIn(given', supplied, t)
  <2> DEFINE e == [by |-> c, option |-> o]
  <2>1. /\ given \in Seq(Entry) /\ e \in Entry /\ e.by = c /\ e.option = o
        /\ given' = Append(given, e)
        /\ supplied \in [UserHTTP -> Seq(Layer)]
        /\ http[t].transport = StackIn(given, supplied, t)
    BY <1>2, <1>3 DEF SetupTypeOK, Entry, SetupInv, StacksInOrder
  <2> HIDE DEF e, t
  <2>2. CASE o.kind = "transport"
    <3>1. /\ e.option.kind = "transport" /\ e.option.arg # None
          /\ Target(given, e.by) = t
      BY <1>1, <1>3, <2>1, <2>2
    <3>2. StackIn(Append(given, e), supplied, t) = <<e.option.arg>>
      BY <2>1, <3>1, StackIsReplaced
    <3> QED BY <3>2, <2>1, <2>2
  <2>3. CASE o.kind = "middleware"
    <3>1. StackIn(given', supplied, t) =
            Wrap(StackIn(given, supplied, t), e.option.arg)
      BY <1>1, <1>3, <2>1, <2>3, StackIsWrapped
    <3> QED BY <3>1, <2>1, <2>3
  <2> QED BY <1>1, <2>2, <2>3
<1> HIDE DEF t, x
<1>7. /\ http' \in [HTTPs -> [timeout : AnyTimeout, transport : Seq(Layer)]]
      /\ \A a \in HTTPs : http'[a].timeout = Allocated(c)[a].timeout
      /\ \A a \in HTTPs : http'[a].transport = IF a = t THEN x ELSE http[a].transport
  BY <1>3, <1>4, <1>5
<1>8. /\ client'[c].http = t /\ client'[c].timeout = client[c].timeout
      /\ client'[c].stage = "building" /\ client[c].stage = "building"
      /\ \A d \in Clients \ {c} : client'[d] = client[d]
  BY <1>2, <1>4 DEF Building, SetupTypeOK
<1>9. SetupTypeOK'
  <2>1. given' \in Seq(Entry)
    BY OwnPlaces
  <2>2. client' \in [Clients -> [stage : {"absent", "building", "built"},
                                timeout : AnyTimeout, http : HTTPs \cup {None}]]
    BY <1>2, <1>3, <1>4 DEF SetupTypeOK
  <2> QED BY <2>1, <2>2, <1>2, <1>7 DEF SetupTypeOK
<1>10. Pointing(c)'
  <2>1. PlacesIn(given', c, Layers) # {} /\ Target(given', c) = t
    BY <1>1, <1>3, OwnPlaces
  <2> QED BY <2>1, <1>3, <1>8 DEF Pointing
<1>11. Timing(c)'
  <2>1. client'[c].timeout =
          LastIn(given', PlacesIn(given', c, {"timeout"}), Default)
    BY <1>1, <1>2, <1>8, OwnPlaces DEF Timing
  <2>2. ASSUME t = c PROVE http'[c].timeout = TimeoutIn(given', c)
    <3>1. TimeoutIn(given', c) = TimeoutIn(given, c)
      BY <1>1, OwnPlaces
    <3>2. http'[c].timeout =
            IF client[c].http = None THEN client[c].timeout ELSE http[c].timeout
      BY <1>3, <1>7, <2>2
    <3>3. CASE client[c].http = None
      <4>1. PlacesIn(given, c, Layers) = {}
        BY <3>3, <1>2 DEF Pointing
      <4>2. InTimeIn(given, c) = PlacesIn(given, c, {"timeout"})
        BY <4>1 DEF InTimeIn
      <4> QED BY <3>1, <3>2, <3>3, <4>2, <1>2, <1>8 DEF Timing, TimeoutIn
    <3>4. CASE client[c].http # None
      <4>1. client[c].http = c
        BY <3>4, <2>2, <1>2, <1>3 DEF Pointing
      <4> QED BY <3>1, <3>2, <3>4, <4>1, <1>2 DEF Timing
    <3> QED BY <3>3, <3>4
  <2> QED BY <2>1, <2>2, <1>8 DEF Timing
<1>12. \A d \in Clients : Pointing(d)' /\ Timing(d)'
  <2> TAKE d \in Clients
  <2>1. CASE d # c
    <3>1. http'[d].timeout = http[d].timeout
      BY <2>1, <1>3, <1>7 DEF HTTPs
    <3> QED BY <2>1, <3>1, <1>8, OthersStay
  <2> QED BY <2>1, <1>10, <1>11
<1>13. UserTimeoutStays'
  BY <1>2, <1>3, <1>7 DEF SetupInv, UserTimeoutStays, HTTPs
<1>14. StacksInOrder'
  <2> SUFFICES ASSUME NEW a \in HTTPs
               PROVE  http'[a].transport = StackIn(given', supplied', a)
    BY DEF StacksInOrder
  <2>1. CASE a = t
    BY <2>1, <1>6, <1>7
  <2>2. CASE a # t
    <3>1. StackIn(given', supplied, a) = StackIn(given, supplied, a)
      BY <2>2, <1>3, OwnPlaces
    <3> QED BY <2>2, <3>1, <1>7 DEF SetupInv, StacksInOrder
  <2> QED BY <2>1, <2>2
<1> QED BY <1>9, <1>12, <1>13, <1>14 DEF SetupInv

\* So every option keeps the invariant, wherever it comes from.
LEMMA ApplySetup ==
  ASSUME SetupInv, NEW c \in Clients, NEW o \in Option, Apply(c, o),
         queue' \in Seq(Option)
  PROVE  SetupInv'
<1>1. /\ Building(c) /\ UNCHANGED supplied
      /\ given' = Append(given, [by |-> c, option |-> o])
      /\ SetTimeout(c, o) \/ UseHTTPClient(c, o) \/ Install(c, o) \/ Ignore(o)
  BY DEF Apply
<1> QED BY <1>1, SetTimeoutSetup, UseHTTPClientSetup, InstallSetup, IgnoreSetup

\* What FromConfig puts in front are options.
LEMMA ConfigOptionsType == ConfigOptions \in SUBSET Seq(Option)
<1> DEFINE T == [kind : {"timeout"}, arg : Timeouts]
           U == [kind : {"transport"}, arg : Transports]
           One == {<<o>> : o \in T \cup U}
<1>1. T \cup U \in SUBSET Option
  BY DEF Option
<1>2. ConfigOptions = {<<>>} \cup One \cup (T \X U)
  BY DEF ConfigOptions
<1> HIDE DEF T, U
<1>3. \A o \in T \cup U : <<o>> \in Seq(Option)
  BY <1>1
<1>4. \A o \in T, p \in U : <<o, p>> \in Seq(Option)
  BY <1>1
<1>5. \A q \in One : q \in Seq(Option)
  BY <1>3
<1>6. ASSUME NEW q \in T \X U PROVE q \in Seq(Option)
  <2>1. q = <<q[1], q[2]>> /\ q[1] \in T /\ q[2] \in U
    OBVIOUS
  <2> QED BY <2>1, <1>4
<1>7. <<>> \in Seq(Option)
  OBVIOUS
<1> HIDE DEF One
<1> QED BY <1>2, <1>5, <1>6, <1>7

\* A new client points nowhere and has the default timeout.
LEMMA ConstructSetup ==
  ASSUME SetupInv, NEW c \in Clients, Construct(c)
  PROVE  SetupInv'
<1>1. SetupTypeOK /\ Pointing(c) /\ c # None
  BY SetupAssumption DEF SetupInv
<1>2. /\ client[c].stage = "absent"
      /\ client' = [client EXCEPT ![c] =
                      [stage |-> "building", timeout |-> Default, http |-> None]]
      /\ queue' \in Seq(Option)
      /\ UNCHANGED <<http, given, supplied>>
  BY ConfigOptionsType DEF Construct
<1>3. SetupTypeOK'
  BY <1>1, <1>2 DEF SetupTypeOK, AnyTimeout
<1>4. /\ client'[c] = [stage |-> "building", timeout |-> Default, http |-> None]
      /\ \A d \in Clients \ {c} : client'[d] = client[d]
  BY <1>1, <1>2 DEF SetupTypeOK
<1>5. PlacesIn(given, c, {"timeout"}) = {}
  BY <1>1, <1>2 DEF Pointing, PlacesIn
<1>6. Pointing(c)' /\ Timing(c)'
  BY <1>1, <1>2, <1>4, <1>5 DEF Pointing, Timing, LastIn
<1>7. \A d \in Clients \ {c} : Pointing(d)' /\ Timing(d)'
  BY <1>2, <1>4 DEF SetupInv, Pointing, Timing
<1>8. UserTimeoutStays' /\ StacksInOrder'
  BY <1>2 DEF SetupInv, UserTimeoutStays, StacksInOrder
<1> QED BY <1>3, <1>6, <1>7, <1>8 DEF SetupInv

\* A client without an http.Client gets one at the end of New.
LEMMA BuildSetup == ASSUME SetupInv, NEW c \in Clients, Build(c) PROVE SetupInv'
<1> DEFINE t == Ensured(c)
<1>1. SetupTypeOK /\ Pointing(c) /\ Timing(c) /\ c \notin UserHTTP
  BY SetupAssumption DEF SetupInv
<1>2. /\ t = Target(given, c) /\ t \in HTTPs /\ t # None
      /\ http' \in [HTTPs -> [timeout : AnyTimeout, transport : Seq(Layer)]]
      /\ \A a \in HTTPs : http'[a].transport = http[a].transport
      /\ \A a \in HTTPs \ {c} : http'[a].timeout = http[a].timeout
      /\ http'[c].timeout =
           IF client[c].http = None THEN client[c].timeout ELSE http[c].timeout
  BY AllocatedFacts DEF Build
<1>3. /\ client[c].stage = "building"
      /\ client' = [client EXCEPT ![c].http = t, ![c].stage = "built"]
      /\ UNCHANGED <<queue, given, supplied>>
  BY DEF Build, Building
<1> HIDE DEF t
<1>4. SetupTypeOK'
  BY <1>1, <1>2, <1>3 DEF SetupTypeOK
<1>5. /\ client'[c].http = t /\ client'[c].stage = "built"
      /\ client'[c].timeout = client[c].timeout
      /\ \A d \in Clients \ {c} : client'[d] = client[d]
  BY <1>1, <1>3 DEF SetupTypeOK
<1>6. Pointing(c)'
  BY <1>2, <1>3, <1>5 DEF Pointing
<1>7. Timing(c)'
  <2>1. ASSUME t = c PROVE http'[c].timeout = TimeoutIn(given, c)
    <3>1. CASE client[c].http = None
      <4>1. PlacesIn(given, c, Layers) = {}
        BY <3>1, <1>1 DEF Pointing
      <4>2. InTimeIn(given, c) = PlacesIn(given, c, {"timeout"})
        BY <4>1 DEF InTimeIn
      <4> QED BY <3>1, <4>2, <1>1, <1>2, <1>3 DEF Timing, TimeoutIn
    <3>2. CASE client[c].http # None
      <4>1. client[c].http = c
        BY <3>2, <2>1, <1>1, <1>2 DEF Pointing
      <4> QED BY <3>2, <4>1, <1>1, <1>2 DEF Timing
    <3> QED BY <3>1, <3>2
  <2> QED BY <2>1, <1>1, <1>3, <1>5 DEF Timing
<1>8. \A d \in Clients \ {c} : Pointing(d)' /\ Timing(d)'
  <2> TAKE d \in Clients \ {c}
  <2>1. http'[d].timeout = http[d].timeout /\ client'[d] = client[d]
    BY <1>2, <1>5 DEF HTTPs
  <2>2. Pointing(d) /\ Timing(d)
    BY DEF SetupInv
  <2> QED BY <2>1, <2>2, <1>3 DEF Pointing, Timing
<1>9. UserTimeoutStays'
  BY <1>1, <1>2 DEF SetupInv, UserTimeoutStays, HTTPs
<1>10. StacksInOrder'
  BY <1>2, <1>3 DEF SetupInv, StacksInOrder
<1> QED BY <1>4, <1>6, <1>7, <1>8, <1>9, <1>10 DEF SetupInv

\* Every step of the construction keeps the invariant.
LEMMA StepSetup == ASSUME SetupInv, SetupStep \/ UNCHANGED setupVars PROVE SetupInv'
<1>1. SetupTypeOK
  BY DEF SetupInv
<1>2. ASSUME NEW c \in Clients, ApplyConfigured(c) PROVE SetupInv'
  <2>1. Head(queue) \in Option /\ Tail(queue) \in Seq(Option)
    BY <1>1, <1>2 DEF SetupTypeOK, ApplyConfigured
  <2> QED BY <2>1, <1>2, ApplySetup DEF ApplyConfigured
<1>3. ASSUME NEW c \in Clients, NEW o \in Options, ApplyPassed(c, o) PROVE SetupInv'
  <2>1. o \in Option /\ queue' \in Seq(Option)
    BY <1>1, <1>3, SetupAssumption DEF SetupTypeOK, ApplyPassed
  <2> QED BY <2>1, <1>3, ApplySetup DEF ApplyPassed
<1>4. CASE UNCHANGED setupVars
  BY <1>4 DEF setupVars, SetupInv, SetupTypeOK, Pointing, Timing, UserTimeoutStays,
              StacksInOrder
<1> QED BY <1>2, <1>3, <1>4, ConstructSetup, BuildSetup DEF SetupStep

-----------------------------------------------------------------------------
(***************************************************************************)
(* What the invariant says of the properties of ClientSetup.               *)
(***************************************************************************)
\* The timeout in force is the last one given before the first layer.
LEMMA TimeoutFollows ==
  ASSUME SetupInv, NEW c \in Clients, client[c].stage = "built"
  PROVE  TimeoutOf(c) = IF Places(c, {"httpClient"}) # {} THEN UserTimeout
                        ELSE TimeoutIn(given, c)
<1>1. /\ Pointing(c) /\ Timing(c) /\ UserTimeoutStays /\ given \in Seq(Entry)
  BY DEF SetupInv, SetupTypeOK
<1>2. client[c].http = Target(given, c)
  BY <1>1 DEF Pointing
<1>3. Places(c, {"httpClient"}) = PlacesIn(given, c, {"httpClient"})
  BY DEF Places, PlacesIn
<1> QED BY <1>1, <1>2, <1>3, TargetType DEF Timing, UserTimeoutStays, TimeoutOf

\* Such a timeout is one that was asked for, and the last if none is too late.
LEMMA AskedFollows == SetupInv => TimeoutIsAskedFor
<1> SUFFICES ASSUME SetupInv, NEW c \in Clients, client[c].stage = "built",
                    Places(c, {"httpClient"}) = {}
             PROVE  LET asked == Places(c, {"timeout"})
                    IN  /\ TimeoutOf(c) \in {Default} \cup
                             {given[i].option.arg : i \in asked}
                        /\ (\A i \in asked, j \in Places(c, Layers) : i < j) =>
                             TimeoutOf(c) = LastArg(asked, Default)
  BY TimeoutFollows DEF TimeoutIsAskedFor
<1> DEFINE asked == Places(c, {"timeout"})
           inTime == InTimeIn(given, c)
<1>1. /\ asked = PlacesIn(given, c, {"timeout"})
      /\ Places(c, Layers) = PlacesIn(given, c, Layers)
  BY DEF Places, PlacesIn
<1>2. inTime \subseteq asked
  BY <1>1 DEF InTimeIn
<1>3. given \in Seq(Entry) /\ Len(given) \in Nat
  BY DEF SetupInv, SetupTypeOK
<1>4. Positions(inTime, Len(given))
  BY <1>3, LogFacts DEF InTimeIn, Positions
<1>5. TimeoutOf(c) = LastArg(inTime, Default)
  BY TimeoutFollows DEF TimeoutIn, LastIn, LastArg
<1>6. inTime # {} => Max(inTime) \in inTime
  BY <1>3, <1>4, MaxFacts
<1>7. TimeoutOf(c) \in {Default} \cup {given[i].option.arg : i \in asked}
  <2> HIDE DEF asked, inTime
  <2> QED BY <1>2, <1>5, <1>6 DEF LastArg
<1>8. (\A i \in asked, j \in Places(c, Layers) : i < j) => inTime = asked
  BY <1>1 DEF InTimeIn
<1> QED BY <1>5, <1>7, <1>8

\* The stacks are those that the log describes.
LEMMA OrderFollows == SetupInv => StackIsInOrder
<1> SUFFICES ASSUME SetupInv PROVE StackIsInOrder
  OBVIOUS
<1>1. \A c, kinds : Places(c, kinds) = PlacesIn(given, c, kinds)
  BY DEF Places, PlacesIn
<1>2. \A S, o : LastArg(S, o) = LastIn(given, S, o)
  BY DEF LastArg, LastIn
<1>3. \A a : MeantFor(a) = MeantIn(given, a)
  BY <1>1, <1>2 DEF MeantFor, MeantIn, TargetAt
<1>4. \A S : InOrder(S) = OrderIn(given, S)
  BY Zenon DEF InOrder, OrderIn, At, Rank, UpTo
<1>5. \A a \in HTTPs : http[a].transport = StackIn(given, supplied, a)
  BY DEF SetupInv, StacksInOrder
<1> QED BY <1>2, <1>3, <1>4, <1>5
        DEF StackIsInOrder, StackIn, BaseIn, AboveIn, TransportsIn
=============================================================================
