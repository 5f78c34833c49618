--------------------------- MODULE RetryLoop_proofs ---------------------------
(***************************************************************************)
(* Proofs about RetryLoop, for any set of configurations and errors, any   *)
(* width of a Duration and any grain of the random draws.  How often the   *)
(* operation runs is a matter of the control of the loop, and its proof    *)
(* does not look inside Delays; what the waits amount to is arithmetic,    *)
(* with an induction over the multiplications of the backoff.              *)
(***************************************************************************)
EXTENDS RetryLoop, WellFoundedInduction, TLAPS

\* The types of the variables that steer the loop.
Control ==
  /\ cfg \in Configs
  /\ pc \in {"head", "running", "sleeping", "done"}
  /\ attempt \in 0 .. MaxRetries(cfg)
  /\ ctx \in {"live", "ended"}
  /\ result \in {"none", "value", "ctx", "permanent", "exhausted", "stopped"}
  /\ attempts \in Nat /\ runs \in Nat

\* The counter follows the runs: it is one behind from a run to the next head.
Counting ==
  /\ pc = "head" => runs = attempt
  /\ pc \in {"running", "sleeping"} => runs = attempt + 1
  /\ pc = "sleeping" => attempt < MaxRetries(cfg)

\* The loop has a result only when it is done.
Undecided == pc # "done" => result = "none"

\* The inductive invariant.
IInv == Control /\ Counting /\ Undecided /\ OutcomeIsAccountedFor

\* A negative MaxRetries is read as 0.
LEMMA MaxRetriesNat == ASSUME NEW c \in Configs PROVE MaxRetries(c) \in Nat
BY LoopAssumption DEF Config, MaxRetries

-----------------------------------------------------------------------------
\* Init establishes the inductive invariant.
LEMMA InitIInv == Init => IInv
<1> SUFFICES ASSUME Init PROVE IInv
  OBVIOUS
<1>1. cfg \in Configs /\ MaxRetries(cfg) \in Nat
  BY MaxRetriesNat DEF Init
<1> QED BY <1>1 DEF Init, IInv, Control, Counting, Undecided, OutcomeIsAccountedFor

\* The context ended before the attempt, or the end of the sleep.
LEMMA CtxIInv == ASSUME IInv, Abort \/ CancelSleep PROVE IInv'
<1>1. MaxRetries(cfg) \in Nat
  BY MaxRetriesNat DEF IInv, Control
<1>2. /\ pc \in {"head", "sleeping"} /\ ctx = "ended"
      /\ pc' = "done" /\ result' = "ctx"
      /\ UNCHANGED <<cfg, attempt, ctx, last, attempts, runs>>
  BY DEF Abort, CancelSleep, Return
<1> QED BY <1>1, <1>2
        DEF IInv, Control, Counting, Undecided, OutcomeIsAccountedFor, MaxRetries

\* The operation runs once more.
LEMMA RunIInv == ASSUME IInv, Run PROVE IInv'
<1>1. MaxRetries(cfg) \in Nat
  BY MaxRetriesNat DEF IInv, Control
<1>2. /\ pc = "head" /\ pc' = "running" /\ runs' = runs + 1
      /\ UNCHANGED <<cfg, attempt, ctx, last, result, attempts>>
  BY DEF Run
<1> QED BY <1>1, <1>2
        DEF IInv, Control, Counting, Undecided, OutcomeIsAccountedFor, MaxRetries

\* The operation returns a value.
LEMMA SucceedIInv == ASSUME IInv, Succeed PROVE IInv'
<1>1. MaxRetries(cfg) \in Nat
  BY MaxRetriesNat DEF IInv, Control
<1>2. /\ pc = "running" /\ pc' = "done" /\ result' = "value"
      /\ UNCHANGED <<cfg, attempt, ctx, last, attempts, runs>>
  BY DEF Succeed, Return
<1> QED BY <1>1, <1>2
        DEF IInv, Control, Counting, Undecided, OutcomeIsAccountedFor, MaxRetries

\* The operation fails: the loop gives up, for one of three reasons, or waits.
LEMMA FailIInv == ASSUME IInv, NEW e \in Errors, Fail(e) PROVE IInv'
<1>1. MaxRetries(cfg) \in Nat /\ MaxRetries(cfg)' = MaxRetries(cfg)
  BY MaxRetriesNat DEF IInv, Control, Fail, MaxRetries
<1>2. /\ pc = "running" /\ last' = e
      /\ UNCHANGED <<cfg, ctx, runs>>
      /\ runs = attempt + 1
  BY DEF Fail, IInv, Counting
<1>3. /\ e.carrier \in {"none", "transient", "permanent"}
      /\ e.transient \in BOOLEAN /\ cfg.classified \in BOOLEAN
  BY LoopAssumption DEF IInv, Control, Failure, Config
<1>4. CASE Stop(e)
  BY <1>1, <1>2, <1>3, <1>4
     DEF IInv, Control, Counting, Undecided, OutcomeIsAccountedFor,
         Stop, Permanent, Return
<1>5. CASE Exhaust(e)
  BY <1>1, <1>2, <1>3, <1>5
     DEF IInv, Control, Counting, Undecided, OutcomeIsAccountedFor,
         Exhaust, OutOfRetries, Permanent, Return
<1>6. CASE Gate(e)
  BY <1>1, <1>2, <1>6
     DEF IInv, Control, Counting, Undecided, OutcomeIsAccountedFor,
         Gate, OutOfRetries, Return
<1>7. CASE Wait(e)
  <2>1. /\ attempt < MaxRetries(cfg)
        /\ UNCHANGED <<result, attempts>>
        /\ \/ pc' = "sleeping" /\ attempt' = attempt
           \/ pc' = "head" /\ attempt' = attempt + 1
    BY <1>1, <1>7 DEF Wait, OutOfRetries, IInv, Control
  <2> QED BY <1>1, <1>2, <2>1
          DEF IInv, Control, Counting, Undecided, OutcomeIsAccountedFor
<1> QED BY <1>4, <1>5, <1>6, <1>7 DEF Fail

\* The sleep is over.
LEMMA FireIInv == ASSUME IInv, Fire PROVE IInv'
<1>1. MaxRetries(cfg) \in Nat
  BY MaxRetriesNat DEF IInv, Control
<1>2. /\ pc = "sleeping" /\ pc' = "head" /\ attempt' = attempt + 1
      /\ UNCHANGED <<cfg, ctx, last, result, attempts, runs>>
  BY DEF Fire
<1> QED BY <1>1, <1>2
        DEF IInv, Control, Counting, Undecided, OutcomeIsAccountedFor, MaxRetries

\* The context ends.
LEMMA CtxEndsIInv == ASSUME IInv, CtxEnds PROVE IInv'
BY DEF CtxEnds, IInv, Control, Counting, Undecided, OutcomeIsAccountedFor, MaxRetries

\* Every step preserves the inductive invariant.
LEMMA StepIInv == IInv /\ [Next]_vars => IInv'
<1> SUFFICES ASSUME IInv, [Next]_vars PROVE IInv'
  OBVIOUS
<1>1. CASE Loop
  BY <1>1, CtxIInv, RunIInv, SucceedIInv, FailIInv, FireIInv DEF Loop
<1>2. CASE CtxEnds
  BY <1>2, CtxEndsIInv
<1>3. CASE UNCHANGED vars
  BY <1>3 DEF vars, IInv, Control, Counting, Undecided, OutcomeIsAccountedFor,
              MaxRetries
<1> QED BY <1>1, <1>2, <1>3 DEF Next

-----------------------------------------------------------------------------
(***************************************************************************)
(* Whatever its configuration and the errors it meets, the loop runs the   *)
(* operation at most 1 + MaxRetries times; gives up as exhausted only then *)
(* and with the true count; and gives up early only on an error that is    *)
(* permanent, on its BeforeRetry or on its context.                        *)
(***************************************************************************)
THEOREM OutcomeIsAccountedForHolds == Spec => []OutcomeIsAccountedFor
<1>1. IInv => OutcomeIsAccountedFor
  BY DEF IInv
<1> QED BY <1>1, InitIInv, StepIInv, PTL DEF Spec

-----------------------------------------------------------------------------
\* The order of the naturals, as a relation.
Less == {p \in Nat \X Nat : p[1] < p[2]}

\* Any naturals have a least one ...
LEMMA Least ==
  ASSUME NEW T \in SUBSET Nat, T # {}
  PROVE  \E m \in T : \A n \in T : ~(n < m)
<1>1. IsWellFoundedOn(Less, Nat)
  BY NatLessThanWellFounded DEF OpToRel, Less
<1>2. \E m \in T : \A n \in T : <<n, m>> \notin Less
  BY <1>1, WFMin
<1> QED BY <1>2 DEF Less

\* ... which is induction, over a set.
LEMMA Induction ==
  ASSUME NEW S, 0 \in S, \A n \in Nat : n \in S => n + 1 \in S
  PROVE  \A n \in Nat : n \in S
<1> SUFFICES ASSUME Nat \ S # {} PROVE FALSE
  OBVIOUS
<1> DEFINE T == Nat \ S
<1>1. PICK m \in T : \A n \in T : ~(n < m)
  <2>1. T \in SUBSET Nat /\ T # {}
    OBVIOUS
  <2> HIDE DEF T
  <2> QED BY <2>1, Least
<1>2. m # 0 /\ m - 1 \in Nat /\ m - 1 < m
  BY <1>1
<1> QED BY <1>1, <1>2

\* g is the power function as far as n.
UpTo(b, n, g) ==
  /\ g \in [0 .. n -> Int]
  /\ \A i \in 0 .. n : g[i] = IF i = 0 THEN 1 ELSE b * g[i - 1]

\* There is such a function for all n: pieced together, it is Power(b).
LEMMA PowerDef ==
  ASSUME NEW b \in Int
  PROVE  Power(b) = [n \in Nat |-> IF n = 0 THEN 1 ELSE b * Power(b)[n - 1]]
<1>1. \A n \in Nat : \E g : UpTo(b, n, g)
  <2> DEFINE S == {n \in Nat : \E g : UpTo(b, n, g)}
  <2>1. 0 \in S
    <3>1. UpTo(b, 0, [i \in 0 .. 0 |-> 1])
      BY DEF UpTo
    <3> QED BY <3>1
  <2>2. ASSUME NEW n \in Nat, n \in S PROVE n + 1 \in S
    <3>1. PICK g : UpTo(b, n, g)
      BY <2>2
    <3> DEFINE h == [i \in 0 .. n + 1 |-> IF i = n + 1 THEN b * g[n] ELSE g[i]]
    <3>2. h \in [0 .. n + 1 -> Int]
      BY <3>1 DEF UpTo
    <3>3. \A i \in 0 .. n + 1 : h[i] = IF i = 0 THEN 1 ELSE b * h[i - 1]
      <4>1. h[n + 1] = b * h[n]
        OBVIOUS
      <4>2. \A i \in 0 .. n : h[i] = IF i = 0 THEN 1 ELSE b * h[i - 1]
        BY <3>1 DEF UpTo
      <4> HIDE DEF h
      <4>3. \A i \in 0 .. n + 1 : i \in 0 .. n \/ (i = n + 1 /\ i # 0 /\ i - 1 = n)
        OBVIOUS
      <4> QED BY <4>1, <4>2, <4>3
    <3>4. UpTo(b, n + 1, h)
      BY <3>2, <3>3 DEF UpTo
    <3> HIDE DEF h
    <3> QED BY <3>4
  <2> HIDE DEF S
  <2>3. \A n \in Nat : n \in S
    BY <2>1, <2>2, Induction
  <2> QED BY <2>3 DEF S
<1> DEFINE part(n) == CHOOSE g : UpTo(b, n, g)
           f == [n \in Nat |-> part(n)[n]]
<1>2. \A n \in Nat : UpTo(b, n, part(n))
  BY <1>1
<1> HIDE DEF part
<1>3. ASSUME NEW n \in Nat PROVE part(n)[n] = part(n + 1)[n]
  <2> DEFINE S == {i \in Nat : i <= n => part(n)[i] = part(n + 1)[i]}
  <2>1. UpTo(b, n, part(n)) /\ UpTo(b, n + 1, part(n + 1))
    BY <1>2
  <2>2. 0 \in S
    BY <2>1 DEF UpTo
  <2>3. ASSUME NEW i \in Nat, i \in S PROVE i + 1 \in S
    <3>1. i + 1 <= n => /\ part(n)[i + 1] = b * part(n)[i]
                        /\ part(n + 1)[i + 1] = b * part(n + 1)[i]
      BY <2>1 DEF UpTo
    <3> QED BY <2>3, <3>1
  <2> HIDE DEF S
  <2>4. \A i \in Nat : i \in S
    BY <2>2, <2>3, Induction
  <2> QED BY <2>4 DEF S
<1>4. \A n \in Nat : f[n] = IF n = 0 THEN 1 ELSE b * f[n - 1]
  <2>1. ASSUME NEW n \in Nat, n # 0 PROVE f[n] = b * f[n - 1]
    <3>1. part(n)[n] = b * part(n)[n - 1]
      BY <1>2, <2>1 DEF UpTo
    <3>2. n - 1 \in Nat /\ (n - 1) + 1 = n
      BY <2>1
    <3>3. part(n - 1)[n - 1] = part(n)[n - 1]
      BY <1>3, <3>2
    <3> QED BY <3>1, <3>2, <3>3
  <2>2. f[0] = 1
    BY <1>2 DEF UpTo
  <2> QED BY <2>1, <2>2
<1>5. f = [n \in Nat |-> IF n = 0 THEN 1 ELSE b * f[n - 1]]
  BY <1>4
<1> HIDE DEF f
<1> QED BY <1>5 DEF Power

\* The powers of an integer.
LEMMA PowerFacts ==
  ASSUME NEW b \in Int
  PROVE  /\ Power(b)[0] = 1
         /\ \A n \in Nat : Power(b)[n] \in Int /\ Power(b)[n + 1] = b * Power(b)[n]
<1>1. Power(b)[0] = 1
  BY PowerDef
<1>2. \A n \in Nat : Power(b)[n + 1] = b * Power(b)[n]
  <2> TAKE n \in Nat
  <2> DEFINE F(p) == [i \in Nat |-> IF i = 0 THEN 1 ELSE b * p[i - 1]]
  <2>1. Power(b)[n + 1] = F(Power(b))[n + 1]
    BY PowerDef
  <2> QED BY <2>1
<1> DEFINE S == {n \in Nat : Power(b)[n] \in Int}
<1>3. 0 \in S /\ \A n \in Nat : n \in S => n + 1 \in S
  BY <1>1, <1>2
<1> HIDE DEF S
<1>4. \A n \in Nat : n \in S
  BY <1>3, Induction
<1> QED BY <1>1, <1>2, <1>4 DEF S

-----------------------------------------------------------------------------
\* Multiplication and division are monotonic.
LEMMA MulMono ==
  ASSUME NEW a \in Int, NEW b \in Int, a <= b, NEW m \in Nat
  PROVE  a * m \in Int /\ a * m <= b * m /\ m * a <= m * b
OBVIOUS

\* Division by its remainder.
LEMMA DivDef ==
  ASSUME NEW a \in Int, NEW b \in Nat \ {0}
  PROVE  a \div b \in Int /\ b * (a \div b) <= a /\ a < b * (a \div b) + b
OBVIOUS

\* Bounds of a quotient.
LEMMA DivAtMost ==
  ASSUME NEW a \in Int, NEW b \in Nat \ {0}, NEW q \in Int, a <= b * q
  PROVE  a \div b <= q
BY DivDef

\* A strict bound of the dividend bounds the quotient strictly.
LEMMA DivBelow ==
  ASSUME NEW a \in Int, NEW b \in Nat \ {0}, NEW q \in Int, a < b * q
  PROVE  a \div b < q
BY DivDef

\* A lower bound.
LEMMA DivAtLeast ==
  ASSUME NEW a \in Int, NEW b \in Nat \ {0}, NEW q \in Int, b * q <= a
  PROVE  q <= a \div b
BY DivDef

\* Division keeps the order.
LEMMA DivMono ==
  ASSUME NEW a \in Int, NEW c \in Int, a <= c, NEW b \in Nat \ {0}
  PROVE  a \div b \in Int /\ c \div b \in Int /\ a \div b <= c \div b
OBVIOUS

\* Quotients of naturals.
LEMMA DivNat ==
  ASSUME NEW a \in Nat, NEW b \in Nat \ {0}
  PROVE  a \div b \in Nat
OBVIOUS

\* A number that fits is not changed by the width of a Duration ...
LEMMA WrappedSmall ==
  ASSUME NEW x \in Nat, NEW s \in Nat \ {0}, x < s
  PROVE  ((x + s) % (2 * s)) - s = x
OBVIOUS

\* ... and any other becomes one that fits.
LEMMA Modulo ==
  ASSUME NEW x \in Int, NEW s \in Nat \ {0}
  PROVE  ((x + s) % (2 * s)) - s \in -s .. s - 1
OBVIOUS

\* A draw below one takes a part of the whole, and never all of it.
LEMMA Draw ==
  ASSUME NEW h \in Nat, NEW G \in Nat \ {0}, NEW k \in 0 .. G - 1
  PROVE  /\ (h * k) \div G \in Nat
         /\ (h * k) \div G <= h
         /\ h > 0 => (h * k) \div G < h
OBVIOUS

\* A power of a positive number is positive.
LEMMA PowerPositive ==
  ASSUME NEW b \in Nat \ {0}, NEW n \in Nat
  PROVE  Power(b)[n] \in Nat \ {0}
<1> DEFINE S == {j \in Nat : Power(b)[j] \in Nat \ {0}}
<1>1. 0 \in S
  BY PowerFacts
<1>2. ASSUME NEW j \in Nat, j \in S PROVE j + 1 \in S
  <2>1. Power(b)[j + 1] = b * Power(b)[j] /\ Power(b)[j] \in Nat \ {0}
    BY <1>2, PowerFacts
  <2> QED BY <2>1
<1> HIDE DEF S
<1>3. n \in S
  BY <1>1, <1>2, Induction
<1> QED BY <1>3 DEF S

\* The larger base has the larger powers.
LEMMA PowerMono ==
  ASSUME NEW p \in Nat, NEW q \in Nat \ {0}, q <= p, NEW n \in Nat
  PROVE  Power(q)[n] <= Power(p)[n]
<1> DEFINE S == {j \in Nat : Power(q)[j] <= Power(p)[j]}
<1>1. 0 \in S
  BY PowerFacts
<1>2. ASSUME NEW j \in Nat, j \in S PROVE j + 1 \in S
  <2> DEFINE a == Power(q)[j]
             b == Power(p)[j]
  <2>1. a \in Nat /\ b \in Nat /\ a <= b
    BY <1>2, PowerPositive
  <2>2. Power(q)[j + 1] = q * a /\ Power(p)[j + 1] = p * b
    BY PowerFacts
  <2> HIDE DEF a, b
  <2>3. q * a <= q * b /\ q * b <= p * b
    BY <2>1, MulMono
  <2>4. q * a \in Int /\ q * b \in Int /\ p * b \in Int
    BY <2>1
  <2> QED BY <2>2, <2>3, <2>4
<1> HIDE DEF S
<1>3. n \in S
  BY <1>1, <1>2, Induction
<1> QED BY <1>3 DEF S

\* A backoff that does not shrink reaches the cap for good.
LEMMA CapIsFinal ==
  ASSUME NEW c \in Configs, Grows(c), c.initial >= 0,
         NEW i \in Nat, ReachesCap(c, i), NEW n \in Nat, i <= n
  PROVE  ReachesCap(c, n)
<1> DEFINE p == c.multiplier[1]
           q == c.multiplier[2]
           a(j) == c.initial * Power(p)[j]
           b(j) == Power(q)[j]
<1>1. /\ c.initial \in Nat /\ c.cap \in Int
      /\ p \in Nat \ {0} /\ q \in Nat \ {0} /\ p >= q
  BY LoopAssumption DEF Config, Grows
<1> HIDE DEF p, q
<1>2. ASSUME NEW j \in Nat, a(j) >= c.cap * b(j) PROVE a(j + 1) >= c.cap * b(j + 1)
  <2>1. /\ Power(p)[j] \in Nat /\ b(j) \in Nat
        /\ Power(p)[j + 1] = p * Power(p)[j] /\ b(j + 1) = q * b(j)
    BY <1>1, PowerFacts, PowerPositive
  <2>2. a(j + 1) = a(j) * p /\ a(j) \in Nat
    BY <1>1, <2>1
  <2> HIDE DEF a, b
  <2>3. c.cap * b(j + 1) = (c.cap * b(j)) * q /\ c.cap * b(j) \in Int
    BY <1>1, <2>1
  <2>4. a(j) * q <= a(j) * p
    BY <1>1, <2>2, MulMono
  <2>5. (c.cap * b(j)) * q <= a(j) * q
    BY <1>1, <1>2, <2>1, <2>2, <2>3, MulMono
  <2> QED BY <1>1, <2>1, <2>2, <2>3, <2>4, <2>5
<1> DEFINE S == {j \in Nat : i <= j => a(j) >= c.cap * b(j)}
<1>3. a(i) >= c.cap * b(i)
  BY DEF ReachesCap, p, q
<1>4. 0 \in S
  BY <1>3
<1>5. ASSUME NEW j \in Nat, j \in S PROVE j + 1 \in S
  BY <1>2, <1>3, <1>5
<1> HIDE DEF S
<1>6. n \in S
  BY <1>4, <1>5, Induction
<1> QED BY <1>6 DEF S, ReachesCap, p, q

\* The whole units of a fraction lie between it and zero.
LEMMA TruncatedFacts ==
  ASSUME NEW a \in Int, NEW b \in Nat \ {0}
  PROVE  /\ Truncated(a, b) \in Int
         /\ \A q \in Int : b * q <= a /\ Truncated(a, b) >= 0 => q <= Truncated(a, b)
         /\ a <= -b => Truncated(a, b) < 0
<1>1. CASE a >= 0
  <2>1. Truncated(a, b) = a \div b /\ a \div b \in Nat
    BY <1>1, DivNat DEF Truncated
  <2> QED BY <1>1, <2>1, DivAtLeast
<1>2. CASE a < 0
  <2>1. Truncated(a, b) = -((-a) \div b) /\ -a \in Nat
    BY <1>2 DEF Truncated
  <2>2. (-a) \div b \in Nat
    BY <2>1, DivNat
  <2>3. ASSUME NEW q \in Int, b * q <= a PROVE q < 0
    <3>1. q >= 0 => b * q >= 0
      BY MulMono
    <3> QED BY <1>2, <2>3, <3>1
  <2>4. a <= -b => (-a) \div b >= 1
    BY <2>1, DivAtLeast
  <2> QED BY <2>1, <2>2, <2>3, <2>4
<1> QED BY <1>1, <1>2

\* What is below zero and grows stays below zero, by a whole unit.
LEMMA NegativeGrowth ==
  ASSUME NEW c \in Configs, Grows(c), c.initial < 0, NEW n \in Nat
  PROVE  Grown(c, n) < 0
<1> DEFINE x == Power(c.multiplier[1])[n]
           y == Power(c.multiplier[2])[n]
           m == -c.initial
<1>1. /\ m \in Nat /\ 1 <= m
      /\ c.multiplier[1] \in Nat \ {0} /\ c.multiplier[2] \in Nat \ {0}
      /\ c.multiplier[2] <= c.multiplier[1]
  BY LoopAssumption DEF Config, Grows
<1>2. x \in Nat /\ y \in Nat \ {0} /\ y <= x
  BY <1>1, PowerPositive, PowerMono
<1>3. c.initial * x = -(m * x)
  <2>1. c.initial = -m /\ m \in Int /\ x \in Int
    BY <1>1, <1>2, LoopAssumption DEF Config
  <2> HIDE DEF x, m
  <2>2. (-m) * x = -(m * x)
    BY <2>1
  <2> QED BY <2>1, <2>2
<1>4. Grown(c, n) = Truncated(c.initial * x, y)
  BY DEF Grown
<1> HIDE DEF x, y, m
<1>5. 1 * x <= m * x /\ m * x \in Int
  BY <1>1, <1>2, MulMono
<1>6. -(m * x) <= -y /\ -(m * x) \in Int
  BY <1>2, <1>5
<1> QED BY <1>2, <1>3, <1>4, <1>6, TruncatedFacts

\* The backoff is one of those it may be, and never more than the cap.
LEMMA BackoffFacts ==
  ASSUME NEW c \in Configs, NEW n \in Nat
  PROVE  /\ BackoffFor(c, n) \in Int /\ BackoffFor(c, n) <= c.cap
         /\ BackoffFor(c, n) \in Backoffs(c, n)
<1> DEFINE x == c.initial * Power(c.multiplier[1])[n]
           y == Power(c.multiplier[2])[n]
<1>1. /\ c.initial \in Int /\ c.cap \in Int
      /\ c.multiplier[1] \in Int /\ c.multiplier[2] \in Nat \ {0}
  BY LoopAssumption DEF Config
<1>2. x \in Int /\ y \in Nat \ {0} /\ Grown(c, n) = Truncated(x, y)
  <2>1. Power(c.multiplier[1])[n] \in Int /\ y \in Nat \ {0}
    BY <1>1, PowerFacts, PowerPositive
  <2>2. Grown(c, n) = Truncated(x, y)
    BY DEF Grown
  <2> HIDE DEF y
  <2>3. x \in Int
    BY <1>1, <2>1
  <2> QED BY <2>1, <2>2, <2>3
<1>3. ReachesCap(c, n) => y * c.cap <= x
  BY <1>1, <1>2 DEF ReachesCap
<1> HIDE DEF x, y
<1>4. Grown(c, n) \in Int /\ (ReachesCap(c, n) /\ Grown(c, n) >= 0 => c.cap <= Grown(c, n))
  BY <1>1, <1>2, <1>3, TruncatedFacts
<1>5. ASSUME Grows(c), Grown(c, n) >= 0, NEW i \in 1 .. n, ReachesCap(c, i)
      PROVE  Grown(c, n) >= c.cap
  <2>1. c.initial >= 0
    BY <1>1, <1>4, <1>5, NegativeGrowth
  <2> QED BY <1>4, <1>5, <2>1, CapIsFinal
<1> HIDE DEF Grown
<1>6. CASE Grown(c, n) < 0
  BY <1>1, <1>4, <1>6 DEF BackoffFor, Backoffs
<1>7. CASE Grown(c, n) >= 0 /\ \E i \in 1 .. n : ReachesCap(c, i)
  <2>1. BackoffFor(c, n) = c.cap
    BY <1>7 DEF BackoffFor
  <2>2. Grows(c) => Formula(c, n) = c.cap
    BY <1>1, <1>4, <1>5, <1>7 DEF Formula, AtMost
  <2> QED BY <1>1, <2>1, <2>2, <1>7, <1>4 DEF Backoffs
<1>8. CASE Grown(c, n) >= 0 /\ ~\E i \in 1 .. n : ReachesCap(c, i)
  <2>1. BackoffFor(c, n) = Formula(c, n)
    BY <1>1, <1>4, <1>8 DEF BackoffFor, Formula, AtMost
  <2>2. Formula(c, n) \in Int /\ Formula(c, n) <= c.cap
    BY <1>1, <1>4 DEF Formula, AtMost
  <2> QED BY <1>4, <1>8, <2>1, <2>2 DEF Backoffs
<1> QED BY <1>4, <1>6, <1>7, <1>8

\* What a jitter makes of a delay.
LEMMA JitterFacts ==
  ASSUME NEW c \in Configs, NEW d \in Int, d > 0, NEW x \in Jittered(c, d)
  PROVE  /\ x \in Int
         /\ c.mode = "none" => x = d
         /\ c.mode = "equal" => x >= d \div 2 /\ x <= d
         /\ c.mode = "full" => x >= 0 /\ x < d
         /\ c.mode = "unset" =>
              /\ x >= 0 /\ x - d <= BandExcess(c, d)
              /\ c.band[1] <= 0 => x = d
              /\ d + BandExcess(c, d) < Span => x >= d - BandExcess(c, d) - 1
<1>1. /\ c.mode \in {"unset", "full", "none", "equal"}
      /\ c.band[1] \in Int /\ c.band[2] \in Nat \ {0}
      /\ Span \in Nat \ {0} /\ Grain \in Nat \ {0}
  BY LoopAssumption DEF Config
<1>2. PICK k \in 0 .. Grain - 1 :
        x \in IF d <= 0 THEN {d}
              ELSE IF c.mode # "unset" THEN {TypedJitter(c.mode, d, k)}
              ELSE IF c.band[1] > 0 THEN BandJitter(c, d, k) ELSE {d}
  BY DEF Jittered
<1>3. d > 0
  OBVIOUS
<1>4. CASE c.mode # "unset"
  <2>1. x = TypedJitter(c.mode, d, k)
    BY <1>2, <1>3, <1>4
  <2>2. CASE c.mode = "none"
    BY <1>3, <2>1, <2>2 DEF TypedJitter
  <2>3. CASE c.mode = "equal"
    <3>1. d \div 2 \in Nat /\ 2 * (d \div 2) <= d
      BY <1>3, DivDef
    <3>2. x = (d \div 2) + ((d \div 2) * k) \div Grain
      BY <2>1, <2>3 DEF TypedJitter
    <3> DEFINE h == d \div 2
    <3> HIDE DEF h
    <3>3. (h * k) \div Grain \in Nat /\ (h * k) \div Grain <= h
      BY <1>1, <3>1, Draw DEF h
    <3>4. x \in Int /\ x >= d \div 2 /\ x <= d
      BY <1>3, <3>1, <3>2, <3>3 DEF h
    <3> QED BY <1>3, <2>3, <3>4
  <2>4. CASE c.mode = "full"
    BY <1>1, <1>3, <2>1, <2>4, Draw DEF TypedJitter
  <2> QED BY <1>1, <1>4, <2>2, <2>3, <2>4
<1>5. CASE c.mode = "unset" /\ c.band[1] <= 0
  <2>1. x = d
    BY <1>1, <1>2, <1>3, <1>5
  <2>2. BandExcess(c, d) = 0
    BY <1>1, <1>3, <1>5 DEF BandExcess, NonNegative
  <2> QED BY <1>3, <1>5, <2>1, <2>2
<1>6. CASE c.mode = "unset" /\ c.band[1] > 0
  <2> DEFINE whole == Grain * c.band[2]
             e == d * c.band[1]
             scaled == d * (whole + c.band[1] * (2 * k - Grain))
  <2>1. whole \in Nat \ {0} /\ e \in Nat /\ scaled \in Int
    <3>1. whole \in Nat \ {0} /\ c.band[1] \in Nat
      BY <1>1, <1>6
    <3>2. e \in Nat
      BY <1>3, <3>1
    <3> HIDE DEF whole
    <3>3. whole + c.band[1] * (2 * k - Grain) \in Int
      BY <1>1, <3>1
    <3>4. scaled \in Int
      BY <3>3
    <3> QED BY <3>1, <3>2, <3>4
  <2>2. BandExcess(c, d) \in Nat /\ e < c.band[2] * (BandExcess(c, d) + 1)
    <3> HIDE DEF e
    <3>1. BandExcess(c, d) = e \div c.band[2]
      BY <1>1, <1>6 DEF BandExcess, NonNegative, e
    <3> DEFINE b == c.band[2]
    <3>2. b \in Nat \ {0}
      BY <1>1
    <3> HIDE DEF b
    <3>3. e \div b \in Nat /\ e < b * (e \div b) + b
      BY <2>1, <3>2, DivDef, DivNat
    <3>4. b * ((e \div b) + 1) = b * (e \div b) + b
      BY <3>2, <3>3
    <3> QED BY <3>1, <3>3, <3>4 DEF b
  <2>3. e * Grain < whole * (BandExcess(c, d) + 1)
    <3> DEFINE f == c.band[2] * (BandExcess(c, d) + 1)
    <3>1. f \in Nat /\ f * Grain = whole * (BandExcess(c, d) + 1)
      BY <1>1, <2>2
    <3> HIDE DEF f, e, whole
    <3>2. e + 1 <= f
      BY <2>1, <2>2, <3>1 DEF f
    <3>3. (e + 1) * Grain <= f * Grain /\ e * Grain \in Int
      BY <1>1, <2>1, <3>1, <3>2, MulMono
    <3> QED BY <1>1, <2>1, <3>1, <3>3
  <2>4. /\ scaled < whole * (d + BandExcess(c, d) + 1)
        /\ whole * (d - BandExcess(c, d) - 1) <= scaled
    <3>1. scaled = whole * d + e * (2 * k - Grain)
      BY <1>1, <1>3
    <3>2. e * (2 * k - Grain) <= e * Grain /\ e * (-Grain) <= e * (2 * k - Grain)
      BY <1>1, <2>1, MulMono
    <3> HIDE DEF e, scaled
    <3>3. /\ whole * d \in Int /\ e * (2 * k - Grain) \in Int /\ e * Grain \in Int
          /\ e * (-Grain) = -(e * Grain)
      BY <1>1, <1>3, <2>1
    <3> DEFINE w == whole * (BandExcess(c, d) + 1)
    <3>4. /\ whole * (d + BandExcess(c, d) + 1) = whole * d + w
          /\ whole * (d - BandExcess(c, d) - 1) = whole * d - w
          /\ w \in Int
      BY <1>3, <2>1, <2>2
    <3>5. e * Grain < w
      BY <2>3
    <3> HIDE DEF whole, w
    <3> QED BY <3>1, <3>2, <3>3, <3>4, <3>5
  <2>5. x \in {NonNegative(y) : y \in ToDuration(scaled \div whole)}
    BY <1>2, <1>3, <1>6 DEF BandJitter
  <2> HIDE DEF scaled, whole, e
  <2>6. /\ scaled \div whole \in Int /\ scaled \div whole < d + BandExcess(c, d) + 1
        /\ d - BandExcess(c, d) - 1 <= scaled \div whole
    <3>1. d + BandExcess(c, d) + 1 \in Int /\ d - BandExcess(c, d) - 1 \in Int
      BY <1>3, <2>2
    <3>2. scaled \div whole < d + BandExcess(c, d) + 1
      BY <2>1, <2>4, <3>1, DivBelow
    <3>3. d - BandExcess(c, d) - 1 <= scaled \div whole
      BY <2>1, <2>4, <3>1, DivAtLeast
    <3>4. scaled \div whole \in Int
      BY <2>1, DivDef
    <3> QED BY <3>2, <3>3, <3>4
  <2>7. x \in Int /\ x >= 0 /\ (x = 0 \/ x <= scaled \div whole)
    BY <1>1, <2>5, <2>6 DEF ToDuration, NonNegative
  <2>8. scaled \div whole < Span => x >= scaled \div whole
    BY <1>1, <2>5, <2>6 DEF ToDuration, NonNegative
  <2>9. d + BandExcess(c, d) < Span => x >= d - BandExcess(c, d) - 1
    BY <1>1, <1>3, <2>2, <2>6, <2>7, <2>8
  <2> QED BY <1>1, <1>3, <1>6, <2>2, <2>6, <2>7, <2>9
<1> QED BY <1>1, <1>3, <1>4, <1>5, <1>6

\* Jitter keeps to its bounds, of any backoff.
LEMMA JitterWithin ==
  ASSUME NEW c \in Configs, NEW b \in Int, NEW x \in Jittered(c, b)
  PROVE  WithinJitter(c, b, x)
<1>1. c.mode \in {"unset", "full", "none", "equal"} /\ c.band[1] \in Int
  BY LoopAssumption DEF Config
<1>2. CASE b <= 0
  BY <1>2 DEF Jittered, WithinJitter
<1>3. CASE b > 0
  <2>1. x \in Int /\ BandExcess(c, b) \in Int
    <3>1. c.band[2] \in Nat \ {0} /\ NonNegative(c.band[1]) \in Nat
      BY <1>1, LoopAssumption DEF Config, NonNegative
    <3>2. b * NonNegative(c.band[1]) \in Int
      BY <3>1
    <3> QED BY <1>3, <3>1, <3>2, JitterFacts, DivDef DEF BandExcess
  <2>2. /\ c.mode = "none" => x = b
        /\ c.mode = "equal" => x >= b \div 2 /\ x <= b
        /\ c.mode = "full" => x >= 0 /\ x < b
        /\ c.mode = "unset" =>
             /\ x >= 0 /\ x - b <= BandExcess(c, b)
             /\ c.band[1] <= 0 => x = b
             /\ b + BandExcess(c, b) < Span => x >= b - BandExcess(c, b) - 1
    BY <1>3, JitterFacts
  <2> HIDE DEF BandExcess
  <2>3. c.mode = "unset" => x <= b + BandExcess(c, b)
    BY <2>1, <2>2
  <2>4. CASE c.mode = "unset"
    BY <1>1, <1>3, <2>1, <2>2, <2>3, <2>4 DEF WithinJitter
  <2>5. CASE c.mode = "none"
    BY <1>3, <2>2, <2>5 DEF WithinJitter
  <2>6. CASE c.mode = "equal"
    <3> DEFINE h == b \div 2
    <3>1. x >= h /\ x <= b
      BY <2>2, <2>6
    <3>2. WithinJitter(c, b, x) = (x >= h /\ x <= b)
      <4> HIDE DEF h
      <4> QED BY <1>3, <2>6 DEF WithinJitter, h
    <3> QED BY <3>1, <3>2
  <2>7. CASE c.mode = "full"
    BY <1>3, <2>2, <2>7 DEF WithinJitter
  <2> QED BY <1>1, <2>4, <2>5, <2>6, <2>7
<1> QED BY <1>2, <1>3

\* What the server is granted: its wish, up to the cap.
Granted(c, e) ==
  IF c.cap > 0 THEN AtMost(RetryAfter(e.header), c.cap) ELSE RetryAfter(e.header)

\* The server is granted its whole wish, if that is a Duration, or the cap.
LEMMA GrantedFacts ==
  ASSUME NEW c \in Configs, NEW e \in Failure, Asks(e.header)
  PROVE  /\ Granted(c, e) \in Int
         /\ c.cap > 0 => Granted(c, e) <= c.cap
         /\ Wish(e.header) < Span =>
              Granted(c, e) >= Wish(e.header) \/ (c.cap > 0 /\ Granted(c, e) = c.cap)
<1> DEFINE h == e.header
           r == RetryAfter(h)
<1>1. c.cap \in Int /\ Span \in Nat \ {0} /\ Second \in Nat \ {0}
  BY LoopAssumption DEF Config
<1>2. h.form \in {"absent", "garbage", "delta", "date"} /\ h.n \in Int
  BY DEF Failure, Header
<1>3. r \in Int /\ (Wish(h) < Span => r >= Wish(h))
  <2>1. CASE h.form = "delta"
    <3>1. r = IF h.n < 0 THEN 0 ELSE Wrapped(h.n * Second)
      BY <2>1 DEF RetryAfter
    <3>2. h.n * Second \in Int /\ Wish(h) = h.n * Second
      BY <1>1, <1>2, <2>1 DEF Wish
    <3>3. Wrapped(h.n * Second) \in Int
      BY <1>1, <3>2, Modulo DEF Wrapped
    <3>4. CASE h.n < 0
      BY <1>1, <1>2, <3>1, <3>2, <3>4, MulMono
    <3>5. CASE h.n >= 0
      <4>1. h.n * Second \in Nat
        BY <1>1, <1>2, <3>5
      <4>2. h.n * Second < Span => Wrapped(h.n * Second) = h.n * Second
        BY <1>1, <4>1, WrappedSmall DEF Wrapped
      <4> QED BY <1>2, <3>1, <3>2, <3>3, <3>5, <4>2
    <3> QED BY <1>2, <3>4, <3>5
  <2>2. CASE h.form = "date"
    BY <1>1, <1>2, <2>2 DEF RetryAfter, AtMost, NonNegative, Wish
  <2> QED BY <2>1, <2>2 DEF Asks
<1> HIDE DEF h
<1> QED BY <1>1, <1>3 DEF Granted, AtMost, h

\* The delay that is computed is a number, and capped as far as it is.
LEMMA DelayFacts ==
  ASSUME NEW c \in Configs, NEW n \in Nat, NEW e \in Failure, NEW x \in Delays(c, n, e)
  PROVE  /\ x \in Int
         /\ Overrides(c, e) => x = Granted(c, e)
         /\ ~Overrides(c, e) => x \in Jittered(c, BackoffFor(c, n))
         /\ ~Overrides(c, e) /\ x > 0 => BackoffFor(c, n) > 0
<1>1. CASE Overrides(c, e)
  <2>1. Asks(e.header) /\ x = Granted(c, e)
    BY <1>1 DEF Delays, Granted, Overrides
  <2> QED BY <1>1, <2>1, GrantedFacts
<1>2. CASE ~Overrides(c, e)
  <2>1. x \in Jittered(c, BackoffFor(c, n)) /\ BackoffFor(c, n) \in Int
    BY <1>2, BackoffFacts DEF Delays
  <2>2. BackoffFor(c, n) <= 0 => x = BackoffFor(c, n)
    BY <2>1 DEF Jittered
  <2>3. x \in Int
    BY <2>1, <2>2, JitterFacts
  <2> QED BY <1>2, <2>1, <2>2, <2>3
<1> QED BY <1>1, <1>2

-----------------------------------------------------------------------------
\* The wait under way, or over, is one that the latest error asks for.
Timing ==
  /\ last \in Errors \cup {NoError} /\ delay \in Int /\ waited \in Nat
  /\ pc = "sleeping" => delay > 0
  /\ pc \in {"sleeping", "head"} /\ runs > 0 => delay \in Delays(cfg, runs - 1, last)
  /\ pc = "head" /\ runs > 0 /\ Overrides(cfg, last) => waited >= Granted(cfg, last)

\* The errors there are, none included, carry a header.
LEMMA LastIsFailure == Timing => last \in Failure
<1> DEFINE header == [form |-> "absent", n |-> 0]
<1>1. header \in Header
  BY DEF Header
<1> HIDE DEF header
<1>2. [carrier |-> "none", transient |-> TRUE, header |-> header] \in Failure
  BY <1>1 DEF Failure
<1>3. NoError \in Failure
  BY <1>2 DEF NoError, header
<1> QED BY <1>3, LoopAssumption DEF Timing

\* An operation that fails leads to a wait, if to anything.
LEMMA FailTiming == ASSUME IInv, Timing, NEW e \in Errors, Fail(e) PROVE Timing'
<1>1. /\ cfg \in Configs /\ attempt \in Nat /\ e \in Failure
      /\ last' = e /\ waited' = 0 /\ UNCHANGED <<cfg, runs>>
      /\ runs - 1 = attempt
  BY LoopAssumption, MaxRetriesNat DEF Fail, IInv, Control, Counting
<1>2. CASE Stop(e) \/ Exhaust(e) \/ Gate(e)
  BY <1>1, <1>2 DEF Stop, Exhaust, Gate, Return, Timing
<1>3. CASE Wait(e)
  <2>1. delay' \in Delays(cfg, attempt, e)
    BY <1>3 DEF Wait
  <2>2. delay' \in Int /\ (Overrides(cfg, e) => delay' = Granted(cfg, e))
    BY <1>1, <2>1, DelayFacts
  <2>3. /\ Overrides(cfg, last)' = Overrides(cfg, e)
        /\ Granted(cfg, last)' = Granted(cfg, e)
        /\ Delays(cfg, runs - 1, last)' = Delays(cfg, attempt, e)
    BY <1>1 DEF Overrides, Granted, Delays
  <2>4. \/ delay' > 0 /\ pc' = "sleeping"
        \/ ~(delay' > 0) /\ pc' = "head"
    BY <1>3 DEF Wait
  <2> QED BY <1>1, <2>1, <2>2, <2>3, <2>4 DEF Timing
<1> QED BY <1>2, <1>3 DEF Fail

\* A sleep lasts as long as it was meant to.
LEMMA FireTiming == ASSUME IInv, Timing, Fire PROVE Timing'
<1>1. /\ cfg \in Configs /\ runs \in Nat /\ runs > 0 /\ runs - 1 \in Nat
      /\ last \in Failure
      /\ delay \in Int /\ delay > 0 /\ delay \in Delays(cfg, runs - 1, last)
  BY LastIsFailure, MaxRetriesNat DEF Fire, IInv, Control, Counting, Timing
<1>2. Overrides(cfg, last) => delay = Granted(cfg, last)
  BY <1>1, DelayFacts
<1>3. /\ waited' \in Nat /\ waited' >= delay /\ pc' = "head"
      /\ UNCHANGED <<cfg, last, delay, runs>>
  BY <1>1 DEF Fire
<1>4. /\ Overrides(cfg, last)' = Overrides(cfg, last)
      /\ Granted(cfg, last)' = Granted(cfg, last)
      /\ Delays(cfg, runs - 1, last)' = Delays(cfg, runs - 1, last)
  BY <1>3 DEF Overrides, Granted, Delays
<1> QED BY <1>1, <1>2, <1>3, <1>4 DEF Timing

\* The other steps wait for nothing.
LEMMA StepTiming == IInv /\ Timing /\ [Next]_vars => Timing'
<1> SUFFICES ASSUME IInv, Timing, [Next]_vars PROVE Timing'
  OBVIOUS
<1> USE DEF Timing
<1>1. CASE Abort \/ Succeed \/ CancelSleep
  BY <1>1 DEF Abort, Succeed, CancelSleep, Return
<1>2. CASE Run
  BY <1>2 DEF Run
<1>3. CASE CtxEnds \/ UNCHANGED vars
  <2>1. UNCHANGED <<cfg, pc, attempt, last, delay, runs, waited>>
    BY <1>3 DEF CtxEnds, vars
  <2>2. /\ Overrides(cfg, last)' = Overrides(cfg, last)
        /\ Granted(cfg, last)' = Granted(cfg, last)
        /\ Delays(cfg, runs - 1, last)' = Delays(cfg, runs - 1, last)
    BY <2>1 DEF Overrides, Granted, Delays
  <2> QED BY <2>1, <2>2
<1> HIDE DEF Timing
<1> QED BY <1>1, <1>2, <1>3, FailTiming, FireTiming DEF Next, Loop

(***************************************************************************)
(* The loop counts its runs, and keeps time.                               *)
(***************************************************************************)
THEOREM Invariance == Spec => [](IInv /\ Timing)
<1>1. Init => Timing
  BY DEF Init, Timing
<1> QED BY <1>1, InitIInv, StepIInv, StepTiming, PTL DEF Spec

(***************************************************************************)
(* The variables keep their types, and the counter stays within the        *)
(* retries.                                                                *)
(***************************************************************************)
THEOREM TypeOKHolds == Spec => []TypeOK
<1>1. IInv /\ Timing => TypeOK
  BY DEF IInv, Control, Timing, TypeOK
<1> QED BY <1>1, Invariance, PTL

(***************************************************************************)
(* The cap binds every wait, the server's too; the legacy band exceeds it  *)
(* by its fraction, and by no more.                                        *)
(***************************************************************************)
THEOREM WaitsAreCappedHolds == Spec => []WaitsAreCapped
<1>1. IInv /\ Timing => WaitsAreCapped
  <2> SUFFICES ASSUME IInv, Timing, pc = "sleeping"
               PROVE  IF Overrides(cfg, last)
                      THEN cfg.cap > 0 => delay <= cfg.cap
                      ELSE /\ cfg.cap > 0
                           /\ delay <= cfg.cap +
                                (IF cfg.mode = "unset" THEN BandExcess(cfg, cfg.cap) ELSE 0)
    BY DEF WaitsAreCapped
  <2> DEFINE d == BackoffFor(cfg, runs - 1)
  <2>1. /\ cfg \in Configs /\ runs - 1 \in Nat /\ last \in Failure
        /\ delay \in Int /\ delay > 0 /\ delay \in Delays(cfg, runs - 1, last)
    BY LastIsFailure, MaxRetriesNat DEF IInv, Control, Counting, Timing
  <2>2. CASE Overrides(cfg, last)
    BY <2>1, <2>2, DelayFacts, GrantedFacts DEF Overrides
  <2>3. CASE ~Overrides(cfg, last)
    <3>1. d \in Int /\ d > 0 /\ delay \in Jittered(cfg, d) /\ d <= cfg.cap
      BY <2>1, <2>3, DelayFacts, BackoffFacts
    <3>2. /\ cfg.cap \in Int /\ cfg.mode \in {"unset", "full", "none", "equal"}
          /\ NonNegative(cfg.band[1]) \in Nat /\ cfg.band[2] \in Nat \ {0}
      BY <2>1, LoopAssumption DEF Config, NonNegative
    <3> HIDE DEF d
    <3>3. cfg.mode # "unset" => delay <= d
      BY <2>1, <3>1, <3>2, JitterFacts
    <3>4. cfg.mode = "unset" => delay - d <= BandExcess(cfg, d)
      BY <2>1, <3>1, JitterFacts
    <3>5. /\ BandExcess(cfg, d) \in Int /\ BandExcess(cfg, cfg.cap) \in Int
          /\ BandExcess(cfg, d) <= BandExcess(cfg, cfg.cap)
      <4> DEFINE a == d * NonNegative(cfg.band[1])
                 b == cfg.cap * NonNegative(cfg.band[1])
                 q == cfg.band[2]
      <4>1. a \in Int /\ b \in Int /\ a <= b /\ q \in Nat \ {0}
        BY <3>1, <3>2, MulMono
      <4>2. BandExcess(cfg, d) = a \div q /\ BandExcess(cfg, cfg.cap) = b \div q
        BY DEF BandExcess
      <4> HIDE DEF a, b, q
      <4>3. a \div q \in Int /\ b \div q \in Int /\ a \div q <= b \div q
        BY <4>1, DivMono
      <4> QED BY <4>2, <4>3
    <3> QED BY <2>1, <2>3, <3>1, <3>2, <3>3, <3>4, <3>5
  <2> QED BY <2>2, <2>3
<1> QED BY <1>1, Invariance, PTL

(***************************************************************************)
(* Every wait that is not the server's keeps the distance its jitter       *)
(* allows from a backoff that it may have: for an exponential that does    *)
(* not shrink, the documented one or, below zero, MaxBackoff.              *)
(***************************************************************************)
THEOREM WaitsFollowTheFormulaHolds == Spec => []WaitsFollowTheFormula
<1>1. IInv /\ Timing => WaitsFollowTheFormula
  <2> SUFFICES ASSUME IInv, Timing, pc \in {"sleeping", "head"}, runs > 0,
                      ~Overrides(cfg, last)
               PROVE  \E b \in Backoffs(cfg, runs - 1) : WithinJitter(cfg, b, delay)
    BY DEF WaitsFollowTheFormula
  <2> DEFINE b == BackoffFor(cfg, runs - 1)
  <2>1. /\ cfg \in Configs /\ runs - 1 \in Nat /\ last \in Failure
        /\ delay \in Delays(cfg, runs - 1, last)
    BY LastIsFailure DEF IInv, Control, Timing
  <2>2. delay \in Jittered(cfg, b)
    BY <2>1, DelayFacts
  <2>3. b \in Int /\ b \in Backoffs(cfg, runs - 1)
    BY <2>1, BackoffFacts
  <2> HIDE DEF b
  <2>4. WithinJitter(cfg, b, delay)
    BY <2>1, <2>2, <2>3, JitterWithin
  <2> QED BY <2>3, <2>4
<1> QED BY <1>1, Invariance, PTL

(***************************************************************************)
(* The operation does not run again before the time the server asked for,  *)
(* or the cap, has passed.                                                 *)
(***************************************************************************)
THEOREM ServerIsObeyedHolds == Spec => []ServerIsObeyed
<1>1. IInv /\ Timing => ServerIsObeyed
  <2> SUFFICES ASSUME IInv, Timing, pc = "head", runs > 0, Overrides(cfg, last),
                      Wish(last.header) < Span
               PROVE  WaitedAsAsked
    BY DEF ServerIsObeyed
  <2>1. cfg \in Configs /\ last \in Failure /\ Asks(last.header)
    BY LastIsFailure DEF IInv, Control, Overrides
  <2>2. waited \in Nat /\ waited >= Granted(cfg, last)
    BY DEF Timing
  <2>3. cfg.cap \in Int /\ Wish(last.header) \in Int
    BY <2>1, LoopAssumption DEF Config, Failure, Header, Wish
  <2> QED BY <2>1, <2>2, <2>3, GrantedFacts DEF WaitedAsAsked
<1> QED BY <1>1, Invariance, PTL
=============================================================================
