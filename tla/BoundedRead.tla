----------------------------- MODULE BoundedRead ------------------------------
(***************************************************************************)
(* What a result cache promises, with no cache in it: a reader that asks   *)
(* at some time is told what the server had at a moment not more than      *)
(* Slack before it asked, and not after it is told.                        *)
(***************************************************************************)
EXTENDS Integers

CONSTANTS
  Readers,
  Slack,      \* how much older than the question an answer may be
  MaxClock    \* bound of the model: the clock stops here

VARIABLES
  clock,
  asked,      \* when each reader last asked, or Never
  told        \* the moment its answer describes, or Nothing

boundedReadVars == <<clock, asked, told>>

Never == -1

Nothing == -1

Failure == -2

Init ==
  /\ clock = 0
  /\ asked = [r \in Readers |-> Never]
  /\ told = [r \in Readers |-> Nothing]

Ask(r) ==
  /\ asked[r] = Never \/ told[r] # Nothing
  /\ asked' = [asked EXCEPT ![r] = clock]
  /\ told' = [told EXCEPT ![r] = Nothing]
  /\ UNCHANGED clock

Outstanding(r) == asked[r] # Never /\ told[r] = Nothing

Tell(r) ==
  /\ Outstanding(r)
  /\ \E t \in 0 .. clock :
       /\ t >= asked[r] - Slack
       /\ told' = [told EXCEPT ![r] = t]
  /\ UNCHANGED <<clock, asked>>

Fail(r) ==
  /\ Outstanding(r)
  /\ told' = [told EXCEPT ![r] = Failure]
  /\ UNCHANGED <<clock, asked>>

Tick ==
  /\ clock < MaxClock
  /\ clock' = clock + 1
  /\ UNCHANGED <<asked, told>>

Next == Tick \/ \E r \in Readers : Ask(r) \/ Tell(r) \/ Fail(r)

Spec == Init /\ [][Next]_boundedReadVars
=============================================================================
