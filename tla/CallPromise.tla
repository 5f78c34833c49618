----------------------------- MODULE CallPromise ------------------------------
(***************************************************************************)
(* What a Client promises of the calls made through it, with no loop, no   *)
(* policy, no backoff and no breaker in it: how many requests a call       *)
(* makes, who pays for them, when it has to stop, and what its result says *)
(* of all that.                                                            *)
(***************************************************************************)
EXTENDS Naturals

CONSTANTS
  Callers,
  Most,       \* how many requests a call may be allowed: a set of numbers
  Burst,      \* what the purse holds
  Results     \* what a call may return, and "none"

VARIABLES
  budgeted,   \* retries cost a token, for the life of the client
  purse,      \* the tokens there are, for all callers
  account     \* the account of each caller's latest call

promiseVars == <<budgeted, purse, account>>

Open(most) ==
  [stage |-> "open", most |-> most, context |-> "live", sent |-> 0, late |-> 0,
   paid |-> 0, result |-> "none"]

Init ==
  /\ budgeted \in BOOLEAN
  /\ purse = Burst
  /\ account \in [Callers -> {[Open(m) EXCEPT !.stage = "idle"] : m \in Most}]

Begin(c) ==
  /\ account[c].stage \in {"idle", "over"}
  /\ \E m \in Most : account' = [account EXCEPT ![c] = Open(m)]
  /\ UNCHANGED <<budgeted, purse>>

(***************************************************************************)
(* A request goes out.  The first is free; and once the context has ended, *)
(* at most one goes out that was on its way.                               *)
(***************************************************************************)
Dispatch(c) ==
  LET late == IF account[c].context = "live" THEN 0 ELSE 1
  IN  /\ account[c].stage = "open"
      /\ account[c].sent < account[c].most
      /\ account[c].late + late <= 1
      /\ budgeted => account[c].sent = account[c].paid
      /\ account' = [account EXCEPT ![c].sent = @ + 1, ![c].late = @ + late]
      /\ UNCHANGED <<budgeted, purse>>

\* A token for one more request, while one more is allowed.
Pay(c) ==
  /\ budgeted /\ purse > 0
  /\ account[c].stage = "open"
  /\ account[c].sent = account[c].paid + 1
  /\ account[c].sent < account[c].most
  /\ account' = [account EXCEPT ![c].paid = @ + 1]
  /\ purse' = purse - 1
  /\ UNCHANGED budgeted

\* What the end of a call may be blamed on before its request was answered.
Early == {"ctx", "breakerOpen", "unsendable"}

OfContext == {"ctx", "deadline", "canceled"}

\* A result is backed by the account; only an early one leaves a token unused.
Close(c, result) ==
  /\ account[c].stage = "open" /\ result # "none"
  /\ result \in OfContext => account[c].context = "ended"
  /\ result = "unsendable" => account[c].sent = 0
  /\ result = "budget" => budgeted /\ purse = 0
  /\ result = "exhausted" => account[c].sent = account[c].most
  /\ result \notin Early =>
       /\ account[c].sent > 0
       /\ budgeted => account[c].sent = account[c].paid + 1
  /\ account' = [account EXCEPT ![c].stage = "over", ![c].result = result]
  /\ UNCHANGED <<budgeted, purse>>

\* The goroutine unwinds from a request.
Lose(c) ==
  /\ account[c].stage = "open" /\ account[c].sent > 0
  /\ account' = [account EXCEPT ![c].stage = "lost"]
  /\ UNCHANGED <<budgeted, purse>>

\* The context of a call ends.
End(c) ==
  /\ account[c].stage = "open" /\ account[c].context = "live"
  /\ account' = [account EXCEPT ![c].context = "ended"]
  /\ UNCHANGED <<budgeted, purse>>

Refill ==
  /\ purse < Burst
  /\ purse' = purse + 1
  /\ UNCHANGED <<budgeted, account>>

Next ==
  \/ \E c \in Callers : \/ Begin(c) \/ Dispatch(c) \/ Pay(c)
                        \/ Lose(c) \/ End(c)
                        \/ \E result \in Results : Close(c, result)
  \/ Refill

Spec == Init /\ [][Next]_promiseVars
=============================================================================
