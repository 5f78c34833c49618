----------------------------- MODULE MCClientCall -----------------------------
(***************************************************************************)
(* ClientCall for TLC: a breaker that trips on the first failure, and the  *)
(* clients that are told apart by what gates a retry.                      *)
(***************************************************************************)
EXTENDS ClientCall

TripAtOnce(n) == n.ConsecutiveFailures >= 1

Ungated == [breaker |-> FALSE, budget |-> FALSE, strict |-> FALSE,
            allowNonIdempotent |-> FALSE, custom |-> FALSE]

Gated == [Ungated EXCEPT !.breaker = TRUE, !.budget = TRUE, !.strict = TRUE]

\* Each gate and each policy, with and without the others.
SomeClients ==
  {Ungated, Gated, [Ungated EXCEPT !.custom = TRUE],
   [Gated EXCEPT !.custom = TRUE], [Gated EXCEPT !.allowNonIdempotent = TRUE]}

\* The client with every gate, for goroutines that contend for them.
GatedClient == {Gated}

AllRequests == Request

\* A POST through Do and a GET through the RoundTripper.
TwoRequests == {[entry |-> "Do", retrySafe |-> FALSE],
                [entry |-> "RoundTrip", retrySafe |-> TRUE]}

AllOutcomes == Answers \cup Failures

\* One outcome of each kind that the budget and the breaker tell apart.
PairOutcomes == {"2xx", "retryStatus", "otherStatus", "deadline"}

FewOutcomes == {"2xx", "retryStatus", "otherStatus", "transport", "deadline"}
=============================================================================
