------------------------------ MODULE MCRetryLoop -----------------------------
(***************************************************************************)
(* RetryLoop for TLC: the presets, every jitter mode and the corners of    *)
(* the configuration, with every form of Retry-After.                      *)
(***************************************************************************)
EXTENDS RetryLoop

Plain == [DefaultRetry EXCEPT !.band = <<0, 1>>]

SomeConfigs ==
  {DefaultRetry, NoRetry, AggressiveRetry, Plain,
   [Plain EXCEPT !.mode = "none", !.cap = 12],
   [Plain EXCEPT !.mode = "equal", !.honours = FALSE],
   [DefaultRetry EXCEPT !.mode = "full", !.gated = TRUE],
   [DefaultRetry EXCEPT !.mode = "equal", !.classified = TRUE],
   [Plain EXCEPT !.mode = "none", !.initial = 7, !.cap = 4, !.honours = FALSE],
   [Plain EXCEPT !.mode = "none", !.multiplier = <<3, 2>>, !.classified = TRUE],
   [Plain EXCEPT !.multiplier = <<1, 2>>, !.initial = 16, !.cap = 6],
   [Plain EXCEPT !.initial = -5, !.cap = 4],
   [Plain EXCEPT !.mode = "equal", !.multiplier = <<-3, 2>>, !.honours = FALSE],
   [DefaultRetry EXCEPT !.band = <<-1, 5>>, !.cap = 9],
   [DefaultRetry EXCEPT !.cap = -1, !.initial = 0],
   [DefaultRetry EXCEPT !.cap = 0],
   [DefaultRetry EXCEPT !.initial = 1000, !.cap = 1000],
   FromSpec([maxRetries |-> 0, initial |-> 0, cap |-> 9,
            multiplier |-> <<0, 1>>, jitter |-> ""]),
   FromSpec([maxRetries |-> -1, initial |-> 3, cap |-> 0,
            multiplier |-> <<3, 1>>, jitter |-> "equal"])}

\* What the presets make of a server that asks for much.
Presets == {DefaultRetry, AggressiveRetry}

\* A first backoff above the cap, and an exponential that comes down to it.
Shrinking ==
  {[Plain EXCEPT !.mode = "none", !.multiplier = <<1, 2>>, !.initial = 16, !.cap = 6]}

Headers == [form : {"absent", "garbage"}, n : {0}]
             \cup [form : {"delta"}, n : {-1, 0, 1, 31, 103, 205}]
             \cup [form : {"date"}, n : {-3, 4, 400, 2000}]

SomeErrors ==
  [carrier : {"none"}, transient : {TRUE}, header : Headers]
    \cup [carrier : {"none", "transient", "permanent"}, transient : BOOLEAN,
          header : {[form |-> "absent", n |-> 0]}]
=============================================================================
