---------------------------- MODULE MCProbedClient ----------------------------
(***************************************************************************)
(* ProbedClient for TLC: default and explicit probe configurations, and    *)
(* targets with and without a host.                                        *)
(***************************************************************************)
EXTENDS ProbedClient

\* Of the options with nil two are enough.
SomeOptions ==
  {o \in Option : o.arg # None} \cup [kind : {"httpClient", "middleware"}, arg : {None}]

\* A single-flight group, and nothing else.
OneGroup == [kind : {"middleware"}, arg : Groups]

SomeProbes ==
  {<<[url |-> FALSE, host |-> "host"],
     [schemes |-> <<"http">>, paths |-> <<>>, method |-> ""]>>,
   <<[url |-> TRUE, host |-> NoHost],
     [schemes |-> <<>>, paths |-> <<"/v2", "/v2">>, method |-> "OPTIONS"]>>,
   <<[url |-> FALSE, host |-> NoHost],
     [schemes |-> <<>>, paths |-> <<>>, method |-> ""]>>}
=============================================================================
