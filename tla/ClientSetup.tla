----------------------------- MODULE ClientSetup ------------------------------
(***************************************************************************)
(* Construction of clients: New and FromConfig apply their options in      *)
(* order, and options that install a transport or a middleware work on the *)
(* http.Client of the client under construction.  That http.Client may be  *)
(* the user's own, and the same one for several clients.  The options that *)
(* only set a field of the Client are left out.                            *)
(*                                                                         *)
(* Clients are built one after the other: to build two at a time on one    *)
(* http.Client is a data race.                                             *)
(***************************************************************************)
EXTENDS Sequences, FiniteSetsExt

CONSTANTS
  Clients,
  UserHTTP,         \* the http.Clients the user supplies
  Transports,       \* what WithTransport is given
  Middlewares,      \* single-flight groups, result caches and others
  Timeouts,         \* what WithTimeout is given
  Default,          \* the timeout of New, 30 seconds
  UserTimeout,      \* the timeout of the user's http.Clients
  DefaultTransport, \* http.DefaultTransport
  None,             \* nil
  Options,          \* what callers pass: a set of options
  MaxOptions        \* bound of the model: options in all

\* A client's own http.Client goes by the client's name.
HTTPs == Clients \cup UserHTTP

\* WithTimeout, WithHTTPClient, WithTransport, and the three middleware options.
Option ==
  [kind : {"timeout"}, arg : Timeouts]
    \cup [kind : {"httpClient"}, arg : UserHTTP \cup {None}]
    \cup [kind : {"transport"}, arg : Transports \cup {None}]
    \cup [kind : {"middleware"}, arg : Middlewares \cup {None}]

ASSUME SetupAssumption ==
  /\ MaxOptions \in Nat
  /\ Options \subseteq Option
  /\ Clients \cap UserHTTP = {}
  /\ None \notin Clients \cup UserHTTP \cup Transports \cup Middlewares \cup Timeouts

(***************************************************************************)
(* The options FromConfig derives from a configuration, in its order; the  *)
(* caller's options follow.                                                *)
(***************************************************************************)
ConfigOptions ==
  LET WithTimeout == [kind : {"timeout"}, arg : Timeouts]
      WithTransport == [kind : {"transport"}, arg : Transports]
  IN  {<<>>} \cup {<<o>> : o \in WithTimeout \cup WithTransport}
             \cup (WithTimeout \X WithTransport)

VARIABLES
  http,     \* heap: the http.Clients
  client,   \* the Clients, with the http.Client each points at
  queue,    \* the options FromConfig has still to apply
  given,    \* history: the options applied so far, in order, and by whom
  supplied  \* history: the Transport the user's http.Clients came with

setupVars == <<http, client, queue, given, supplied>>

Building(c) == client[c].stage = "building"

\* A Transport is the stack of its layers, innermost first; nil is empty.
NewHTTP(timeout) == [timeout |-> timeout, transport |-> <<>>]

SetupInit ==
  /\ supplied \in [UserHTTP -> {<<>>} \cup {<<t>> : t \in Transports}]
  /\ http = [a \in HTTPs |->
               IF a \in UserHTTP THEN [timeout |-> UserTimeout, transport |-> supplied[a]]
                                 ELSE NewHTTP(0)]
  /\ client = [c \in Clients |-> [stage |-> "absent", timeout |-> 0, http |-> None]]
  /\ queue = <<>>
  /\ given = <<>>

\* How many options there are so far.
Passed == Len(queue) + Len(given)

\* New; or FromConfig, which calls New with its own options in front.
Construct(c) ==
  /\ client[c].stage = "absent"
  /\ ~\E d \in Clients : Building(d)
  /\ client' = [client EXCEPT ![c] =
                  [stage |-> "building", timeout |-> Default, http |-> None]]
  /\ queue' \in {q \in ConfigOptions : Passed + Len(q) <= MaxOptions}
  /\ UNCHANGED <<http, given, supplied>>

\* Mutant: without an http.Client of its own, a client takes a common one.
EnsuredShared(c) ==
  IF client[c].http = None THEN CHOOSE d \in Clients : TRUE ELSE client[c].http

\* The http.Client an option installs on: allocated now if there is none.
Ensured(c) == IF client[c].http = None THEN c ELSE client[c].http

\* Mutant: the timeout captured so far is not passed on.
AllocatedBare(c) ==
  IF client[c].http = None THEN [http EXCEPT ![Ensured(c)] = NewHTTP(0)] ELSE http

\* The heap with it; a new one has the timeout captured so far.
Allocated(c) ==
  IF client[c].http = None
  THEN [http EXCEPT ![Ensured(c)] = NewHTTP(client[c].timeout)] ELSE http

\* A middleware wraps all there is, or the default transport.
Wrap(stack, m) == Append(IF stack = <<>> THEN <<DefaultTransport>> ELSE stack, m)

SetTimeout(c, o) ==
  /\ o.kind = "timeout"
  /\ client' = [client EXCEPT ![c].timeout = o.arg]
  /\ UNCHANGED http

UseHTTPClient(c, o) ==
  /\ o.kind = "httpClient" /\ o.arg # None
  /\ client' = [client EXCEPT ![c].http = o.arg]
  /\ UNCHANGED http

\* WithTransport replaces the stack, a middleware adds to it: both in place.
Install(c, o) ==
  /\ o.kind \in {"transport", "middleware"} /\ o.arg # None
  /\ client' = [client EXCEPT ![c].http = Ensured(c)]
  /\ http' = [Allocated(c) EXCEPT ![Ensured(c)].transport =
                IF o.kind = "transport" THEN <<o.arg>> ELSE Wrap(@, o.arg)]

\* An option with nil is ignored.
Ignore(o) ==
  /\ o.arg = None
  /\ UNCHANGED <<client, http>>

Apply(c, o) ==
  /\ Building(c)
  /\ SetTimeout(c, o) \/ UseHTTPClient(c, o) \/ Install(c, o) \/ Ignore(o)
  /\ given' = Append(given, [by |-> c, option |-> o])
  /\ UNCHANGED supplied

ApplyConfigured(c) ==
  /\ queue # <<>>
  /\ Apply(c, Head(queue))
  /\ queue' = Tail(queue)

ApplyPassed(c, o) ==
  /\ queue = <<>>
  /\ Passed < MaxOptions
  /\ Apply(c, o)
  /\ UNCHANGED queue

\* The end of New.
Build(c) ==
  /\ Building(c) /\ queue = <<>>
  /\ http' = Allocated(c)
  /\ client' = [client EXCEPT ![c].http = Ensured(c), ![c].stage = "built"]
  /\ UNCHANGED <<queue, given, supplied>>

SetupStep ==
  \E c \in Clients :
    \/ Construct(c)
    \/ ApplyConfigured(c)
    \/ \E o \in Options : ApplyPassed(c, o)
    \/ Build(c)

-----------------------------------------------------------------------------
\* An option that is not ignored, of one of these kinds.
Effective(o, kinds) == o.kind \in kinds /\ o.arg # None

Layers == {"transport", "middleware"}

\* Where, among the options given, are those of these kinds that c was given.
Places(c, kinds) ==
  {i \in DOMAIN given : given[i].by = c /\ Effective(given[i].option, kinds)}

\* What the last of some options was given with, or otherwise.
LastArg(places, otherwise) ==
  IF places = {} THEN otherwise ELSE given[Max(places)].option.arg

TimeoutOf(c) == http[client[c].http].timeout

(***************************************************************************)
(* A client has a timeout that was asked for: that of the http.Client the  *)
(* user supplied, if there is one, wherever among the options (client.go:  *)
(* 102-104); else one the client itself was given or the default, never    *)
(* none and never another client's; and it is the last one, as long as no  *)
(* timeout comes after a transport or a middleware.                        *)
(***************************************************************************)
TimeoutIsAskedFor ==
  \A c \in Clients : client[c].stage = "built" =>
    LET asked == Places(c, {"timeout"})
    IN  IF Places(c, {"httpClient"}) # {} THEN TimeoutOf(c) = UserTimeout
        ELSE /\ TimeoutOf(c) \in {Default} \cup {given[i].option.arg : i \in asked}
             /\ (\A i \in asked, j \in Places(c, Layers) : i < j) =>
                  TimeoutOf(c) = LastArg(asked, Default)

(***************************************************************************)
(* What client.go:85-86 ("later options win on conflict") and              *)
(* config.go:142-143 (the caller's "win over config") say: a client that   *)
(* was not supplied an http.Client has the last timeout it was given.  The *)
(* code falls short of it (see the README).                                *)
(***************************************************************************)
LaterTimeoutWins ==
  \A c \in Clients :
    client[c].stage = "built" /\ Places(c, {"httpClient"}) = {} =>
      TimeoutOf(c) = LastArg(Places(c, {"timeout"}), Default)

\* The layer options that were meant for http.Client a.
MeantFor(a) ==
  {i \in UNION {Places(c, Layers) : c \in Clients} :
     LET c == given[i].by
     IN  LastArg({j \in Places(c, {"httpClient"}) : j < i}, c) = a}

\* What these options were given with, in order.
InOrder(places) ==
  [n \in 1 .. Cardinality(places) |->
     given[CHOOSE i \in places : Cardinality({j \in places : j <= i}) = n].option.arg]

(***************************************************************************)
(* The layers of every http.Client are those its clients asked for, in     *)
(* order: the last transport that was given innermost, and the middlewares *)
(* given after it, the last one outermost (dedup.go:370-373).  A client's  *)
(* own http.Client answers to that client alone; an http.Client the user   *)
(* supplied to several carries the layers of all of them, and a client     *)
(* that has been built long since finds its stack changed.                 *)
(***************************************************************************)
StackIsInOrder ==
  \A a \in HTTPs :
    LET transports == {i \in MeantFor(a) : given[i].option.kind = "transport"}
        above == InOrder({i \in MeantFor(a) : \A j \in transports : i > j})
        base == IF transports # {} THEN <<LastArg(transports, None)>>
                ELSE IF a \in UserHTTP THEN supplied[a] ELSE <<>>
    IN  http[a].transport =
          (IF base = <<>> /\ above # <<>> THEN <<DefaultTransport>> ELSE base) \o above
=============================================================================
