----------------------------- MODULE ProbedClient -----------------------------
(***************************************************************************)
(* Clients are constructed, and then one of them probes a target through   *)
(* the http.Client it was left with.                                       *)
(***************************************************************************)
EXTENDS ClientSetup

CONSTANTS Probes, Statuses, Groups, Caches, NoHost

VARIABLES
  prober,  \* the client that probes
  walk, ahead, result, tried, answered  \* as in Probe

P == INSTANCE Probe
       WITH stack <- IF prober = None THEN <<>> ELSE http[client[prober].http].transport

ASSUME ProbeAssumption ==
  /\ Groups \cup Caches \subseteq Middlewares
  /\ Probes \subseteq P!Target \X P!ProbeConfig

walkVars == <<walk, ahead, result, tried, answered>>

vars == <<setupVars, prober, walkVars>>

Init == SetupInit /\ P!ProbeInit /\ prober = None

Setup == prober = None /\ SetupStep /\ UNCHANGED <<prober, walkVars>>

Begin(c) ==
  /\ prober = None
  /\ client[c].stage = "built"
  /\ ~\E d \in Clients : Building(d)
  /\ prober' = c
  /\ \E p \in Probes : P!Begin(p[1], p[2])
  /\ UNCHANGED setupVars

Attempt == P!Attempt /\ UNCHANGED <<setupVars, prober>>

Trying == P!Trying /\ UNCHANGED <<setupVars, prober>>

Sharing == P!Sharing /\ UNCHANGED <<setupVars, prober>>

CtxEnds == P!CtxEnds /\ UNCHANGED <<setupVars, prober>>

Next ==
  \/ Setup
  \/ \E c \in Clients : Begin(c)
  \/ Attempt \/ Trying \/ Sharing
  \/ CtxEnds

Spec == Init /\ [][Next]_vars

(***************************************************************************)
(* The walk goes on by itself; an attempt that waits for no other          *)
(* goroutine ends, at the latest with its timeout, for a transport honours *)
(* the context of its request; and a flight that was joined ends when its  *)
(* owner returns.  Nothing ends a wait for an owner that does not.         *)
(***************************************************************************)
FairSpec == Spec /\ WF_vars(Attempt) /\ WF_vars(Trying) /\ WF_vars(Sharing)

-----------------------------------------------------------------------------
FirstAnswerWins == P!FirstAnswerWins

\* The options, of any client, that installed a group on the prober's stack.
Installed ==
  {i \in DOMAIN given :
     /\ given[i].option.arg \in Groups
     /\ client[given[i].by].http = client[prober].http}

InstalledTwice ==
  \E i, j \in Installed : i # j /\ given[i].option.arg = given[j].option.arg

\* Only a GET or a HEAD meets the group of a single-flight layer.
MeetsGroups == walk.cfg.method \in {"GET", "HEAD"} /\ Installed # {}

(***************************************************************************)
(* A probe returns, with or without a context that ends, except by a GET   *)
(* or a HEAD through a single-flight group: there it may have joined the   *)
(* flight of an owner that does not return, and waits on (dedup.go:191);   *)
(* or the group was installed twice, which Wrap (dedup.go:167-169) seems   *)
(* to invite, and the probe waits for itself.                              *)
(***************************************************************************)
ProbeReturns ==
  prober # None ~>
    \/ walk.stage = "done"
    \/ MeetsGroups /\ (walk.stage = "stranded" \/ InstalledTwice)

(***************************************************************************)
(* What probe.go:150-151 says of every probe: it walks its candidates, each *)
(* attempt bounded by its timeout, so that it returns.  The code falls     *)
(* short of it (see the README).                                           *)
(***************************************************************************)
ProbeIsBounded == prober # None ~> walk.stage = "done"
=============================================================================
