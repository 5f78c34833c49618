------------------------------- MODULE ReadStack ------------------------------
(***************************************************************************)
(* A client's transport with both read middlewares of dedup.go installed,  *)
(* in either order: WithSingleFlight then WithResultCache puts the cache   *)
(* outside, the other way round puts the single-flight outside.  A         *)
(* goroutine's steps inside a layer are the actions of that layer's        *)
(* module; calling the next layer, or returning from it, belongs to the    *)
(* step before.  Only GET and HEAD are modelled: what is not cacheable     *)
(* passes through both layers.                                             *)
(***************************************************************************)
EXTENDS Integers

CONSTANTS
  Callers, Keys, Flights, TTL, None,  \* as in the two layers
  MaxFlight,   \* how long a flight may stay listed: the http.Client's timeout
  MaxClock     \* bound of the model: the clock stops here

VARIABLES
  outer,                                    \* the outermost layer
  clock, req,                               \* shared by both layers
  entries, place, now, told,                \* ResultCache
  pc, ref, answer, flying, flight, canceled,  \* SingleFlight
  produced,    \* what the server has produced for a goroutine's round trip
  payload,     \* history: the response a flight was captured with
  opened,      \* history: when a flight was registered
  asked, got,  \* history: when a goroutine asked the stack, and what it got
  redialed     \* history: the keys a sharer had to dial again

Cache == INSTANCE ResultCache WITH pc <- place, Cacheable <- Keys

Flight == INSTANCE SingleFlight
            WITH Cacheable <- Keys, Cancelable <- {}, Panicking <- {}

cacheVars == <<entries, place, now, told>>

flightVars == <<pc, ref, answer, flying, flight, canceled>>

historyVars == <<payload, opened, asked, got, redialed>>

vars == <<outer, clock, req, cacheVars, flightVars, produced, historyVars>>

\* What held at the server at a moment; nothing at all when the trip failed.
Response == [at : Nat, ok2xx : BOOLEAN]

Failed == [at |-> Cache!Failure, ok2xx |-> FALSE]

ASSUME StackAssumption ==
  /\ MaxFlight \in Nat
  /\ Cache!CacheAssumption
  /\ Flight!FlightAssumption
  /\ None \notin Response \cup {Failed}

Inside(c) == ~Cache!Idle(c) \/ ~Flight!Idle(c)

\* Inside the single-flight layer, and in the hands of the layer below it.
Dials(c) == pc[c] \in {"dialing", "redialing"}

\* In the hands of the transport underneath both layers.
AtServer(c) == IF outer = "cache" THEN Dials(c) ELSE place[c] = "fetching"

-----------------------------------------------------------------------------
Init ==
  /\ outer \in {"cache", "flight"}
  /\ Cache!Init
  /\ Flight!Init
  /\ produced = [c \in Callers |-> None]
  /\ payload = [f \in Flights |-> None]
  /\ opened = [f \in Flights |-> Cache!Never]
  /\ asked = [c \in Callers |-> Cache!Never]
  /\ got = [c \in Callers |-> Cache!Nothing]
  /\ redialed = {}

\* The goroutine enters the single-flight layer.
Board(c, k) ==
  /\ \/ Flight!Join(c, k) /\ UNCHANGED opened
     \/ Flight!Lead(c, k) /\ opened' = [opened EXCEPT ![ref'[c]] = clock]
  /\ UNCHANGED <<clock, cacheVars, payload, redialed>>

\* A read enters the stack at its outermost layer.
Ask(c, k) ==
  /\ ~Inside(c)
  /\ asked' = [asked EXCEPT ![c] = clock]
  /\ got' = [got EXCEPT ![c] = Cache!Nothing]
  /\ \/ /\ outer = "cache"
        /\ Cache!Arrive(c, k)
        /\ UNCHANGED <<flightVars, payload, opened, redialed>>
     \/ outer = "flight" /\ Board(c, k)
  /\ UNCHANGED <<outer, produced>>

\* A miss of the outer cache goes on to the single-flight layer.
Fetch(c) ==
  /\ outer = "cache"
  /\ place[c] = "fetching"
  /\ Flight!Idle(c)
  /\ Board(c, req[c])
  /\ UNCHANGED <<outer, produced, asked, got>>

\* The round trip of the outer single-flight goes on to the cache.
Enter(c) ==
  /\ outer = "flight"
  /\ Dials(c)
  /\ Cache!Idle(c)
  /\ Cache!Arrive(c, req[c])
  /\ UNCHANGED <<outer, flightVars, produced, historyVars>>

\* The cache's call of the next layer returns r.
CacheHears(c, r) ==
  IF r = Failed THEN Cache!FetchFails(c) ELSE Cache!Answered(c, r.at, r.ok2xx)

\* The single-flight layer returns r, to the cache or to the caller.
FlightReturns(c, r) ==
  IF outer = "cache" THEN CacheHears(c, r) /\ UNCHANGED got
                     ELSE got' = [got EXCEPT ![c] = r.at]

\* Its call of the next layer returns r.
FlightHears(c, r) ==
  /\ \/ /\ Flight!Capture(c, r # Failed)
        /\ payload' = [payload EXCEPT ![ref[c]] = r]
        /\ outer = "cache" => UNCHANGED <<clock, cacheVars>>
        /\ UNCHANGED got
     \/ /\ Flight!Finish(c, r # Failed)
        /\ FlightReturns(c, r)
        /\ UNCHANGED payload
  /\ UNCHANGED <<opened, redialed>>

\* The cache finds its key: fresh, and the read is answered; or not.
Look(c) ==
  /\ \/ /\ Cache!Hit(c)
        /\ IF outer = "cache"
           THEN UNCHANGED <<flightVars, payload, opened, got, redialed>>
           ELSE FlightHears(c, [at |-> entries[req[c]].asOf, ok2xx |-> TRUE])
     \/ /\ Cache!Miss(c)
        /\ UNCHANGED <<flightVars, payload, opened, got, redialed>>
  /\ UNCHANGED <<outer, produced, asked>>

\* The server produces a response, which has yet to travel back.
Produce(c) ==
  /\ AtServer(c)
  /\ produced[c] = None
  /\ \E ok2xx \in BOOLEAN :
       produced' = [produced EXCEPT ![c] = [at |-> clock, ok2xx |-> ok2xx]]
  /\ UNCHANGED <<outer, clock, req, cacheVars, flightVars, historyVars>>

\* The response gets through the inner cache, whose caller may fail to read it.
ThroughCache(c, r) ==
  /\ CacheHears(c, r)
  /\ IF place'[c] = "storing"
     THEN UNCHANGED <<flightVars, payload, opened, got, redialed>>
     ELSE \E s \in {r} \cup (IF pc[c] = "dialing" THEN {Failed} ELSE {}) :
            FlightHears(c, s)

\* The transport underneath returns the response, or an error.
Respond(c) ==
  /\ AtServer(c)
  /\ \E r \in {produced[c], Failed} \ {None} :
       IF outer = "cache" THEN FlightHears(c, r) ELSE ThroughCache(c, r)
  /\ produced' = [produced EXCEPT ![c] = None]
  /\ UNCHANGED <<outer, asked>>

Store(c) ==
  /\ Cache!Store(c)
  /\ IF outer = "cache"
     THEN UNCHANGED <<flightVars, payload, opened, got, redialed>>
     ELSE FlightHears(c, [at |-> told[c], ok2xx |-> TRUE])
  /\ UNCHANGED <<outer, produced, asked>>

Release(c) ==
  /\ Flight!Release(c)
  /\ UNCHANGED <<outer, clock, cacheVars, produced, historyVars>>

\* What nobody points at any more has no history.
Collected(h, nothing) ==
  [f \in Flights |-> IF \E d \in Callers : ref'[d] = f THEN h[f] ELSE nothing]

\* A flight ends for a goroutine: for its owner, or for a sharer.
Land(c) ==
  /\ \/ /\ Flight!Signal(c)
        /\ FlightReturns(c, payload[ref[c]])
        /\ UNCHANGED redialed
     \/ /\ Flight!Wake(c)
        /\ payload[ref[c]] # Failed
        /\ FlightReturns(c, payload[ref[c]])
        /\ UNCHANGED redialed
     \/ /\ Flight!Wake(c)
        /\ payload[ref[c]] = Failed
        /\ redialed' = redialed \cup {req[c]}
        /\ UNCHANGED <<clock, cacheVars, got>>
  /\ outer = "flight" => UNCHANGED <<clock, cacheVars>>
  /\ payload' = Collected(payload, None)
  /\ opened' = Collected(opened, Cache!Never)
  /\ UNCHANGED <<outer, produced, asked>>

\* Time passes, but no flight outlasts the client's timeout.
Tick ==
  /\ Cache!Tick
  /\ \A k \in Keys : flying[k] # None => clock < opened[flying[k]] + MaxFlight
  /\ UNCHANGED <<outer, flightVars, produced, historyVars>>

Step(c) == Fetch(c) \/ Enter(c) \/ Look(c) \/ Produce(c) \/ Respond(c)
             \/ Store(c) \/ Release(c) \/ Land(c)

Next ==
  \/ Tick
  \/ \E c \in Callers : Step(c) \/ \E k \in Keys : Ask(c, k)

Spec == Init /\ [][Next]_vars

\* Goroutines inside the stack run, and round trips end.
FairSpec == Spec /\ \A c \in Callers : WF_vars(Step(c))

-----------------------------------------------------------------------------
\* The variables of the layers keep their types, and the history its own.
TypeOK ==
  /\ outer \in {"cache", "flight"}
  /\ Cache!TypeOK
  /\ Flight!TypeOK
  /\ produced \in [Callers -> Response \cup {None}]
  /\ payload \in [Flights -> Response \cup {None, Failed}]
  /\ opened \in [Flights -> Nat \cup {Cache!Never}]
  /\ asked \in [Callers -> Nat \cup {Cache!Never}]
  /\ got \in [Callers -> Nat \cup {Cache!Nothing, Cache!Failure}]
  /\ redialed \subseteq Keys

(***************************************************************************)
(* Whichever way round they are installed, the two layers implement a      *)
(* bounded read; but what one of them promises alone does not survive: the *)
(* age of an answer is bounded by TTL and a flight's duration together,    *)
(* because joining a flight is reading its past.                           *)
(***************************************************************************)
Heard ==
  [c \in Callers |->
     IF outer = "flight" THEN got[c]
     ELSE IF place[c] = "returned" THEN told[c] ELSE Cache!Nothing]

Promise == INSTANCE BoundedRead
             WITH Readers <- Callers, Slack <- Cache!Slack + MaxFlight, told <- Heard

ReadsAreBounded == Promise!Spec

(***************************************************************************)
(* The time to live bounds the age of what is stored when the cache is the *)
(* inner layer; outside, it stores what it was handed under the clock of   *)
(* the goroutine that shared it, and a flight's duration comes on top.     *)
(***************************************************************************)
EntriesExpireInTime ==
  \A k \in Keys : entries[k] # None =>
    entries[k].expires <=
      entries[k].asOf + TTL + (IF outer = "cache" THEN MaxFlight ELSE 0)

(***************************************************************************)
(* With the single-flight outside, fetches of a key follow one another, so *)
(* the cache never goes back in time -- until a flight of the key fails    *)
(* and its sharers fetch side by side.  With the cache outside nothing of  *)
(* the kind holds: a slow sharer stores an old response over a newer one.  *)
(***************************************************************************)
CacheGoesForward ==
  [][\A k \in Keys :
       /\ outer = "flight" /\ k \notin redialed
       /\ entries[k] # None /\ entries'[k] # None
       => entries'[k].asOf >= entries[k].asOf]_vars

(***************************************************************************)
(* The layers do not block one another: as long as round trips end, every  *)
(* read returns.                                                           *)
(***************************************************************************)
ReadsReturn == \A c \in Callers : Inside(c) ~> ~Inside(c)
=============================================================================
