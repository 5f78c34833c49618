----------------------------- MODULE SingleFlight -----------------------------
(***************************************************************************)
(* The single-flight transport middleware of dedup.go: concurrent requests *)
(* with the same key share one round trip of the transport underneath.     *)
(* The group's mutex covers the look-up and the release; the round trip,   *)
(* the capture of its response and the closing of the flight's channel     *)
(* happen outside it, and sharers block on the channel and on nothing else.*)
(***************************************************************************)
EXTENDS FiniteSets

CONSTANTS
  Callers,     \* goroutines inside RoundTrip, one request at a time
  Keys,        \* request keys: method, URL and the headers varied on
  Cacheable,   \* the keys whose method is GET or HEAD
  Cancelable,  \* the goroutines whose request context may end
  Panicking,   \* the goroutines whose transport may panic
  Flights,     \* addresses of flight structs
  None         \* nil: no flight, no answer, no request

VARIABLES
  pc,         \* where each goroutine is in RoundTrip
  req,        \* the key of its request
  ref,        \* the flight it leads or waits for
  answer,     \* what RoundTrip returned to it
  flying,     \* SingleFlight.flying
  flight,     \* the flight structs
  canceled    \* the goroutines whose request context has ended

vars == <<pc, req, ref, answer, flying, flight, canceled>>

\* A round trip's outcome, with the goroutine and the request it was made for.
Answer == [by : Callers, key : Keys, ok : BOOLEAN]

ASSUME FlightAssumption ==
  /\ Cacheable \subseteq Keys
  /\ Cancelable \subseteq Callers
  /\ Panicking \subseteq Callers
  /\ None \notin Flights /\ None \notin Answer

Flight == [done : BOOLEAN, outcome : Answer \cup {None}]

NewFlight == [done |-> FALSE, outcome |-> None]

\* A flight nothing points at any more may be allocated again.
Free(f) == /\ \A c \in Callers : ref[c] # f
           /\ \A k \in Keys : flying[k] # f

\* c points at its flight no more; the last to do so leaves it to the collector.
Forget(c, flights) ==
  [flights EXCEPT ![ref[c]] =
     IF \E d \in Callers \ {c} : ref[d] = ref[c] THEN @ ELSE NewFlight]

\* A goroutine registered under its key, whose flight is still listed.
Leads(c) == pc[c] \in {"dialing", "captured", "panicked"}

Idle(c) == pc[c] \in {"idle", "returned"}

-----------------------------------------------------------------------------
Init ==
  /\ pc = [c \in Callers |-> "idle"]
  /\ req = [c \in Callers |-> None]
  /\ ref = [c \in Callers |-> None]
  /\ answer = [c \in Callers |-> None]
  /\ flying = [k \in Keys |-> None]
  /\ flight = [f \in Flights |-> NewFlight]
  /\ canceled = {}

Arrive(c, k, where) ==
  /\ Idle(c)
  /\ pc' = [pc EXCEPT ![c] = where]
  /\ req' = [req EXCEPT ![c] = k]
  /\ answer' = [answer EXCEPT ![c] = None]
  /\ canceled' = canceled \ {c}

\* A request that is not cacheable goes straight through.
Pass(c, k) ==
  /\ k \notin Cacheable
  /\ Arrive(c, k, "passing")
  /\ UNCHANGED <<ref, flying, flight>>

\* A flight for the key is listed: become a sharer.
Join(c, k) ==
  /\ k \in Cacheable
  /\ flying[k] # None
  /\ Arrive(c, k, "waiting")
  /\ ref' = [ref EXCEPT ![c] = flying[k]]
  /\ UNCHANGED <<flying, flight>>

Register(c, k) ==
  \E f \in Flights :
    /\ Free(f)
    /\ ref' = [ref EXCEPT ![c] = f]
    /\ flying' = [flying EXCEPT ![k] = f]
    /\ flight' = [flight EXCEPT ![f] = NewFlight]

\* Mutant: the look-up and the registration are not one critical section.
LeadUnlocked(c, k) ==
  /\ k \in Cacheable
  /\ Arrive(c, k, "dialing")
  /\ Register(c, k)

\* None is listed: register one and perform the round trip.
Lead(c, k) ==
  /\ k \in Cacheable
  /\ flying[k] = None
  /\ Arrive(c, k, "dialing")
  /\ Register(c, k)

\* The owner's round trip, and the capture of its response, end.
Capture(c, ok) ==
  /\ pc[c] = "dialing"
  /\ pc' = [pc EXCEPT ![c] = "captured"]
  /\ flight' = [flight EXCEPT ![ref[c]].outcome =
                  [by |-> c, key |-> req[c], ok |-> ok]]
  /\ UNCHANGED <<req, ref, answer, flying, canceled>>

(***************************************************************************)
(* The owner's transport panics.  Nothing is deferred, so the flight is    *)
(* neither taken off the list nor closed, whoever recovers the goroutine   *)
(* further up.  (A panic in an unshared round trip leaves no trace here.)  *)
(***************************************************************************)
Panic(c) ==
  /\ c \in Panicking
  /\ pc[c] = "dialing"
  /\ pc' = [pc EXCEPT ![c] = "panicked"]
  /\ UNCHANGED <<req, ref, answer, flying, flight, canceled>>

\* Mutant: a failed flight stays listed.
ReleaseAnswered(c) ==
  /\ pc[c] = "captured"
  /\ pc' = [pc EXCEPT ![c] = "released"]
  /\ flying' = IF flight[ref[c]].outcome.ok
               THEN [flying EXCEPT ![req[c]] = None]
               ELSE flying
  /\ UNCHANGED <<req, ref, answer, flight, canceled>>

\* The flight is taken off the list before its channel is closed.
Release(c) ==
  /\ pc[c] = "captured"
  /\ pc' = [pc EXCEPT ![c] = "released"]
  /\ flying' = [flying EXCEPT ![req[c]] = None]
  /\ UNCHANGED <<req, ref, answer, flight, canceled>>

\* Mutant: the owner of a failed flight returns without closing its channel.
SignalAnswered(c) ==
  /\ pc[c] = "released"
  /\ pc' = [pc EXCEPT ![c] = "returned"]
  /\ flight' = Forget(c, [flight EXCEPT ![ref[c]].done =
                            flight[ref[c]].outcome.ok])
  /\ answer' = [answer EXCEPT ![c] = flight[ref[c]].outcome]
  /\ ref' = [ref EXCEPT ![c] = None]
  /\ UNCHANGED <<req, flying, canceled>>

\* The owner closes the channel and returns.
Signal(c) ==
  /\ pc[c] = "released"
  /\ pc' = [pc EXCEPT ![c] = "returned"]
  /\ flight' = Forget(c, [flight EXCEPT ![ref[c]].done = TRUE])
  /\ answer' = [answer EXCEPT ![c] = flight[ref[c]].outcome]
  /\ ref' = [ref EXCEPT ![c] = None]
  /\ UNCHANGED <<req, flying, canceled>>

\* Mutant: a sharer takes what the flight holds without waiting for its end.
WakeEarly(c) ==
  /\ pc[c] = "waiting"
  /\ pc' = [pc EXCEPT ![c] = "returned"]
  /\ answer' = [answer EXCEPT ![c] = flight[ref[c]].outcome]
  /\ ref' = [ref EXCEPT ![c] = None]
  /\ flight' = Forget(c, flight)
  /\ UNCHANGED <<req, flying, canceled>>

\* Mutant: a sharer inherits the failure of the flight.
WakeWithError(c) == WakeEarly(c) /\ flight[ref[c]].done

\* A sharer finds the channel closed: take a clone, or dial for itself.
Wake(c) ==
  LET f == flight[ref[c]]
  IN  /\ pc[c] = "waiting"
      /\ f.done
      /\ pc' = [pc EXCEPT ![c] = IF f.outcome.ok THEN "returned" ELSE "redialing"]
      /\ answer' = [answer EXCEPT ![c] = IF f.outcome.ok THEN f.outcome ELSE None]
      /\ ref' = [ref EXCEPT ![c] = None]
      /\ flight' = Forget(c, flight)
      /\ UNCHANGED <<req, flying, canceled>>

\* The round trip of a request that is, or no longer is, shared with no one.
Finish(c, ok) ==
  /\ pc[c] \in {"passing", "redialing"}
  /\ pc' = [pc EXCEPT ![c] = "returned"]
  /\ answer' = [answer EXCEPT ![c] = [by |-> c, key |-> req[c], ok |-> ok]]
  /\ UNCHANGED <<req, ref, flying, flight, canceled>>

\* The context of a request ends.
Cancel(c) ==
  /\ c \in Cancelable
  /\ ~Idle(c)
  /\ canceled' = canceled \cup {c}
  /\ UNCHANGED <<pc, req, ref, answer, flying, flight>>

\* The transport underneath returns, with an answer or an error.
DialEnds(c) == \E ok \in BOOLEAN : Capture(c, ok) \/ Finish(c, ok)

Next ==
  \E c \in Callers :
    \/ \E k \in Keys : Pass(c, k) \/ Join(c, k) \/ Lead(c, k)
    \/ DialEnds(c)
    \/ Panic(c)
    \/ Release(c)
    \/ Signal(c)
    \/ Wake(c)
    \/ Cancel(c)

Spec == Init /\ [][Next]_vars

Scheduling == \A c \in Callers : WF_vars(Release(c) \/ Signal(c) \/ Wake(c))

\* Every round trip ends, or panics: the client's timeout bounds it.
FairSpec == Spec /\ Scheduling /\ \A c \in Callers : WF_vars(DialEnds(c) \/ Panic(c))

-----------------------------------------------------------------------------
\* The variables keep their types.
TypeOK ==
  /\ pc \in [Callers -> {"idle", "waiting", "dialing", "captured", "released",
                         "redialing", "passing", "returned", "panicked"}]
  /\ req \in [Callers -> Keys \cup {None}]
  /\ ref \in [Callers -> Flights \cup {None}]
  /\ answer \in [Callers -> Answer \cup {None}]
  /\ flying \in [Keys -> Flights \cup {None}]
  /\ flight \in [Flights -> Flight]
  /\ canceled \subseteq Callers

(***************************************************************************)
(* Concurrent identical reads share one round trip: no two goroutines own  *)
(* a round trip for the same key at the same time.                         *)
(***************************************************************************)
OneOwnerPerKey ==
  \A c, d \in Callers : Leads(c) /\ Leads(d) /\ req[c] = req[d] => c = d

(***************************************************************************)
(* A listed flight is in flight: it has an owner that has yet to release   *)
(* it (or panicked and never will), so no request ever joins a flight that *)
(* is over -- a sharer that wakes and asks again never meets the entry it  *)
(* woke from.                                                              *)
(***************************************************************************)
ListedFlightIsOwned ==
  \A k \in Keys : flying[k] # None =>
    \E c \in Callers : Leads(c) /\ req[c] = k /\ ref[c] = flying[k]

(***************************************************************************)
(* No sharer is stranded, unless the owner of its flight panicked: the     *)
(* flight has ended, or is in the hands of the goroutine that will end it. *)
(***************************************************************************)
SharersHaveAnOwner ==
  \A c \in Callers : pc[c] = "waiting" =>
    \/ flight[ref[c]].done
    \/ \E d \in Callers : /\ Leads(d) \/ pc[d] = "released"
                          /\ ref[d] = ref[c]
                          /\ req[d] = req[c]

(***************************************************************************)
(* What a goroutine is handed answers its own request; an error is always  *)
(* that of its own round trip; and only cacheable requests are shared.     *)
(***************************************************************************)
AnswersTheRequest ==
  \A c \in Callers : pc[c] = "returned" =>
    /\ answer[c] # None
    /\ answer[c].key = req[c]
    /\ ~answer[c].ok \/ req[c] \notin Cacheable => answer[c].by = c

\* A goroutine that performs, or has yet to announce, a shared round trip.
Owns(c) == Leads(c) \/ pc[c] = "released"

Holds(c) == Owns(c) \/ pc[c] = "waiting"

\* A goroutine points at a flight while it owns it or waits for it.
PointersAreHeld == \A c \in Callers : Holds(c) <=> ref[c] # None

\* Only cacheable requests have to do with flights.
HoldersRead ==
  \A c \in Callers :
    /\ pc[c] # "idle" => req[c] \in Keys
    /\ Holds(c) \/ pc[c] = "redialing" => req[c] \in Cacheable

\* No flight has two owners.
OwnersDiffer ==
  \A c, d \in Callers : Owns(c) /\ Owns(d) /\ ref[c] = ref[d] => c = d

\* A goroutine that leads is the one its key leads to.
LeadersAreListed == \A c \in Callers : Leads(c) => flying[req[c]] = ref[c]

\* The outcome of a flight is there when its owner has captured it.
OwnFlight(c) ==
  LET f == flight[ref[c]]
  IN  /\ ~f.done
      /\ pc[c] \in {"captured", "released"} =>
           f.outcome # None /\ f.outcome.by = c /\ f.outcome.key = req[c]

\* A sharer's flight is owned by a request for its key, or over and answered.
SharedFlight(c) ==
  \/ \E d \in Callers : Owns(d) /\ ref[d] = ref[c] /\ req[d] = req[c]
  \/ LET f == flight[ref[c]]
     IN  f.done /\ f.outcome # None /\ f.outcome.key = req[c]

FlightsAreSound ==
  \A c \in Callers : /\ Owns(c) => OwnFlight(c)
                     /\ pc[c] = "waiting" => SharedFlight(c)

\* The group is sound, whatever its callers do with the answers.
Sound ==
  /\ TypeOK
  /\ PointersAreHeld
  /\ HoldersRead
  /\ OwnersDiffer
  /\ LeadersAreListed
  /\ ListedFlightIsOwned
  /\ FlightsAreSound

\* What every step preserves, whatever the values of the constants.
IInv == Sound /\ AnswersTheRequest

\* A goroutine panicked while it led the flight of the key.
Poisoned(k) == \E d \in Callers : pc[d] = "panicked" /\ req[d] = k

(***************************************************************************)
(* As long as round trips end, every request returns; and what a panic     *)
(* blocks for ever are the requests for its own key, and no others.        *)
(***************************************************************************)
RequestsReturn == \A c \in Callers : ~Idle(c) ~> Idle(c) \/ Poisoned(req[c])

-----------------------------------------------------------------------------
(***************************************************************************)
(* client.go:274-275, "a context cancellation aborts immediately", and     *)
(* dedup.go:126-129, a failed flight "surfaces only to the caller that     *)
(* performed it": a request whose context has ended returns, whatever      *)
(* became of the goroutine it shares with.  The code falls short of it     *)
(* (see the README).                                                       *)
(***************************************************************************)
CanceledReturns == \A c \in Callers : c \in canceled /\ ~Idle(c) ~> Idle(c)
=============================================================================
