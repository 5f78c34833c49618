--------------------------- MODULE ReadStack_proofs ---------------------------
(***************************************************************************)
(* Proofs about ReadStack, in either order of its layers: for every TTL,   *)
(* every duration of a flight, any number of goroutines, keys and flights. *)
(* The single-flight layer brings its own invariant, from                  *)
(* SingleFlight_proofs; what the cache alone promises does not hold in the *)
(* stack, so its part is proved anew, against the clock of the flights.    *)
(***************************************************************************)
EXTENDS ReadStack, TLAPS

\* What the outer cache is handed may have been produced before it asked ...
Late == IF outer = "cache" THEN MaxFlight ELSE 0

\* ... and what the outer flight is handed, before it was opened.
Stale == IF outer = "flight" THEN Cache!Slack ELSE 0

\* Where a goroutine is in the layer its caller sees.
Outermost(c) == IF outer = "cache" THEN place[c] ELSE pc[c]

\* A goroutine is in the inner layer only while the outer one waits for it.
IsNested(c) ==
  /\ pc[c] \notin {"passing", "panicked"}
  /\ outer = "cache" /\ ~Flight!Idle(c) => place[c] = "fetching"
  /\ outer = "flight" /\ ~Cache!Idle(c) => Dials(c)
  /\ place[c] # "idle" => req[c] \in Keys
  /\ place[c] \in {"looking", "storing"} => Cache!Caches(req[c])
  /\ produced[c] # None => AtServer(c)

\* It has heard something when, and only when, its read has returned; and of a
\* moment that is not too long ago.
IsAccounted(c) ==
  /\ Outermost(c) = "idle" => asked[c] = Cache!Never
  /\ Outermost(c) # "idle" => asked[c] \in 0 .. clock
  /\ Outermost(c) = "returned" <=> Heard[c] # Cache!Nothing
  /\ Heard[c] >= 0 =>
       Heard[c] <= clock /\ Heard[c] + Cache!Slack + MaxFlight >= asked[c]

\* The cache takes the time after the question, and after the flight was opened.
TakesItsTime(c) ==
  /\ place[c] # "idle" => now[c] \in 0 .. clock
  /\ outer = "cache" => now[c] = asked[c]
  /\ outer = "flight" /\ ~Cache!Idle(c) =>
       /\ now[c] >= asked[c]
       /\ pc[c] = "dialing" => now[c] >= opened[ref[c]]

\* The server produces its response after all that.
ResponseIsTimed(c) ==
  /\ produced[c] # None =>
       /\ produced[c].at <= clock /\ produced[c].at >= asked[c]
       /\ outer = "flight" => produced[c].at >= now[c]
       /\ pc[c] = "dialing" => produced[c].at >= opened[ref[c]]
  /\ place[c] = "storing" =>
       told[c] \in Nat /\ told[c] <= clock /\ told[c] + Late >= now[c]

\* Nobody joins a flight later than MaxFlight after it was opened.
FlightIsTimed(c) ==
  Flight!Holds(c) =>
    /\ opened[ref[c]] \in 0 .. clock
    /\ asked[c] <= opened[ref[c]] + MaxFlight
    /\ Flight!Leads(c) => clock <= opened[ref[c]] + MaxFlight

\* What a flight was captured with agrees with its outcome, and is not too old.
PayloadIsTimed(c) ==
  Flight!Holds(c) /\ flight[ref[c]].outcome # None =>
    LET p == payload[ref[c]]
    IN  /\ p \in Response \cup {Failed}
        /\ flight[ref[c]].outcome.ok <=> p # Failed
        /\ p # Failed => p.at <= clock /\ p.at + Stale >= opened[ref[c]]

\* As long as no sharer redials, the fetch of a key finds, and leaves, no entry.
FetchesAlone(c) ==
  /\ pc[c] = "redialing" => req[c] \in redialed
  /\ /\ outer = "flight" /\ place[c] \in {"fetching", "storing"}
     /\ Cache!Caches(req[c]) /\ req[c] \notin redialed
     => entries[req[c]] = None

EntriesAreTimed ==
  \A k \in Keys : entries[k] # None =>
    /\ entries[k].asOf <= clock
    /\ entries[k].expires <= entries[k].asOf + TTL + Late

IsTimely(c) == /\ IsNested(c) /\ IsAccounted(c) /\ TakesItsTime(c)
               /\ ResponseIsTimed(c) /\ FlightIsTimed(c)

\* What every step preserves.
IInv ==
  /\ TypeOK
  /\ Flight!Sound
  /\ \A c \in Callers : IsTimely(c) /\ PayloadIsTimed(c) /\ FetchesAlone(c)
  /\ EntriesAreTimed

-----------------------------------------------------------------------------
FlightProofs == INSTANCE SingleFlight_proofs
                  WITH Cacheable <- Keys, Cancelable <- {}, Panicking <- {}

USE DEF Flight!Holds, Flight!Owns, Flight!Leads, Flight!Idle, Cache!Idle

\* The assumptions of the layers are among those of the stack.
LEMMA Layers ==
  /\ FlightProofs!FlightAssumption
  /\ TTL \in Int /\ MaxClock \in Nat /\ MaxFlight \in Nat
  /\ None \notin Cache!Entry /\ None \notin Flights
  /\ None \notin Response /\ None # Failed /\ Failed \notin Response
<1>1. FlightProofs!FlightAssumption
  BY StackAssumption DEF Flight!FlightAssumption, FlightProofs!FlightAssumption,
                         Flight!Answer, FlightProofs!Answer
<1>2. /\ None \notin Cache!Entry /\ TTL \in Int /\ MaxClock \in Nat
      /\ MaxFlight \in Nat
  BY StackAssumption DEF Cache!CacheAssumption
<1>3. None \notin Flights
  BY StackAssumption DEF Flight!FlightAssumption
<1>4. None \notin Response /\ None # Failed /\ Failed \notin Response
  BY StackAssumption DEF Failed, Response, Cache!Failure
<1> QED BY <1>1, <1>2, <1>3, <1>4

\* The layer as ReadStack uses it, and as its proofs are about.
LEMMA SameFlight ==
  /\ Flight!Sound <=> FlightProofs!Sound
  /\ FlightProofs!Sound' => Flight!Sound'
<1> USE DEF Flight!TypeOK, FlightProofs!TypeOK, Flight!Answer, FlightProofs!Answer,
            Flight!Flight, FlightProofs!Flight, FlightProofs!Holds,
            FlightProofs!Owns, FlightProofs!Leads,
            Flight!PointersAreHeld, FlightProofs!PointersAreHeld,
            Flight!HoldersRead, FlightProofs!HoldersRead,
            Flight!OwnersDiffer, FlightProofs!OwnersDiffer,
            Flight!LeadersAreListed, FlightProofs!LeadersAreListed,
            Flight!ListedFlightIsOwned, FlightProofs!ListedFlightIsOwned,
            Flight!FlightsAreSound, FlightProofs!FlightsAreSound,
            Flight!OwnFlight, FlightProofs!OwnFlight,
            Flight!SharedFlight, FlightProofs!SharedFlight
<1>1. Flight!Sound <=> FlightProofs!Sound
  BY DEF Flight!Sound, FlightProofs!Sound
<1>2. FlightProofs!Sound' => Flight!Sound'
  BY DEF Flight!Sound, FlightProofs!Sound
<1> QED BY <1>1, <1>2

\* The layer is sound to begin with ...
LEMMA InitSound == Flight!Init => Flight!Sound
<1>1. Flight!Init => FlightProofs!Init
  BY DEF Flight!Init, FlightProofs!Init, Flight!NewFlight, FlightProofs!NewFlight
<1>2. FlightProofs!Init => FlightProofs!Sound
  BY FlightProofs!InitIInv, Layers DEF FlightProofs!IInv
<1> QED BY <1>1, <1>2, SameFlight

\* ... when a goroutine boards a flight ...
LEMMA BoardSound ==
  ASSUME Flight!Sound, NEW c \in Callers, NEW k \in Keys,
         Flight!Join(c, k) \/ Flight!Lead(c, k)
  PROVE  Flight!Sound'
<1>1. FlightProofs!Sound /\ FlightProofs!FlightAssumption
  BY SameFlight, Layers
<1>2. CASE Flight!Join(c, k)
  <2>1. FlightProofs!Join(c, k)
    BY <1>2 DEF Flight!Join, FlightProofs!Join, Flight!Arrive, FlightProofs!Arrive,
                FlightProofs!Idle
  <2> QED BY <1>1, <2>1, FlightProofs!JoinSound, SameFlight
<1>3. CASE Flight!Lead(c, k)
  <2>1. FlightProofs!Lead(c, k)
    BY <1>3 DEF Flight!Lead, FlightProofs!Lead, Flight!Arrive, FlightProofs!Arrive,
                FlightProofs!Idle, Flight!Register, FlightProofs!Register,
                Flight!Free, FlightProofs!Free, Flight!NewFlight,
                FlightProofs!NewFlight
  <2> QED BY <1>1, <2>1, FlightProofs!LeadSound, SameFlight
<1> QED BY <1>2, <1>3

\* ... when its round trip ends ...
LEMMA HearSound ==
  ASSUME Flight!Sound, NEW c \in Callers, NEW ok \in BOOLEAN,
         Flight!Capture(c, ok) \/ Flight!Finish(c, ok)
  PROVE  Flight!Sound'
<1>1. FlightProofs!Sound /\ FlightProofs!FlightAssumption
  BY SameFlight, Layers
<1>2. CASE Flight!Capture(c, ok)
  <2>1. FlightProofs!Capture(c, ok)
    BY <1>2 DEF Flight!Capture, FlightProofs!Capture
  <2> QED BY <1>1, <2>1, FlightProofs!CaptureSound, SameFlight
<1>3. CASE Flight!Finish(c, ok)
  <2>1. FlightProofs!Finish(c, ok)
    BY <1>3 DEF Flight!Finish, FlightProofs!Finish
  <2> QED BY <1>1, <2>1, FlightProofs!FinishSound, SameFlight
<1> QED BY <1>2, <1>3

\* ... and when the flight itself does.
LEMMA LandSound ==
  ASSUME Flight!Sound, NEW c \in Callers,
         Flight!Release(c) \/ Flight!Signal(c) \/ Flight!Wake(c)
  PROVE  Flight!Sound'
<1>1. FlightProofs!Sound /\ FlightProofs!FlightAssumption
  BY SameFlight, Layers
<1>2. CASE Flight!Release(c)
  <2>1. FlightProofs!Release(c)
    BY <1>2 DEF Flight!Release, FlightProofs!Release
  <2> QED BY <1>1, <2>1, FlightProofs!ReleaseSound, SameFlight
<1>3. CASE Flight!Signal(c)
  <2>1. FlightProofs!Signal(c)
    BY <1>3 DEF Flight!Signal, FlightProofs!Signal, Flight!Forget,
                FlightProofs!Forget, Flight!NewFlight, FlightProofs!NewFlight
  <2> QED BY <1>1, <2>1, FlightProofs!SignalSound, SameFlight
<1>4. CASE Flight!Wake(c)
  <2>1. FlightProofs!Wake(c)
    BY <1>4 DEF Flight!Wake, FlightProofs!Wake, Flight!Forget, FlightProofs!Forget,
                Flight!NewFlight, FlightProofs!NewFlight
  <2> QED BY <1>1, <2>1, FlightProofs!WakeSound, SameFlight
<1> QED BY <1>2, <1>3, <1>4

\* The outer cache gives a goroutine that is not inside the layer a new key.
LEMMA ArriveSound ==
  ASSUME Flight!Sound, NEW c \in Callers, NEW k \in Keys, Flight!Idle(c),
         req' = [req EXCEPT ![c] = k], UNCHANGED flightVars
  PROVE  Flight!Sound'
<1>1. /\ UNCHANGED <<pc, ref, answer, flying, flight, canceled>>
      /\ req' \in [Callers -> Keys \cup {None}] /\ req'[c] = k
      /\ \A d \in Callers \ {c} : req'[d] = req[d]
  BY DEF flightVars, Flight!Sound, Flight!TypeOK
<1>2. Flight!TypeOK'
  BY <1>1 DEF Flight!Sound, Flight!TypeOK
<1>3. Flight!PointersAreHeld' /\ Flight!HoldersRead' /\ Flight!OwnersDiffer'
  BY <1>1 DEF Flight!Sound, Flight!PointersAreHeld, Flight!HoldersRead,
              Flight!OwnersDiffer
<1>4. Flight!LeadersAreListed' /\ Flight!ListedFlightIsOwned'
  BY <1>1 DEF Flight!Sound, Flight!LeadersAreListed, Flight!ListedFlightIsOwned
<1>5. Flight!FlightsAreSound'
  <2>1. \A d \in Callers : Flight!Owns(d)' => Flight!OwnFlight(d)'
    BY <1>1 DEF Flight!Sound, Flight!FlightsAreSound, Flight!OwnFlight
  <2>2. \A d \in Callers : pc'[d] = "waiting" => Flight!SharedFlight(d)'
    BY <1>1 DEF Flight!Sound, Flight!FlightsAreSound, Flight!SharedFlight
  <2> QED BY <2>1, <2>2 DEF Flight!FlightsAreSound
<1> QED BY <1>2, <1>3, <1>4, <1>5 DEF Flight!Sound

\* The layer is left alone.
LEMMA SameSound ==
  ASSUME Flight!Sound, UNCHANGED <<flightVars, req>>
  PROVE  Flight!Sound'
BY DEF flightVars, Flight!Sound, Flight!TypeOK, Flight!PointersAreHeld,
       Flight!HoldersRead, Flight!OwnersDiffer, Flight!LeadersAreListed,
       Flight!ListedFlightIsOwned, Flight!FlightsAreSound, Flight!OwnFlight,
       Flight!SharedFlight

-----------------------------------------------------------------------------
\* A step of c leaves the other goroutines where they are.
Others(c) ==
  \A d \in Callers \ {c} :
    /\ place'[d] = place[d] /\ now'[d] = now[d] /\ told'[d] = told[d]
    /\ pc'[d] = pc[d] /\ req'[d] = req[d] /\ ref'[d] = ref[d]
    /\ asked'[d] = asked[d] /\ got'[d] = got[d] /\ produced'[d] = produced[d]

\* It leaves the flights they hold as they were.
Apart(c) ==
  \A d \in Callers \ {c} : Flight!Holds(d) =>
    /\ opened'[ref[d]] = opened[ref[d]]
    /\ payload'[ref[d]] = payload[ref[d]]
    /\ flight'[ref[d]].outcome = flight[ref[d]].outcome

\* Nor does it move the clock, or end a redial.
Quiet == outer' = outer /\ clock' = clock /\ redialed \subseteq redialed'

\* It leaves the entries of other keys alone, if it stores; else it may remove some.
Spares(c) ==
  \/ \A k \in Keys : entries'[k] \in {entries[k], None}
  \/ place[c] = "storing" /\ \A k \in Keys \ {req[c]} : entries'[k] = entries[k]

\* The parts of the invariant keep for another goroutine ...
LEMMA OthersTimely ==
  ASSUME IInv, NEW c \in Callers, NEW d \in Callers \ {c}, Others(c), Quiet,
         Flight!Holds(d) => opened'[ref[d]] = opened[ref[d]]
  PROVE  IsTimely(d)'
<1>1. /\ place'[d] = place[d] /\ now'[d] = now[d] /\ told'[d] = told[d]
      /\ pc'[d] = pc[d] /\ req'[d] = req[d] /\ ref'[d] = ref[d]
      /\ asked'[d] = asked[d] /\ got'[d] = got[d] /\ produced'[d] = produced[d]
      /\ outer' = outer /\ clock' = clock
      /\ IsTimely(d)
  BY DEF Others, Quiet, IInv
<1>2. IsNested(d)'
  BY <1>1 DEF IsTimely, IsNested, Dials, AtServer, Cache!Caches
<1>3. IsAccounted(d)'
  BY <1>1 DEF IsTimely, IsAccounted, Outermost, Heard
<1>4. TakesItsTime(d)'
  BY <1>1 DEF IsTimely, TakesItsTime, IsNested, Dials
<1>5. ResponseIsTimed(d)'
  BY <1>1 DEF IsTimely, ResponseIsTimed, Late
<1>6. FlightIsTimed(d)'
  BY <1>1 DEF IsTimely, FlightIsTimed
<1> QED BY <1>2, <1>3, <1>4, <1>5, <1>6 DEF IsTimely

\* ... and what their flight hands out stays timed ...
LEMMA OthersPaid ==
  ASSUME IInv, NEW c \in Callers, NEW d \in Callers \ {c}, Others(c), Quiet, Apart(c)
  PROVE  PayloadIsTimed(d)'
<1>1. /\ pc'[d] = pc[d] /\ ref'[d] = ref[d]
      /\ outer' = outer /\ clock' = clock
      /\ PayloadIsTimed(d)
  BY DEF Others, Quiet, IInv
<1>2. Flight!Holds(d) => /\ opened'[ref[d]] = opened[ref[d]]
                         /\ payload'[ref[d]] = payload[ref[d]]
                         /\ flight'[ref[d]].outcome = flight[ref[d]].outcome
  BY DEF Apart
<1> QED BY <1>1, <1>2 DEF PayloadIsTimed, Stale

\* ... whose fetch, if it is of the key that is stored, is a redial.
LEMMA OthersAlone ==
  ASSUME IInv, NEW c \in Callers, NEW d \in Callers \ {c}, Others(c), Quiet,
         Spares(c)
  PROVE  FetchesAlone(d)'
<1>1. /\ place'[d] = place[d] /\ pc'[d] = pc[d] /\ req'[d] = req[d]
      /\ outer' = outer /\ redialed \subseteq redialed'
      /\ FetchesAlone(d)
      /\ place[d] # "idle" => req[d] \in Keys
  BY DEF Others, Quiet, IInv, IsTimely, IsNested
<1>2. CASE \A k \in Keys : entries'[k] \in {entries[k], None}
  BY <1>1, <1>2 DEF FetchesAlone, Cache!Caches
<1>3. CASE place[c] = "storing" /\ \A k \in Keys \ {req[c]} : entries'[k] = entries[k]
  <2>1. SUFFICES ASSUME outer = "flight", place[d] \in {"fetching", "storing"},
                        req[d] \notin redialed
                 PROVE  req[d] # req[c]
    BY <1>1, <1>3 DEF FetchesAlone, Cache!Caches
  <2>2. SUFFICES ASSUME req[d] = req[c] PROVE FALSE
    OBVIOUS
  <2>3. pc[c] = "dialing" /\ pc[d] = "dialing"
    BY <1>3, <2>1, <2>2 DEF IInv, IsTimely, IsNested, Dials, FetchesAlone
  <2> QED BY <2>2, <2>3 DEF IInv, Flight!Sound, Flight!LeadersAreListed,
                            Flight!OwnersDiffer
<1> QED BY <1>2, <1>3 DEF Spares

\* So that a step need only keep the invariant for the goroutine that takes it.
LEMMA AnyStep ==
  ASSUME IInv, NEW c \in Callers, Others(c), Quiet, Spares(c),
         \A d \in Callers \ {c} :
           /\ Flight!Holds(d) => opened'[ref[d]] = opened[ref[d]]
           /\ PayloadIsTimed(d)',
         TypeOK', Flight!Sound', EntriesAreTimed',
         IsTimely(c)', PayloadIsTimed(c)', FetchesAlone(c)'
  PROVE  IInv'
<1>1. \A d \in Callers \ {c} : IsTimely(d)' /\ FetchesAlone(d)'
  BY OthersTimely, OthersAlone
<1> QED BY <1>1 DEF IInv

\* A step that stores nothing keeps the invariant, if it does for its own caller.
LEMMA OwnStep ==
  ASSUME IInv, NEW c \in Callers, Others(c), Quiet, Apart(c),
         \A k \in Keys : entries'[k] \in {entries[k], None},
         TypeOK', Flight!Sound',
         IsTimely(c)', PayloadIsTimed(c)', FetchesAlone(c)'
  PROVE  IInv' /\ Others(c) /\ Quiet
<1>1. Spares(c)
  BY DEF Spares
<1>2. EntriesAreTimed'
  BY DEF IInv, EntriesAreTimed, Quiet, Late
<1>3. \A d \in Callers \ {c} :
           /\ Flight!Holds(d) => opened'[ref[d]] = opened[ref[d]]
           /\ PayloadIsTimed(d)'
  BY OthersPaid DEF Apart
<1> QED BY <1>1, <1>2, <1>3, AnyStep

-----------------------------------------------------------------------------
\* A goroutine becomes a sharer, or registers a flight.
LEMMA BoardIInv ==
  ASSUME IInv, NEW c \in Callers, NEW k \in Keys, Board(c, k),
         UNCHANGED <<outer, produced>>,
         \/ /\ outer = "flight" /\ ~Inside(c)
            /\ asked' = [asked EXCEPT ![c] = clock]
            /\ got' = [got EXCEPT ![c] = Cache!Nothing]
         \/ /\ outer = "cache" /\ place[c] = "fetching"
            /\ UNCHANGED <<asked, got>>
  PROVE  IInv' /\ Others(c) /\ Quiet
<1> USE Layers DEF Cache!Never, Cache!Nothing
<1>1. /\ Flight!Idle(c) /\ ref[c] = None
      /\ Flight!Join(c, k) \/ Flight!Lead(c, k)
      /\ req' = [req EXCEPT ![c] = k]
      /\ UNCHANGED <<outer, clock, entries, place, now, told, produced,
                     payload, redialed>>
  BY DEF Board, Flight!Join, Flight!Lead, Flight!Arrive, cacheVars, IInv,
         Flight!Sound, Flight!PointersAreHeld
<1>2. produced[c] = None
  BY <1>1 DEF IInv, IsTimely, IsNested, AtServer, Dials, Inside
<1>3. Flight!Sound'
  BY <1>1, BoardSound DEF IInv
<1>4. PICK p \in {"waiting", "dialing"}, f \in Flights :
        /\ pc' = [pc EXCEPT ![c] = p]
        /\ ref' = [ref EXCEPT ![c] = f]
        /\ \/ p = "waiting" /\ f = flying[k] /\ UNCHANGED <<flight, opened>>
           \/ /\ p = "dialing" /\ Flight!Free(f)
              /\ opened' = [opened EXCEPT ![f] = clock]
              /\ flight' = [flight EXCEPT ![f] = Flight!NewFlight]
  <2>1. CASE Flight!Join(c, k) /\ UNCHANGED opened
    <3>1. flying[k] \in Flights
      BY <2>1 DEF Flight!Join, IInv, Flight!Sound, Flight!TypeOK
    <3> QED BY <2>1, <3>1 DEF Flight!Join, Flight!Arrive
  <2>2. CASE Flight!Lead(c, k) /\ opened' = [opened EXCEPT ![ref'[c]] = clock]
    <3>1. PICK f \in Flights : /\ Flight!Free(f)
                               /\ ref' = [ref EXCEPT ![c] = f]
                               /\ flight' = [flight EXCEPT ![f] = Flight!NewFlight]
      BY <2>2 DEF Flight!Lead, Flight!Register
    <3>2. ref'[c] = f
      BY <3>1 DEF IInv, Flight!Sound, Flight!TypeOK
    <3> QED BY <2>2, <3>1, <3>2 DEF Flight!Lead, Flight!Arrive
  <2> QED BY <2>1, <2>2 DEF Board
<1>5. /\ pc'[c] = p /\ ref'[c] = f /\ req'[c] = k
      /\ outer = "flight" => asked'[c] = clock /\ got'[c] = Cache!Nothing
      /\ outer = "cache" => asked'[c] = asked[c] /\ got'[c] = got[c]
      /\ Others(c)
  BY <1>1, <1>4 DEF IInv, TypeOK, Flight!Sound, Flight!TypeOK, Others
<1>6. TypeOK'
  <2>1. Cache!TypeOK'
    BY <1>1 DEF IInv, TypeOK, Cache!TypeOK
  <2>2. clock \in Nat
    BY DEF IInv, TypeOK, Cache!TypeOK
  <2>3. opened' \in [Flights -> Nat \cup {Cache!Never}]
    BY <1>4, <2>2 DEF IInv, TypeOK
  <2> QED BY <1>1, <1>3, <2>1, <2>2, <2>3 DEF IInv, TypeOK, Flight!Sound
<1>7. Quiet /\ Apart(c)
  <2>1. \A d \in Callers \ {c} : Flight!Holds(d) => ref[d] \in Flights
    BY DEF IInv, Flight!Sound, Flight!TypeOK, Flight!PointersAreHeld
  <2> QED BY <1>1, <1>4, <2>1
          DEF Quiet, Apart, Flight!Free, IInv, TypeOK, Flight!Sound, Flight!TypeOK
<1>8. /\ opened'[f] \in 0 .. clock /\ clock <= opened'[f] + MaxFlight
      /\ PayloadIsTimed(c)'
  <2>1. CASE p = "waiting"
    <3>1. PICK d \in Callers : Flight!Leads(d) /\ ref[d] = f
      BY <1>4, <2>1 DEF IInv, Flight!Sound, Flight!ListedFlightIsOwned
    <3> QED BY <1>1, <1>4, <1>5, <2>1, <3>1
            DEF IInv, IsTimely, FlightIsTimed, PayloadIsTimed, Stale
  <2>2. CASE p = "dialing"
    <3>1. opened'[f] = clock /\ flight'[f].outcome = None /\ clock \in Nat
      BY <1>4, <2>2
         DEF IInv, TypeOK, Cache!TypeOK, Flight!Sound, Flight!TypeOK, Flight!NewFlight
    <3> QED BY <1>5, <3>1 DEF PayloadIsTimed
  <2> QED BY <2>1, <2>2
<1>9. IsTimely(c)'
  <2>1. IsNested(c)'
    BY <1>1, <1>2, <1>4, <1>5
       DEF IInv, IsTimely, IsNested, Dials, Inside, Cache!Caches
  <2>2. IsAccounted(c)'
    BY <1>1, <1>4, <1>5
       DEF IInv, TypeOK, Cache!TypeOK, IsTimely, IsAccounted, Outermost, Heard
  <2>3. TakesItsTime(c)' /\ ResponseIsTimed(c)'
    BY <1>1, <1>2, <1>4, <1>5
       DEF IInv, IsTimely, IsNested, TakesItsTime, ResponseIsTimed, Inside, Late, Dials
  <2>4. FlightIsTimed(c)'
    <3>1. asked'[c] <= clock /\ clock' = clock
      BY <1>1, <1>5
         DEF IInv, TypeOK, Cache!TypeOK, IsTimely, IsAccounted, Outermost
    <3> QED BY <1>5, <1>8, <3>1 DEF FlightIsTimed, IInv, TypeOK, Cache!TypeOK
  <2> QED BY <2>1, <2>2, <2>3, <2>4 DEF IsTimely
<1>10. FetchesAlone(c)'
  BY <1>1, <1>4, <1>5 DEF FetchesAlone, Inside
<1> QED BY <1>1, <1>3, <1>5, <1>6, <1>7, <1>8, <1>9, <1>10, OwnStep

\* A step that leaves the single-flight layer alone, but for the keys.
LEMMA FlightAside ==
  ASSUME NEW c \in Callers, UNCHANGED <<flightVars, payload, opened>>
  PROVE  Apart(c)
BY DEF flightVars, Apart

\* A goroutine enters the cache.
LEMMA ArriveIInv ==
  ASSUME IInv, NEW c \in Callers, NEW k \in Keys, Cache!Arrive(c, k),
         UNCHANGED <<outer, flightVars, produced, payload, opened, redialed>>,
         \/ /\ outer = "cache" /\ ~Inside(c)
            /\ asked' = [asked EXCEPT ![c] = clock]
            /\ got' = [got EXCEPT ![c] = Cache!Nothing]
         \/ outer = "flight" /\ Dials(c) /\ k = req[c] /\ UNCHANGED <<asked, got>>
  PROVE  IInv' /\ Others(c) /\ Quiet
<1> USE Layers DEF Cache!Never, Cache!Nothing
<1>1. PICK p \in {"looking", "fetching"} :
        /\ place' = [place EXCEPT ![c] = p]
        /\ p = "looking" <=> Cache!Caches(k)
  BY DEF Cache!Arrive
<1>2. /\ Cache!Idle(c)
      /\ req' = [req EXCEPT ![c] = k] /\ now' = [now EXCEPT ![c] = clock]
      /\ told' = [told EXCEPT ![c] = Cache!Nothing]
      /\ UNCHANGED <<outer, clock, entries, produced, payload, opened, redialed,
                     pc, ref, answer, flying, flight, canceled>>
  BY DEF Cache!Arrive, flightVars
<1>3. produced[c] = None
  BY <1>2 DEF IInv, IsTimely, IsNested, AtServer, Dials, Inside
<1>4. /\ place'[c] = p /\ now'[c] = clock /\ told'[c] = -1 /\ req'[c] = k
      /\ outer = "cache" => asked'[c] = clock
      /\ outer = "flight" => asked'[c] = asked[c] /\ got'[c] = got[c]
      /\ Others(c)
  BY <1>1, <1>2 DEF IInv, TypeOK, Cache!TypeOK, Others
<1>5. Flight!Sound'
  <2>1. CASE Flight!Idle(c)
    BY <1>2, <2>1, ArriveSound DEF IInv
  <2>2. CASE ~Flight!Idle(c)
    <3>1. req' = req
      BY <1>2, <2>2 DEF Inside, IInv, TypeOK, Cache!TypeOK
    <3> QED BY <3>1, SameSound DEF IInv
  <2> QED BY <2>1, <2>2
<1>6. TypeOK'
  <2>1. Cache!TypeOK'
    BY <1>1, <1>2 DEF IInv, TypeOK, Cache!TypeOK
  <2>2. clock \in Nat
    BY DEF IInv, TypeOK, Cache!TypeOK
  <2> QED BY <1>2, <1>5, <2>1, <2>2 DEF IInv, TypeOK, Flight!Sound
<1>7. Quiet /\ Apart(c)
  BY <1>2, FlightAside DEF Quiet
<1>8. clock \in Nat /\ place[c] \in {"idle", "returned"}
  BY <1>2 DEF IInv, TypeOK, Cache!TypeOK
<1>9. IsTimely(c)'
  <2>1. IsNested(c)'
    BY <1>1, <1>2, <1>3, <1>4, <1>8
       DEF IInv, IsTimely, IsNested, Dials, Inside, Cache!Caches
  <2>2. IsAccounted(c)'
    BY <1>1, <1>2, <1>4, <1>8 DEF IInv, IsTimely, IsAccounted, Outermost, Heard
  <2>3. TakesItsTime(c)'
    BY <1>1, <1>2, <1>4, <1>8
       DEF IInv, IsTimely, IsAccounted, Outermost, TakesItsTime, FlightIsTimed, Dials
  <2>4. ResponseIsTimed(c)'
    BY <1>1, <1>2, <1>3, <1>4 DEF ResponseIsTimed
  <2>5. FlightIsTimed(c)'
    BY <1>2, <1>4 DEF IInv, IsTimely, FlightIsTimed, Inside
  <2> QED BY <2>1, <2>2, <2>3, <2>4, <2>5 DEF IsTimely
<1>10. PayloadIsTimed(c)'
  BY <1>2 DEF IInv, PayloadIsTimed, Stale
<1>11. FetchesAlone(c)'
  BY <1>1, <1>2, <1>4 DEF IInv, FetchesAlone, Cache!Caches, Inside
<1> QED BY <1>2, <1>4, <1>5, <1>6, <1>7, <1>9, <1>10, <1>11, OwnStep

\* The cache does not have the key: a stale entry is evicted.
LEMMA MissIInv ==
  ASSUME IInv, NEW c \in Callers, Cache!Miss(c),
         UNCHANGED <<outer, produced, asked, flightVars, payload, opened, got, redialed>>
  PROVE  IInv' /\ Others(c) /\ Quiet
<1> USE Layers DEF Cache!Never, Cache!Nothing
<1>1. /\ place[c] = "looking" /\ place' = [place EXCEPT ![c] = "fetching"]
      /\ entries' = [entries EXCEPT ![req[c]] = None]
      /\ UNCHANGED <<outer, clock, req, now, told, produced, asked, got, payload,
                     opened, redialed, pc, ref, answer, flying, flight, canceled>>
  BY DEF Cache!Miss, flightVars
<1>2. produced[c] = None /\ req[c] \in Keys
  BY <1>1 DEF IInv, IsTimely, IsNested, AtServer, Dials
<1>3. /\ place'[c] = "fetching" /\ entries'[req[c]] = None
      /\ \A k \in Keys : entries'[k] \in {entries[k], None}
      /\ Others(c)
  BY <1>1, <1>2 DEF IInv, TypeOK, Cache!TypeOK, Others
<1>4. Flight!Sound'
  BY <1>1, SameSound DEF IInv, flightVars
<1>5. TypeOK'
  <2>1. Cache!TypeOK'
    BY <1>1 DEF IInv, TypeOK, Cache!TypeOK
  <2> QED BY <1>1, <1>4, <2>1 DEF IInv, TypeOK, Flight!Sound
<1>6. Quiet /\ Apart(c)
  BY <1>1, FlightAside DEF Quiet
<1>7. IsTimely(c)'
  <2>1. IsNested(c)'
    BY <1>1, <1>2, <1>3 DEF IInv, IsTimely, IsNested, Dials
  <2>2. IsAccounted(c)'
    BY <1>1, <1>3 DEF IInv, IsTimely, IsAccounted, Outermost, Heard
  <2>3. TakesItsTime(c)' /\ ResponseIsTimed(c)' /\ FlightIsTimed(c)'
    BY <1>1, <1>2, <1>3
       DEF IInv, IsTimely, TakesItsTime, ResponseIsTimed, FlightIsTimed
  <2> QED BY <2>1, <2>2, <2>3 DEF IsTimely
<1>8. PayloadIsTimed(c)' /\ FetchesAlone(c)'
  BY <1>1, <1>3 DEF IInv, PayloadIsTimed, Stale, FetchesAlone
<1> QED BY <1>3, <1>4, <1>5, <1>6, <1>7, <1>8, OwnStep

\* The server produces a response.
LEMMA ProduceIInv ==
  ASSUME IInv, NEW c \in Callers, Produce(c)
  PROVE  IInv' /\ Others(c) /\ Quiet
<1> USE Layers DEF Cache!Never, Cache!Nothing
<1>1. PICK r \in Response : r.at = clock /\ produced' = [produced EXCEPT ![c] = r]
  BY DEF Produce, Response, IInv, TypeOK, Cache!TypeOK
<1>2. /\ AtServer(c)
      /\ UNCHANGED <<outer, clock, req, entries, place, now, told, asked, got,
                     payload, opened, redialed, pc, ref, answer, flying, flight,
                     canceled>>
  BY DEF Produce, cacheVars, flightVars, historyVars
<1>3. produced'[c] = r /\ Others(c)
  BY <1>1, <1>2 DEF IInv, TypeOK, Others
<1>4. Flight!Sound'
  BY <1>2, SameSound DEF IInv, flightVars
<1>5. TypeOK'
  <2>1. Cache!TypeOK'
    BY <1>2 DEF IInv, TypeOK, Cache!TypeOK
  <2> QED BY <1>1, <1>2, <1>4, <2>1 DEF IInv, TypeOK, Flight!Sound
<1>6. Quiet /\ Apart(c)
  BY <1>2, FlightAside DEF Quiet, flightVars
<1>7. IsTimely(c)'
  <2>1. IsNested(c)' /\ IsAccounted(c)' /\ TakesItsTime(c)' /\ FlightIsTimed(c)'
    BY <1>2 DEF IInv, IsTimely, IsNested, AtServer, Dials, IsAccounted, Outermost,
                Heard, TakesItsTime, FlightIsTimed
  <2>2. clock \in Nat /\ asked[c] <= clock
    BY DEF IInv, TypeOK, Cache!TypeOK, IsTimely, IsAccounted
  <2>3. outer = "flight" => now[c] <= clock
    BY <1>2 DEF IInv, IsTimely, TakesItsTime, AtServer
  <2>4. pc[c] = "dialing" => opened[ref[c]] <= clock
    BY DEF IInv, IsTimely, FlightIsTimed
  <2>5. ResponseIsTimed(c)'
    BY <1>1, <1>2, <1>3, <2>2, <2>3, <2>4
       DEF IInv, IsTimely, ResponseIsTimed, Late
  <2> QED BY <2>1, <2>5 DEF IsTimely
<1>8. PayloadIsTimed(c)' /\ FetchesAlone(c)'
  BY <1>2 DEF IInv, PayloadIsTimed, Stale, FetchesAlone
<1> QED BY <1>2, <1>3, <1>4, <1>5, <1>6, <1>7, <1>8, OwnStep

\* The owner takes its flight off the list.
LEMMA ReleaseIInv ==
  ASSUME IInv, NEW c \in Callers, Release(c)
  PROVE  IInv' /\ Others(c) /\ Quiet
<1>1. /\ pc[c] = "captured" /\ pc' = [pc EXCEPT ![c] = "released"]
      /\ UNCHANGED <<outer, clock, req, entries, place, now, told, produced, asked,
                     got, payload, opened, redialed, ref, answer, flight, canceled>>
  BY DEF Release, Flight!Release, cacheVars, historyVars
<1>2. pc'[c] = "released" /\ Others(c)
  BY <1>1 DEF IInv, Flight!Sound, Flight!TypeOK, Others
<1>3. Flight!Sound'
  BY LandSound DEF IInv, Release
<1>4. TypeOK'
  <2>1. Cache!TypeOK'
    BY <1>1 DEF IInv, TypeOK, Cache!TypeOK
  <2> QED BY <1>1, <1>3, <2>1 DEF IInv, TypeOK, Flight!Sound
<1>5. Quiet /\ Apart(c)
  BY <1>1 DEF Quiet, Apart
<1>6. IsTimely(c)'
  BY <1>1, <1>2 DEF IInv, IsTimely, IsNested, AtServer, Dials, IsAccounted, Outermost,
                    Heard, TakesItsTime, ResponseIsTimed, Late, FlightIsTimed
<1>7. PayloadIsTimed(c)' /\ FetchesAlone(c)'
  BY <1>1, <1>2 DEF IInv, PayloadIsTimed, Stale, FetchesAlone
<1> QED BY <1>1, <1>2, <1>3, <1>4, <1>5, <1>6, <1>7, OwnStep

\* Time passes.
LEMMA TickIInv ==
  ASSUME IInv, Tick
  PROVE  IInv'
<1> USE Layers DEF Cache!Never, Cache!Nothing
<1>1. /\ clock' = clock + 1
      /\ \A k \in Keys : flying[k] # None => clock < opened[flying[k]] + MaxFlight
      /\ UNCHANGED <<outer, req, entries, place, now, told, produced, asked,
                     got, payload, opened, redialed, pc, ref, answer, flying, flight,
                     canceled>>
  BY DEF Tick, Cache!Tick, flightVars, historyVars
<1>2. Flight!Sound'
  BY <1>1, SameSound DEF IInv, flightVars
<1>3. TypeOK'
  <2>1. Cache!TypeOK'
    BY <1>1 DEF IInv, TypeOK, Cache!TypeOK
  <2> QED BY <1>1, <1>2, <2>1 DEF IInv, TypeOK, Flight!Sound
<1>4. clock \in Nat /\ clock' \in Nat
  BY <1>1 DEF IInv, TypeOK, Cache!TypeOK
<1>5. ASSUME NEW c \in Callers
      PROVE  IsTimely(c)' /\ PayloadIsTimed(c)' /\ FetchesAlone(c)'
  <2>1. IsNested(c)' /\ IsAccounted(c)'
    <3>1. Heard'[c] = Heard[c] /\ Heard[c] \in Int
      BY <1>1 DEF IInv, TypeOK, Cache!TypeOK, Cache!Failure, Heard
    <3> QED BY <1>1, <1>4, <3>1 DEF IInv, IsTimely, IsNested, AtServer, Dials,
                                    IsAccounted, Outermost
  <2>2. TakesItsTime(c)'
    BY <1>1, <1>4 DEF IInv, IsTimely, TakesItsTime, Dials
  <2>3. ResponseIsTimed(c)'
    <3>1. produced[c] # None => produced[c].at \in Nat
      BY DEF IInv, TypeOK, Response
    <3> QED BY <1>1, <1>4, <3>1 DEF IInv, IsTimely, ResponseIsTimed, Late
  <2>4. FlightIsTimed(c)'
    <3>1. Flight!Leads(c) => clock < opened[ref[c]] + MaxFlight
      <4>1. Flight!Leads(c) => req[c] \in Keys /\ ref[c] = flying[req[c]] /\ ref[c] # None
        BY DEF IInv, Flight!Sound, Flight!LeadersAreListed, Flight!HoldersRead,
               Flight!PointersAreHeld
      <4> QED BY <1>1, <4>1
    <3> QED BY <1>1, <1>4, <3>1 DEF IInv, IsTimely, FlightIsTimed
  <2>5. PayloadIsTimed(c)' /\ FetchesAlone(c)'
    BY <1>1, <1>4 DEF IInv, PayloadIsTimed, Stale, FetchesAlone, Response
  <2> QED BY <2>1, <2>2, <2>3, <2>4, <2>5 DEF IsTimely
<1>6. EntriesAreTimed'
  BY <1>1, <1>4 DEF IInv, TypeOK, Cache!TypeOK, Cache!Entry, EntriesAreTimed, Late
<1> QED BY <1>2, <1>3, <1>5, <1>6 DEF IInv

-----------------------------------------------------------------------------
\* A response is of a moment not too long before the read was asked.
IsRecent(c, r) ==
  r # Failed => r.at <= clock /\ r.at + Stale + MaxFlight >= asked[c]

\* The slack and the delays are natural numbers, and a failure has no time.
LEMMA Numbers ==
  /\ Cache!Slack \in Nat /\ MaxFlight \in Nat /\ Stale \in Nat /\ Late \in Nat
  /\ Stale <= Cache!Slack
  /\ Failed.at = -2
  /\ \A r \in Response \cup {Failed} : r.at \in Nat \cup {-2}
  /\ \A r \in Response : r.at \in Nat /\ r.ok2xx \in BOOLEAN /\ r # Failed
BY Layers DEF Cache!Slack, Stale, Late, Response, Failed, Cache!Failure

\* What a flight hands out was captured not too long before it was joined.
LEMMA PayloadFacts ==
  ASSUME IInv, NEW c \in Callers, Flight!Holds(c), flight[ref[c]].outcome # None
  PROVE  /\ payload[ref[c]] \in Response \cup {Failed}
         /\ IsRecent(c, payload[ref[c]])
         /\ flight[ref[c]].outcome.ok <=> payload[ref[c]] # Failed
<1> DEFINE r == payload[ref[c]]
<1>1. /\ r \in Response \cup {Failed}
      /\ flight[ref[c]].outcome.ok <=> r # Failed
      /\ r # Failed => r.at <= clock /\ r.at + Stale >= opened[ref[c]]
      /\ asked[c] <= opened[ref[c]] + MaxFlight
      /\ opened[ref[c]] \in Nat
  BY DEF IInv, PayloadIsTimed, IsTimely, FlightIsTimed
<1>2. asked[c] \in Int /\ (r # Failed => r.at \in Nat)
  BY <1>1 DEF IInv, TypeOK, Response, Cache!Never
<1> HIDE DEF r
<1>3. r # Failed => r.at + Stale + MaxFlight >= asked[c]
  BY <1>1, <1>2, Numbers
<1> QED BY <1>1, <1>3 DEF IsRecent, r

\* The cache hears: it fails, or passes the response on, or has it to store.
LEMMA HearFacts ==
  ASSUME NEW c \in Callers, NEW r \in Response \cup {Failed}, CacheHears(c, r)
  PROVE  /\ place[c] = "fetching"
         /\ UNCHANGED <<clock, entries, req, now>>
         /\ told' = [told EXCEPT ![c] = r.at]
         /\ \E p \in {"storing", "returned"} :
              /\ place' = [place EXCEPT ![c] = p]
              /\ p = "storing" => r # Failed /\ Cache!Caches(req[c])
BY DEF CacheHears, Cache!FetchFails, Cache!Answered, Failed

\* The outer cache hears from the flight layer, which returns.
LEMMA CacheHearsIInv ==
  ASSUME IInv, outer = "cache", NEW c \in Callers, NEW r \in Response \cup {Failed},
         CacheHears(c, r), IsRecent(c, r),
         pc' = [pc EXCEPT ![c] = "returned"],
         \A d \in Callers \ {c} : ref'[d] = ref[d] /\ produced'[d] = produced[d],
         produced' \in [Callers -> Response \cup {None}], produced'[c] = None,
         payload' \in [Flights -> Response \cup {None, Failed}],
         opened' \in [Flights -> Nat \cup {Cache!Never}],
         UNCHANGED <<outer, asked, got, redialed>>,
         Apart(c), Flight!Sound'
  PROVE  IInv' /\ Others(c) /\ Quiet
<1> USE Layers, Numbers DEF Cache!Never, Cache!Nothing, Cache!Failure
<1>1. /\ place[c] = "fetching"
      /\ UNCHANGED <<clock, entries, req, now>>
      /\ told' = [told EXCEPT ![c] = r.at]
  BY HearFacts
<1>2. PICK p \in {"storing", "returned"} :
        /\ place' = [place EXCEPT ![c] = p]
        /\ p = "storing" => r # Failed /\ Cache!Caches(req[c])
  BY HearFacts
<1>3. /\ place'[c] = p /\ told'[c] = r.at /\ pc'[c] = "returned"
      /\ Others(c) /\ Quiet
  BY <1>1, <1>2 DEF IInv, TypeOK, Cache!TypeOK, Flight!Sound, Flight!TypeOK,
                    Others, Quiet
<1>4. /\ clock \in Nat /\ asked[c] \in 0 .. clock /\ now[c] = asked[c]
      /\ req[c] \in Keys /\ Late = MaxFlight /\ Stale = 0
  BY <1>1 DEF IInv, TypeOK, Cache!TypeOK, IsTimely, IsAccounted, Outermost,
              TakesItsTime, IsNested, Late, Stale
<1>5. TypeOK'
  <2>1. r.at \in Nat \cup {-2}
    OBVIOUS
  <2>2. Cache!TypeOK'
    BY <1>1, <1>2, <2>1 DEF IInv, TypeOK, Cache!TypeOK
  <2> QED BY <2>2 DEF IInv, TypeOK, Flight!Sound
<1>6. r # Failed => /\ r.at \in Nat /\ r.at <= clock
                    /\ r.at + MaxFlight >= asked[c]
  BY <1>4 DEF IsRecent
<1>7. IsTimely(c)'
  <2>1. IsNested(c)'
    BY <1>1, <1>2, <1>3, <1>4 DEF IsNested, Cache!Caches
  <2>2. IsAccounted(c)'
    BY <1>1, <1>2, <1>3, <1>4, <1>6 DEF IsAccounted, Outermost, Heard
  <2>3. TakesItsTime(c)' /\ ResponseIsTimed(c)' /\ FlightIsTimed(c)'
    BY <1>1, <1>2, <1>3, <1>4, <1>6
       DEF TakesItsTime, ResponseIsTimed, FlightIsTimed, Late
  <2> QED BY <2>1, <2>2, <2>3 DEF IsTimely
<1>8. PayloadIsTimed(c)' /\ FetchesAlone(c)'
  BY <1>3 DEF PayloadIsTimed, FetchesAlone
<1>9. \A k \in Keys : entries'[k] \in {entries[k], None}
  BY <1>1
<1> QED BY <1>3, <1>5, <1>7, <1>8, <1>9, OwnStep

\* The outer flight layer returns to the caller.
LEMMA FlightReturnsIInv ==
  ASSUME IInv, outer = "flight", NEW c \in Callers, NEW r \in Response \cup {Failed},
         ~Flight!Idle(c), got' = [got EXCEPT ![c] = r.at], IsRecent(c, r),
         pc' = [pc EXCEPT ![c] = "returned"], place'[c] \in {"idle", "returned"},
         place'[c] = "returned" => place[c] # "idle",
         \A d \in Callers \ {c} : /\ ref'[d] = ref[d] /\ produced'[d] = produced[d]
                                  /\ place'[d] = place[d] /\ told'[d] = told[d],
         produced' \in [Callers -> Response \cup {None}], produced'[c] = None,
         payload' \in [Flights -> Response \cup {None, Failed}],
         opened' \in [Flights -> Nat \cup {Cache!Never}],
         UNCHANGED <<outer, clock, req, now, asked>>, redialed \subseteq redialed',
         redialed' \subseteq Keys,
         Apart(c), Spares(c), EntriesAreTimed', Cache!TypeOK', Flight!Sound'
  PROVE  IInv' /\ Others(c) /\ Quiet
<1> USE Layers, Numbers DEF Cache!Never, Cache!Nothing, Cache!Failure
<1>1. /\ got'[c] = r.at /\ pc'[c] = "returned"
      /\ Others(c) /\ Quiet
  BY DEF IInv, TypeOK, Cache!TypeOK, Flight!Sound, Flight!TypeOK, Others, Quiet
<1>2. /\ clock \in Nat /\ asked[c] \in 0 .. clock /\ Stale = Cache!Slack
  BY DEF IInv, TypeOK, Flight!Sound, Flight!TypeOK, Cache!TypeOK,
         IsTimely, IsAccounted, Outermost, Stale
<1>3. TypeOK'
  <2>1. r.at \in Nat \cup {-2}
    OBVIOUS
  <2> QED BY <2>1 DEF IInv, TypeOK, Flight!Sound
<1>4. IsTimely(c)'
  <2>1. IsNested(c)'
    BY <1>1 DEF IInv, IsTimely, IsNested, Flight!Sound, Flight!HoldersRead
  <2>2. IsAccounted(c)'
    BY <1>1, <1>2 DEF IsAccounted, Outermost, Heard, IsRecent
  <2>3. TakesItsTime(c)' /\ ResponseIsTimed(c)' /\ FlightIsTimed(c)'
    BY <1>1 DEF IInv, IsTimely, IsNested, Dials, TakesItsTime, ResponseIsTimed,
                FlightIsTimed
  <2> QED BY <2>1, <2>2, <2>3 DEF IsTimely
<1>5. PayloadIsTimed(c)' /\ FetchesAlone(c)'
  BY <1>1 DEF PayloadIsTimed, FetchesAlone
<1>6. \A d \in Callers \ {c} :
           /\ Flight!Holds(d) => opened'[ref[d]] = opened[ref[d]]
           /\ PayloadIsTimed(d)'
  BY <1>1, OthersPaid DEF Apart
<1> QED BY <1>1, <1>3, <1>4, <1>5, <1>6, AnyStep

\* The owner captures the response; its sharers are handed the same.
LEMMA CaptureIInv ==
  ASSUME IInv, NEW c \in Callers, NEW r \in Response \cup {Failed},
         Flight!Capture(c, r # Failed), payload' = [payload EXCEPT ![ref[c]] = r],
         r # Failed => r.at <= clock /\ r.at + Stale >= opened[ref[c]],
         IF outer = "cache" THEN place' = place /\ told' = told
                            ELSE /\ place'[c] = "returned" /\ place[c] # "idle"
                                 /\ \A d \in Callers \ {c} : /\ place'[d] = place[d]
                                                             /\ told'[d] = told[d],
         \A d \in Callers \ {c} : produced'[d] = produced[d],
         produced' \in [Callers -> Response \cup {None}], produced'[c] = None,
         UNCHANGED <<outer, clock, req, now, asked, got, opened, redialed>>,
         Spares(c), EntriesAreTimed', Cache!TypeOK'
  PROVE  IInv' /\ Others(c) /\ Quiet
<1> USE Layers, Numbers DEF Cache!Never, Cache!Nothing, Cache!Failure
<1> DEFINE o == [by |-> c, key |-> req[c], ok |-> r # Failed]
<1>1. /\ pc[c] = "dialing" /\ pc' = [pc EXCEPT ![c] = "captured"]
      /\ flight' = [flight EXCEPT ![ref[c]].outcome = o] /\ o.ok = (r # Failed)
      /\ UNCHANGED <<req, ref, answer, flying, canceled>>
  BY DEF Flight!Capture
<1> HIDE DEF o
<1>2. Flight!Sound'
  <2>1. (r # Failed) \in BOOLEAN
    OBVIOUS
  <2> QED BY <2>1, HearSound DEF IInv
<1>3. /\ ref[c] \in Flights /\ payload'[ref[c]] = r /\ pc'[c] = "captured"
      /\ flight'[ref[c]].outcome = o
      /\ \A f \in Flights \ {ref[c]} : /\ payload'[f] = payload[f]
                                       /\ flight'[f] = flight[f]
      /\ Others(c) /\ Quiet
  BY <1>1 DEF IInv, TypeOK, Flight!Sound, Flight!TypeOK, Flight!Flight,
              Flight!PointersAreHeld, Others, Quiet
<1>4. TypeOK'
  BY <1>2, <1>3 DEF IInv, TypeOK, Flight!Sound
<1>5. ASSUME NEW d \in Callers PROVE PayloadIsTimed(d)'
  <2>1. CASE Flight!Holds(d) /\ ref[d] = ref[c]
    BY <1>1, <1>3, <2>1 DEF PayloadIsTimed, Stale
  <2>2. CASE Flight!Holds(d) /\ ref[d] # ref[c]
    <3>1. ref[d] \in Flights \ {ref[c]} /\ d # c
      BY <2>2 DEF IInv, Flight!Sound, Flight!TypeOK, Flight!PointersAreHeld
    <3> QED BY <1>1, <1>3, <3>1 DEF IInv, PayloadIsTimed, Stale, Others
  <2>3. CASE ~Flight!Holds(d)
    BY <1>1, <1>3, <2>3 DEF PayloadIsTimed, Others
  <2> QED BY <2>1, <2>2, <2>3
<1>6. IsTimely(c)'
  <2>1. IsNested(c)'
    BY <1>1, <1>3 DEF IInv, IsTimely, IsNested, Flight!Sound, Flight!HoldersRead
  <2>2. IsAccounted(c)'
    <3>1. outer \in {"cache", "flight"} /\ Heard'[c] = Heard[c]
      BY DEF IInv, TypeOK, Heard
    <3> QED BY <1>1, <1>3, <3>1 DEF IInv, IsTimely, IsNested, IsAccounted, Outermost,
                                    Heard
  <2>3. TakesItsTime(c)' /\ ResponseIsTimed(c)' /\ FlightIsTimed(c)'
    BY <1>1, <1>3 DEF IInv, IsTimely, IsNested, TakesItsTime, ResponseIsTimed,
                      FlightIsTimed, Late
  <2> QED BY <2>1, <2>2, <2>3 DEF IsTimely
<1>7. FetchesAlone(c)'
  BY <1>1, <1>3 DEF FetchesAlone, IInv, IsTimely, IsNested
<1> QED BY <1>2, <1>3, <1>4, <1>5, <1>6, <1>7, AnyStep

\* A round trip of the flight layer ends, above the cache or above the transport.
LEMMA FlightHearsIInv ==
  ASSUME IInv, outer = "flight", NEW c \in Callers, NEW r \in Response \cup {Failed},
         FlightHears(c, r), IsRecent(c, r),
         r # Failed /\ pc[c] = "dialing" => r.at + Stale >= opened[ref[c]],
         place'[c] = "returned", place[c] # "idle",
         \A d \in Callers \ {c} : /\ produced'[d] = produced[d]
                                  /\ place'[d] = place[d] /\ told'[d] = told[d],
         produced' \in [Callers -> Response \cup {None}], produced'[c] = None,
         UNCHANGED <<outer, clock, req, now, asked>>,
         Spares(c), EntriesAreTimed', Cache!TypeOK'
  PROVE  IInv' /\ Others(c) /\ Quiet
<1>1. UNCHANGED <<opened, redialed>>
  BY DEF FlightHears
<1>2. CASE /\ Flight!Capture(c, r # Failed)
           /\ payload' = [payload EXCEPT ![ref[c]] = r]
           /\ UNCHANGED got
  <2>1. r # Failed => r.at <= clock /\ r.at + Stale >= opened[ref[c]]
    BY <1>2 DEF IsRecent, Flight!Capture
  <2> QED BY <1>1, <1>2, <2>1, CaptureIInv
<1>3. CASE /\ Flight!Finish(c, r # Failed) /\ FlightReturns(c, r)
           /\ UNCHANGED payload
  <2>1. (r # Failed) \in BOOLEAN
    OBVIOUS
  <2>2. Flight!Sound'
    BY <1>3, <2>1, HearSound DEF IInv
  <2>3. /\ ~Flight!Idle(c) /\ pc' = [pc EXCEPT ![c] = "returned"]
        /\ got' = [got EXCEPT ![c] = r.at]
        /\ ref' = ref /\ flight' = flight
    BY <1>3 DEF Flight!Finish, FlightReturns
  <2>4. Apart(c) /\ redialed' \subseteq Keys
    BY <1>1, <1>3, <2>3 DEF Apart, IInv, TypeOK
  <2>5. /\ payload' \in [Flights -> Response \cup {None, Failed}]
        /\ opened' \in [Flights -> Nat \cup {Cache!Never}]
    BY <1>1, <1>3 DEF IInv, TypeOK
  <2> QED BY <1>1, <2>2, <2>3, <2>4, <2>5, FlightReturnsIInv
<1> QED BY <1>2, <1>3 DEF FlightHears

-----------------------------------------------------------------------------
\* The cache answers from a fresh entry, or looks further.
LEMMA LookIInv ==
  ASSUME IInv, NEW c \in Callers, Look(c)
  PROVE  IInv' /\ Others(c) /\ Quiet
<1> USE Layers, Numbers DEF Cache!Never, Cache!Nothing, Cache!Failure
<1>1. UNCHANGED <<outer, produced, asked>>
  BY DEF Look
<1>2. CASE /\ Cache!Miss(c)
           /\ UNCHANGED <<flightVars, payload, opened, got, redialed>>
  BY <1>1, <1>2, MissIInv
<1>3. CASE Cache!Hit(c)
  <2> DEFINE t == entries[req[c]].asOf
  <2>1. /\ place[c] = "looking" /\ place' = [place EXCEPT ![c] = "returned"]
        /\ told' = [told EXCEPT ![c] = t]
        /\ entries[req[c]] # None /\ now[c] < entries[req[c]].expires
        /\ UNCHANGED <<clock, entries, req, now>>
    BY <1>3 DEF Cache!Hit, Cache!Fresh
  <2>2. req[c] \in Keys /\ Cache!Caches(req[c]) /\ now[c] \in 0 .. clock
    BY <2>1 DEF IInv, IsTimely, IsNested, TakesItsTime
  <2>3. /\ entries[req[c]] \in Cache!Entry /\ t <= clock
        /\ entries[req[c]].expires <= t + TTL + Late
    BY <2>1, <2>2 DEF IInv, TypeOK, Cache!TypeOK, EntriesAreTimed
  <2>4. t \in Nat /\ t <= clock /\ t + Cache!Slack + Late >= now[c] /\ clock \in Nat
    BY <2>1, <2>2, <2>3 DEF Cache!Entry, Cache!Slack, Cache!Caches, IInv, TypeOK,
                            Cache!TypeOK
  <2> HIDE DEF t
  <2>5. Cache!TypeOK'
    BY <2>1, <2>4 DEF IInv, TypeOK, Cache!TypeOK
  <2>6. /\ place'[c] = "returned" /\ told'[c] = t
        /\ \A d \in Callers \ {c} : place'[d] = place[d] /\ told'[d] = told[d]
    BY <2>1 DEF IInv, TypeOK, Cache!TypeOK
  <2>7. produced[c] = None
    BY <2>1 DEF IInv, IsTimely, IsNested, AtServer, Dials
  <2>8. CASE outer = "cache"
    <3>1. /\ UNCHANGED <<flightVars, payload, opened, got, redialed>>
          /\ UNCHANGED <<pc, ref, flight>>
      BY <1>3, <2>8 DEF Look, Cache!Hit, Cache!Miss, flightVars
    <3>2. Flight!Sound'
      BY <2>1, <3>1, SameSound DEF IInv
    <3>3. Others(c) /\ Quiet /\ Apart(c)
      BY <1>1, <2>1, <2>6, <3>1, FlightAside DEF Others, Quiet
    <3>4. TypeOK'
      BY <1>1, <2>5, <3>1, <3>2 DEF IInv, TypeOK, Flight!Sound
    <3>5. asked[c] = now[c] /\ Late = MaxFlight /\ Flight!Idle(c)
      BY <2>1, <2>8 DEF IInv, IsTimely, TakesItsTime, Late, IsNested
    <3>6. IsTimely(c)'
      <4>1. IsNested(c)' /\ TakesItsTime(c)' /\ ResponseIsTimed(c)' /\ FlightIsTimed(c)'
        BY <1>1, <2>1, <2>2, <2>6, <2>7, <2>8, <3>1, <3>5
           DEF IInv, IsTimely, IsNested, TakesItsTime, ResponseIsTimed, FlightIsTimed
      <4>2. IsAccounted(c)'
        BY <1>1, <2>1, <2>2, <2>4, <2>6, <2>8, <3>5 DEF IsAccounted, Outermost, Heard
      <4> QED BY <4>1, <4>2 DEF IsTimely
    <3>7. PayloadIsTimed(c)' /\ FetchesAlone(c)'
      BY <1>1, <2>1, <2>6, <2>8, <3>1, <3>5 DEF PayloadIsTimed, FetchesAlone
    <3> QED BY <2>1, <3>2, <3>3, <3>4, <3>6, <3>7, OwnStep
  <2>9. CASE outer = "flight"
    <3> DEFINE r == [at |-> t, ok2xx |-> TRUE]
    <3>1. FlightHears(c, r)
      BY <1>3, <2>9 DEF Look, Cache!Hit, Cache!Miss, t
    <3>2. r \in Response /\ r.at = t
      BY <2>4 DEF Response
    <3> HIDE DEF r
    <3>3. /\ Late = 0 /\ Stale = Cache!Slack /\ now[c] >= asked[c] /\ asked[c] \in Int
          /\ pc[c] = "dialing" => now[c] >= opened[ref[c]] /\ opened[ref[c]] \in Nat
      BY <2>1, <2>9 DEF IInv, TypeOK, IsTimely, TakesItsTime, FlightIsTimed, Late, Stale
    <3>4. IsRecent(c, r)
      BY <2>2, <2>4, <3>2, <3>3 DEF IsRecent
    <3>5. pc[c] = "dialing" => r.at + Stale >= opened[ref[c]]
      BY <2>2, <2>4, <3>2, <3>3
    <3>6. EntriesAreTimed' /\ Spares(c)
      BY <1>1, <2>1 DEF IInv, EntriesAreTimed, Late, Spares
    <3>7. produced' \in [Callers -> Response \cup {None}] /\ produced'[c] = None
      BY <1>1, <2>7 DEF IInv, TypeOK
    <3> QED BY <1>1, <2>1, <2>5, <2>6, <2>9, <3>1, <3>2, <3>4, <3>5, <3>6, <3>7,
               FlightHearsIInv
  <2> QED BY <2>8, <2>9 DEF IInv, TypeOK
<1> QED BY <1>2, <1>3 DEF Look

\* The cache stores a response, and hands it up.
LEMMA StoreIInv ==
  ASSUME IInv, NEW c \in Callers, Store(c)
  PROVE  IInv' /\ Others(c) /\ Quiet
<1> USE Layers, Numbers DEF Cache!Never, Cache!Nothing, Cache!Failure
<1> DEFINE e == [expires |-> now[c] + TTL, asOf |-> told[c]]
<1>1. /\ UNCHANGED <<outer, produced, asked>>
      /\ place[c] = "storing" /\ place' = [place EXCEPT ![c] = "returned"]
      /\ entries' = [entries EXCEPT ![req[c]] = e]
      /\ UNCHANGED <<clock, req, now, told>>
  BY DEF Store, Cache!Store, Cache!Lifetime
<1>2. /\ req[c] \in Keys /\ now[c] \in 0 .. clock /\ clock \in Nat
      /\ told[c] \in Nat /\ told[c] <= clock /\ told[c] + Late >= now[c]
  BY <1>1 DEF IInv, TypeOK, Cache!TypeOK, IsTimely, IsNested, TakesItsTime,
              ResponseIsTimed
<1>3. /\ e \in Cache!Entry /\ e.asOf <= clock /\ e.expires <= e.asOf + TTL + Late
  BY <1>2 DEF Cache!Entry
<1> HIDE DEF e
<1>4. Cache!TypeOK'
  BY <1>1, <1>3 DEF IInv, TypeOK, Cache!TypeOK
<1>5. EntriesAreTimed' /\ Spares(c)
  <2>1. \A k \in Keys : entries'[k] = IF k = req[c] THEN e ELSE entries[k]
    BY <1>1 DEF IInv, TypeOK, Cache!TypeOK
  <2> QED BY <1>1, <1>3, <2>1 DEF IInv, EntriesAreTimed, Late, Spares
<1>6. /\ place'[c] = "returned"
      /\ \A d \in Callers \ {c} : place'[d] = place[d]
  BY <1>1 DEF IInv, TypeOK, Cache!TypeOK
<1>7. produced[c] = None
  BY <1>1 DEF IInv, IsTimely, IsNested, AtServer, Dials
<1>8. CASE outer = "cache"
  <2>1. /\ UNCHANGED <<flightVars, payload, opened, got, redialed>>
        /\ UNCHANGED <<pc, ref, flight>>
    BY <1>8 DEF Store, flightVars
  <2>2. Flight!Sound'
    BY <1>1, <2>1, SameSound DEF IInv
  <2>3. Others(c) /\ Quiet /\ Apart(c)
    BY <1>1, <1>6, <2>1, FlightAside DEF Others, Quiet
  <2>4. TypeOK'
    BY <1>1, <1>4, <2>1, <2>2 DEF IInv, TypeOK, Flight!Sound
  <2>5. asked[c] = now[c] /\ Late = MaxFlight /\ Flight!Idle(c)
    BY <1>1, <1>8 DEF IInv, IsTimely, TakesItsTime, Late, IsNested
  <2>6. IsTimely(c)'
    <3>1. IsNested(c)' /\ TakesItsTime(c)' /\ ResponseIsTimed(c)' /\ FlightIsTimed(c)'
      BY <1>1, <1>2, <1>6, <1>7, <1>8, <2>1, <2>5
         DEF IInv, IsTimely, IsNested, TakesItsTime, ResponseIsTimed, FlightIsTimed
    <3>2. IsAccounted(c)'
      BY <1>1, <1>2, <1>6, <1>8, <2>5 DEF IsAccounted, Outermost, Heard
    <3> QED BY <3>1, <3>2 DEF IsTimely
  <2>7. PayloadIsTimed(c)' /\ FetchesAlone(c)'
    BY <1>1, <1>6, <1>8, <2>1, <2>5 DEF PayloadIsTimed, FetchesAlone
  <2>8. \A d \in Callers \ {c} :
           /\ Flight!Holds(d) => opened'[ref[d]] = opened[ref[d]]
           /\ PayloadIsTimed(d)'
    BY <2>3, OthersPaid DEF Apart
  <2> QED BY <1>5, <2>2, <2>3, <2>4, <2>6, <2>7, <2>8, AnyStep
<1>9. CASE outer = "flight"
  <2> DEFINE r == [at |-> told[c], ok2xx |-> TRUE]
  <2>1. FlightHears(c, r)
    BY <1>9 DEF Store
  <2>2. r \in Response /\ r.at = told[c]
    BY <1>2 DEF Response
  <2> HIDE DEF r
  <2>3. /\ Late = 0 /\ now[c] >= asked[c] /\ asked[c] \in Int
        /\ pc[c] = "dialing" => now[c] >= opened[ref[c]] /\ opened[ref[c]] \in Nat
    BY <1>1, <1>9 DEF IInv, TypeOK, IsTimely, TakesItsTime, FlightIsTimed, Late
  <2>4. IsRecent(c, r)
    BY <1>2, <2>2, <2>3 DEF IsRecent
  <2>5. pc[c] = "dialing" => r.at + Stale >= opened[ref[c]]
    BY <1>2, <2>2, <2>3
  <2>6. produced' \in [Callers -> Response \cup {None}] /\ produced'[c] = None
    BY <1>1, <1>7 DEF IInv, TypeOK
  <2> QED BY <1>1, <1>4, <1>5, <1>6, <1>9, <2>1, <2>2, <2>4, <2>5, <2>6,
             FlightHearsIInv
<1> QED BY <1>8, <1>9 DEF IInv, TypeOK

\* The transport underneath returns, to the layer that called it.
LEMMA RespondIInv ==
  ASSUME IInv, NEW c \in Callers, Respond(c)
  PROVE  IInv' /\ Others(c) /\ Quiet
<1> USE Layers, Numbers DEF Cache!Never, Cache!Nothing, Cache!Failure
<1>1. PICK r \in {produced[c], Failed} \ {None} :
        IF outer = "cache" THEN FlightHears(c, r) ELSE ThroughCache(c, r)
  BY DEF Respond
<1>2. AtServer(c) /\ produced' = [produced EXCEPT ![c] = None] /\ UNCHANGED <<outer, asked>>
  BY DEF Respond
<1>3. /\ produced' \in [Callers -> Response \cup {None}] /\ produced'[c] = None
      /\ \A d \in Callers \ {c} : produced'[d] = produced[d]
      /\ r \in Response \cup {Failed}
      /\ asked[c] \in Int /\ clock \in Nat
  BY <1>2 DEF IInv, TypeOK, Cache!TypeOK
<1>4. r # Failed => /\ r.at \in Nat /\ r.at <= clock /\ r.at >= asked[c]
                    /\ outer = "flight" => r.at >= now[c]
                    /\ pc[c] = "dialing" => r.at >= opened[ref[c]]
  BY <1>3 DEF IInv, IsTimely, ResponseIsTimed
<1>5. pc[c] = "dialing" => opened[ref[c]] \in Nat
  BY DEF IInv, IsTimely, FlightIsTimed
<1>6. IsRecent(c, r)
  BY <1>3, <1>4 DEF IsRecent
<1>7. r # Failed /\ pc[c] = "dialing" => r.at + Stale >= opened[ref[c]]
  BY <1>4, <1>5
<1>8. CASE outer = "cache"
  <2>1. FlightHears(c, r) /\ UNCHANGED <<opened, redialed>>
    BY <1>1, <1>8 DEF FlightHears
  <2>2. CASE /\ Flight!Capture(c, r # Failed)
             /\ payload' = [payload EXCEPT ![ref[c]] = r]
             /\ UNCHANGED <<clock, cacheVars, got>>
    <3>1. /\ r # Failed => r.at <= clock /\ r.at + Stale >= opened[ref[c]]
          /\ UNCHANGED <<entries, place, now, told, req>>
      BY <1>6, <1>7, <2>2 DEF IsRecent, Flight!Capture, cacheVars
    <3>2. Cache!TypeOK' /\ EntriesAreTimed' /\ Spares(c)
      BY <1>2, <2>2, <3>1 DEF IInv, TypeOK, Cache!TypeOK, EntriesAreTimed, Late, Spares
    <3> QED BY <1>2, <1>3, <1>8, <2>1, <2>2, <3>1, <3>2, CaptureIInv
  <2>3. CASE Flight!Finish(c, r # Failed) /\ FlightReturns(c, r) /\ UNCHANGED payload
    <3>1. CacheHears(c, r) /\ UNCHANGED got
      BY <1>8, <2>3 DEF FlightReturns
    <3>2. (r # Failed) \in BOOLEAN
      OBVIOUS
    <3>3. Flight!Sound'
      BY <2>3, <3>2, HearSound DEF IInv
    <3>4. /\ pc' = [pc EXCEPT ![c] = "returned"]
          /\ ref' = ref /\ flight' = flight
      BY <2>3 DEF Flight!Finish
    <3>5. /\ Apart(c)
          /\ payload' \in [Flights -> Response \cup {None, Failed}]
          /\ opened' \in [Flights -> Nat \cup {Cache!Never}]
      BY <2>1, <2>3, <3>4 DEF Apart, IInv, TypeOK
    <3> QED BY <1>2, <1>3, <1>6, <1>8, <2>1, <3>1, <3>3, <3>4, <3>5, CacheHearsIInv
  <2> QED BY <1>8, <2>1, <2>2, <2>3 DEF FlightHears
<1>9. CASE outer = "flight"
  <2>1. ThroughCache(c, r)
    BY <1>1, <1>9
  <2>2. /\ place[c] = "fetching"
        /\ UNCHANGED <<clock, entries, req, now>>
        /\ told' = [told EXCEPT ![c] = r.at]
    BY <1>3, <2>1, HearFacts DEF ThroughCache
  <2>3. PICK p \in {"storing", "returned"} :
          /\ place' = [place EXCEPT ![c] = p]
          /\ p = "storing" => r # Failed /\ Cache!Caches(req[c])
    BY <1>3, <2>1, HearFacts DEF ThroughCache
  <2>4. /\ place'[c] = p /\ told'[c] = r.at
        /\ \A d \in Callers \ {c} : place'[d] = place[d] /\ told'[d] = told[d]
    BY <2>2, <2>3 DEF IInv, TypeOK, Cache!TypeOK
  <2>5. Cache!TypeOK'
    <3>1. r.at \in Nat \cup {-2}
      BY <1>3
    <3> QED BY <2>2, <2>3, <3>1 DEF IInv, TypeOK, Cache!TypeOK
  <2>6. EntriesAreTimed' /\ Spares(c) /\ \A k \in Keys : entries'[k] \in {entries[k], None}
    BY <1>2, <2>2 DEF IInv, EntriesAreTimed, Late, Spares
  <2>7. CASE p = "storing"
    <3>1. /\ UNCHANGED <<flightVars, payload, opened, got, redialed>>
          /\ UNCHANGED <<pc, ref, flight>>
      BY <2>1, <2>4, <2>7 DEF ThroughCache, flightVars
    <3>2. Flight!Sound'
      BY <2>2, <3>1, SameSound DEF IInv
    <3>3. Others(c) /\ Quiet /\ Apart(c)
      BY <1>2, <1>3, <2>2, <2>4, <3>1, FlightAside DEF Others, Quiet
    <3>4. TypeOK'
      BY <1>2, <1>3, <2>5, <3>1, <3>2 DEF IInv, TypeOK, Flight!Sound
    <3>5. r # Failed /\ Cache!Caches(req[c]) /\ Dials(c)
      BY <1>9, <2>2, <2>3, <2>7 DEF IInv, IsTimely, IsNested
    <3>6. IsTimely(c)'
      <4>1. IsNested(c)'
        BY <1>2, <1>3, <1>9, <2>2, <2>4, <2>7, <3>1, <3>5
           DEF IInv, IsTimely, IsNested, Dials, Cache!Caches
      <4>2. IsAccounted(c)'
        BY <1>2, <1>9, <2>2, <3>1 DEF IInv, IsTimely, IsAccounted, Outermost, Heard
      <4>3. TakesItsTime(c)' /\ FlightIsTimed(c)'
        BY <1>2, <1>9, <2>2, <3>1 DEF IInv, IsTimely, TakesItsTime, FlightIsTimed
      <4>4. ResponseIsTimed(c)'
        BY <1>2, <1>3, <1>4, <1>9, <2>2, <2>4, <2>7, <3>5 DEF ResponseIsTimed, Late
      <4> QED BY <4>1, <4>2, <4>3, <4>4 DEF IsTimely
    <3>7. PayloadIsTimed(c)' /\ FetchesAlone(c)'
      BY <1>2, <2>2, <2>4, <2>7, <3>1 DEF IInv, PayloadIsTimed, Stale, FetchesAlone
    <3> QED BY <2>6, <3>2, <3>3, <3>4, <3>6, <3>7, OwnStep
  <2>8. CASE p = "returned"
    <3>1. PICK s \in {r} \cup (IF pc[c] = "dialing" THEN {Failed} ELSE {}) :
            FlightHears(c, s)
      BY <2>1, <2>4, <2>8 DEF ThroughCache
    <3>2. s = r \/ s = Failed
      BY <3>1
    <3>3. /\ s \in Response \cup {Failed} /\ IsRecent(c, s)
          /\ s # Failed /\ pc[c] = "dialing" => s.at + Stale >= opened[ref[c]]
      BY <1>3, <1>6, <1>7, <3>2 DEF IsRecent
    <3> QED BY <1>2, <1>3, <1>9, <2>2, <2>4, <2>5, <2>6, <2>8, <3>1, <3>3,
               FlightHearsIInv
  <2> QED BY <2>7, <2>8
<1> QED BY <1>8, <1>9 DEF IInv, TypeOK

\* A flight ends, for its owner or a sharer: with its response, or in a redial.
LEMMA LandIInv ==
  ASSUME IInv, NEW c \in Callers, Land(c)
  PROVE  IInv' /\ Others(c) /\ Quiet
<1> USE Layers, Numbers DEF Cache!Never, Cache!Nothing, Cache!Failure
<1> DEFINE r == payload[ref[c]]
<1>1. /\ UNCHANGED <<outer, produced, asked>>
      /\ outer = "flight" => UNCHANGED <<clock, cacheVars>>
      /\ payload' = Collected(payload, None)
      /\ opened' = Collected(opened, Cache!Never)
      /\ Flight!Signal(c) \/ Flight!Wake(c)
  BY DEF Land
<1>2. /\ pc[c] \in {"released", "waiting"} /\ flight[ref[c]].outcome # None
      /\ ref[c] \in Flights
  BY <1>1 DEF Flight!Signal, Flight!Wake, IInv, Flight!Sound, Flight!TypeOK,
              Flight!PointersAreHeld, Flight!FlightsAreSound, Flight!OwnFlight,
              Flight!SharedFlight
<1>3. /\ r \in Response \cup {Failed} /\ IsRecent(c, r)
      /\ flight[ref[c]].outcome.ok <=> r # Failed
  BY <1>2, PayloadFacts
<1> HIDE DEF r
<1>4. Flight!Sound'
  BY <1>1, LandSound DEF IInv
<1>5. produced[c] = None
  BY <1>2 DEF IInv, TypeOK, IsTimely, IsNested, AtServer, Dials
<1>6. PICK p \in {"returned", "redialing"} :
        /\ pc' = [pc EXCEPT ![c] = p]
        /\ p = "redialing" => pc[c] = "waiting" /\ ~flight[ref[c]].outcome.ok
        /\ p = "returned" => pc[c] = "released" \/ flight[ref[c]].outcome.ok
  BY <1>1 DEF Flight!Signal, Flight!Wake
<1>7. /\ ref' = [ref EXCEPT ![c] = None] /\ req' = req
      /\ \E over \in [Flights -> Flight!Flight] :
           /\ flight' = Flight!Forget(c, over)
           /\ \A f \in Flights : over[f].outcome = flight[f].outcome
  <2>1. CASE Flight!Signal(c)
    <3> DEFINE over == [flight EXCEPT ![ref[c]].done = TRUE]
    <3>1. over \in [Flights -> Flight!Flight]
      BY <1>2 DEF IInv, Flight!Sound, Flight!TypeOK, Flight!Flight
    <3>2. \A f \in Flights : over[f].outcome = flight[f].outcome
      BY <1>2 DEF IInv, Flight!Sound, Flight!TypeOK, Flight!Flight
    <3> HIDE DEF over
    <3>3. flight' = Flight!Forget(c, over)
      BY <2>1 DEF Flight!Signal, over
    <3> QED BY <2>1, <3>1, <3>2, <3>3 DEF Flight!Signal
  <2>2. CASE Flight!Wake(c)
    <3>1. flight \in [Flights -> Flight!Flight]
      BY DEF IInv, Flight!Sound, Flight!TypeOK
    <3> QED BY <2>2, <3>1 DEF Flight!Wake
  <2> QED BY <1>1, <2>1, <2>2
<1>8. /\ pc'[c] = p /\ ref'[c] = None
      /\ \A d \in Callers \ {c} : pc'[d] = pc[d] /\ ref'[d] = ref[d]
  BY <1>6, <1>7 DEF IInv, Flight!Sound, Flight!TypeOK
<1>9. \A d \in Callers \ {c} : Flight!Holds(d) => ref[d] \in Flights /\ ref'[d] = ref[d]
  BY <1>8 DEF IInv, Flight!Sound, Flight!TypeOK, Flight!PointersAreHeld
<1>10. Apart(c)
  <2>1. \A d \in Callers \ {c} : Flight!Holds(d) =>
          /\ opened'[ref[d]] = opened[ref[d]] /\ payload'[ref[d]] = payload[ref[d]]
    BY <1>1, <1>9 DEF Collected
  <2>2. \A d \in Callers \ {c} : Flight!Holds(d) =>
          flight'[ref[d]].outcome = flight[ref[d]].outcome
    BY <1>2, <1>7, <1>9 DEF Flight!Forget
  <2> QED BY <2>1, <2>2 DEF Apart
<1>11. /\ payload' \in [Flights -> Response \cup {None, Failed}]
       /\ opened' \in [Flights -> Nat \cup {Cache!Never}]
       /\ produced' \in [Callers -> Response \cup {None}] /\ produced'[c] = None
  BY <1>1, <1>5 DEF IInv, TypeOK, Collected
<1>12. CASE p = "returned" /\ FlightReturns(c, r) /\ UNCHANGED redialed
  <2>1. CASE outer = "cache"
    <3>1. CacheHears(c, r) /\ UNCHANGED got
      BY <1>12, <2>1 DEF FlightReturns
    <3> QED BY <1>1, <1>3, <1>4, <1>6, <1>8, <1>10, <1>11, <1>12, <2>1, <3>1,
               CacheHearsIInv
  <2>2. CASE outer = "flight"
    <3>1. /\ UNCHANGED <<clock, entries, place, now, told>>
          /\ got' = [got EXCEPT ![c] = r.at]
      BY <1>1, <1>12, <2>2 DEF FlightReturns, cacheVars
    <3>2. place[c] \in {"idle", "returned"}
      BY <1>2, <2>2 DEF IInv, IsTimely, IsNested, Dials
    <3>3. Cache!TypeOK' /\ EntriesAreTimed' /\ Spares(c) /\ redialed' \subseteq Keys
      BY <1>1, <1>7, <1>12, <3>1
         DEF IInv, TypeOK, Cache!TypeOK, EntriesAreTimed, Late, Spares
    <3> QED BY <1>1, <1>2, <1>3, <1>4, <1>6, <1>7, <1>8, <1>10, <1>11, <1>12, <2>2, <3>1,
               <3>2, <3>3, FlightReturnsIInv
  <2> QED BY <2>1, <2>2 DEF IInv, TypeOK
<1>13. CASE /\ p = "redialing" /\ redialed' = redialed \cup {req[c]}
            /\ UNCHANGED <<clock, cacheVars, got>>
  <2>1. UNCHANGED <<clock, entries, place, now, told, got, req>>
    BY <1>7, <1>13 DEF cacheVars
  <2>2. Others(c) /\ Quiet
    BY <1>1, <1>8, <1>13, <2>1 DEF Others, Quiet
  <2>3. TypeOK'
    <3>1. req[c] \in Keys
      BY <1>2 DEF IInv, Flight!Sound, Flight!HoldersRead
    <3>2. Cache!TypeOK'
      BY <2>1 DEF IInv, TypeOK, Cache!TypeOK
    <3> QED BY <1>1, <1>4, <1>11, <1>13, <2>1, <3>1, <3>2 DEF IInv, TypeOK, Flight!Sound
  <2>4. IsTimely(c)'
    <3>1. IsNested(c)'
      BY <1>1, <1>2, <1>5, <1>8, <1>13, <2>1
         DEF IInv, IsTimely, IsNested, Dials, Cache!Caches
    <3>2. IsAccounted(c)'
      <4>1. outer \in {"cache", "flight"} /\ Heard'[c] = Heard[c]
        BY <1>1, <2>1 DEF IInv, TypeOK, Heard
      <4> QED BY <1>1, <1>2, <1>8, <1>13, <2>1, <4>1
              DEF IInv, IsTimely, IsAccounted, Outermost, Heard
    <3>3. TakesItsTime(c)' /\ ResponseIsTimed(c)' /\ FlightIsTimed(c)'
      BY <1>1, <1>2, <1>5, <1>8, <1>13, <2>1
         DEF IInv, IsTimely, TakesItsTime, ResponseIsTimed, FlightIsTimed, Late
    <3> QED BY <3>1, <3>2, <3>3 DEF IsTimely
  <2>5. PayloadIsTimed(c)' /\ FetchesAlone(c)'
    BY <1>1, <1>2, <1>8, <1>13, <2>1
       DEF PayloadIsTimed, FetchesAlone, IInv, IsTimely, IsNested, Dials
  <2> QED BY <1>4, <1>10, <2>1, <2>2, <2>3, <2>4, <2>5, OwnStep
<1>14. \/ p = "returned" /\ FlightReturns(c, r) /\ UNCHANGED redialed
       \/ /\ p = "redialing" /\ redialed' = redialed \cup {req[c]}
          /\ UNCHANGED <<clock, cacheVars, got>>
  <2>1. Flight!Signal(c) => p = "returned"
    BY <1>6, <1>8 DEF Flight!Signal
  <2>2. Flight!Wake(c) => (p = "returned" <=> r # Failed)
    BY <1>3, <1>6, <1>8 DEF Flight!Wake
  <2> QED BY <1>6, <2>1, <2>2 DEF Land, r
<1> QED BY <1>12, <1>13, <1>14

-----------------------------------------------------------------------------
\* A goroutine that is already inside takes a step.
LEMMA StepIInv ==
  ASSUME IInv, NEW c \in Callers, Step(c)
  PROVE  IInv' /\ Others(c) /\ Quiet
<1>1. CASE Fetch(c)
  <2>1. req[c] \in Keys
    BY <1>1 DEF Fetch, IInv, IsTimely, IsNested
  <2> QED BY <1>1, <2>1, BoardIInv DEF Fetch
<1>2. CASE Enter(c)
  <2>1. req[c] \in Keys
    BY <1>2 DEF Enter, Dials, IInv, Flight!Sound, Flight!HoldersRead
  <2> QED BY <1>2, <2>1, ArriveIInv DEF Enter, historyVars
<1> QED BY <1>1, <1>2, LookIInv, ProduceIInv, RespondIInv, StoreIInv, ReleaseIInv,
           LandIInv DEF Step

\* A goroutine asks.
LEMMA AskIInv ==
  ASSUME IInv, NEW c \in Callers, NEW k \in Keys, Ask(c, k)
  PROVE  IInv' /\ Others(c) /\ Quiet
<1>1. CASE outer = "cache" /\ Cache!Arrive(c, k)
           /\ UNCHANGED <<flightVars, payload, opened, redialed>>
  BY <1>1, ArriveIInv DEF Ask
<1>2. CASE outer = "flight" /\ Board(c, k)
  BY <1>2, BoardIInv DEF Ask
<1> QED BY <1>1, <1>2 DEF Ask

(***************************************************************************)
(* The inductive invariant holds in every state of the stack.              *)
(***************************************************************************)
THEOREM Invariance == Spec => []IInv
<1>1. Init => IInv
  <2> SUFFICES ASSUME Init PROVE IInv
    OBVIOUS
  <2> USE Layers, Numbers DEF Cache!Never, Cache!Nothing, Cache!Failure
  <2>1. Flight!Sound
    BY InitSound DEF Init
  <2>2. Cache!TypeOK
    BY DEF Init, Cache!Init, Cache!TypeOK
  <2>3. TypeOK
    BY <2>1, <2>2 DEF Init, TypeOK, Flight!Sound
  <2>4. ASSUME NEW c \in Callers
        PROVE  IsTimely(c) /\ PayloadIsTimed(c) /\ FetchesAlone(c)
    BY DEF Init, Cache!Init, Flight!Init, IsTimely, IsNested, IsAccounted, Outermost,
           Heard, TakesItsTime, ResponseIsTimed, FlightIsTimed, PayloadIsTimed,
           FetchesAlone, Dials
  <2>5. EntriesAreTimed
    BY DEF Init, Cache!Init, EntriesAreTimed
  <2> QED BY <2>1, <2>3, <2>4, <2>5 DEF IInv
<1>2. IInv /\ [Next]_vars => IInv'
  <2> SUFFICES ASSUME IInv, [Next]_vars PROVE IInv'
    OBVIOUS
  <2>1. CASE UNCHANGED vars
    <3>1. UNCHANGED <<outer, clock, req, entries, place, now, told, produced, asked, got,
                      payload, opened, redialed, pc, ref, answer, flying, flight,
                      canceled>>
      BY <2>1 DEF vars, cacheVars, flightVars, historyVars
    <3>2. Flight!Sound'
      BY <3>1, SameSound DEF IInv, flightVars
    <3>3. TypeOK'
      BY <3>1, <3>2 DEF IInv, TypeOK, Cache!TypeOK, Flight!Sound
    <3>4. EntriesAreTimed'
      BY <3>1 DEF IInv, EntriesAreTimed, Late
    <3>5. ASSUME NEW c \in Callers
          PROVE  IsTimely(c)' /\ PayloadIsTimed(c)' /\ FetchesAlone(c)'
      <4>1. IsTimely(c)'
        BY <3>1 DEF IInv, IsTimely, IsNested, AtServer, Dials, IsAccounted, Outermost,
                    Heard, TakesItsTime, ResponseIsTimed, FlightIsTimed, Late
      <4>2. PayloadIsTimed(c)' /\ FetchesAlone(c)'
        BY <3>1 DEF IInv, PayloadIsTimed, FetchesAlone, Stale
      <4> QED BY <4>1, <4>2
    <3> QED BY <3>2, <3>3, <3>4, <3>5 DEF IInv
  <2> QED BY <2>1, TickIInv, StepIInv, AskIInv DEF Next
<1> QED BY <1>1, <1>2, PTL DEF Spec

(***************************************************************************)
(* The variables of both layers, and the history, keep their types.        *)
(***************************************************************************)
THEOREM TypeOKHolds == Spec => []TypeOK
<1>1. IInv => TypeOK
  BY DEF IInv
<1> QED BY <1>1, Invariance, PTL

(***************************************************************************)
(* An entry expires at most TTL after what it holds was true, if the cache *)
(* is the inner layer, and at most TTL and a flight's duration after it    *)
(* otherwise.                                                              *)
(***************************************************************************)
THEOREM EntriesExpireInTimeHolds == Spec => []EntriesExpireInTime
<1>1. IInv => EntriesExpireInTime
  BY DEF IInv, EntriesAreTimed, EntriesExpireInTime, Late
<1> QED BY <1>1, Invariance, PTL

-----------------------------------------------------------------------------
\* What the others have heard does not change.
LEMMA OthersHeard ==
  ASSUME NEW c \in Callers, Others(c), Quiet, TypeOK, NEW t, Heard'[c] = t
  PROVE  Heard' = [Heard EXCEPT ![c] = t]
<1>1. \A d \in Callers \ {c} : Heard'[d] = Heard[d]
  BY DEF Others, Quiet, Heard
<1>2. /\ Heard = [d \in Callers |-> Heard[d]]
      /\ Heard' = [d \in Callers |-> Heard'[d]]
  BY DEF Heard
<1> HIDE DEF Heard
<1> QED BY <1>1, <1>2

\* Only a goroutine whose read has not returned takes a step, and asks nothing.
LEMMA StepIsInside ==
  ASSUME IInv, NEW c \in Callers, Step(c)
  PROVE  Outermost(c) \notin {"idle", "returned"} /\ asked' = asked
<1>1. Inside(c)
  <2>1. Look(c) => place[c] = "looking"
    BY DEF Look, Cache!Hit, Cache!Miss
  <2>2. Release(c) => pc[c] = "captured"
    BY DEF Release, Flight!Release
  <2>3. Land(c) => pc[c] \in {"released", "waiting"}
    BY DEF Land, Flight!Signal, Flight!Wake
  <2>4. Produce(c) \/ Respond(c) => AtServer(c)
    BY DEF Produce, Respond
  <2>5. Store(c) => place[c] = "storing"
    BY DEF Store, Cache!Store
  <2>6. Fetch(c) \/ Enter(c) => place[c] = "fetching" \/ Dials(c)
    BY DEF Fetch, Enter
  <2> QED BY <2>1, <2>2, <2>3, <2>4, <2>5, <2>6 DEF Step, Inside, AtServer, Dials
<1>2. Outermost(c) \notin {"idle", "returned"}
  BY <1>1 DEF IInv, TypeOK, IsTimely, IsNested, Inside, Dials, Outermost
<1>3. asked' = asked
  BY DEF Step, Fetch, Enter, Look, Produce, Respond, Store, Release, Land, historyVars
<1> QED BY <1>2, <1>3

(***************************************************************************)
(* One step of the stack is one step of a bounded read, or none.           *)
(***************************************************************************)
LEMMA StepRefines == IInv /\ [Next]_vars => [Promise!Next]_(Promise!boundedReadVars)
<1> SUFFICES ASSUME IInv, [Next]_vars
             PROVE  Promise!Next \/ UNCHANGED <<clock, asked, Heard>>
  BY DEF Promise!boundedReadVars
<1> USE Layers DEF Cache!Never, Cache!Nothing, Cache!Failure, Promise!Never,
                   Promise!Nothing, Promise!Failure
<1>1. CASE Tick
  <2>1. UNCHANGED <<outer, place, told, got, asked>>
    BY <1>1 DEF Tick, Cache!Tick, historyVars
  <2>2. Heard' = Heard
    BY <2>1 DEF Heard
  <2>3. Promise!Tick
    BY <1>1, <2>1, <2>2 DEF Tick, Cache!Tick, Promise!Tick
  <2> QED BY <2>3 DEF Promise!Next
<1>2. ASSUME NEW c \in Callers, NEW k \in Keys, Ask(c, k) PROVE Promise!Ask(c)
  <2>1. Others(c) /\ Quiet
    BY <1>2, AskIInv
  <2>2. Heard'[c] = Cache!Nothing
    <3>1. CASE outer = "cache"
      <4>1. Cache!Arrive(c, k)
        BY <1>2, <3>1 DEF Ask
      <4>2. place'[c] # "returned"
        BY <4>1 DEF Cache!Arrive, IInv, TypeOK, Cache!TypeOK
      <4> QED BY <2>1, <3>1, <4>2 DEF Heard, Quiet
    <3>2. CASE outer = "flight"
      <4>1. got'[c] = Cache!Nothing
        BY <1>2 DEF Ask, IInv, TypeOK
      <4> QED BY <2>1, <3>2, <4>1 DEF Heard, Quiet
    <3> QED BY <3>1, <3>2 DEF IInv, TypeOK
  <2>3. asked[c] = Cache!Never \/ Heard[c] # Cache!Nothing
    <3>1. Outermost(c) \in {"idle", "returned"}
      BY <1>2 DEF Ask, Inside, Outermost
    <3> QED BY <3>1 DEF IInv, IsTimely, IsAccounted
  <2>4. Heard' = [Heard EXCEPT ![c] = Cache!Nothing]
    BY <2>1, <2>2, OthersHeard DEF IInv
  <2>5. asked' = [asked EXCEPT ![c] = clock] /\ clock' = clock
    BY <1>2, <2>1 DEF Ask, Quiet
  <2> HIDE DEF Heard
  <2> QED BY <2>3, <2>4, <2>5 DEF Promise!Ask
<1>3. ASSUME NEW c \in Callers, Step(c)
      PROVE  Promise!Tell(c) \/ Promise!Fail(c) \/ UNCHANGED <<clock, asked, Heard>>
  <2>1. IInv' /\ Others(c) /\ Quiet
    BY <1>3, StepIInv
  <2>2. Outermost(c) \notin {"idle", "returned"} /\ asked' = asked
    BY <1>3, StepIsInside
  <2>3. /\ Heard[c] = Cache!Nothing
        /\ asked[c] \in Nat /\ clock' = clock /\ clock \in Nat
    BY <2>1, <2>2 DEF IInv, IsTimely, IsAccounted, TypeOK, Cache!TypeOK, Quiet
  <2>4. Promise!Outstanding(c)
    BY <2>2, <2>3 DEF Promise!Outstanding
  <2>5. /\ Heard'[c] \in Nat \cup {Cache!Nothing, Cache!Failure}
        /\ Heard'[c] >= 0 => /\ Heard'[c] <= clock
                             /\ Heard'[c] + Cache!Slack + MaxFlight >= asked[c]
    <3>1. /\ outer' \in {"cache", "flight"} /\ place' = [d \in Callers |-> place'[d]]
          /\ got'[c] \in Nat \cup {Cache!Nothing, Cache!Failure}
          /\ told'[c] \in Nat \cup {Cache!Nothing, Cache!Failure}
      BY <2>1 DEF IInv, TypeOK, Cache!TypeOK
    <3>2. IsAccounted(c)'
      BY <2>1 DEF IInv, IsTimely
    <3> QED BY <2>2, <2>3, <3>1, <3>2 DEF IsAccounted, Heard
  <2>6. Heard' = [Heard EXCEPT ![c] = Heard'[c]]
    BY <2>1, OthersHeard DEF IInv
  <2>7. Heard = [Heard EXCEPT ![c] = Heard[c]]
    BY DEF Heard
  <2> HIDE DEF Heard
  <2>8. CASE Heard'[c] = Cache!Nothing
    BY <2>2, <2>3, <2>6, <2>7, <2>8
  <2>9. CASE Heard'[c] = Cache!Failure
    BY <2>2, <2>3, <2>4, <2>6, <2>9 DEF Promise!Fail
  <2>10. CASE Heard'[c] \in Nat
    <3>1. Heard'[c] \in 0 .. clock /\ Heard'[c] >= asked[c] - (Cache!Slack + MaxFlight)
      BY <2>3, <2>5, <2>10, Numbers
    <3> QED BY <2>2, <2>3, <2>4, <2>6, <3>1 DEF Promise!Tell
  <2> QED BY <2>5, <2>8, <2>9, <2>10
<1>4. CASE UNCHANGED vars
  BY <1>4 DEF vars, cacheVars, historyVars, Heard
<1> QED BY <1>1, <1>2, <1>3, <1>4 DEF Next, Promise!Next

(***************************************************************************)
(* In either order of its layers, the stack implements a bounded read: an  *)
(* answer is at most the cache's slack and a flight's duration older than  *)
(* the question.                                                           *)
(***************************************************************************)
THEOREM ReadsAreBoundedHolds == Spec => ReadsAreBounded
<1>1. Init => Promise!Init
  BY DEF Init, Cache!Init, Promise!Init, Heard, Cache!Never, Cache!Nothing,
         Promise!Never, Promise!Nothing
<1> QED BY <1>1, StepRefines, Invariance, PTL DEF Spec, ReadsAreBounded, Promise!Spec

-----------------------------------------------------------------------------
\* With the flight outside, the only steps that change entries are the cache's.
LEMMA EntriesChange ==
  ASSUME IInv, NEW c \in Callers, Step(c), outer = "flight",
         entries' # entries
  PROVE  Cache!Miss(c) \/ Cache!Store(c)
<1>1. Fetch(c) => FALSE
  BY DEF Fetch
<1>2. Enter(c) => FALSE
  BY DEF Enter, Cache!Arrive
<1>3. Look(c) => Cache!Miss(c)
  BY DEF Look, Cache!Hit
<1>4. Produce(c) \/ Release(c) \/ Land(c) => FALSE
  BY DEF Produce, Release, Land, cacheVars
<1>5. Respond(c) => FALSE
  BY DEF Respond, ThroughCache, CacheHears, Cache!FetchFails, Cache!Answered
<1> QED BY <1>1, <1>2, <1>3, <1>4, <1>5 DEF Step, Store

(***************************************************************************)
(* With the single-flight outside, what a fetch stores never replaces a    *)
(* newer response: until a sharer of the key's flight has to dial again,   *)
(* whoever stores is alone, and found no entry.                            *)
(***************************************************************************)
THEOREM CacheGoesForwardHolds == Spec => CacheGoesForward
<1> DEFINE Forward ==
      \A k \in Keys :
        /\ outer = "flight" /\ k \notin redialed
        /\ entries[k] # None /\ entries'[k] # None
        => entries'[k].asOf >= entries[k].asOf
<1>1. ASSUME IInv, [Next]_vars PROVE [Forward]_vars
  <2> SUFFICES ASSUME NEW k \in Keys, outer = "flight", k \notin redialed,
                      entries[k] # None, entries'[k] # None
               PROVE  entries'[k] = entries[k]
    BY <1>1, Layers DEF IInv, TypeOK, Cache!TypeOK, Cache!Entry
  <2> USE <1>1
  <2>1. CASE entries' = entries
    BY <2>1
  <2>2. ASSUME NEW c \in Callers, Cache!Miss(c) PROVE entries'[k] = entries[k]
    BY <2>2 DEF Cache!Miss, IInv, TypeOK, Cache!TypeOK
  <2>3. ASSUME NEW c \in Callers, Cache!Store(c) PROVE entries'[k] = entries[k]
    <3>1. place[c] = "storing" /\ Cache!Caches(req[c])
      BY <2>3 DEF Cache!Store, IInv, IsTimely, IsNested
    <3>2. k # req[c]
      BY <3>1 DEF IInv, FetchesAlone
    <3> QED BY <2>3, <3>2 DEF Cache!Store, IInv, TypeOK, Cache!TypeOK
  <2>4. ASSUME NEW c \in Callers, NEW j \in Keys, Ask(c, j) PROVE entries' = entries
    BY <2>4 DEF Ask, Board, cacheVars
  <2>5. Tick \/ UNCHANGED vars => entries' = entries
    BY DEF Tick, Cache!Tick, vars, cacheVars
  <2> QED BY <2>1, <2>2, <2>3, <2>4, <2>5, EntriesChange DEF Next
<1> QED BY <1>1, Invariance, PTL DEF Spec, CacheGoesForward
=============================================================================
