------------------------- MODULE SingleFlight_proofs --------------------------
(***************************************************************************)
(* Proofs about SingleFlight, for any number of goroutines, keys and       *)
(* flight structs.                                                         *)
(***************************************************************************)
EXTENDS SingleFlight, TLAPS

\* The parts of the invariant, for the steps that expand them all.
USE DEF Holds, Owns, Leads, Idle

\* What Forget does: c's flight may be collected, but only if nobody else holds it.
LEMMA ForgetType ==
  ASSUME TypeOK, NEW c \in Callers, ref[c] \in Flights,
         NEW flights \in [Flights -> Flight]
  PROVE  /\ Forget(c, flights) \in [Flights -> Flight]
         /\ \A f \in Flights : f # ref[c] => Forget(c, flights)[f] = flights[f]
         /\ \A d \in Callers \ {c} :
              ref[d] \in Flights => Forget(c, flights)[ref[d]] = flights[ref[d]]
<1>1. NewFlight \in Flight
  BY DEF NewFlight, Flight
<1> QED BY <1>1 DEF Forget

\* Init establishes the inductive invariant.
LEMMA InitIInv == Init => IInv
<1>1. NewFlight \in Flight
  BY DEF NewFlight, Flight
<1> QED BY <1>1 DEF Init, IInv, Sound, TypeOK, PointersAreHeld, HoldersRead, OwnersDiffer,
                    LeadersAreListed, ListedFlightIsOwned, FlightsAreSound,
                    AnswersTheRequest

-----------------------------------------------------------------------------
\* A request that is not cacheable sets out.
LEMMA PassSound ==
  ASSUME Sound, NEW c \in Callers, NEW k \in Keys, Pass(c, k)
  PROVE  Sound'
<1>1. /\ Idle(c) /\ ref[c] = None /\ k \notin Cacheable
      /\ pc' = [pc EXCEPT ![c] = "passing"]
      /\ req' = [req EXCEPT ![c] = k]
      /\ answer' = [answer EXCEPT ![c] = None]
      /\ canceled' = canceled \ {c}
      /\ ref' = ref /\ flying' = flying /\ flight' = flight
  BY DEF Pass, Arrive, Sound, PointersAreHeld
<1>2. TypeOK'
  BY <1>1 DEF Sound, TypeOK
<1>3. /\ pc'[c] = "passing" /\ req'[c] = k
      /\ \A d \in Callers \ {c} : /\ pc'[d] = pc[d] /\ req'[d] = req[d]
                                  /\ answer'[d] = answer[d]
  BY <1>1 DEF Sound, TypeOK
<1>4. PointersAreHeld' /\ HoldersRead' /\ OwnersDiffer' /\ LeadersAreListed'
  BY <1>1, <1>3 DEF Sound, PointersAreHeld, HoldersRead, OwnersDiffer, LeadersAreListed
<1>5. ListedFlightIsOwned'
  BY <1>1, <1>3 DEF Sound, ListedFlightIsOwned
<1>6. FlightsAreSound'
  <2>1. \A d \in Callers \ {c} : Owns(d)' => OwnFlight(d)'
    BY <1>1, <1>3 DEF Sound, FlightsAreSound, OwnFlight
  <2>2. \A d \in Callers \ {c} : pc'[d] = "waiting" => SharedFlight(d)'
    BY <1>1, <1>3 DEF Sound, FlightsAreSound, SharedFlight
  <2> QED BY <1>3, <2>1, <2>2 DEF FlightsAreSound
<1> QED BY <1>2, <1>4, <1>5, <1>6 DEF Sound

\* A request becomes a sharer of the flight listed under its key.
LEMMA JoinSound ==
  ASSUME Sound, NEW c \in Callers, NEW k \in Keys, Join(c, k)
  PROVE  Sound'
<1>1. /\ Idle(c) /\ ref[c] = None /\ k \in Cacheable /\ flying[k] # None
      /\ pc' = [pc EXCEPT ![c] = "waiting"]
      /\ req' = [req EXCEPT ![c] = k]
      /\ answer' = [answer EXCEPT ![c] = None]
      /\ canceled' = canceled \ {c}
      /\ ref' = [ref EXCEPT ![c] = flying[k]]
      /\ flying' = flying /\ flight' = flight
  BY DEF Join, Arrive, Sound, PointersAreHeld
<1>2. TypeOK'
  BY <1>1 DEF Sound, TypeOK
<1>3. /\ pc'[c] = "waiting" /\ req'[c] = k /\ ref'[c] = flying[k]
      /\ \A d \in Callers \ {c} : /\ pc'[d] = pc[d] /\ req'[d] = req[d]
                                  /\ ref'[d] = ref[d] /\ answer'[d] = answer[d]
  BY <1>1 DEF Sound, TypeOK
<1>4. PointersAreHeld' /\ HoldersRead' /\ OwnersDiffer' /\ LeadersAreListed'
  BY <1>1, <1>3 DEF Sound, PointersAreHeld, HoldersRead, OwnersDiffer, LeadersAreListed
<1>5. ListedFlightIsOwned'
  BY <1>1, <1>3 DEF Sound, ListedFlightIsOwned
<1>6. FlightsAreSound'
  <2>1. \A d \in Callers \ {c} : Owns(d)' => OwnFlight(d)'
    BY <1>1, <1>3 DEF Sound, FlightsAreSound, OwnFlight
  <2>2. \A d \in Callers \ {c} : pc'[d] = "waiting" => SharedFlight(d)'
    BY <1>1, <1>3 DEF Sound, FlightsAreSound, SharedFlight
  <2>3. SharedFlight(c)'
    <3>1. PICK d \in Callers : Leads(d) /\ req[d] = k /\ ref[d] = flying[k]
      BY <1>1 DEF Sound, ListedFlightIsOwned
    <3>2. d # c
      BY <1>1, <3>1
    <3> QED BY <1>3, <3>1, <3>2 DEF SharedFlight
  <2> QED BY <1>3, <2>1, <2>2, <2>3 DEF FlightsAreSound
<1> QED BY <1>2, <1>4, <1>5, <1>6 DEF Sound

\* A request registers a flight of its own.
LEMMA LeadSound ==
  ASSUME Sound, NEW c \in Callers, NEW k \in Keys, Lead(c, k)
  PROVE  Sound'
<1>1. PICK f \in Flights :
        /\ Free(f)
        /\ ref' = [ref EXCEPT ![c] = f]
        /\ flying' = [flying EXCEPT ![k] = f]
        /\ flight' = [flight EXCEPT ![f] = NewFlight]
  BY DEF Lead, Register
<1>2. /\ Idle(c) /\ ref[c] = None /\ k \in Cacheable /\ flying[k] = None
      /\ pc' = [pc EXCEPT ![c] = "dialing"]
      /\ req' = [req EXCEPT ![c] = k]
      /\ answer' = [answer EXCEPT ![c] = None]
      /\ canceled' = canceled \ {c}
  BY DEF Lead, Arrive, Sound, PointersAreHeld
<1>3. TypeOK'
  <2>1. NewFlight \in Flight
    BY DEF NewFlight, Flight
  <2> QED BY <1>1, <1>2, <2>1 DEF Sound, TypeOK
<1>4. /\ pc'[c] = "dialing" /\ req'[c] = k /\ ref'[c] = f /\ flying'[k] = f
      /\ flight'[f] = NewFlight /\ f # None
      /\ \A d \in Callers \ {c} : /\ pc'[d] = pc[d] /\ req'[d] = req[d]
                                  /\ ref'[d] = ref[d] /\ answer'[d] = answer[d]
                                  /\ ref[d] # f
                                  /\ ref[d] \in Flights =>
                                       flight'[ref[d]] = flight[ref[d]]
      /\ \A l \in Keys \ {k} : flying'[l] = flying[l]
  BY <1>1, <1>2, FlightAssumption DEF Sound, TypeOK, Free
<1>5. PointersAreHeld' /\ HoldersRead' /\ OwnersDiffer'
  BY <1>2, <1>4 DEF Sound, PointersAreHeld, HoldersRead, OwnersDiffer
<1>6. \A d \in Callers \ {c} : Leads(d) => req[d] \in Keys \ {k}
  BY <1>2, FlightAssumption
     DEF Sound, LeadersAreListed, PointersAreHeld, HoldersRead
<1>7. LeadersAreListed'
  BY <1>4, <1>6 DEF Sound, LeadersAreListed
<1>8. ListedFlightIsOwned'
  <2> SUFFICES ASSUME NEW l \in Keys, flying'[l] # None
               PROVE  \E d \in Callers : Leads(d)' /\ req'[d] = l
                                         /\ ref'[d] = flying'[l]
    BY DEF ListedFlightIsOwned
  <2>1. CASE l = k
    BY <1>4, <2>1
  <2>2. CASE l # k
    <3>1. PICK d \in Callers : Leads(d) /\ req[d] = l /\ ref[d] = flying[l]
      BY <1>4, <2>2 DEF Sound, ListedFlightIsOwned
    <3>2. d # c
      BY <1>2, <3>1
    <3> QED BY <1>4, <2>2, <3>1, <3>2
  <2> QED BY <2>1, <2>2
<1>9. FlightsAreSound'
  <2>1. \A d \in Callers \ {c} : Holds(d) => ref[d] \in Flights
    BY DEF Sound, TypeOK, PointersAreHeld
  <2>2. \A d \in Callers \ {c} : Owns(d)' => OwnFlight(d)'
    BY <1>4, <2>1 DEF Sound, FlightsAreSound, OwnFlight
  <2>3. \A d \in Callers \ {c} : pc'[d] = "waiting" => SharedFlight(d)'
    BY <1>2, <1>4, <2>1 DEF Sound, FlightsAreSound, SharedFlight
  <2>4. OwnFlight(c)'
    BY <1>4 DEF OwnFlight, NewFlight
  <2> QED BY <1>4, <2>2, <2>3, <2>4 DEF FlightsAreSound
<1> QED BY <1>3, <1>5, <1>7, <1>8, <1>9 DEF Sound

\* The owner captures the outcome of its round trip.
LEMMA CaptureSound ==
  ASSUME Sound, NEW c \in Callers, NEW ok \in BOOLEAN, Capture(c, ok)
  PROVE  Sound'
<1> DEFINE o == [by |-> c, key |-> req[c], ok |-> ok]
<1>1. /\ pc[c] = "dialing"
      /\ pc' = [pc EXCEPT ![c] = "captured"]
      /\ flight' = [flight EXCEPT ![ref[c]].outcome = o]
      /\ req' = req /\ ref' = ref /\ answer' = answer /\ flying' = flying
      /\ canceled' = canceled
  BY DEF Capture
<1>2. /\ ref[c] \in Flights /\ req[c] \in Cacheable /\ req[c] \in Keys
      /\ o \in Answer /\ o # None /\ ~flight[ref[c]].done
  BY <1>1, FlightAssumption
     DEF Sound, TypeOK, PointersAreHeld, HoldersRead, FlightsAreSound, OwnFlight,
         Answer
<1> HIDE DEF o
<1>3. /\ pc'[c] = "captured"
      /\ \A d \in Callers \ {c} : pc'[d] = pc[d]
      /\ flight'[ref[c]].outcome = o /\ flight'[ref[c]].done = flight[ref[c]].done
      /\ \A f \in Flights \ {ref[c]} : flight'[f] = flight[f]
  BY <1>1, <1>2 DEF Sound, TypeOK, Flight
<1>4. TypeOK'
  <2>1. flight' \in [Flights -> Flight]
    BY <1>1, <1>2 DEF Sound, TypeOK, Flight
  <2> QED BY <1>1, <2>1 DEF Sound, TypeOK
<1>5. PointersAreHeld' /\ HoldersRead' /\ OwnersDiffer' /\ LeadersAreListed'
  BY <1>1, <1>3 DEF Sound, PointersAreHeld, HoldersRead, OwnersDiffer, LeadersAreListed
<1>6. ListedFlightIsOwned'
  BY <1>1, <1>3 DEF Sound, ListedFlightIsOwned
<1>7. FlightsAreSound'
  <2>1. OwnFlight(c)'
    BY <1>1, <1>2, <1>3 DEF OwnFlight, o
  <2>2. \A d \in Callers \ {c} : Owns(d)' => OwnFlight(d)'
    <3> SUFFICES ASSUME NEW d \in Callers \ {c}, Owns(d) PROVE OwnFlight(d)'
      BY <1>3
    <3>1. ref[d] \in Flights \ {ref[c]}
      BY <1>1 DEF Sound, TypeOK, PointersAreHeld, OwnersDiffer
    <3> QED BY <1>1, <1>3, <3>1 DEF Sound, FlightsAreSound, OwnFlight
  <2>3. \A d \in Callers \ {c} : pc'[d] = "waiting" => SharedFlight(d)'
    <3> SUFFICES ASSUME NEW d \in Callers \ {c}, pc[d] = "waiting"
                 PROVE  SharedFlight(d)'
      BY <1>3
    <3>1. CASE ref[d] = ref[c]
      <4>1. ~flight[ref[d]].done
        BY <1>2, <3>1
      <4>2. PICK e \in Callers : Owns(e) /\ ref[e] = ref[d] /\ req[e] = req[d]
        BY <4>1 DEF Sound, FlightsAreSound, SharedFlight
      <4> QED BY <1>1, <1>3, <4>2 DEF SharedFlight
    <3>2. CASE ref[d] # ref[c]
      <4>1. ref[d] \in Flights \ {ref[c]}
        BY <3>2 DEF Sound, TypeOK, PointersAreHeld
      <4>2. SharedFlight(d)
        BY DEF Sound, FlightsAreSound
      <4> QED BY <1>1, <1>3, <4>1, <4>2 DEF SharedFlight
    <3> QED BY <3>1, <3>2
  <2> QED BY <1>3, <2>1, <2>2, <2>3 DEF FlightsAreSound
<1> QED BY <1>4, <1>5, <1>6, <1>7 DEF Sound

\* The owner panics: its flight stays listed, and it stays the owner.
LEMMA PanicSound ==
  ASSUME Sound, NEW c \in Callers, Panic(c)
  PROVE  Sound'
<1>1. /\ pc[c] = "dialing" /\ pc' = [pc EXCEPT ![c] = "panicked"]
      /\ UNCHANGED <<req, ref, answer, flying, flight, canceled>>
  BY DEF Panic
<1>2. /\ pc'[c] = "panicked"
      /\ \A d \in Callers \ {c} : pc'[d] = pc[d]
  BY <1>1 DEF Sound, TypeOK
<1>3. TypeOK'
  BY <1>1 DEF Sound, TypeOK
<1>4. PointersAreHeld' /\ HoldersRead' /\ OwnersDiffer' /\ LeadersAreListed'
  BY <1>1, <1>2 DEF Sound, PointersAreHeld, HoldersRead, OwnersDiffer, LeadersAreListed
<1>5. ListedFlightIsOwned'
  BY <1>1, <1>2 DEF Sound, ListedFlightIsOwned
<1>6. FlightsAreSound'
  <2>1. \A d \in Callers : Owns(d)' => OwnFlight(d)'
    BY <1>1, <1>2 DEF Sound, FlightsAreSound, OwnFlight
  <2>2. \A d \in Callers : pc'[d] = "waiting" => SharedFlight(d)'
    BY <1>1, <1>2 DEF Sound, FlightsAreSound, SharedFlight
  <2> QED BY <2>1, <2>2 DEF FlightsAreSound
<1> QED BY <1>3, <1>4, <1>5, <1>6 DEF Sound

\* The owner takes its flight off the list.
LEMMA ReleaseSound ==
  ASSUME Sound, NEW c \in Callers, Release(c)
  PROVE  Sound'
<1>1. /\ pc[c] = "captured"
      /\ pc' = [pc EXCEPT ![c] = "released"]
      /\ flying' = [flying EXCEPT ![req[c]] = None]
      /\ req' = req /\ ref' = ref /\ answer' = answer /\ flight' = flight
      /\ canceled' = canceled
  BY DEF Release
<1>2. req[c] \in Keys /\ flying[req[c]] = ref[c]
  BY <1>1, FlightAssumption DEF Sound, HoldersRead, LeadersAreListed
<1>3. /\ pc'[c] = "released" /\ flying'[req[c]] = None
      /\ \A d \in Callers \ {c} : pc'[d] = pc[d]
      /\ \A k \in Keys \ {req[c]} : flying'[k] = flying[k]
  BY <1>1, <1>2 DEF Sound, TypeOK
<1>4. TypeOK'
  BY <1>1 DEF Sound, TypeOK
<1>5. PointersAreHeld' /\ HoldersRead' /\ OwnersDiffer'
  BY <1>1, <1>3 DEF Sound, PointersAreHeld, HoldersRead, OwnersDiffer
<1>6. LeadersAreListed'
  <2> SUFFICES ASSUME NEW d \in Callers, Leads(d)'
               PROVE  flying'[req[d]] = ref[d]
    BY <1>1 DEF LeadersAreListed
  <2>1. d # c /\ Leads(d)
    BY <1>3
  <2>2. flying[req[d]] = ref[d] /\ req[d] \in Keys
    BY <2>1, FlightAssumption DEF Sound, LeadersAreListed, HoldersRead
  <2>3. req[d] # req[c]
    BY <1>1, <1>2, <2>1, <2>2 DEF Sound, OwnersDiffer
  <2> QED BY <1>3, <2>2, <2>3
<1>7. ListedFlightIsOwned'
  <2> SUFFICES ASSUME NEW k \in Keys, flying'[k] # None
               PROVE  \E d \in Callers : Leads(d)' /\ req[d] = k
                                         /\ ref[d] = flying'[k]
    BY <1>1 DEF ListedFlightIsOwned
  <2>1. k # req[c] /\ flying'[k] = flying[k]
    BY <1>2, <1>3
  <2>2. PICK d \in Callers : Leads(d) /\ req[d] = k /\ ref[d] = flying[k]
    BY <2>1 DEF Sound, ListedFlightIsOwned
  <2> QED BY <1>3, <2>1, <2>2
<1>8. FlightsAreSound'
  <2>1. \A d \in Callers : Owns(d)' => OwnFlight(d)'
    BY <1>1, <1>3 DEF Sound, FlightsAreSound, OwnFlight
  <2>2. \A d \in Callers : pc'[d] = "waiting" => SharedFlight(d)'
    <3> SUFFICES ASSUME NEW d \in Callers, pc'[d] = "waiting"
                 PROVE  SharedFlight(d)'
      OBVIOUS
    <3>1. SharedFlight(d)
      BY <1>3 DEF Sound, FlightsAreSound
    <3> QED BY <1>1, <1>3, <3>1 DEF SharedFlight
  <2> QED BY <2>1, <2>2 DEF FlightsAreSound
<1> QED BY <1>4, <1>5, <1>6, <1>7, <1>8 DEF Sound

\* The owner closes the channel and returns.
LEMMA SignalSound ==
  ASSUME Sound, NEW c \in Callers, Signal(c)
  PROVE  Sound'
<1> DEFINE over == [flight EXCEPT ![ref[c]].done = TRUE]
<1>1. /\ pc[c] = "released"
      /\ pc' = [pc EXCEPT ![c] = "returned"]
      /\ flight' = Forget(c, over)
      /\ answer' = [answer EXCEPT ![c] = flight[ref[c]].outcome]
      /\ ref' = [ref EXCEPT ![c] = None]
      /\ req' = req /\ flying' = flying /\ canceled' = canceled
  BY DEF Signal
<1>2. /\ ref[c] \in Flights /\ req[c] \in Keys
      /\ flight[ref[c]].outcome # None
      /\ flight[ref[c]].outcome.by = c /\ flight[ref[c]].outcome.key = req[c]
  BY <1>1, FlightAssumption
     DEF Sound, TypeOK, PointersAreHeld, HoldersRead, FlightsAreSound, OwnFlight
<1>3. /\ over \in [Flights -> Flight]
      /\ over[ref[c]].done /\ over[ref[c]].outcome = flight[ref[c]].outcome
      /\ \A f \in Flights \ {ref[c]} : over[f] = flight[f]
  BY <1>2 DEF Sound, TypeOK, Flight
<1> HIDE DEF over
<1>4. /\ flight' \in [Flights -> Flight]
      /\ \A d \in Callers \ {c} :
           ref[d] \in Flights => flight'[ref[d]] = over[ref[d]]
  BY <1>1, <1>2, <1>3, ForgetType DEF Sound
<1>5. /\ pc'[c] = "returned" /\ ref'[c] = None
      /\ answer'[c] = flight[ref[c]].outcome
      /\ \A d \in Callers \ {c} : /\ pc'[d] = pc[d] /\ ref'[d] = ref[d]
                                  /\ answer'[d] = answer[d]
  BY <1>1 DEF Sound, TypeOK
<1>6. TypeOK'
  BY <1>1, <1>2, <1>4 DEF Sound, TypeOK, Flight
<1>7. PointersAreHeld' /\ HoldersRead' /\ OwnersDiffer' /\ LeadersAreListed'
  BY <1>1, <1>5 DEF Sound, PointersAreHeld, HoldersRead, OwnersDiffer, LeadersAreListed
<1>8. ListedFlightIsOwned'
  BY <1>1, <1>5 DEF Sound, ListedFlightIsOwned
<1>9. FlightsAreSound'
  <2>1. \A d \in Callers \ {c} : Holds(d) => ref[d] \in Flights
    BY DEF Sound, TypeOK, PointersAreHeld
  <2>2. \A d \in Callers \ {c} : Owns(d) => OwnFlight(d)'
    <3> SUFFICES ASSUME NEW d \in Callers \ {c}, Owns(d) PROVE OwnFlight(d)'
      OBVIOUS
    <3>1. ref[d] # ref[c]
      BY <1>1 DEF Sound, OwnersDiffer
    <3>2. flight'[ref[d]] = flight[ref[d]]
      BY <1>3, <1>4, <2>1, <3>1
    <3> QED BY <1>1, <1>5, <3>2 DEF Sound, FlightsAreSound, OwnFlight
  <2>3. \A d \in Callers \ {c} : pc[d] = "waiting" => SharedFlight(d)'
    <3> SUFFICES ASSUME NEW d \in Callers \ {c}, pc[d] = "waiting"
                 PROVE  SharedFlight(d)'
      OBVIOUS
    <3>1. SharedFlight(d) /\ flight'[ref[d]] = over[ref[d]]
      BY <1>4, <2>1 DEF Sound, FlightsAreSound
    <3>2. CASE \E e \in Callers \ {c} :
                 Owns(e) /\ ref[e] = ref[d] /\ req[e] = req[d]
      BY <1>1, <1>5, <3>2 DEF SharedFlight
    <3>3. CASE Owns(c) /\ ref[c] = ref[d] /\ req[c] = req[d]
      BY <1>1, <1>2, <1>3, <1>5, <3>1, <3>3 DEF SharedFlight
    <3>4. CASE /\ flight[ref[d]].done /\ flight[ref[d]].outcome # None
               /\ flight[ref[d]].outcome.key = req[d]
      <4>1. over[ref[d]].done /\ over[ref[d]].outcome = flight[ref[d]].outcome
        BY <1>3, <2>1, <3>4
      <4> QED BY <1>1, <1>5, <3>1, <3>4, <4>1 DEF SharedFlight
    <3> QED BY <3>1, <3>2, <3>3, <3>4 DEF SharedFlight
  <2> QED BY <1>5, <2>2, <2>3 DEF FlightsAreSound
<1> QED BY <1>6, <1>7, <1>8, <1>9 DEF Sound

\* A sharer finds its flight over: it takes a clone or dials for itself.
LEMMA WakeSound ==
  ASSUME Sound, NEW c \in Callers, Wake(c)
  PROVE  Sound'
<1> DEFINE o == flight[ref[c]].outcome
<1>1. /\ pc[c] = "waiting" /\ flight[ref[c]].done
      /\ pc' = [pc EXCEPT ![c] = IF o.ok THEN "returned" ELSE "redialing"]
      /\ answer' = [answer EXCEPT ![c] = IF o.ok THEN o ELSE None]
      /\ ref' = [ref EXCEPT ![c] = None]
      /\ flight' = Forget(c, flight)
      /\ req' = req /\ flying' = flying /\ canceled' = canceled
  BY DEF Wake
<1>2. /\ ref[c] \in Flights /\ req[c] \in Cacheable
      /\ o # None /\ o.key = req[c] /\ o \in Answer
  <2>1. ref[c] \in Flights /\ req[c] \in Cacheable
    BY <1>1 DEF Sound, TypeOK, PointersAreHeld, HoldersRead
  <2>2. ~\E d \in Callers : Owns(d) /\ ref[d] = ref[c]
    BY <1>1 DEF Sound, FlightsAreSound, OwnFlight
  <2>3. o # None /\ o.key = req[c]
    BY <1>1, <2>2 DEF Sound, FlightsAreSound, SharedFlight
  <2> QED BY <2>1, <2>3 DEF Sound, TypeOK, Flight
<1> HIDE DEF o
<1>3. /\ flight' \in [Flights -> Flight]
      /\ \A d \in Callers \ {c} :
           ref[d] \in Flights => flight'[ref[d]] = flight[ref[d]]
  BY <1>1, <1>2, ForgetType DEF Sound, TypeOK
<1>4. /\ pc'[c] = IF o.ok THEN "returned" ELSE "redialing"
      /\ ref'[c] = None /\ answer'[c] = IF o.ok THEN o ELSE None
      /\ \A d \in Callers \ {c} : /\ pc'[d] = pc[d] /\ ref'[d] = ref[d]
                                  /\ answer'[d] = answer[d]
  BY <1>1 DEF Sound, TypeOK
<1>5. TypeOK'
  BY <1>1, <1>2, <1>3 DEF Sound, TypeOK
<1>6. PointersAreHeld' /\ HoldersRead' /\ OwnersDiffer' /\ LeadersAreListed'
  BY <1>1, <1>2, <1>4
     DEF Sound, PointersAreHeld, HoldersRead, OwnersDiffer, LeadersAreListed
<1>7. ListedFlightIsOwned'
  BY <1>1, <1>4 DEF Sound, ListedFlightIsOwned
<1>8. FlightsAreSound'
  <2>1. \A d \in Callers \ {c} :
          Holds(d) => flight'[ref[d]] = flight[ref[d]]
    BY <1>3 DEF Sound, TypeOK, PointersAreHeld
  <2>2. \A d \in Callers \ {c} : Owns(d) => OwnFlight(d)'
    BY <1>1, <1>4, <2>1 DEF Sound, FlightsAreSound, OwnFlight
  <2>3. \A d \in Callers \ {c} : pc[d] = "waiting" => SharedFlight(d)'
    BY <1>1, <1>4, <2>1 DEF Sound, FlightsAreSound, SharedFlight
  <2> QED BY <1>4, <2>2, <2>3 DEF FlightsAreSound
<1> QED BY <1>5, <1>6, <1>7, <1>8 DEF Sound

\* A round trip that is not shared ends.
LEMMA FinishSound ==
  ASSUME Sound, NEW c \in Callers, NEW ok \in BOOLEAN, Finish(c, ok)
  PROVE  Sound'
<1> DEFINE o == [by |-> c, key |-> req[c], ok |-> ok]
<1>1. /\ pc[c] \in {"passing", "redialing"}
      /\ pc' = [pc EXCEPT ![c] = "returned"]
      /\ answer' = [answer EXCEPT ![c] = o]
      /\ req' = req /\ ref' = ref /\ flying' = flying /\ flight' = flight
      /\ canceled' = canceled
  BY DEF Finish
<1>2. o \in Answer /\ o # None
  BY <1>1, FlightAssumption DEF Sound, HoldersRead, Answer
<1>3. /\ pc'[c] = "returned" /\ answer'[c] = o
      /\ \A d \in Callers \ {c} : pc'[d] = pc[d] /\ answer'[d] = answer[d]
  BY <1>1 DEF Sound, TypeOK
<1>4. o.by = c /\ o.key = req[c]
  OBVIOUS
<1> HIDE DEF o
<1>5. TypeOK'
  BY <1>1, <1>2 DEF Sound, TypeOK
<1>6. PointersAreHeld' /\ HoldersRead' /\ OwnersDiffer' /\ LeadersAreListed'
  BY <1>1, <1>3
     DEF Sound, PointersAreHeld, HoldersRead, OwnersDiffer, LeadersAreListed
<1>7. ListedFlightIsOwned'
  BY <1>1, <1>3 DEF Sound, ListedFlightIsOwned
<1>8. FlightsAreSound'
  <2>1. \A d \in Callers \ {c} : Owns(d) => OwnFlight(d)'
    BY <1>1, <1>3 DEF Sound, FlightsAreSound, OwnFlight
  <2>2. \A d \in Callers \ {c} : pc[d] = "waiting" => SharedFlight(d)'
    BY <1>1, <1>3 DEF Sound, FlightsAreSound, SharedFlight
  <2> QED BY <1>3, <2>1, <2>2 DEF FlightsAreSound
<1> QED BY <1>5, <1>6, <1>7, <1>8 DEF Sound

\* A context ends; nothing in the group looks at it.
LEMMA CancelSound ==
  ASSUME Sound, NEW c \in Callers, Cancel(c)
  PROVE  Sound'
<1>1. /\ UNCHANGED <<pc, req, ref, answer, flying, flight>>
      /\ canceled' = canceled \cup {c}
  BY DEF Cancel
<1> QED BY <1>1 DEF Sound, TypeOK, PointersAreHeld, HoldersRead, OwnersDiffer,
                    LeadersAreListed, ListedFlightIsOwned, FlightsAreSound,
                    OwnFlight, SharedFlight

-----------------------------------------------------------------------------
(***************************************************************************)
(* A step of one goroutine leaves it with no answer, as it was, or with an *)
(* answer to its own request, which is its own if it is an error.          *)
(***************************************************************************)
LEMMA NextAnswers ==
  ASSUME IInv, [Next]_vars
  PROVE  AnswersTheRequest'
<1>1. ASSUME NEW c \in Callers, NEW p, NEW k, NEW a,
             pc' = [pc EXCEPT ![c] = p], req' = [req EXCEPT ![c] = k],
             answer' = [answer EXCEPT ![c] = a],
             p = "returned" => /\ a # None /\ a.key = k
                               /\ ~a.ok \/ k \notin Cacheable => a.by = c
      PROVE  AnswersTheRequest'
  BY <1>1 DEF IInv, Sound, TypeOK, AnswersTheRequest
<1>2. ASSUME NEW c \in Callers, NEW k \in Keys, Pass(c, k) \/ Join(c, k) \/ Lead(c, k)
      PROVE  AnswersTheRequest'
  BY <1>1, <1>2 DEF Pass, Join, Lead, Arrive
<1>3. ASSUME NEW c \in Callers, NEW p \in {"captured", "panicked", "released"},
             pc' = [pc EXCEPT ![c] = p], UNCHANGED <<req, answer>>
      PROVE  AnswersTheRequest'
  BY <1>3 DEF IInv, Sound, TypeOK, AnswersTheRequest
<1>4. ASSUME NEW c \in Callers, NEW ok \in BOOLEAN, Finish(c, ok)
      PROVE  AnswersTheRequest'
  <2>1. /\ pc' = [pc EXCEPT ![c] = "returned"] /\ req' = req
        /\ answer' = [answer EXCEPT ![c] = [by |-> c, key |-> req[c], ok |-> ok]]
        /\ req[c] \in Keys
    BY <1>4 DEF Finish, IInv, Sound, HoldersRead
  <2>2. [by |-> c, key |-> req[c], ok |-> ok] # None
    BY <2>1, FlightAssumption DEF Answer
  <2>3. req' = [req EXCEPT ![c] = req[c]]
    BY <2>1 DEF IInv, Sound, TypeOK
  <2> QED BY <1>1, <2>1, <2>2, <2>3
<1>5. ASSUME NEW c \in Callers, Signal(c) PROVE AnswersTheRequest'
  <2>1. /\ pc' = [pc EXCEPT ![c] = "returned"] /\ req' = req
        /\ answer' = [answer EXCEPT ![c] = flight[ref[c]].outcome]
        /\ flight[ref[c]].outcome # None /\ flight[ref[c]].outcome.key = req[c]
        /\ flight[ref[c]].outcome.by = c
    BY <1>5 DEF Signal, IInv, Sound, FlightsAreSound, OwnFlight
  <2>2. req' = [req EXCEPT ![c] = req[c]]
    BY <2>1 DEF IInv, Sound, TypeOK
  <2> QED BY <1>1, <2>1, <2>2
<1>6. ASSUME NEW c \in Callers, Wake(c) PROVE AnswersTheRequest'
  <2> DEFINE o == flight[ref[c]].outcome
  <2>1. /\ pc[c] = "waiting" /\ flight[ref[c]].done /\ req' = req
        /\ pc' = [pc EXCEPT ![c] = IF o.ok THEN "returned" ELSE "redialing"]
        /\ answer' = [answer EXCEPT ![c] = IF o.ok THEN o ELSE None]
    BY <1>6 DEF Wake
  <2>2. o # None /\ o.key = req[c] /\ req[c] \in Cacheable
    BY <2>1 DEF IInv, Sound, FlightsAreSound, SharedFlight, OwnFlight, HoldersRead
  <2>3. req' = [req EXCEPT ![c] = req[c]]
    BY <2>1 DEF IInv, Sound, TypeOK
  <2> QED BY <1>1, <2>1, <2>2, <2>3
<1>7. CASE UNCHANGED <<pc, req, answer>>
  BY <1>7 DEF IInv, AnswersTheRequest
<1> QED BY <1>2, <1>3, <1>4, <1>5, <1>6, <1>7
        DEF Next, vars, DialEnds, Capture, Panic, Release, Cancel

(***************************************************************************)
(* The inductive invariant holds in every state of a single-flight group.  *)
(***************************************************************************)
THEOREM Invariance == Spec => []IInv
<1>1. Init => IInv
  BY InitIInv
<1>2. IInv /\ [Next]_vars => IInv'
  <2> SUFFICES ASSUME IInv, [Next]_vars PROVE Sound'
    BY NextAnswers DEF IInv
  <2> USE DEF IInv
  <2>1. ASSUME NEW c \in Callers, NEW k \in Keys, Pass(c, k) PROVE Sound'
    BY <2>1, PassSound
  <2>2. ASSUME NEW c \in Callers, NEW k \in Keys, Join(c, k) PROVE Sound'
    BY <2>2, JoinSound
  <2>3. ASSUME NEW c \in Callers, NEW k \in Keys, Lead(c, k) PROVE Sound'
    BY <2>3, LeadSound
  <2>4. ASSUME NEW c \in Callers, DialEnds(c) PROVE Sound'
    BY <2>4, CaptureSound, FinishSound DEF DialEnds
  <2>5. ASSUME NEW c \in Callers, Panic(c) PROVE Sound'
    BY <2>5, PanicSound
  <2>6. ASSUME NEW c \in Callers, Release(c) PROVE Sound'
    BY <2>6, ReleaseSound
  <2>7. ASSUME NEW c \in Callers, Signal(c) PROVE Sound'
    BY <2>7, SignalSound
  <2>8. ASSUME NEW c \in Callers, Wake(c) PROVE Sound'
    BY <2>8, WakeSound
  <2>9. ASSUME NEW c \in Callers, Cancel(c) PROVE Sound'
    BY <2>9, CancelSound
  <2>10. CASE UNCHANGED vars
    BY <2>10 DEF vars, Sound, TypeOK, PointersAreHeld, HoldersRead, OwnersDiffer,
                 LeadersAreListed, ListedFlightIsOwned, FlightsAreSound,
                 OwnFlight, SharedFlight
  <2> QED BY <2>1, <2>2, <2>3, <2>4, <2>5, <2>6, <2>7, <2>8, <2>9, <2>10 DEF Next
<1> QED BY <1>1, <1>2, PTL DEF Spec

(***************************************************************************)
(* Concurrent identical reads share one round trip.                        *)
(***************************************************************************)
THEOREM OneOwnerPerKeyHolds == Spec => []OneOwnerPerKey
<1>1. IInv => OneOwnerPerKey
  BY DEF IInv, Sound, LeadersAreListed, OwnersDiffer, OneOwnerPerKey
<1> QED BY <1>1, Invariance, PTL

(***************************************************************************)
(* No request joins a flight that is over.                                 *)
(***************************************************************************)
THEOREM ListedFlightIsOwnedHolds == Spec => []ListedFlightIsOwned
<1>1. IInv => ListedFlightIsOwned
  BY DEF IInv, Sound
<1> QED BY <1>1, Invariance, PTL

(***************************************************************************)
(* No sharer is stranded, unless by a panic: its flight is over, or has an *)
(* owner.                                                                  *)
(***************************************************************************)
THEOREM SharersHaveAnOwnerHolds == Spec => []SharersHaveAnOwner
<1>1. IInv => SharersHaveAnOwner
  BY DEF IInv, Sound, FlightsAreSound, SharedFlight, SharersHaveAnOwner
<1> QED BY <1>1, Invariance, PTL

(***************************************************************************)
(* Everybody is handed an answer to its own request, and an error only if  *)
(* it is its own.                                                          *)
(***************************************************************************)
THEOREM AnswersTheRequestHolds == Spec => []AnswersTheRequest
<1>1. IInv => AnswersTheRequest
  BY DEF IInv
<1> QED BY <1>1, Invariance, PTL
=============================================================================
