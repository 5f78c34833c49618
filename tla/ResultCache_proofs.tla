-------------------------- MODULE ResultCache_proofs --------------------------
(***************************************************************************)
(* Proofs about ResultCache: for every TTL, every number of goroutines and *)
(* keys, and whatever else the goroutines do meanwhile, a read through the *)
(* cache is a bounded read.                                                *)
(***************************************************************************)
EXTENDS ResultCache, TLAPS

\* Init establishes the inductive invariant.
LEMMA InitIInv == Init => IInv
BY DEF Init, IInv, TypeOK, EntriesAreBounded, ReadsAreTimed, Never, Nothing

(***************************************************************************)
(* Every step preserves it.                                                *)
(***************************************************************************)
LEMMA NextIInv == IInv /\ [Next]_vars => IInv'
<1> SUFFICES ASSUME IInv, [Next]_vars PROVE IInv'
  OBVIOUS
<1> USE CacheAssumption DEF Never, Nothing, Failure
<1>1. ASSUME NEW c \in Callers, NEW k \in Keys, Arrive(c, k) PROVE IInv'
  <2>1. /\ pc' = [pc EXCEPT ![c] = IF Caches(k) THEN "looking" ELSE "fetching"]
        /\ req' = [req EXCEPT ![c] = k] /\ now' = [now EXCEPT ![c] = clock]
        /\ told' = [told EXCEPT ![c] = Nothing]
        /\ clock' = clock /\ entries' = entries
    BY <1>1 DEF Arrive
  <2>2. TypeOK' /\ EntriesAreBounded'
    BY <2>1 DEF IInv, TypeOK, EntriesAreBounded
  <2>3. ReadsAreTimed'
    BY <2>1 DEF IInv, TypeOK, ReadsAreTimed, Caches
  <2> QED BY <2>2, <2>3 DEF IInv
<1>2. ASSUME NEW c \in Callers, Hit(c) PROVE IInv'
  <2>1. /\ pc[c] = "looking" /\ req[c] \in Keys /\ entries[req[c]] # None
        /\ pc' = [pc EXCEPT ![c] = "returned"]
        /\ told' = [told EXCEPT ![c] = entries[req[c]].asOf]
        /\ UNCHANGED <<clock, entries, req, now>>
    BY <1>2 DEF Hit, Fresh, IInv, ReadsAreTimed
  <2>2. entries[req[c]].asOf \in Nat
    BY <2>1 DEF IInv, TypeOK, Entry
  <2>3. TypeOK' /\ EntriesAreBounded'
    BY <2>1, <2>2 DEF IInv, TypeOK, EntriesAreBounded
  <2>4. ReadsAreTimed'
    BY <2>1, <2>2 DEF IInv, TypeOK, ReadsAreTimed, Caches
  <2> QED BY <2>3, <2>4 DEF IInv
<1>3. ASSUME NEW c \in Callers, Miss(c) PROVE IInv'
  BY <1>3 DEF Miss, IInv, TypeOK, EntriesAreBounded, ReadsAreTimed, Caches
<1>4. ASSUME NEW c \in Callers, Serve(c) PROVE IInv'
  <2>1. PICK next \in {"storing", "returned"} :
          /\ next = "storing" => Caches(req[c])
          /\ pc' = [pc EXCEPT ![c] = next]
    BY <1>4 DEF Serve, Answered
  <2>2. /\ pc[c] = "fetching" /\ told' = [told EXCEPT ![c] = clock]
        /\ UNCHANGED <<clock, entries, req, now>>
    BY <1>4 DEF Serve, Answered
  <2>3. TypeOK' /\ EntriesAreBounded'
    BY <2>1, <2>2 DEF IInv, TypeOK, EntriesAreBounded
  <2>4. ReadsAreTimed'
    BY <2>1, <2>2 DEF IInv, TypeOK, ReadsAreTimed, Caches
  <2> QED BY <2>3, <2>4 DEF IInv
<1>5. ASSUME NEW c \in Callers, FetchFails(c) PROVE IInv'
  BY <1>5 DEF FetchFails, IInv, TypeOK, EntriesAreBounded, ReadsAreTimed, Caches
<1>6. ASSUME NEW c \in Callers, Store(c) PROVE IInv'
  <2> DEFINE e == [expires |-> now[c] + TTL, asOf |-> told[c]]
  <2>1. /\ pc[c] = "storing" /\ pc' = [pc EXCEPT ![c] = "returned"]
        /\ entries' = [entries EXCEPT ![req[c]] = e]
        /\ UNCHANGED <<clock, req, now, told>>
    BY <1>6 DEF Store, Lifetime
  <2>2. /\ req[c] \in Keys /\ now[c] \in Nat /\ told[c] \in Nat /\ clock \in Nat
        /\ now[c] <= told[c] /\ told[c] <= clock
    BY <2>1 DEF IInv, TypeOK, ReadsAreTimed
  <2>3. /\ e \in Entry /\ e.asOf <= clock /\ e.expires <= e.asOf + TTL
    BY <2>2 DEF Entry
  <2> HIDE DEF e
  <2>4. TypeOK'
    BY <2>1, <2>3 DEF IInv, TypeOK
  <2>5. EntriesAreBounded'
    BY <2>1, <2>2, <2>3 DEF IInv, TypeOK, EntriesAreBounded
  <2>6. ReadsAreTimed'
    BY <2>1, <2>2 DEF IInv, TypeOK, ReadsAreTimed, Caches
  <2> QED BY <2>4, <2>5, <2>6 DEF IInv
<1>7. CASE Tick
  <2>1. clock' = clock + 1 /\ UNCHANGED <<entries, pc, req, now, told>>
    BY <1>7 DEF Tick
  <2>2. TypeOK'
    BY <2>1 DEF IInv, TypeOK
  <2>3. EntriesAreBounded'
    BY <2>1 DEF IInv, TypeOK, Entry, EntriesAreBounded
  <2>4. ReadsAreTimed'
    BY <2>1 DEF IInv, TypeOK, ReadsAreTimed, Caches
  <2> QED BY <2>2, <2>3, <2>4 DEF IInv
<1>8. CASE UNCHANGED vars
  BY <1>8 DEF vars, IInv, TypeOK, EntriesAreBounded, ReadsAreTimed, Caches
<1> QED BY <1>1, <1>2, <1>3, <1>4, <1>5, <1>6, <1>7, <1>8 DEF Next

(***************************************************************************)
(* The inductive invariant holds in every state of the cache.              *)
(***************************************************************************)
THEOREM Invariance == Spec => []IInv
<1> QED BY InitIInv, NextIInv, PTL DEF Spec

-----------------------------------------------------------------------------
(***************************************************************************)
(* One step of the cache is one step of a bounded read, or none.           *)
(***************************************************************************)
LEMMA StepRefines == IInv /\ [Next]_vars => [Promise!Next]_(Promise!boundedReadVars)
<1> SUFFICES ASSUME IInv, [Next]_vars
             PROVE  Promise!Next \/ UNCHANGED <<clock, now, Returned>>
  BY DEF Promise!boundedReadVars
<1> USE CacheAssumption DEF Never, Nothing, Failure, Promise!Never, Promise!Nothing,
                            Promise!Failure
<1>1. ASSUME NEW c \in Callers, NEW k \in Keys, Arrive(c, k) PROVE Promise!Ask(c)
  <2>1. /\ Idle(c)
        /\ pc' = [pc EXCEPT ![c] = IF Caches(k) THEN "looking" ELSE "fetching"]
        /\ now' = [now EXCEPT ![c] = clock]
        /\ told' = [told EXCEPT ![c] = Nothing]
        /\ clock' = clock
    BY <1>1 DEF Arrive
  <2>2. now[c] = Never \/ Returned[c] # Nothing
    BY <2>1 DEF Idle, IInv, ReadsAreTimed, Returned
  <2>3. Returned' = [Returned EXCEPT ![c] = Nothing]
    BY <2>1 DEF Returned, IInv, TypeOK
  <2> QED BY <2>1, <2>2, <2>3 DEF Promise!Ask
<1>2. ASSUME NEW c \in Callers, pc[c] \in {"looking", "fetching", "storing"},
             pc' = [pc EXCEPT ![c] = "returned"],
             NEW t, told' = [told EXCEPT ![c] = t],
             UNCHANGED <<clock, now>>
      PROVE  /\ Promise!Outstanding(c)
             /\ Returned' = [Returned EXCEPT ![c] = t]
  <2>1. now[c] # Never /\ Returned[c] = Nothing
    BY <1>2 DEF IInv, TypeOK, ReadsAreTimed, Returned
  <2>2. Returned' = [Returned EXCEPT ![c] = t]
    BY <1>2 DEF Returned, IInv, TypeOK
  <2> QED BY <2>1, <2>2 DEF Promise!Outstanding
<1>3. ASSUME NEW c \in Callers, pc[c] \in {"looking", "fetching"},
             pc' = [pc EXCEPT ![c] = IF pc[c] = "looking" THEN "fetching" ELSE "storing"],
             \A d \in Callers \ {c} : told'[d] = told[d]
      PROVE  Returned' = Returned
  BY <1>3 DEF Returned, IInv, TypeOK
<1>4. ASSUME NEW c \in Callers, Hit(c) PROVE Promise!Tell(c)
  <2> DEFINE t == entries[req[c]].asOf
  <2>1. /\ pc[c] = "looking" /\ Caches(req[c]) /\ req[c] \in Keys
        /\ entries[req[c]] # None /\ now[c] < entries[req[c]].expires
        /\ pc' = [pc EXCEPT ![c] = "returned"] /\ told' = [told EXCEPT ![c] = t]
        /\ UNCHANGED <<clock, entries, req, now>>
    BY <1>4 DEF Hit, Fresh, IInv, ReadsAreTimed
  <2>2. /\ t \in Nat /\ t <= clock /\ entries[req[c]].expires <= t + TTL
        /\ entries[req[c]].expires \in Int /\ now[c] \in Int /\ clock \in Nat
    BY <2>1 DEF IInv, TypeOK, Entry, EntriesAreBounded
  <2>3. t \in 0 .. clock /\ t >= now[c] - Slack
    BY <2>1, <2>2 DEF Slack, Caches
  <2> QED BY <1>2, <2>1, <2>3 DEF Promise!Tell
<1>5. ASSUME NEW c \in Callers, Miss(c) PROVE UNCHANGED <<clock, now, Returned>>
  BY <1>3, <1>5 DEF Miss
<1>6. ASSUME NEW c \in Callers, Serve(c)
      PROVE  Promise!Tell(c) \/ UNCHANGED <<clock, now, Returned>>
  <2>1. /\ pc[c] = "fetching" /\ told' = [told EXCEPT ![c] = clock]
        /\ UNCHANGED <<clock, entries, req, now>>
    BY <1>6 DEF Serve, Answered
  <2>2. clock \in 0 .. clock /\ clock >= now[c] - Slack
    BY <2>1 DEF IInv, TypeOK, ReadsAreTimed, Slack
  <2>3. CASE pc' = [pc EXCEPT ![c] = "returned"]
    BY <1>2, <2>1, <2>2, <2>3 DEF Promise!Tell
  <2>4. CASE pc' = [pc EXCEPT ![c] = "storing"]
    <3>1. \A d \in Callers \ {c} : told'[d] = told[d]
      BY <2>1 DEF IInv, TypeOK
    <3> QED BY <1>3, <2>1, <2>4, <3>1
  <2> QED BY <1>6, <2>3, <2>4 DEF Serve, Answered
<1>7. ASSUME NEW c \in Callers, FetchFails(c) PROVE Promise!Fail(c)
  BY <1>2, <1>7 DEF FetchFails, Promise!Fail
<1>8. ASSUME NEW c \in Callers, Store(c) PROVE Promise!Tell(c)
  <2>1. /\ pc[c] = "storing" /\ pc' = [pc EXCEPT ![c] = "returned"]
        /\ told' = [told EXCEPT ![c] = told[c]]
        /\ UNCHANGED <<clock, now>>
    BY <1>8 DEF Store, IInv, TypeOK
  <2>2. told[c] \in 0 .. clock /\ told[c] >= now[c] - Slack
    BY <2>1 DEF IInv, TypeOK, ReadsAreTimed, Slack
  <2> QED BY <1>2, <2>1, <2>2 DEF Promise!Tell
<1>9. CASE Tick
  <2>1. Promise!Tick
    BY <1>9 DEF Tick, Promise!Tick, Returned
  <2> QED BY <2>1 DEF Promise!Next
<1>10. CASE UNCHANGED vars
  BY <1>10 DEF vars, Returned
<1> QED BY <1>1, <1>4, <1>5, <1>6, <1>7, <1>8, <1>9, <1>10 DEF Next, Promise!Next

(***************************************************************************)
(* The cache implements a bounded read: no answer is TTL old, or older,    *)
(* when its read asks.                                                     *)
(***************************************************************************)
THEOREM ReadsAreBoundedHolds == Spec => ReadsAreBounded
<1>1. Init => Promise!Init
  BY DEF Init, Promise!Init, Returned, Never, Nothing, Promise!Never, Promise!Nothing
<1> QED BY <1>1, StepRefines, Invariance, PTL DEF Spec, ReadsAreBounded, Promise!Spec

-----------------------------------------------------------------------------
(***************************************************************************)
(* No goroutine evicts an entry another may still be served: the time it   *)
(* took is never ahead of the clock, so what has expired for it has        *)
(* expired.                                                                *)
(***************************************************************************)
THEOREM FreshEntriesStayHolds == Spec => FreshEntriesStay
<1> DEFINE Stay == \A k \in Keys : entries[k] # None /\ entries'[k] = None =>
                     clock >= entries[k].expires
<1>1. ASSUME IInv, [Next]_vars PROVE [Stay]_vars
  <2> SUFFICES ASSUME NEW k \in Keys, entries[k] # None, entries'[k] = None
               PROVE  clock >= entries[k].expires \/ UNCHANGED vars
    OBVIOUS
  <2> USE <1>1
  <2>1. CASE entries' = entries
    BY <2>1
  <2>2. ASSUME NEW c \in Callers, Miss(c) PROVE clock >= entries[k].expires
    <3>1. /\ pc[c] = "looking" /\ ~Fresh(c)
          /\ entries' = [entries EXCEPT ![req[c]] = None]
      BY <2>2 DEF Miss
    <3>2. k = req[c]
      BY <3>1 DEF IInv, TypeOK
    <3>3. entries[k].expires \in Int /\ now[c] \in 0 .. clock
      BY <3>1 DEF IInv, TypeOK, Entry, ReadsAreTimed
    <3>4. ~(now[c] < entries[k].expires)
      BY <3>1, <3>2 DEF Fresh
    <3> QED BY <3>3, <3>4 DEF IInv, TypeOK
  <2>3. ASSUME NEW c \in Callers, Store(c) PROVE FALSE
    <3>1. pc[c] = "storing" /\ req[c] \in Keys
      BY <2>3 DEF Store, IInv, ReadsAreTimed
    <3>2. entries' = [entries EXCEPT ![req[c]] =
                        [expires |-> Lifetime(c), asOf |-> told[c]]]
      BY <2>3 DEF Store
    <3>3. entries'[k] = entries[k] \/
            entries'[k] = [expires |-> Lifetime(c), asOf |-> told[c]]
      BY <3>2 DEF IInv, TypeOK
    <3>4. [expires |-> Lifetime(c), asOf |-> told[c]] \in Entry
      <4>1. now[c] \in Nat /\ told[c] \in Nat
        BY <3>1, <2>3 DEF Store, IInv, TypeOK, ReadsAreTimed
      <4> QED BY <4>1, CacheAssumption DEF Lifetime, Entry
    <3> QED BY <3>3, <3>4, CacheAssumption
  <2> QED BY <2>1, <2>2, <2>3 DEF Next, Tick, Arrive, Hit, Serve, Answered, FetchFails, vars
<1> QED BY <1>1, Invariance, PTL DEF Spec, FreshEntriesStay
=============================================================================
