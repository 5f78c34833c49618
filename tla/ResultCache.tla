------------------------------ MODULE ResultCache -----------------------------
(***************************************************************************)
(* The result-cache transport middleware of dedup.go.  A read takes the    *)
(* time once, before it looks its key up, and that one reading decides     *)
(* both whether an entry is fresh and when the entry it may store expires. *)
(* The mutex covers the look-up and the store, not what lies between.      *)
(***************************************************************************)
EXTENDS Integers

CONSTANTS
  Callers,     \* goroutines inside RoundTrip, one request at a time
  Keys,        \* request keys: method, URL and the headers varied on
  Cacheable,   \* the keys whose method is GET or HEAD
  TTL,         \* time to live; not positive means pass through
  MaxClock,    \* bound of the model: the clock stops here
  None         \* no entry, no request

\* History: asOf, when the server produced the cached response.
Entry == [expires : Int, asOf : Nat]

ASSUME CacheAssumption ==
  /\ Cacheable \subseteq Keys
  /\ TTL \in Int
  /\ MaxClock \in Nat
  /\ None \notin Entry

VARIABLES
  clock,      \* what time.Now returns
  entries,    \* ResultCache.entries
  pc,         \* where each goroutine is in RoundTrip
  req,        \* the key of its request
  now,        \* the time it took on entering RoundTrip
  told        \* the moment its response describes the server at

vars == <<clock, entries, pc, req, now, told>>

Never == -1

Nothing == -1

Failure == -2

Idle(c) == pc[c] \in {"idle", "returned"}

Caches(k) == TTL > 0 /\ k \in Cacheable

Init ==
  /\ clock = 0
  /\ entries = [k \in Keys |-> None]
  /\ pc = [c \in Callers |-> "idle"]
  /\ req = [c \in Callers |-> None]
  /\ now = [c \in Callers |-> Never]
  /\ told = [c \in Callers |-> Nothing]

Arrive(c, k) ==
  /\ Idle(c)
  /\ pc' = [pc EXCEPT ![c] = IF Caches(k) THEN "looking" ELSE "fetching"]
  /\ req' = [req EXCEPT ![c] = k]
  /\ now' = [now EXCEPT ![c] = clock]
  /\ told' = [told EXCEPT ![c] = Nothing]
  /\ UNCHANGED <<clock, entries>>

\* Mutant: the entry is served through the instant it expires at.
FreshTooLong(c) ==
  entries[req[c]] # None /\ now[c] <= entries[req[c]].expires

Fresh(c) == entries[req[c]] # None /\ now[c] < entries[req[c]].expires

Hit(c) ==
  /\ pc[c] = "looking"
  /\ Fresh(c)
  /\ pc' = [pc EXCEPT ![c] = "returned"]
  /\ told' = [told EXCEPT ![c] = entries[req[c]].asOf]
  /\ UNCHANGED <<clock, entries, req, now>>

\* Mutant: the miss also evicts an entry in the last tick of its life.
MissEvictsEarly(c) ==
  /\ pc[c] = "looking"
  /\ entries[req[c]] # None => now[c] >= entries[req[c]].expires - 1
  /\ pc' = [pc EXCEPT ![c] = "fetching"]
  /\ entries' = [entries EXCEPT ![req[c]] = None]
  /\ UNCHANGED <<clock, req, now, told>>

\* A stale entry is evicted.
Miss(c) ==
  /\ pc[c] = "looking"
  /\ ~Fresh(c)
  /\ pc' = [pc EXCEPT ![c] = "fetching"]
  /\ entries' = [entries EXCEPT ![req[c]] = None]
  /\ UNCHANGED <<clock, req, now, told>>

\* The transport answers with what held at moment t; only a 2xx read is stored.
Answered(c, t, ok2xx) ==
  /\ pc[c] = "fetching"
  /\ pc' = [pc EXCEPT ![c] = IF ok2xx /\ Caches(req[c]) THEN "storing" ELSE "returned"]
  /\ told' = [told EXCEPT ![c] = t]
  /\ UNCHANGED <<clock, entries, req, now>>

\* A server answers now.
Serve(c) == \E ok2xx \in BOOLEAN : Answered(c, clock, ok2xx)

\* Mutant: the body is stored though reading it failed.
StoreAnyway(c) ==
  /\ pc[c] = "fetching"
  /\ pc' = [pc EXCEPT ![c] = IF Caches(req[c]) THEN "storing" ELSE "returned"]
  /\ told' = [told EXCEPT ![c] = Failure]
  /\ UNCHANGED <<clock, entries, req, now>>

\* The round trip fails, or the body of a 2xx answer cannot be read.
FetchFails(c) ==
  /\ pc[c] = "fetching"
  /\ pc' = [pc EXCEPT ![c] = "returned"]
  /\ told' = [told EXCEPT ![c] = Failure]
  /\ UNCHANGED <<clock, entries, req, now>>

\* Mutant: the entry lives for TTL from the moment it is stored.
LifetimeFromStore(c) == clock + TTL

Lifetime(c) == now[c] + TTL

Store(c) ==
  /\ pc[c] = "storing"
  /\ pc' = [pc EXCEPT ![c] = "returned"]
  /\ entries' = [entries EXCEPT ![req[c]] =
                   [expires |-> Lifetime(c), asOf |-> told[c]]]
  /\ UNCHANGED <<clock, req, now, told>>

Tick ==
  /\ clock < MaxClock
  /\ clock' = clock + 1
  /\ UNCHANGED <<entries, pc, req, now, told>>

Next ==
  \/ Tick
  \/ \E c \in Callers : \/ \E k \in Keys : Arrive(c, k)
                        \/ Hit(c) \/ Miss(c) \/ Serve(c) \/ FetchFails(c)
                        \/ Store(c)

Spec == Init /\ [][Next]_vars

-----------------------------------------------------------------------------
\* The variables keep their types.
TypeOK ==
  /\ clock \in Nat
  /\ entries \in [Keys -> Entry \cup {None}]
  /\ pc \in [Callers -> {"idle", "looking", "fetching", "storing", "returned"}]
  /\ req \in [Callers -> Keys \cup {None}]
  /\ now \in [Callers -> Nat \cup {Never}]
  /\ told \in [Callers -> Nat \cup {Nothing, Failure}]

(***************************************************************************)
(* The cache implements a bounded read: whatever the order in which slow   *)
(* fetches are stored and entries are evicted, no read is answered with a  *)
(* response that is TTL old, or older, when the read asks; and what is not *)
(* cached is never answered from the past.                                 *)
(***************************************************************************)
Slack == IF TTL > 0 THEN TTL - 1 ELSE 0

Returned == [c \in Callers |-> IF pc[c] = "returned" THEN told[c] ELSE Nothing]

Promise == INSTANCE BoundedRead
             WITH Readers <- Callers, asked <- now, told <- Returned

ReadsAreBounded == Promise!Spec

(***************************************************************************)
(* Only what has expired is evicted: a goroutine that took the time long   *)
(* ago never removes an entry others may still use.                        *)
(***************************************************************************)
FreshEntriesStay ==
  [][\A k \in Keys : entries[k] # None /\ entries'[k] = None =>
        clock >= entries[k].expires]_vars

-----------------------------------------------------------------------------
\* An entry expires before its response is more than TTL old.
EntriesAreBounded ==
  \A k \in Keys : entries[k] # None =>
    entries[k].asOf <= clock /\ entries[k].expires <= entries[k].asOf + TTL

\* A read under way took the time before now, and its answer after that.
ReadsAreTimed ==
  \A c \in Callers :
    /\ pc[c] = "idle" => now[c] = Never
    /\ pc[c] # "idle" => req[c] \in Keys /\ now[c] \in 0 .. clock
    /\ pc[c] \in {"looking", "storing"} => Caches(req[c])
    /\ pc[c] = "storing" => told[c] \in now[c] .. clock
    /\ pc[c] = "returned" => told[c] # Nothing

\* What every step preserves, whatever the values of the constants.
IInv == TypeOK /\ EntriesAreBounded /\ ReadsAreTimed
=============================================================================
