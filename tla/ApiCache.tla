------------------------------ MODULE ApiCache ------------------------------
(***************************************************************************)
(* The cache of API answers of a CloudInfoService (cloudinfo/service.go)   *)
(* and the four catalog lookups that use it (cloudinfo/catalog.go).        *)
(* Lookups run in parallel; an entry is looked at, the service is asked    *)
(* and the answer is stored in separate steps, between which others look   *)
(* up, store and clear.  An answer, which may be an error (errors are      *)
(* stored like results), is known by what it is an answer about and by     *)
(* when the service gave it: its content is what the catalog held then.    *)
(***************************************************************************)
EXTENDS Integers, FiniteSets

CONSTANTS Lookups,      \* goroutines that look something up
          Offerings,    \* a catalog's offerings
          Versions,     \* version locators
          Constraints,  \* a version constraint and a flavor
          Bypass,       \* BYPASS_CACHE_FOR_VALIDATION
          TTL, MaxTime, \* in ticks of the clock
          MaxLookups,   \* lookups of all goroutines
          NoOne

ASSUME TTLAssumption == TTL \in Nat
ASSUME MaxAssumption == MaxTime \in Nat /\ MaxLookups \in Nat
ASSUME OfferingsAssumption == Offerings # {}
ASSUME BypassAssumption == Bypass \in BOOLEAN
ASSUME NoOneAssumption == NoOne \notin Lookups

(* The four caches and their keys. *)
OfferingKey(o) == [cache |-> "offering", of |-> o]
LocatorKey(o, c) == [cache |-> "locator", of |-> <<o, c>>]
VersionKey(v) == [cache |-> "version", of |-> v]
ReferencesKey(v) == [cache |-> "references", of |-> v]

Keys == {OfferingKey(o) : o \in Offerings} \cup {VersionKey(v) : v \in Versions}
          \cup {ReferencesKey(v) : v \in Versions}
          \cup {LocatorKey(o, c) : o \in Offerings, c \in Constraints}

\* The offering that a version locator is computed from.
OfferingOf(key) == OfferingKey(key.of[1])

NoAnswer == [about |-> NoOne, at |-> 0]
NoEntry == [answer |-> NoAnswer, stored |-> 0]

VARIABLES now,
          cache,      \* key -> the answer and the time it was stored, or NoEntry
          flight,     \* offering key -> the goroutine whose request the others share
          pc,         \* per goroutine, the place in the code
          wanted,     \* the key that was asked for
          answer,     \* what the service or the cache has answered
          done        \* lookups made

cacheVars == <<now, cache, flight, pc, wanted, answer, done>>

CacheInit ==
    /\ now = 0
    /\ cache = [k \in Keys |-> NoEntry]
    /\ flight = [k \in Keys |-> NoOne]
    /\ pc = [l \in Lookups |-> "idle"]
    /\ wanted = [l \in Lookups |-> CHOOSE k \in Keys : TRUE]
    /\ answer = [l \in Lookups |-> NoAnswer]
    /\ done = 0

To(l, place) == pc' = [pc EXCEPT ![l] = place]

\* The key that a goroutine is at: that of the offering while a locator waits for it.
At(l) == IF wanted[l].cache = "locator" /\ pc[l] \in {"offering", "fly", "land", "fetch", "keep"}
         THEN OfferingOf(wanted[l]) ELSE wanted[l]

NeverExpiresBUG(entry) == FALSE

IsExpired(entry) == now - entry.stored > TTL

\* An entry that has not expired, read under the read lock.
Hit(k) == cache[k] # NoEntry /\ ~IsExpired(cache[k])

Store(k, a) == cache' = [cache EXCEPT ![k] = [answer |-> a, stored |-> now]]

\* A goroutine looks something up.
Ask(l, k) ==
    /\ pc[l] \in {"idle", "done"}
    /\ done < MaxLookups
    /\ wanted' = [wanted EXCEPT ![l] = k]
    /\ done' = done + 1
    /\ To(l, IF k.cache = "offering" THEN "offering" ELSE "look")
    /\ answer' = [answer EXCEPT ![l] = NoAnswer]
    /\ UNCHANGED <<now, cache, flight>>

\* What the cache answers; otherwise the lookup goes on.
HitOrElse(l, use, hit, miss) ==
    /\ IF use /\ Hit(At(l))
       THEN answer' = [answer EXCEPT ![l] = cache[At(l)].answer] /\ To(l, hit)
       ELSE answer' = answer /\ To(l, miss)
    /\ UNCHANGED <<now, cache, flight, wanted, done>>

\* GetCatalogVersionByLocator: the bypass skips the look at the cache, not the storing.
GetCatalogVersionByLocator(l) ==
    pc[l] = "look" /\ wanted[l].cache = "version" /\ HitOrElse(l, ~Bypass, "done", "fetch")

GetComponentReferences(l) ==
    pc[l] = "look" /\ wanted[l].cache = "references" /\ HitOrElse(l, TRUE, "done", "fetch")

\* GetOfferingVersionLocatorByConstraint goes on with GetOffering.
GetVersionLocator(l) ==
    pc[l] = "look" /\ wanted[l].cache = "locator" /\ HitOrElse(l, TRUE, "done", "offering")

\* Where an offering is returned to.
Returns(l) == IF wanted[l].cache = "locator" THEN "compute" ELSE "done"

GetOffering(l) == pc[l] = "offering" /\ HitOrElse(l, TRUE, Returns(l), "fly")

SingleflightKey(k) == k

\* Singleflight: the first to come asks the service and the others wait for its answer.
Fly(l) ==
    LET k == SingleflightKey(At(l)) IN
    /\ pc[l] = "fly"
    /\ IF flight[k] = NoOne
       THEN flight' = [flight EXCEPT ![k] = l] /\ To(l, "fetch")
       ELSE flight' = flight /\ To(l, "land")
    /\ UNCHANGED <<now, cache, wanted, answer, done>>

LeadersOnlyBUG(l, k) == {l}

\* Those who share the answer to the request for k that l has made.
Passengers(l, k) ==
    {l} \cup {x \in Lookups : pc[x] = "land" /\ flight[SingleflightKey(At(x))] = l}

\* The service answers, or every attempt of the retried request has failed.
Fetch(l) ==
    LET k == At(l)
        together == Passengers(l, k)
    IN  /\ pc[l] = "fetch"
        /\ answer' = [x \in Lookups |-> IF x \in together THEN [about |-> k, at |-> now]
                                        ELSE answer[x]]
        /\ pc' = [x \in Lookups |-> IF x \in together THEN "keep" ELSE pc[x]]
        /\ flight' = [f \in Keys |-> IF flight[f] = l THEN NoOne ELSE flight[f]]
        /\ UNCHANGED <<now, cache, wanted, done>>

\* Each of them stores the answer, with the time of its own.
Keep(l) ==
    /\ pc[l] = "keep"
    /\ Store(At(l), answer[l])
    /\ To(l, IF At(l).cache = "offering" THEN Returns(l) ELSE "done")
    /\ UNCHANGED <<now, flight, wanted, answer, done>>

\* A version locator is computed from the offering and is stored as an answer of this
\* moment, like the errors that there is no such offering, or no version of it that meets
\* the constraint.
Compute(l) ==
    LET located == [about |-> wanted[l], at |-> answer[l].at]
    IN  /\ pc[l] = "compute"
        /\ Store(wanted[l], located)
        /\ answer' = [answer EXCEPT ![l] = located]
        /\ To(l, "done")
        /\ UNCHANGED <<now, flight, wanted, done>>

ClearCache ==
    /\ cache' = [k \in Keys |-> NoEntry]
    /\ UNCHANGED <<now, flight, pc, wanted, answer, done>>

\* Time passes while a lookup waits for the service, not while it handles an answer: the
\* time to live is minutes.
Tick ==
    /\ now < MaxTime
    /\ \A l \in Lookups : pc[l] \notin {"keep", "compute"}
    /\ now' = now + 1
    /\ UNCHANGED <<cache, flight, pc, wanted, answer, done>>

LookupStep(l) ==
    \/ GetOffering(l)
    \/ GetVersionLocator(l)
    \/ GetCatalogVersionByLocator(l)
    \/ GetComponentReferences(l)
    \/ Fly(l)
    \/ Fetch(l)
    \/ Keep(l)
    \/ Compute(l)

CacheNext ==
    \/ Tick
    \/ ClearCache
    \/ \E l \in Lookups : LookupStep(l) \/ \E k \in Keys : Ask(l, k)

\* A lookup that can go on does; the service answers in the end.
CacheFairness == \A l \in Lookups : WF_cacheVars(LookupStep(l))

CacheSpec == CacheInit /\ [][CacheNext]_cacheVars /\ CacheFairness
-----------------------------------------------------------------------------
Answers == [about : Keys \cup {NoOne}, at : Nat]

\* Every variable keeps to its type.
CacheTypeOK ==
    /\ now \in 0 .. MaxTime
    /\ cache \in [Keys -> [answer : Answers, stored : Nat]]
    /\ flight \in [Keys -> Lookups \cup {NoOne}]
    /\ pc \in [Lookups -> {"idle", "look", "offering", "fly", "land", "fetch", "keep",
                           "compute", "done"}]
    /\ wanted \in [Lookups -> Keys]
    /\ answer \in [Lookups -> Answers]
    /\ done \in 0 .. MaxLookups

\* How old an answer may be: a version locator that is stored as new may have been
\* computed from an offering that was about to expire.
Age(k) == CASE k.cache = "locator" -> 2 * TTL
            [] k.cache = "version" /\ Bypass -> 0
            [] OTHER -> TTL

\* What a lookup returns is an answer to what it has asked for, whether it comes from the
\* service, from the cache or from another goroutine's request, and is no older than the
\* time to live, or twice that where one cached answer is made from another.
AnswersAreRightAndFresh ==
    [][\A l \in Lookups : pc[l] # "done" /\ pc'[l] = "done" =>
         /\ answer'[l].about = wanted[l]
         /\ now - answer'[l].at <= Age(wanted[l])]_cacheVars

\* Every lookup returns, those that wait for another goroutine's request included.
LookupsEnd == \A l \in Lookups : pc[l] # "idle" ~> pc[l] = "done"
=============================================================================
