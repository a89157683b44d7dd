---------------------------- MODULE RegionChoice ----------------------------
(***************************************************************************)
(* The choice of a region or zone, cloudinfo/region.go: of the regions     *)
(* meant for tests, in the order of their priority, the one with the least *)
(* resources of a kind.                                                    *)
(***************************************************************************)
EXTENDS Integers, Sequences, FiniteSets, SequencesExt, Loops

\* The empty name.
NoName == ""

NoBest == [name |-> NoName, count |-> 0]

\* Places of a list in the order of their priority.  The sort is not stable: those of one
\* priority come in any order.
PriorityOrders(data, places) ==
    {p \in SetToSeqs(places) :
        \A i, k \in DOMAIN p : i < k => data[p[i]].priority <= data[p[k]].priority}

\* The first region, until there is one with less.
Better(best, name, count) ==
    IF best = NoBest \/ count < best.count THEN [name |-> name, count |-> count] ELSE best

\* The region that a loop ends with, which passes over the excluded ones and, where it stops
\* early, goes no further than one without any.
LeastStep(best, n, counts, excluded, early) ==
    IF n \in excluded \/ (early /\ best # NoBest /\ best.count = 0) THEN best
    ELSE Better(best, n, counts[n])

LeastOf(names, counts, excluded, early) ==
    LET best[i \in 0 .. Len(names)] ==
            IF i = 0 THEN NoBest
            ELSE LeastStep(best[i - 1], names[i], counts, excluded, early)
    IN  best[Len(names)].name

\* GetLeastSdnlbTestRegionO: load balancers; the default where no region is left.
GetLeastSdnlbTestRegion(names, counts, trackers, default) ==
    LET best == LeastOf(names, counts, trackers, TRUE) IN IF best = NoName THEN default ELSE best

\* GetRegionWithLeastResources: instances that say which region they are in.
CountIn(instances, region) == Cardinality({i \in DOMAIN instances : instances[i] = region})

CountsIn(instances, names) ==
    [n \in {names[i] : i \in DOMAIN names} |-> CountIn(instances, n)]

GetRegionWithLeastResources(names, instances) ==
    LeastOf(names, CountsIn(instances, names), {}, TRUE)

\* GetRegionWithLeastTransitGateways goes through all regions; the first with least stays.
GetRegionWithLeastTransitGateways(names, locations) ==
    LeastOf(names, CountsIn(locations, names), {}, FALSE)

\* GetRegionWithoutService: every supported region that is free, or the first region that is.
GetRegionWithoutService(names, instances, supported) ==
    LET occupied == {instances[i] : i \in DOMAIN instances}
        free == NotIn(names, occupied)
    IN  IF supported # <<>> THEN NotIn(supported, occupied)
        ELSE IF free = <<>> THEN <<>> ELSE <<Head(free)>>

maxPowerConnectionsPerZone == 2

\* GetLeastPowerConnectionZone: a zone that has no room for a connection is left out.
GetLeastPowerConnectionZone(zones, connections) ==
    LET counts == CountsIn(connections, zones) IN
    LeastOf(zones, counts, {z \in DOMAIN counts : counts[z] >= maxPowerConnectionsPerZone}, TRUE)

\* What each of them answers for one account.
RegionChoices(names, instances, supported, trackers) ==
    [balancers |-> GetLeastSdnlbTestRegion(names, CountsIn(instances, names), trackers, "default"),
     resources |-> GetRegionWithLeastResources(names, instances),
     gateways |-> GetRegionWithLeastTransitGateways(names, instances),
     without |-> GetRegionWithoutService(names, instances, supported),
     zone |-> GetLeastPowerConnectionZone(names, instances)]
-----------------------------------------------------------------------------
\* The region chosen is one of those offered and not excluded, none of them has less, and
\* none that has as little comes before it.
LeastRight(names, counts, excluded, chosen) ==
    LET candidates == {i \in DOMAIN names : names[i] \notin excluded} IN
    IF candidates = {} THEN chosen = NoName
    ELSE \E i \in candidates :
            /\ names[i] = chosen
            /\ \A k \in candidates : counts[names[k]] > counts[chosen]
                                     \/ (counts[names[k]] = counts[chosen] /\ i <= k)

\* Every choice is the first with least among the regions it may choose; a region without a
\* service has none, and only where each has some there is no such region.
RegionsRight(names, instances, supported, trackers, chosen) ==
    LET counts == CountsIn(instances, names)
        crowded == {z \in DOMAIN counts : counts[z] >= maxPowerConnectionsPerZone}
        asked == IF supported = <<>> THEN names ELSE supported
        free == {asked[i] : i \in {k \in DOMAIN asked : CountIn(instances, asked[k]) = 0}}
    IN  /\ LeastRight(names, counts, {}, chosen.resources)
        /\ chosen.gateways = chosen.resources
        /\ LeastRight(names, counts, crowded, chosen.zone)
        /\ IF \A i \in DOMAIN names : names[i] \in trackers THEN chosen.balancers = "default"
           ELSE LeastRight(names, counts, trackers, chosen.balancers)
        /\ {chosen.without[i] : i \in DOMAIN chosen.without} \subseteq free
        /\ chosen.without = <<>> <=> free = {}
        /\ supported # <<>> => free = {chosen.without[i] : i \in DOMAIN chosen.without}
=============================================================================
