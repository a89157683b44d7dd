--------------------------- MODULE RegionSelection ---------------------------
(***************************************************************************)
(* Parallel tests that share a CloudInfoService choose the region they     *)
(* deploy into: GetBestVpcRegionO and GetBestPowerSystemsRegionO           *)
(* (testhelper/general.go) with the list of regions that the service keeps *)
(* (cloudinfo/region.go).  Both hold the service's lock while they choose; *)
(* the choice of a VPC region is several requests, and each may fail.      *)
(***************************************************************************)
EXTENDS RegionChoice

CONSTANTS Testers,        \* parallel tests
          RegionNames,
          PrefsFiles,     \* what a test may come with: a list of regions, or none
          Outages,        \* the regions that may be out of service together
          Trackers,       \* those that may have an activity tracker
          MaxCount,       \* VPCs or connections in a region
          NoTester,
          DefaultRegion   \* what a test falls back to

\* Data about a region; the service says whether it is available.
RegionData == [name : RegionNames, use : BOOLEAN, priority : Int]

ASSUME NoTesterAssumption == NoTester \notin Testers
ASSUME RegionsAssumption == IsFiniteSet(RegionNames) /\ NoName \notin RegionNames
ASSUME CountAssumption == MaxCount \in Nat
\* Nothing keeps a file from naming a region twice.
ASSUME PrefsAssumption == PrefsFiles \subseteq Seq(RegionData)

VARIABLES regionsData,   \* the service's list
          serviceURL,    \* the region that requests go to, NoName for the default one
          lock,          \* who holds the service's lock
          choosing,      \* per tester, the place in the code
          regions,       \* for who holds the lock, the regions that are left to look at
          excluded,      \* those it passes over, which have an activity tracker
          best,
          chosen,        \* per tester, what it was given
          account        \* the regions that are available, and what there is in each

regionVars == <<regionsData, serviceURL, lock, choosing, regions, excluded, best, chosen,
                account>>

RegionInit ==
    /\ regionsData = <<>>
    /\ serviceURL = NoName
    /\ lock = NoTester
    /\ choosing = [t \in Testers |-> "start"]
    /\ regions = <<>>
    /\ excluded = {}
    /\ best = NoBest
    /\ chosen = [t \in Testers |-> NoName]
    /\ account \in [available : {RegionNames \ out : out \in Outages}, count : [RegionNames -> 0 .. MaxCount]]

GoesTo(t, place) == choosing' = [choosing EXCEPT ![t] = place]

\* configureCloudInfoService: the first preferences to be loaded stay.
Configure(t) ==
    /\ choosing[t] = "start"
    /\ lock = NoTester
    /\ \E prefsFile \in PrefsFiles :
          regionsData' = IF regionsData = <<>> THEN prefsFile ELSE regionsData
    /\ GoesTo(t, "configured")
    /\ UNCHANGED <<serviceURL, lock, regions, excluded, best, chosen, account>>

\* The file cannot be read.
ConfigureFails(t) ==
    /\ choosing[t] = "start"
    /\ lock = NoTester
    /\ regionsData = <<>>
    /\ GoesTo(t, "error")
    /\ chosen' = [chosen EXCEPT ![t] = DefaultRegion]
    /\ UNCHANGED <<regionsData, serviceURL, lock, regions, excluded, best, account>>

Lock(t) ==
    /\ choosing[t] = "configured"
    /\ lock = NoTester
    /\ lock' = t
    /\ \E kind \in {"vpc", "power"} : GoesTo(t, kind)
    /\ best' = NoBest
    /\ excluded' \in {{}} \cup Trackers
    /\ UNCHANGED <<regionsData, serviceURL, regions, chosen, account>>

\* The test gets region r, or the default one, and unlocks.
RegionReturned(t, r, place) ==
    /\ chosen' = [chosen EXCEPT ![t] = IF r = NoName THEN DefaultRegion ELSE r]
    /\ GoesTo(t, place)
    /\ lock' = NoTester

\* The service's list, or the regions of the account, which become it where there is none:
\* all meant for tests, all of one priority.
Known ==
    IF regionsData # <<>> THEN regionsData
    ELSE SetToSeq({[name |-> r, use |-> TRUE, priority |-> 100] : r \in account.available})

\* GetTestRegionsByPriority, which lists the account's regions where there is no list, and
\* asks for the details of each region that is meant for tests.
GetTestRegionsByPriority(t) ==
    LET usable == {i \in DOMAIN Known : Known[i].use /\ Known[i].name \in account.available}
    IN  /\ choosing[t] = "vpc"
        /\ regionsData' = Known
        /\ \E p \in PriorityOrders(Known, usable) :
              regions' = [i \in DOMAIN p |-> Known[p[i]].name]
        /\ GoesTo(t, "count")
        /\ UNCHANGED <<serviceURL, lock, excluded, best, chosen, account>>

\* Any of those requests fails, the first one before there is a list.
RegionsFail(t) ==
    /\ choosing[t] = "vpc"
    /\ regionsData' \in {regionsData, Known}
    /\ RegionReturned(t, NoName, "error")
    /\ UNCHANGED <<serviceURL, regions, excluded, best, account>>

\* A region that has an activity tracker is passed over, where the test wants that.
Skip(t) ==
    /\ choosing[t] = "count"
    /\ regions # <<>>
    /\ Head(regions) \in excluded
    /\ regions' = Tail(regions)
    /\ UNCHANGED <<regionsData, serviceURL, lock, choosing, excluded, best, chosen,
                   account>>

\* One region's VPCs; a region without any ends the loop.
ListVpcs(t) ==
    LET n == account.count[Head(regions)] IN
    /\ choosing[t] = "count"
    /\ regions # <<>>
    /\ Head(regions) \notin excluded
    /\ serviceURL' = Head(regions)
    /\ best' = Better(best, Head(regions), n)
    /\ regions' = IF n = 0 THEN <<>> ELSE Tail(regions)
    /\ UNCHANGED <<regionsData, lock, choosing, excluded, chosen, account>>

\* The region's address is refused, which is returned as no region and no error, or its VPCs
\* are not listed.  Neither sets the address back.
ListVpcsFails(t) ==
    /\ choosing[t] = "count"
    /\ regions # <<>>
    /\ Head(regions) \notin excluded
    /\ \/ serviceURL' = serviceURL /\ RegionReturned(t, NoName, "chosen")
       \/ serviceURL' = Head(regions) /\ RegionReturned(t, NoName, "error")
    /\ UNCHANGED <<regionsData, regions, excluded, best, account>>

KeepsRegionBUG(data, r) == data

\* The first entry of that name is no longer meant for tests.
RemoveRegionForTest(data, r) ==
    [i \in DOMAIN data |->
        IF data[i].name = r /\ \A k \in 1 .. i - 1 : data[k].name # r
        THEN [data[i] EXCEPT !.use = FALSE] ELSE data[i]]

\* The region was found, or none was left: an error.
Chosen(t) ==
    /\ choosing[t] = "count"
    /\ regions = <<>>
    /\ serviceURL' = NoName
    /\ IF best = NoBest
       THEN RegionReturned(t, NoName, "error") /\ regionsData' = regionsData
       ELSE /\ RegionReturned(t, best.name, "chosen")
            /\ regionsData' = RemoveRegionForTest(regionsData, best.name)
    /\ UNCHANGED <<regions, excluded, best, account>>

\* The zones of a list that are meant for tests, in its order.
ZonesOf(data) ==
    NotIn([i \in DOMAIN data |-> IF data[i].use THEN data[i].name ELSE NoName], {NoName})

\* GetLeastPowerConnectionZone sorts the service's own list, before it asks for the connections
\* of the account; an empty list is an error, as no zone is.
ChoosePowerZone(t) ==
    /\ choosing[t] = "power"
    /\ \E p \in PriorityOrders(regionsData, DOMAIN regionsData) :
          LET sorted == [i \in DOMAIN p |-> regionsData[p[i]]]
              crowded == {n \in RegionNames : account.count[n] >= maxPowerConnectionsPerZone}
              zone == LeastOf(ZonesOf(sorted), account.count, crowded, TRUE)
          IN  \/ /\ regionsData' = sorted
                 /\ RegionReturned(t, NoName, "error")
              \/ /\ zone # NoName
                 /\ regionsData' = RemoveRegionForTest(sorted, zone)
                 /\ RegionReturned(t, zone, "chosen")
    /\ UNCHANGED <<serviceURL, regions, excluded, best, account>>

TesterStep(t) ==
    \/ Configure(t)
    \/ ConfigureFails(t)
    \/ Lock(t)
    \/ GetTestRegionsByPriority(t)
    \/ RegionsFail(t)
    \/ Skip(t)
    \/ ListVpcs(t)
    \/ ListVpcsFails(t)
    \/ Chosen(t)
    \/ ChoosePowerZone(t)

RegionNext == \E t \in Testers : TesterStep(t)

RegionSpec == RegionInit /\ [][RegionNext]_regionVars
-----------------------------------------------------------------------------
\* The list names region r no more than once.
NamedOnce(data, r) == \A i, k \in DOMAIN data : data[i].name = r /\ data[k].name = r => i = k

\* Tests that share the service are never given the same region: other than the default one,
\* which a test falls back to, and one that the list of preferences names more than once, of
\* which RemoveRegionForTest takes the first entry only.
OneTestPerRegion ==
    \A t, u \in Testers :
        t # u /\ chosen[t] = chosen[u] =>
            chosen[t] \in {NoName, DefaultRegion} \/ ~NamedOnce(regionsData, chosen[t])
=============================================================================
