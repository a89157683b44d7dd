---------------------------- MODULE AddonChecks ----------------------------
(***************************************************************************)
(* What an addon test decides from the project's configurations, without a *)
(* recursion over data: whether they are those expected                    *)
(* (testaddons/dependency_graph.go), whether some that wait refer to one   *)
(* another in a circle, and whether the test goes on (runAddonTest in      *)
(* testaddons/tests.go).                                                   *)
(***************************************************************************)
EXTENDS Integers, Sequences, FiniteSets, SequencesExt, Loops

MissingFrom(list, other) == NotIn(list, ToSet(other))

\* validateDependencies; the graph is a sequence of edges.
ValidateDependencies(graph, expected, deployed) ==
    LET dependencyErrors == NotIn(graph, {e \in ToSet(graph) : e[2] \in ToSet(deployed)})
        unexpected == MissingFrom(deployed, expected)
        missing == MissingFrom(expected, deployed)
    IN  [dependencyErrors |-> dependencyErrors, unexpected |-> unexpected, missing |-> missing,
         valid |-> /\ dependencyErrors = <<>> /\ unexpected = <<>> /\ missing = <<>>
                   /\ Len(expected) = Len(deployed)]

(* The search for a circle: which configurations it has visited, which are on its way, and   *)
(* the first circle it finds, empty as long as there is none.  It is called for one of them  *)
(* with the way to it.                                                                       *)
Searches(graph) == [visited : SUBSET DOMAIN graph, stack : SUBSET DOMAIN graph,
                    cycle : Seq(DOMAIN graph)]
Call(id, search, path) == [id |-> id, search |-> search, path |-> path]
Calls(graph) == [id : DOMAIN graph, search : Searches(graph), path : Seq(DOMAIN graph)]

LookVisitedIsCircleBUG(below, here, s, next) ==
    IF s.cycle # <<>> THEN s
    ELSE IF next \notin s.visited THEN below[Call(next, s, here)]
    ELSE [s EXCEPT !.cycle = Append(here, next)]

\* One dependency, here being the way to it, and below what calls from there answer.
Look(below, here, s, next) ==
    IF s.cycle # <<>> THEN s
    ELSE IF next \notin s.visited THEN below[Call(next, s, here)]
    ELSE IF next \in s.stack THEN [s EXCEPT !.cycle = Append(here, next)]
    ELSE s

\* All dependencies of a configuration, in their order.  A circle that is found ends the search
\* at once, with the stack as it is.
Visit(graph, below, call) ==
    LET id == call.id
        here == Append(call.path, id)
        looks[j \in 0 .. Len(graph[id])] ==
            IF j = 0 THEN [call.search EXCEPT !.visited = @ \cup {id}, !.stack = @ \cup {id}]
            ELSE Look(below, here, looks[j - 1], graph[id][j])
        end == looks[Len(graph[id])]
    IN  IF end.cycle # <<>> THEN end ELSE [end EXCEPT !.stack = @ \ {id}]

\* findCycleDFS goes no deeper than there are configurations: each level, from the last one,
\* is a search that goes on with the level below.
Level(graph, below) == [call \in Calls(graph) |-> Visit(graph, below, call)]
NoLevel(graph) == [call \in Calls(graph) |-> call.search]

FindCycleDFS(graph, id, search) ==
    LET levels == Cardinality(DOMAIN graph)
        dfs[k \in 0 .. levels] == IF k = 0 THEN NoLevel(graph) ELSE Level(graph, dfs[k - 1])
    IN  dfs[levels][Call(id, search, <<>>)]

FromRoot(graph, s, id) ==
    LET found == FindCycleDFS(graph, id, [visited |-> s.visited, stack |-> s.stack, cycle |-> <<>>])
    IN  IF id \in s.visited THEN s
        ELSE [visited |-> found.visited, stack |-> found.stack,
              cycles |-> IF found.cycle = <<>> THEN s.cycles ELSE Append(s.cycles, found.cycle)]

\* detectCircularDependencies: the roots come in the order of a map; the cycles reported.
DetectCircularDependencies(graph, roots) ==
    LET found[i \in 0 .. Len(roots)] ==
            IF i = 0 THEN [visited |-> {}, stack |-> {}, cycles |-> <<>>]
            ELSE FromRoot(graph, found[i - 1], roots[i])
    IN  found[Len(roots)].cycles

(* A configuration of the project has an ID, the code of its state as it is read first, the *)
(* configurations that its inputs refer to ("" where none is named), what the service says  *)
(* of the references ("ok" with an answer for each, of which a bad one is only warned of,   *)
(* "transient" for an error that may be skipped, or "failed"), whether its addon is known,  *)
(* and whether required inputs are missing; "reads" is whether it can be read and given the *)
(* user's inputs.                                                                           *)
NothingYet ==
    [end |-> "", failed |-> FALSE, ready |-> FALSE, waiting |-> <<>>, awaiting |-> <<>>,
     missing |-> <<>>]

InState(config, code, list) == IF config.state = code THEN Append(list, config) ELSE list

\* The user's inputs for one configuration, its references, its required inputs.  An update
\* that fails fails the test, which goes on; an error that is skipped ends the look at the
\* configuration.
Examine(opts, scan, config) ==
    LET read == [scan EXCEPT !.failed = @ \/ config.reads = "not updated",
                             !.ready = @ \/ config.state = "awaiting_validation",
                             !.waiting = InState(config, "awaiting_input", @),
                             !.awaiting = InState(config, "awaiting_prerequisite", @)]
        asks == ~opts.skipRefs /\ config.refs # <<>>
    IN  IF scan.end # "" THEN scan
        ELSE IF config.reads = "unreadable" THEN [scan EXCEPT !.end = "UPDATE_CONFIGURATION"]
        ELSE IF config.reads = "refused"
        THEN [scan EXCEPT !.end = "SETTING_INPUTS", !.failed = TRUE]
        ELSE IF asks /\ config.service = "transient" /\ ~opts.skipInfra THEN read
        ELSE IF asks /\ config.service # "ok"
        THEN [read EXCEPT !.end = "RESOLVE_REFERENCES", !.failed = TRUE]
        ELSE IF config.known /\ config.missing
        THEN [read EXCEPT !.missing = Append(@, config.id)]
        ELSE read

Ids(configs) == {configs[i].id : i \in DOMAIN configs}

\* Whom each of the waiting configurations refers to among them.
WaitsFor(awaiting) ==
    [id \in Ids(awaiting) |->
        LET refs == (CHOOSE c \in ToSet(awaiting) : c.id = id).refs
        IN  Among(refs, Ids(awaiting))]

CircularDependencies(awaiting) ==
    DetectCircularDependencies(WaitsFor(awaiting), [i \in DOMAIN awaiting |-> awaiting[i].id])

\* findUnresolvedReferences.
FindUnresolvedReferences(awaiting, all) ==
    FlattenSeq([i \in DOMAIN awaiting |->
                  NotIn(awaiting[i].refs, Ids(all) \cup {""})])

\* Why the project cannot go on though no input is missing: only when no configuration can
\* be validated are the reasons looked for, and a cycle is a warning if the mode is not
\* strict.
WaitingInputIssues(opts, scan, all) ==
    LET cycles == CircularDependencies(scan.awaiting)
        unresolved == FindUnresolvedReferences(scan.awaiting, all)
    IN  {"waiting" : c \in ToSet(scan.waiting)} \cup
        IF scan.ready THEN {}
        ELSE IF cycles # <<>> THEN (IF opts.strict THEN {"circular"} ELSE {})
        ELSE IF unresolved # <<>> THEN {"unresolved"}
        ELSE IF scan.awaiting # <<>> THEN {"prerequisite"} ELSE {"none ready"}

\* What is found is judged after the dependencies, which explain it; only those are no
\* reason for Testing.Fail.
Verdict(opts, configs, dependenciesValid) ==
    LET scans[i \in 0 .. Len(configs)] ==
            IF i = 0 THEN NothingYet ELSE Examine(opts, scans[i - 1], configs[i])
        scan == scans[Len(configs)]
        issues == WaitingInputIssues(opts, scan, configs)
    IN  IF scan.end # "" THEN [end |-> scan.end, failed |-> scan.failed]
        ELSE IF ~opts.skipDependencies /\ ~dependenciesValid
        THEN [end |-> "DEPENDENCY_VALIDATION", failed |-> scan.failed]
        ELSE IF scan.missing # <<>> THEN [end |-> "MISSING_INPUTS", failed |-> TRUE]
        ELSE IF issues # {} THEN [end |-> "INPUT_VALIDATION", failed |-> TRUE]
        ELSE [end |-> "", failed |-> scan.failed]
-----------------------------------------------------------------------------
\* A project is found valid if and only if its configurations are those expected, each once.
ValidationRight(graph, expected, deployed, result) ==
    result.valid <=> /\ Len(expected) = Len(deployed)
                     /\ ToSet(expected) = ToSet(deployed)
                     /\ \A i \in DOMAIN graph : graph[i][2] \in ToSet(deployed)

\* There is a circle if and only if some configurations each refer to one of them.
Circular(graph) ==
    \E some \in SUBSET DOMAIN graph : some # {} /\ \A x \in some : ToSet(graph[x]) \cap some # {}

\* A circular dependency is reported if and only if there is one, and the first that is
\* reported is one; a later one may be none.
CyclesRight(graph, cycles) ==
    /\ cycles # <<>> <=> Circular(graph)
    /\ cycles # <<>> =>
          LET path == cycles[1] IN
          /\ \A i \in 1 .. Len(path) - 1 : path[i + 1] \in ToSet(graph[path[i]])
          /\ path[Len(path)] \in ToSet(SubSeq(path, 1, Len(path) - 1))

\* A test goes on to deploy only with configurations that can be: none waits for an input,
\* the required inputs are there where they were looked at, one is ready for validation
\* unless the user tolerates a cycle that there is, the dependencies are as expected, and in a
\* test that only validates no error of the service was skipped.
VerdictRight(opts, configs, dependenciesValid, verdict) ==
    verdict.end = "" =>
        LET skipped(c) == ~opts.skipRefs /\ c.refs # <<>> /\ c.service # "ok"
            awaiting == {c \in ToSet(configs) : c.state = "awaiting_prerequisite"}
        IN
        /\ opts.skipDependencies \/ dependenciesValid
        /\ \A c \in ToSet(configs) :
              /\ c.reads \in {"ok", "not updated"} /\ c.state # "awaiting_input"
              /\ c.known /\ c.missing => skipped(c)
              /\ skipped(c) => ~opts.skipInfra /\ c.service = "transient"
        /\ \/ \E c \in ToSet(configs) : c.state = "awaiting_validation"
           \/ ~opts.strict /\ \E some \in SUBSET awaiting :
                 some # {} /\ \A c \in some : \E d \in some : d.id \in ToSet(c.refs)
=============================================================================
