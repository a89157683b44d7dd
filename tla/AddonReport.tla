----------------------------- MODULE AddonReport -----------------------------
(***************************************************************************)
(* What an addon test and a permutation run tell of their failures: the    *)
(* trees of testaddons/print_utils.go and the report with its analysis of  *)
(* causes, testaddons/permutation_report.go.  A text is what it names; its *)
(* layout is left out.                                                     *)
(***************************************************************************)
EXTENDS AddonDependencies

LOCAL INSTANCE SequencesExt
LOCAL INSTANCE Functions

(* The trees: lines of a depth, a node, and whether the node is already above. *)
Line(path, node, again) == [depth |-> Len(path), node |-> node, again |-> again]

Children(graph, node) ==
    LET edges == SelectSeq(graph, LAMBDA e : e[1] = node)
    IN  [i \in DOMAIN edges |-> edges[i][2]]

\* The root: what is nobody's dependency, or else the first.
RootOf(graph, list) ==
    LET free == SelectSeq(list, LAMBDA n : \A i \in DOMAIN graph : graph[i][2] # n)
    IN  IF free = <<>> THEN Head(list) ELSE Head(free)

\* visited is cleared when a branch is left, so that it holds the path.
ShownAbove(path, node) == node \in ToSet(path)

RECURSIVE PrintAddonTree(_, _, _)

\* printAddonTree, printAddonTreeWithStatusAndPath.
PrintAddonTree(graph, node, path) ==
    IF ShownAbove(path, node) THEN <<Line(path, node, TRUE)>>
    ELSE FoldLeft(LAMBDA lines, n : lines \o PrintAddonTree(graph, n, Append(path, node)),
                  <<Line(path, node, FALSE)>>, Children(graph, node))

\* findDeployedDependencies: a node that has no dependencies is given those configurations
\* that were not expected, but for itself.
FindDeployedDependencies(node, validation) ==
    SelectSeq(validation.unexpected, LAMBDA n : n # node)

RECURSIVE PrintComprehensiveTree(_, _, _, _)

PrintComprehensiveTree(graph, validation, node, path) ==
    LET known == Children(graph, node)
        below == IF known # <<>> THEN known ELSE FindDeployedDependencies(node, validation)
    IN  IF ShownAbove(path, node) THEN <<Line(path, node, TRUE)>>
        ELSE FoldLeft(LAMBDA lines, n :
                         lines \o PrintComprehensiveTree(graph, validation, n, Append(path, node)),
                      <<Line(path, node, FALSE)>>, below)

\* All that is deployed and what is missing, below what is nobody's dependency.
BuildComprehensiveDeploymentTree(deployed, validation) == deployed \o validation.missing

PrintDeployment(graph, deployed, validation) ==
    LET all == BuildComprehensiveDeploymentTree(deployed, validation)
        among == SelectSeq(graph, LAMBDA e : e[1] \in ToSet(all))
    IN  IF all = <<>> THEN <<>>
        ELSE PrintComprehensiveTree(graph, validation, RootOf(among, all), <<>>)

\* getConfigStatus.
GetConfigStatus(validation, node) ==
    IF node \in ToSet(validation.missing) THEN "missing"
    ELSE IF node \in ToSet(validation.unexpected) THEN "unexpected"
    ELSE IF \E i \in DOMAIN validation.dependencyErrors : validation.dependencyErrors[i][1] = node
    THEN "dependency issue" ELSE "added"

\* The path from the node that comes again back to it.
FindCycleInPath(path, node) ==
    LET starts == {i \in DOMAIN path : path[i] = node}
    IN  IF starts = {} THEN <<node, node>>
        ELSE Append(SubSeq(path, CHOOSE i \in starts : \A k \in starts : i <= k, Len(path)), node)

(* The report.  A result has a name and whether it has passed; its validation (or none, with *)
(* all of it empty and valid); transient and runtime errors; the dependencies that were      *)
(* enabled and disabled; strict mode and the warnings it would have failed for.  A missing   *)
(* input, and a configuration error, is a configuration, its inputs and the form of the text *)
(* that names them: "c (missing: i)" is short, "missing required inputs: c (missing: i)"     *)
(* full, "c missing required inputs: i" named, "missing: i" simple, any other unknown.  A    *)
(* message is what it says, and the configurations of a circle that it tells of.             *)

\* classifyMessage; the summary of the missing configurations is a general message, since
\* it does not have the words that are looked for.
ClassifyMessage(message) ==
    CASE message.says = "same"        -> "success"
      [] message.says = "unexpected configs" -> "unexpected config"
      [] message.says = "circular"    -> "circular dependency"
      [] message.says = "dependency errors" -> "dependency error"
      [] message.says = "missing inputs" -> "input validation"
      [] OTHER -> "general"

ShouldFilterMessage(message) == ClassifyMessage(message) = "success"

HasValidationErrors(v) ==
    \/ ~v.valid
    \/ \E list \in {"dependencyErrors", "unexpected", "missing", "missingInputs", "configErrors"} :
          v[list] # <<>>
    \/ \E i \in DOMAIN v.messages : ~ShouldFilterMessage(v.messages[i])

Failed(results) == SelectSeq(results, LAMBDA r : ~r.passed)

\* extractConfigAndInput, groupMissingInputsByConfig: the first of the inputs, each once, of
\* the two forms that are known here.  The full form has the end of the short one and is read
\* as that: its first words stay with the name of the configuration, which makes a group of
\* its own.
GroupMissingInputsByConfig(missing) ==
    {<<missing[i].form, missing[i].config, Head(missing[i].inputs)>> :
        i \in {k \in DOMAIN missing : missing[k].form \in {"short", "full"}}}

\* buildFailedTestReport: the lines of one failed test.
Box(result) ==
    LET v == result.validation
        section(name, items) == {<<name, items[i]>> : i \in DOMAIN items}
    IN  section("transient", result.transient) \cup section("runtime", result.runtime)
        \cup IF ~HasValidationErrors(v) THEN {}
             ELSE {<<"input", x>> : x \in GroupMissingInputsByConfig(v.missingInputs)}
                  \cup section("dependency", v.dependencyErrors)
                  \cup section("unexpected", v.unexpected) \cup section("missing", v.missing)
                  \cup section("config", v.configErrors)
                  \cup section("message", SelectSeq(v.messages, LAMBDA m : ~ShouldFilterMessage(m)))

CountOf(results, Test(_)) == Cardinality({i \in DOMAIN results : Test(results[i])})

\* generateErrorDistribution.
ErrorDistribution(results) ==
    LET failed == Failed(results)
    IN  [validation |-> CountOf(failed, LAMBDA r : HasValidationErrors(r.validation)),
         transient |-> CountOf(failed, LAMBDA r : r.transient # <<>>),
         runtime |-> CountOf(failed, LAMBDA r : r.runtime # <<>>)]

\* ExtractInputPatternWithOffering: the offering of a configuration is found by its name,
\* which stands for it otherwise; the simple form names none.
PatternOf(missing, offerings) ==
    [offering |-> IF missing.form = "simple" THEN "Unknown"
                  ELSE IF missing.config \in DOMAIN offerings THEN offerings[missing.config]
                  ELSE missing.config,
     input |-> Head(missing.inputs)]

\* The texts of a failed test that a pattern is found in.  The full form is rewritten before
\* it is looked at (parseConfigurationError), and is not recognised any more; of the
\* configuration errors only those are looked at that speak of required inputs.
Recognised(result) ==
    LET v == result.validation IN
    IF result.passed \/ ~HasValidationErrors(v) THEN <<>>
    ELSE SelectSeq(v.missingInputs, LAMBDA m : m.form \in {"short", "named", "simple"})
         \o SelectSeq(v.configErrors, LAMBDA m : m.form = "named")

Patterns(result) ==
    LET texts == Recognised(result) IN [k \in DOMAIN texts |-> PatternOf(texts[k], result.offerings)]

\* The failed tests in which a pattern of missing inputs is seen, once for each time.
Seen(results, pattern) ==
    FlattenSeq([i \in DOMAIN results |->
        LET hits == SelectSeq(Patterns(results[i]), LAMBDA p : p = pattern)
        IN  [k \in DOMAIN hits |-> i]])

DisabledInSomeBUG(results, tests) == UNION {results[tests[k]].disabled : k \in DOMAIN tests}

FindCommonDisabledDependencies(results, tests) ==
    {d \in results[tests[1]].disabled : \A k \in DOMAIN tests : d \in results[tests[k]].disabled}

\* findMostLikelyRootCause looks for one of these words in both names; a name is the word here.
Correlated(dependency, input) == dependency = input /\ input \in {"cos", "logs", "kms", "monitoring"}

\* The one dependency that all of them have disabled, or one of several that the input is
\* named like; "" for none.
RootCauses(results, tests, input) ==
    LET common == FindCommonDisabledDependencies(results, tests)
        likely == {d \in common : Correlated(d, input)}
    IN  IF Cardinality(common) = 1 THEN common ELSE IF likely = {} THEN {""} ELSE likely

\* analyzeConfigurationErrors: the patterns, each with its count and what may be its cause.
AnalyzeConfigurationErrors(results) ==
    {[pattern |-> p, count |-> Len(Seen(results, p)),
      causes |-> RootCauses(results, Seen(results, p), p.input)] :
        p \in UNION {ToSet(Patterns(r)) : r \in ToSet(results)}}

\* What analyzeValidationErrors counts of one test: a summary of missing configurations is
\* counted beside them.
ValidationPatterns(result) ==
    LET v == result.validation
        all == [i \in DOMAIN v.dependencyErrors |-> <<"missing dependency", v.dependencyErrors[i]>>]
               \o [i \in DOMAIN v.unexpected |-> <<"unexpected config", v.unexpected[i]>>]
               \o [i \in DOMAIN v.missing |-> <<"missing config", v.missing[i]>>]
               \o SelectSeq([i \in DOMAIN v.messages |->
                                <<ClassifyMessage(v.messages[i]), v.messages[i].circle>>],
                            LAMBDA m : m[1] \in {"circular dependency", "general"})
    IN  IF result.passed \/ v.valid THEN <<>> ELSE all

AnalyzeValidationErrors(results) ==
    FlattenSeq([i \in DOMAIN results |-> ValidationPatterns(results[i])])

\* analyzeTransientErrors: the tests, and the first two errors.
AnalyzeTransientErrors(results) ==
    LET first(list) == SubSeq(list, 1, IF Len(list) < 2 THEN Len(list) ELSE 2)
        failed == Failed(results)
        all(Errs(_)) == FlattenSeq([i \in DOMAIN failed |-> Errs(failed[i])])
    IN  [runtimeCount |-> CountOf(failed, LAMBDA r : r.runtime # <<>>),
         runtimeSamples |-> first(all(LAMBDA r : r.runtime)),
         deploymentCount |-> CountOf(failed, LAMBDA r : r.transient # <<>>),
         deploymentSamples |-> first(all(LAMBDA r : r.transient))]

\* checkErrorAccounting: the failures that the analysis has no pattern for; a test that has
\* several patterns makes up for one that has none.
Unaccounted(results) ==
    LET counts == [p \in AnalyzeConfigurationErrors(results) |-> p.count]
        transientOnly == {r.name : r \in {x \in ToSet(Failed(results)) :
                             x.transient # <<>> /\ ~HasValidationErrors(x.validation)}}
    IN  Len(Failed(results)) - FoldFunction(LAMBDA a, b : a + b, 0, counts)
        - Len(AnalyzeValidationErrors(results)) - Cardinality(transientOnly)

\* isRootOfferingError: an offering that no test has disabled.
IsRootOfferingError(results, offering) == \A i \in DOMAIN results : offering \notin results[i].disabled

\* extractConfigNamesFromCircularChain: each name once, in the order of the circle.
NamesOfCircle(circle) ==
    FoldLeft(LAMBDA names, c : IF c \in ToSet(names) THEN names ELSE Append(names, c), <<>>, circle)

\* generateActionItems: for a pattern with a cause, what to map; and for a circle of at least
\* two configurations, which to part.
GenerateActionItems(results) ==
    LET circles == SelectSeq(AnalyzeValidationErrors(results),
                             LAMBDA p : p[1] = "circular dependency" /\ Len(NamesOfCircle(p[2])) >= 2)
        told == ToSet(circles)
    IN  [mappings |->
            UNION {{[offering |-> p.pattern.offering, input |-> p.pattern.input, cause |-> c,
                     fixes |-> p.count] : c \in p.causes \ {""}} :
                       p \in AnalyzeConfigurationErrors(results)},
         circles |-> {[between |-> SubSeq(NamesOfCircle(p[2]), 1, 2),
                       affects |-> Len(SelectSeq(circles, LAMBDA q : q = p))] : p \in told}]

\* generateStrictModeWarningsSection: of the tests that have passed without strict mode.
StrictModeWarnings(results) ==
    FlattenSeq([i \in DOMAIN results |->
        LET r == results[i] IN
        IF r.passed /\ ~r.strict
        THEN SelectSeq(r.warnings, LAMBDA w : w \in {"circular", "force-enabled"}) ELSE <<>>])

GeneratePermutationReport(results) ==
    [total |-> Len(results), passed |-> CountOf(results, LAMBDA r : r.passed),
     failed |-> Len(Failed(results)), distribution |-> ErrorDistribution(results),
     boxes |-> [i \in DOMAIN Failed(results) |-> Box(Failed(results)[i])],
     config |-> AnalyzeConfigurationErrors(results),
     validation |-> AnalyzeValidationErrors(results),
     transient |-> AnalyzeTransientErrors(results), actions |-> GenerateActionItems(results),
     strict |-> StrictModeWarnings(results), unaccounted |-> Unaccounted(results)]
-----------------------------------------------------------------------------
\* What can be reached from a set of nodes; three nodes have dependencies at most.
Closure(graph, s) ==
    LET further(t) == t \cup {graph[i][2] : i \in {k \in DOMAIN graph : graph[k][1] \in t}}
    IN  further(further(further(s)))

Cyclic(graph, nodes) == \E n \in nodes : n \in Closure(graph, ToSet(Children(graph, n)))

\* A tree ends, shows everything that can be reached, and marks something as circular if and
\* only if there is a cycle there.
TreesRight(graph, root, lines) ==
    /\ {lines[i].node : i \in DOMAIN lines} = Closure(graph, {root})
    /\ (\E i \in DOMAIN lines : lines[i].again) <=> Cyclic(graph, Closure(graph, {root}))

\* So it is with the tree of a deployment and one configuration that was not expected; with
\* two, each is shown below the other and marked as circular.  Only what is deployed is
\* unexpected.
DeploymentRight(graph, deployed, validation, lines) ==
    /\ Len(validation.unexpected) <= 1 /\ ~Cyclic(graph, {graph[i][1] : i \in DOMAIN graph})
       => \A i \in DOMAIN lines : ~lines[i].again
    /\ \A n \in ToSet(deployed \o validation.missing) :
          GetConfigStatus(validation, n) = "unexpected" => n \in ToSet(deployed)

\* The lines of a box are the errors of its test and no other: its transient and runtime
\* errors, and all that the validation found.  Of a text of missing inputs only the first input
\* is shown, and none of a form that the box does not know.
BoxRight(result, box) ==
    LET v == result.validation
        of(section) == {b[2] : b \in {x \in box : x[1] = section}}
    IN  /\ {b[1] : b \in box} \subseteq {"transient", "runtime", "input", "dependency", "unexpected",
                                        "missing", "config", "message"}
        /\ of("transient") = ToSet(result.transient) /\ of("runtime") = ToSet(result.runtime)
        /\ of("dependency") = ToSet(v.dependencyErrors)
        /\ of("unexpected") = ToSet(v.unexpected) /\ of("missing") = ToSet(v.missing)
        /\ of("config") = ToSet(v.configErrors)
        /\ of("message") = {m \in ToSet(v.messages) : m.says # "same"}
        /\ of("input") = {<<m.form, m.config, m.inputs[1]>> :
                             m \in {x \in ToSet(v.missingInputs) : x.form \in {"short", "full"}}}

\* A failure is in the analysis if a pattern of it is counted there, or if it is told among
\* the transient and runtime errors.
InAnalysis(result) ==
    \/ Recognised(result) # <<>> \/ ValidationPatterns(result) # <<>>
    \/ result.transient # <<>> \/ result.runtime # <<>>

\* Every failed test has a box, which is right; what is named as the cause of a missing input
\* was disabled in every failed test that a text of that input is recognised in; the two
\* configurations of a circle are two, and some failed test told of a circle with both; and
\* when the analysis says nothing of failures it has left out, every failed test is in it:
\* unless some test has two patterns, since it counts patterns and one test makes up for another.
ReportRight(results, report) ==
    LET failed == Failed(results) IN
    /\ report.passed + report.failed = report.total
    /\ Len(report.boxes) = report.failed
    /\ \A i \in DOMAIN failed : BoxRight(failed[i], report.boxes[i])
    /\ \A a \in report.actions.mappings : \A i \in DOMAIN failed :
          [offering |-> a.offering, input |-> a.input] \in ToSet(Patterns(failed[i]))
          => a.cause \in failed[i].disabled
    /\ \A a \in report.actions.circles :
          /\ a.between[1] # a.between[2]
          /\ \E i \in DOMAIN failed : \E m \in ToSet(failed[i].validation.messages) :
                m.says = "circular" /\ ToSet(a.between) \subseteq ToSet(m.circle)
    /\ LET patterns(r) == Len(Recognised(r)) + Len(ValidationPatterns(r))
       IN  report.unaccounted <= 0 /\ (\A i \in DOMAIN failed : patterns(failed[i]) <= 1)
           => \A i \in DOMAIN failed : InAnalysis(failed[i])
=============================================================================
