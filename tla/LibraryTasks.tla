---------------------------- MODULE LibraryTasks ----------------------------
(***************************************************************************)
(* Everything that the pure functions are asked for in their run: a task   *)
(* is the function's theme and its arguments.  The sets are small, but     *)
(* each has every case that the functions distinguish.                     *)
(***************************************************************************)
EXTENDS Integers, Sequences, FiniteSets

LOCAL INSTANCE SequencesExt

UpTo(n, S) == UNION {[1 .. k -> S] : k \in 0 .. n}

(* Versions, and what a constraint may ask for. *)
Pool == {<<1, 0, 0>>, <<1, 2, 0>>, <<1, 2, 5>>, <<2, 0, 1>>}
Listed == {[v |-> TRUE, semver |-> s] : s \in Pool} \cup {[v |-> FALSE, semver |-> <<1, 2, 0>>],
                                                          [v |-> FALSE, semver |-> <<>>]}
Part(op, s) == [op |-> op, semver |-> s]
Targets ==
    {<<Part(op, s)>> : op \in {"=", "^", "~", ">=", "<="}, s \in {<<1, 0, 1>>, <<1, 2, 0>>, <<>>}}
    \cup {<<Part(">=", s), Part(op, t)>> : op \in {">=", "<="}, s, t \in {<<1, 1, 0>>, <<1, 2, 5>>}}
    \cup {<<Part("<=", <<2, 0, 0>>), Part(">=", <<1, 2, 0>>)>>}

VersionTasks == {[kind |-> "version", versions |-> v, target |-> t] : v \in UpTo(3, Listed), t \in Targets}

(* Retries. *)
Configs ==
    {[retries |-> r, initial |-> 20, max |-> 50, strategy |-> s, jitter |-> j, checker |-> c] :
        r \in 0 .. 3, s \in {"exponential", "linear", "fixed"}, j \in BOOLEAN,
        c \in {"none", "general", "project"}}
RetryTasks ==
    {[kind |-> "retry", config |-> c, outcomes |-> o, skip |-> s] :
        c \in Configs, o \in [1 .. 3 -> {"ok", "throttled", "unauthorized", "project gone"}],
        s \in {FALSE}}

(* Regions: what there is where; an instance may name no region. *)
RegionTasks ==
    {[kind |-> "region", names |-> n, instances |-> i, supported |-> s, trackers |-> t] :
        n \in {<<>>, <<"r2", "r1">>, <<"r1", "r2", "r3">>}, i \in UpTo(4, {"r1", "r2", "r3", ""}),
        s \in {<<>>, <<"r3", "r2">>}, t \in {{}, {"r1"}}}

(* Git. *)
Say(x) == {"failed", x}
Repositories ==
    {[toplevel |-> t, dotGitHere |-> h, dotGitInCwd |-> FALSE, upstream |-> u, origin |-> o,
      originHead |-> b, upstreamHead |-> "", symbolicRef |-> s, revParse |-> "", statusBranch |-> "t"] :
        t \in Say("root"), h \in BOOLEAN, u \in Say("up"), o \in Say("or"), b \in {"", "main"},
        s \in {"", "topic"}}
GitTasks ==
    {[kind |-> "git", git |-> g, given |-> [repo |-> a, branch |-> b], env |-> [repo |-> c, branch |-> d]] :
        g \in Repositories, a \in {"", "mine"}, b \in {"", "dev"}, c, d \in Say("env")}

Output(n) == {[ok |-> TRUE, files |-> f, blank |-> b] : f \in UpTo(n, {"f", "g"}), b \in BOOLEAN}
             \cup {[ok |-> FALSE, files |-> <<>>, blank |-> FALSE]}
ChangeTasks ==
    {[kind |-> "changes", git |-> [status |-> s, unpushed |-> u, lastCommit |-> l]] :
        s \in {x \in Output(2) : \A i, k \in DOMAIN x.files : i # k => x.files[i] # x.files[k]},
        u \in Output(3), l \in Output(1)}

(* The tree of an addon's dependencies, and the user's configuration of it: of the root, and
   of "a", which may have a flavor that the user has not written. *)
Tri == {"", "yes", "no"}
Dep(n, on, flavors) == [name |-> n, onByDefault |-> on, default |-> "", flavors |-> flavors]
Lists(names) == {<<>>} \cup {<<Dep(n, on, <<"std">>)>> : n \in names, on \in BOOLEAN}
RootLists == Lists({"a"}) \cup {<<Dep("a", x, <<"std">>), Dep("b", y, <<>>)>> : x, y \in BOOLEAN}
Catalog(r, a, b) == [n \in {"r", "a", "b"} |-> CASE n = "r" -> r [] n = "a" -> a [] n = "b" -> b]
User(n, f, e, parent) == [name |-> n, flavor |-> f, enabled |-> e, parent |-> parent]
Wishes ==
    {<<>>} \cup {<<User("a", f, x, 0), User("b", "std", y, 0)>> \o below :
                    f \in {"", "std"}, x, y \in Tri,
                    below \in {<<>>, <<User("b", "other", "yes", 1)>>, <<User("b", "", "no", 1)>>}}
TreeTasks ==
    {[kind |-> "tree", node |-> <<"r", "std">>, catalog |-> Catalog(r, a, b), config |-> w] :
        r \in RootLists, a \in Lists({"b"}), b \in Lists({"a", "gone"}), w \in Wishes}

Nodes == {"x", "y", "z"}
ValidationTasks ==
    {[kind |-> "validation", graph |-> g, expected |-> e, deployed |-> d] :
        g \in {<<>>, <<<<"x", "y">>>>, <<<<"x", "y">>, <<"y", "z">>>>},
        e \in {<<"x">>, <<"x", "y">>, <<"x", "y", "z">>}, d \in UpTo(3, Nodes)}

\* Who refers to whom, each in the order of the names.
Order == <<"x", "y", "z">>
Graphs == [Nodes -> {SelectSeq(Order, LAMBDA n : n \in s) : s \in SUBSET Nodes}]
EdgesOf(graph) == FlattenSeq([i \in 1 .. 3 |-> [k \in DOMAIN graph[Order[i]] |->
                                                  <<Order[i], graph[Order[i]][k]>>]])
Orders == {s \in [1 .. 3 -> Nodes] : Cardinality({s[i] : i \in 1 .. 3}) = 3}
CycleTasks == {[kind |-> "cycles", graph |-> g, roots |-> o] : g \in Graphs, o \in Orders}

(* Test cases of a permutation run, and what the user skips of them. *)
Offers(n) == {[name |-> n, flavors |-> f] : f \in {<<>>, <<"f">>, <<"f", "g">>}}
Skip(n, f) == [name |-> n, flavor |-> f]
PermutationTasks ==
    {[kind |-> "permutations", deps |-> d, skips |-> s] :
        d \in {<<a>> : a \in Offers("a")} \cup (Offers("a") \X Offers("b"))
              \cup (Offers("a") \X Offers("b") \X Offers("c")),
        s \in {<<>>, <<<<>>>>, <<<<Skip("a", "")>>>>, <<<<Skip("b", "g"), Skip("a", "f")>>>>,
               <<<<Skip("b", "")>>, <<Skip("a", "g"), Skip("c", "")>>>>,
               <<<<Skip("a", ""), Skip("a", "f")>>>>}}

(* Dependencies that the user has disabled; a name may have two versions. *)
Written(n, v, e, r, parent) ==
    [name |-> n, version |-> v, enabled |-> e, required |-> r, by |-> "", parent |-> parent]
Entry(n, o, d) == [name |-> n, optional |-> o, onByDefault |-> d]
Entries(n) == {<<>>, <<Entry(n, "", "yes")>>, <<Entry(n, "", ""), Entry(n, "no", "yes")>>}
              \cup {<<Entry(n, o, "")>> : o \in Tri}
RequiredTasks ==
    {[kind |-> "required",
      catalog |-> [l \in {"r1", "a1", "a2"} |-> CASE l = "r1" -> x \o y [] l = "a1" -> z
                                                  [] l = "a2" -> <<Entry("b", "no", "")>>],
      config |-> <<Written("r", "r1", "", "", 0), Written("a", v[1], e, q, 1),
                   Written("b", "", f, "", 2), Written("b", "", g, "", 1),
                   Written("a", v[2], f, "", 4), Written("b", "", "no", "", 5)>>] :
        x \in Entries("a"), y \in {<<>>, <<Entry("b", "no", "")>>}, z \in Entries("b"),
        v \in {<<"", "">>, <<"a1", "a1">>, <<"a1", "a2">>}, e \in {"yes", "no"}, q \in Tri, f \in {"", "no"}, g \in {"yes", "no"}}

(* What the project's configurations are in before the deployment. *)
Configured(i, s, refs, service, known, missing) ==
    [id |-> i, state |-> s, refs |-> refs, service |-> service, known |-> known,
     missing |-> missing, reads |-> "ok"]
Ready == Configured("p", "awaiting_validation", <<>>, "ok", TRUE, FALSE)
States == {"awaiting_validation", "awaiting_input", "awaiting_prerequisite", "draft"}
FirstConfigs ==
    {[Ready EXCEPT !.reads = r] : r \in {"unreadable", "refused", "not updated"}} \cup
    {Configured("p", s, refs, service, k \in {1, 2}, k \in {2, 3}) :
        s \in States, refs \in {<<>>, <<"q">>, <<"">>, <<"gone">>},
        service \in {"ok", "transient", "failed"}, k \in 1 .. 3}
SecondConfigs ==
    {[Ready EXCEPT !.id = "q", !.state = s] : s \in States} \cup
    {Configured("q", "awaiting_prerequisite", <<"p">>, service, TRUE, TRUE) :
        service \in {"ok", "transient"}}
Verdicts ==
    [skipRefs : BOOLEAN, skipInfra : BOOLEAN, skipDependencies : BOOLEAN, strict : BOOLEAN]
VerdictTasks ==
    {[kind |-> "verdict", opts |-> o, configs |-> <<p>> \o q, valid |-> TRUE] :
        o \in {x \in Verdicts : x.skipRefs => ~x.skipInfra /\ ~x.skipDependencies},
        p \in {x \in FirstConfigs : x.refs # <<"">> \/ x.service = "ok"},
        q \in {<<>>} \cup {<<c>> : c \in SecondConfigs}}
    \cup {[kind |-> "verdict", opts |-> o, configs |-> <<p>>, valid |-> FALSE] :
             o \in {x \in Verdicts : ~x.skipRefs}, p \in FirstConfigs}

(* The addon that is deployed: how each asks for the other. *)
Asked == {"not", "off", "on", "required"}
Ref(n, on) == [name |-> n, flavor |-> "std", default |-> "", locator |-> n, onByDefault |-> on]
References(asks, failing) ==
    LET among(s) == SelectSeq(Order, LAMBDA n : n \in DOMAIN asks /\ asks[n] \in s)
        optional == among({"off", "on"})
    IN  [error |-> failing, direct |-> DOMAIN asks,
         required |-> [i \in DOMAIN among({"required"}) |-> Ref(among({"required"})[i], FALSE)],
         optional |-> [i \in DOMAIN optional |-> Ref(optional[i], asks[optional[i]] = "on")]]
Wish(n, e) == [name |-> n, offering |-> "", flavor |-> "", locator |-> "", enabled |-> e, config |-> "", id |-> "",
               user |-> TRUE, deps |-> <<>>]
Wanted ==
    LET e == {"", "yes", "no"} IN
    {<<>>} \cup {<<Wish("y", a)>> : a \in e} \cup {<<Wish("y", a), Wish("z", b)>> : a, b \in e}
    \cup {<<Wish("z", b), Wish("y", a)>> : a, b \in e}
Main(deps, config) ==
    [Wish("x", "yes") EXCEPT !.offering = "x", !.flavor = "std", !.locator = "x",
                             !.config = config, !.deps = deps]
NoIDs == [c \in {} |-> ""]
DeployTasks ==
    {[kind |-> "deploy", main |-> Main(w, "main"), outcomes |-> o,
      existing |-> IF f THEN NoIDs ELSE [c \in {"main"} |-> "old"],
      catalog |-> [n \in Nodes |-> CASE n = "x" -> References(x, FALSE)
                                     [] n = "y" -> References([k \in {"z"} |-> y], f)
                                     [] n = "z" -> References([k \in {"y"} |-> z], FALSE)]] :
        w \in Wanted, x \in [{"y", "z"} -> Asked], y, z \in Asked, f \in BOOLEAN,
        o \in {<<"throttled", "exists">>}}
    \cup {[kind |-> "deploy", main |-> Main(w, ""), outcomes |-> o, existing |-> NoIDs,
           catalog |-> [n \in Nodes |-> References([k \in {"y", "z"} \ {n} |-> "required"], FALSE)]] :
             w \in Wanted, o \in {<<"ok">>, <<"exists">>, <<"throttled", "unauthorized">>, <<"timeout", "ok">>}}

(* A stack's inputs. *)
InputValue(go, is, number, truth) == [go |-> go, is |-> is, number |-> number, truth |-> truth]
NoValue == InputValue("nil", "", 0, "")
InputTexts(from) == {InputValue("string", from, 0, ""), InputValue("[]interface {}", "[1]", 0, "")}
Values ==
    InputTexts("text") \cup
    {NoValue, InputValue("string", "7", 7, ""), InputValue("string", "true", 0, "true"),
     InputValue("int", "3", 3, ""), InputValue("float64", "2.5", 2, ""),
     InputValue("bool", "false", 0, "false"), InputValue("[nil]", "", 0, ""),
     InputValue("map[string]interface {}", "{}", 0, "")}
StackInput(n, t, m, d) == [name |-> n, type |-> t, metadata |-> m, default |-> d]
StackFile(inputs, outputs, created) ==
    [inputs |-> inputs, outputs |-> outputs,
     members |-> <<[inputs |-> <<>>, created |-> TRUE], [inputs |-> <<>>, created |-> created]>>]
FileTypes == {<<"string", "">>, <<"int", "">>, <<"boolean", "">>, <<"object", "">>, <<"number", "">>,
              <<"", "int">>}
OneInput == {<<StackInput("x", t[1], t[2], d)>> : t \in FileTypes, d \in InputTexts("file") \cup {NoValue}}
OtherInputs ==
    LET file == InputValue("string", "file", 0, "") IN
    {<<StackInput("x", "string", "", NoValue), StackInput("x", "string", "", file)>>,
     <<StackInput("y", "int", "", file), StackInput("x", "string", "", NoValue)>>}
StackFiles ==
    {StackFile(i, <<"o">>, TRUE) : i \in OneInput \cup OtherInputs}
    \cup {StackFile(i, o, c) : i \in OtherInputs, o \in {<<"o">>, <<"o", "o">>}, c \in BOOLEAN}
CatalogInputs ==
    {[key |-> k, type |-> t[1], metadata |-> t[2], default |-> d, looks |-> ""] :
        k \in {"x", "ibmcloud_api_key"}, t \in {<<"", "">>, <<"string", "">>, <<"int", "string">>},
        d \in Values}
    \cup {[key |-> "x", type |-> "object", metadata |-> "", looks |-> "object",
           default |-> InputValue("string", "{}", 0, "")]}
GivenInputs == {[n \in {"ibmcloud_api_key"} |-> InputValue("string", "key", 0, "")]}
               \cup {[n \in {"x"} |-> v] : v \in Values}
NoneGiven == [n \in {} |-> NoValue]
StackTask(file, given, flavor, configuration) ==
    [kind |-> "stack", stack |-> file, given |-> given, flavor |-> flavor,
     catalog |-> <<[name |-> "p", flavors |-> <<[name |-> "f", configuration |-> <<>>],
                                                [name |-> "g", configuration |-> configuration]>>]>>]
StackTasks ==
    {StackTask(s, NoneGiven, "g", c) : s \in StackFiles, c \in UpTo(1, CatalogInputs)}
    \cup {StackTask(s, g, "g", c) :
             s \in StackFiles, g \in GivenInputs,
             c \in UpTo(1, {x \in CatalogInputs : x.type = "" \/ x.looks = "object"})}
    \cup {StackTask(StackFile(i, <<>>, TRUE), NoneGiven, f, <<c, d>>) :
             i \in OtherInputs, f \in {"g", "other"},
             c, d \in {x \in CatalogInputs : x.default.go = "string" /\ x.type = ""}}

\* Each slot has nothing, a value, or a reference to one of them or to nowhere.
Slots == <<[owner |-> "", side |-> "inputs", name |-> "i"], [owner |-> "", side |-> "outputs", name |-> "o"],
           [owner |-> "m", side |-> "inputs", name |-> "i"], [owner |-> "m", side |-> "outputs", name |-> "o"]>>
Paths == {<<"inputs", "i">>, <<"..", "outputs", "o">>, <<"members", "m", "inputs", "i">>,
          <<"m", "outputs", "o">>, <<"members", "n", "inputs", "i">>}
Given == {[kind |-> "nothing"], [kind |-> "value", value |-> "v"]} \cup {[kind |-> "ref", path |-> p] : p \in Paths}
ReferenceTasks ==
    {[kind |-> "references",
      slots |-> [i \in 1 .. 4 |-> [owner |-> Slots[i].owner, side |-> Slots[i].side,
                                   name |-> Slots[i].name, given |-> g[i]]]] : g \in [1 .. 4 -> Given]}

(* What is printed. *)
NoValidation == [valid |-> TRUE, dependencyErrors |-> <<>>, unexpected |-> <<>>, missing |-> <<>>,
                 missingInputs |-> <<>>, configErrors |-> <<>>, messages |-> <<>>]
PrintTasks ==
    {[kind |-> "print", graph |-> g, deployed |-> <<"x", "y">> \o u, root |-> r,
      validation |-> [NoValidation EXCEPT !.unexpected = u, !.missing = m]] :
        g \in Graphs, r \in {"x"}, u \in {<<>>, <<"u">>, <<"u", "w">>}, m \in {<<>>, <<"z">>}}

(* Of the first test any missing inputs with any other error; the second has a few. *)
Misses(config, inputs, form) == [config |-> config, inputs |-> inputs, form |-> form]
Missing(form) == <<Misses("c", <<"kms">>, form)>>
MissingTexts ==
    {<<>>, <<Misses("c", <<"kms", "size">>, "short")>>,
     <<Misses("d", <<"size">>, "short"), Misses("c", <<"kms">>, "short")>>}
    \cup {Missing(f) : f \in {"short", "full", "named", "simple", "unknown"}}
Told(what, circle) == [says |-> what, circle |-> circle]
OtherErrors ==
    {NoValidation, [NoValidation EXCEPT !.unexpected = <<"z">>],
     [NoValidation EXCEPT !.missing = <<"z">>, !.messages = <<Told("missing expected", <<>>)>>],
     [NoValidation EXCEPT !.dependencyErrors = <<<<"c", "z">>>>, !.messages = <<Told("dependency errors", <<>>)>>],
     [NoValidation EXCEPT !.configErrors = Missing("named")],
     [NoValidation EXCEPT !.configErrors = Missing("full")],
     [NoValidation EXCEPT !.configErrors = Missing("unknown"), !.messages = <<Told("same", <<>>)>>],
     [NoValidation EXCEPT !.messages = <<Told("circular", <<"c", "d", "c">>)>>],
     [NoValidation EXCEPT !.messages = <<Told("circular", <<"c">>), Told("missing inputs", <<>>)>>]}
Validations ==
    {NoValidation} \cup
    {[v EXCEPT !.valid = FALSE, !.missingInputs = m] :
        v \in OtherErrors, m \in MissingTexts}
    \cup {[v EXCEPT !.missingInputs = m] : v \in OtherErrors, m \in {<<>>, Missing("short")}}
Result(name, p, v, t, r, d) ==
    [name |-> name, passed |-> p, validation |-> v, transient |-> t, runtime |-> r, disabled |-> d,
     strict |-> FALSE, warnings |-> IF p THEN <<"circular">> ELSE <<>>,
     offerings |-> [c \in {"c"} |-> "offering"]]
Passes(name) == Result(name, TRUE, NoValidation, <<>>, <<>>, {"kms"})
Fails(name, v, d) == Result(name, FALSE, v, <<>>, <<>>, d)
FirstResults ==
    {Passes("a")} \cup
    {Result("a", FALSE, v, IF e THEN <<"throttled">> ELSE <<>>, IF e THEN <<"panic">> ELSE <<>>, d) :
        v \in Validations, e \in BOOLEAN, d \in {{"kms"}, {"kms", "logs"}, {}}}
SecondResults ==
    {Passes("b"), Result("b", FALSE, NoValidation, <<>>, <<"panic">>, {"kms"})} \cup
    {Fails("b", [v EXCEPT !.valid = FALSE], {"kms"}) : v \in OtherErrors} \cup
    {Fails("b", [NoValidation EXCEPT !.valid = FALSE, !.missingInputs = Missing(f)], {"kms", "logs"}) :
        f \in {"short", "full"}}
ReportTasks == {[kind |-> "report", results |-> <<a, b>>] : a \in FirstResults, b \in SecondResults}

(* A plan with secrets. *)
PlanLeaf(v) == [kind |-> "leaf", of |-> v]
Small == {PlanLeaf("a"), PlanLeaf("b")} \cup
         {[kind |-> "object", of |-> f] : f \in UNION {[k -> {PlanLeaf("a")}] : k \in SUBSET {"password", "name"}}}
Plans ==
    {[kind |-> "object", of |-> f] :
        f \in UNION {[k -> Small \cup {[kind |-> "list", of |-> s] : s \in UpTo(2, Small)}] :
                        k \in {{"name"}, {"password"}, {"before_sensitive"}, {"name", "password"}}}}
PlanTasks == {[kind |-> "plan", plan |-> p] : p \in Plans}
=============================================================================
