---------------------------- MODULE Permutations ----------------------------
(***************************************************************************)
(* The test cases of a permutation run (testaddons/tests.go): every subset *)
(* of the direct dependencies but all of them, with every choice of the    *)
(* flavors of those that are enabled, unless the user skips it.            *)
(*                                                                         *)
(* A dependency has a name and a sequence of flavors.  A test case has the *)
(* number that its name and its prefix are made unique with, and the       *)
(* dependencies' configurations; the abbreviations in its name are left    *)
(* out.                                                                    *)
(***************************************************************************)
EXTENDS Integers, Sequences, FiniteSets, SequencesExt

ImplicitFlavor == "fully-configurable"
PickDefaultFlavor(dep) == IF dep.flavors # <<>> THEN Head(dep.flavors) ELSE ImplicitFlavor

Config(dep, flavor, enabled) == [name |-> dep.name, flavor |-> flavor, enabled |-> enabled]

\* How many numbers a mixed radix has, and the digits of one of them, the lowest first.
HowMany(radices) ==
    LET product[k \in 0 .. Len(radices)] == IF k = 0 THEN 1 ELSE product[k - 1] * radices[k]
    IN  product[Len(radices)]

Digit(radices, number, k) ==
    LET tmp[i \in 0 .. Len(radices)] == IF i = 0 THEN number ELSE tmp[i - 1] \div radices[i]
    IN  tmp[k - 1] % radices[k]

\* A bit of the mask for each dependency.
Bits(deps) == [j \in DOMAIN deps |-> 2]
Enabled(deps, mask, j) == Digit(Bits(deps), mask, j) = 1

\* How many flavors there are to choose from, the implicit one included; a digit of comb for
\* each dependency that is enabled.
FlavorCount(dep) == IF dep.flavors = <<>> THEN 1 ELSE Len(dep.flavors)
Radices(deps, mask) ==
    [j \in DOMAIN deps |-> IF Enabled(deps, mask, j) THEN FlavorCount(deps[j]) ELSE 1]

ChosenFlavor(deps, mask, comb, j) ==
    IF deps[j].flavors = <<>> THEN PickDefaultFlavor(deps[j])
    ELSE deps[j].flavors[1 + Digit(Radices(deps, mask), comb, j)]

Configs(deps, mask, comb) ==
    [j \in DOMAIN deps |-> IF Enabled(deps, mask, j)
                           THEN Config(deps[j], ChosenFlavor(deps, mask, comb, j), TRUE)
                           ELSE Config(deps[j], PickDefaultFlavor(deps[j]), FALSE)]

Those(configs, enabled) ==
    LET list[j \in 0 .. Len(configs)] ==
            IF j = 0 THEN <<>>
            ELSE IF configs[j].enabled = enabled THEN Append(list[j - 1], configs[j])
            ELSE list[j - 1]
    IN  list[Len(configs)]

\* shouldSkipPermutation: a skipped set has as many names, each of them enabled, and with the
\* flavor that it gives, if any.  Of two configurations of one name the later counts.
Accepts(s, flavor) == s.flavor \in {"", flavor}
Matches(s, enabled) ==
    \E i \in DOMAIN enabled :
       /\ enabled[i].name = s.name /\ \A k \in i + 1 .. Len(enabled) : enabled[k].name # s.name
       /\ Accepts(s, enabled[i].flavor)
ShouldSkipPermutation(skips, enabled) ==
    \E skip \in ToSet(skips) : /\ Len(skip) = Len(enabled)
                               /\ \A s \in ToSet(skip) : Matches(s, enabled)

\* A case that is skipped takes no number.
WithCase(deps, skips, mask, comb, cases) ==
    LET configs == Configs(deps, mask, comb)
        enabled == Those(configs, TRUE)
    IN  IF ShouldSkipPermutation(skips, enabled) THEN cases
        ELSE Append(cases, [index |-> Len(cases), deps |-> enabled \o Those(configs, FALSE)])

WithMask(deps, skips, mask, before) ==
    LET totalComb == HowMany(Radices(deps, mask))
        cases[c \in 0 .. totalComb] ==
            IF c = 0 THEN before ELSE WithCase(deps, skips, mask, c - 1, cases[c - 1])
    IN  cases[totalComb]

\* The default configuration, all enabled, is not a case.
AllEnabled(deps, mask) == \A j \in DOMAIN deps : Enabled(deps, mask, j)

GeneratePermutationsWithFlavors(deps, skips) ==
    LET totalPermutations == HowMany(Bits(deps))
        cases[m \in 0 .. totalPermutations] ==
            IF m = 0 THEN <<>>
            ELSE IF AllEnabled(deps, m - 1) THEN cases[m - 1]
            ELSE WithMask(deps, skips, m - 1, cases[m - 1])
    IN  cases[totalPermutations]
-----------------------------------------------------------------------------
\* What a test case may be: each dependency is off or has a flavor, and not all are on.
Off == "off"
Flavors(dep) == {PickDefaultFlavor(dep)} \cup ToSet(dep.flavors)
PossibleCases(deps) ==
    {f \in [DOMAIN deps -> {Off} \cup UNION {Flavors(d) : d \in ToSet(deps)}] :
        /\ \A j \in DOMAIN deps : f[j] \in {Off} \cup Flavors(deps[j])
        /\ \E j \in DOMAIN deps : f[j] = Off}

\* The user skips the choices whose enabled dependencies are just those of a set that names
\* each of its dependencies once.  A set that names some twice skips the choices of as many
\* dependencies as it has entries, if what it names is among them: its names are not counted.
Distinct(s) == \A i, k \in DOMAIN s : s[i].name = s[k].name => i = k
NamesIn(s) == {x.name : x \in ToSet(s)}
SkippedBy(deps, skip, f) ==
    LET on == {j \in DOMAIN deps : f[j] # Off} IN
    /\ IF Distinct(skip) THEN NamesIn(skip) = {deps[j].name : j \in on}
       ELSE Len(skip) = Cardinality(on) /\ NamesIn(skip) \subseteq {deps[j].name : j \in on}
    /\ \A s \in ToSet(skip), j \in on : s.name = deps[j].name => Accepts(s, f[j])
Skipped(deps, skips, f) == \E skip \in ToSet(skips) : SkippedBy(deps, skip, f)

\* A case has just one configuration for every dependency, the one for its choice.
ConfigFor(dep, choice) ==
    IF choice = Off THEN Config(dep, PickDefaultFlavor(dep), FALSE) ELSE Config(dep, choice, TRUE)
IsCaseOf(deps, f, case) ==
    /\ Len(case.deps) = Len(deps)
    /\ ToSet(case.deps) = {ConfigFor(deps[j], f[j]) : j \in DOMAIN deps}

\* Every choice of subset and flavors that the user does not skip has one test case, and only
\* those; the cases are numbered as they come.
PermutationsRight(deps, skips, cases) ==
    LET wanted == {f \in PossibleCases(deps) : ~Skipped(deps, skips, f)} IN
    /\ \A i \in DOMAIN cases : /\ cases[i].index = i - 1
                               /\ \E f \in wanted : IsCaseOf(deps, f, cases[i])
    /\ \A f \in wanted : \E i \in DOMAIN cases :
          IsCaseOf(deps, f, cases[i]) /\ \A k \in DOMAIN cases : IsCaseOf(deps, f, cases[k]) => k = i
=============================================================================
