----------------------------- MODULE AddonTree -----------------------------
(***************************************************************************)
(* The addon that a test deploys, with the dependencies below it, as       *)
(* cloudinfo/catalog.go completes it from the catalog                      *)
(* (processComponentReferences), makes the list of what is deployed of it  *)
(* (buildHierarchicalDeploymentList) and records what has been deployed    *)
(* (DeployAddonToProject).                                                 *)
(*                                                                         *)
(* A node has the name of its offering, the offering's identity, a flavor  *)
(* and a version locator ("" for none yet), whether it is enabled ("yes",  *)
(* "no", "" for not set), the name of its configuration, the ID that was   *)
(* deployed for it, whether the user has written it, and its dependencies. *)
(* The identity stands for the IDs of the catalog and of the offering, and *)
(* a name has one, which is the name again.  A reference of the catalog    *)
(* has a name, flavor, default flavor, locator and onByDefault.            *)
(***************************************************************************)
EXTENDS RetryPolicy

LOCAL INSTANCE SequencesExt
LOCAL INSTANCE FiniteSetsExt

Names(list) == {list[i].name : i \in DOMAIN list}

\* Of a dependency's references, the one of its flavor, or of the default flavor, or the first.
Matched(dep, refs) ==
    LET named == SelectSeq(refs, LAMBDA r : r.name = dep.name)
        right == SelectSeq(named, LAMBDA r : IF dep.flavor # "" THEN r.flavor = dep.flavor
                                             ELSE r.default \in {"", r.flavor})
    IN  IF right # <<>> THEN SubSeq(right, 1, 1)
        ELSE IF dep.flavor # "" \/ named = <<>> THEN <<>> ELSE SubSeq(named, 1, 1)

\* What the user has said stays; a required dependency is enabled.
FillIn(dep, refs) ==
    LET match == Matched(dep, refs.required \o refs.optional)
        required == \E i \in DOMAIN refs.required : /\ refs.required[i].name = dep.name
                                                    /\ refs.required[i].locator = match[1].locator
    IN  IF match = <<>> THEN dep
        ELSE [dep EXCEPT !.flavor = match[1].flavor, !.locator = match[1].locator,
                         !.offering = match[1].name,
                         !.enabled = IF required THEN "yes"
                                     ELSE IF @ # "" THEN @
                                     ELSE IF match[1].onByDefault THEN "yes" ELSE "no"]

Discovered(ref) == [name |-> ref.name, offering |-> ref.name, flavor |-> ref.flavor,
                    locator |-> ref.locator, enabled |-> "yes", config |-> "", id |-> "",
                    user |-> FALSE, deps |-> <<>>]

\* The direct dependencies that the user has not written and not disabled at the root.
Added(addon, refs, direct, disabled) ==
    LET wanted(r) == r.name \notin Names(addon.deps) \cup disabled /\ r.name \in direct
        found == SelectSeq(refs.optional, LAMBDA r : r.onByDefault /\ wanted(r))
                 \o SelectSeq(refs.required, wanted)
    IN  [i \in DOMAIN found |-> Discovered(found[i])]

RECURSIVE ProcessWithGetter(_, _, _, _)

\* processComponentReferencesWithGetter.  The catalog gives for a locator its references, or
\* an error, and its direct dependencies, none where it cannot say.
ProcessWithGetter(catalog, addon, processed, disabled) ==
    LET refs == catalog[addon.locator]
        refused == \E d \in ToSet(addon.deps) : d.enabled = "no" /\ d.name \in Names(refs.required)
        filled == [i \in DOMAIN addon.deps |-> FillIn(addon.deps[i], refs)]
                  \o Added(addon, refs, refs.direct, disabled)
        Child(state, dep) ==
            LET sub == ProcessWithGetter(catalog, dep, state.processed, disabled) IN
            IF state.error THEN state
            ELSE IF dep.enabled # "yes"
            THEN [state EXCEPT !.deps = Append(@, [dep EXCEPT !.deps = <<>>])]
            ELSE IF dep.locator = "" THEN [state EXCEPT !.deps = Append(@, dep)]
            ELSE [error |-> sub.error, processed |-> sub.processed,
                  deps |-> Append(state.deps, sub.addon)]
        end == FoldLeft(Child, [error |-> FALSE, processed |-> processed \cup {addon.locator},
                                deps |-> <<>>], filled)
    IN  IF addon.locator \in processed
        THEN [error |-> FALSE, addon |-> addon, processed |-> processed]
        ELSE IF refs.error \/ refused
        THEN [error |-> TRUE, addon |-> addon, processed |-> processed]
        ELSE [error |-> end.error, processed |-> end.processed,
              addon |-> [addon EXCEPT !.deps = end.deps]]

DisabledByRoot(addon) == {d.name : d \in {x \in ToSet(addon.deps) : x.enabled = "no"}}

ProcessComponentReferences(catalog, addon) ==
    ProcessWithGetter(catalog, addon, {}, DisabledByRoot(addon))

\* What was not found in the catalog has a key without an identity, as all that was not.
Key(addon) == <<addon.offering, addon.flavor>>

Keys(list) == {Key(list[i]) : i \in DOMAIN list}

RECURSIVE ProcessDependencies(_, _)

\* A dependency that has no name for its configuration is given one in the list, not in the
\* tree.
ProcessDependencies(list, addon) ==
    FoldLeft(LAMBDA l, dep :
                IF dep.enabled # "yes" \/ Key(dep) \in Keys(l) THEN l
                ELSE ProcessDependencies(
                        Append(l, IF dep.config = "" THEN [dep EXCEPT !.config = "generated"]
                                  ELSE dep),
                        dep),
             list, addon.deps)

\* The main addon without a name for its configuration is given one, and keeps it.
Named(main) == IF main.config = "" THEN [main EXCEPT !.config = "prefix and name"] ELSE main

\* buildHierarchicalDeploymentList: depth first, an offering once, the main addon first.
BuildHierarchicalDeploymentList(main) == ProcessDependencies(<<Named(main)>>, main)

RECURSIVE GloballyDisabled(_)

\* buildGlobalDisabledSet, which the list is not built with.
GloballyDisabled(addon) ==
    DisabledByRoot(addon) \cup UNION {GloballyDisabled(d) : d \in ToSet(addon.deps)}

RECURSIVE UpdateConfigIDs(_, _)

\* updateConfigInfoFromResponse, updateDependencyConfigIDs: configurations by their name; the
\* IDs of their containers, which are stored likewise, are left out.
UpdateConfigIDs(addon, ids) ==
    [addon EXCEPT !.id = IF addon.config \in DOMAIN ids THEN ids[addon.config] ELSE @,
                  !.deps = [i \in DOMAIN addon.deps |-> UpdateConfigIDs(addon.deps[i], ids)]]

\* DeployAddonToProject.  outcomes is what each request ends with; the project that has a
\* configuration already has answered "exists" and is asked for all of them then: existing is
\* their IDs, or none when that fails.  An answer without a configuration is passed on as none
\* at all, which is no error, and no ID is stored.
DeployAddonToProject(catalog, main, outcomes, existing) ==
    LET tree == ProcessComponentReferences(catalog, main)
        list == BuildHierarchicalDeploymentList(tree.addon)
        success(o) == IF o = "exists" THEN "ok" ELSE o
        tried == RetryWithConfig([CatalogOperationRetryConfig EXCEPT !.retries = 10],
                                 [i \in DOMAIN outcomes |-> success(outcomes[i])], TRUE)
        ids == IF outcomes[tried.attempts] = "exists" THEN existing
               ELSE [c \in {list[i].config : i \in DOMAIN list} |-> c]
        end(error, requests, answered, addon) ==
            [error |-> error, requests |-> requests, answered |-> answered, addon |-> addon]
    IN  IF tree.error \/ tree.addon.locator = "" \/ \E i \in DOMAIN list : list[i].locator = ""
        THEN end(TRUE, 0, FALSE, tree.addon)
        ELSE IF tried.result # "ok" THEN end(TRUE, tried.attempts, FALSE, Named(tree.addon))
        ELSE IF DOMAIN ids = {} THEN end(FALSE, tried.attempts, FALSE, Named(tree.addon))
        ELSE end(FALSE, tried.attempts, TRUE, UpdateConfigIDs(Named(tree.addon), ids))

(* What a catalog test sets up around it. *)

\* resolveCIBranchName: the first of the variables that CI systems set, for a detached HEAD.
ciVariables == <<"GITHUB_HEAD_REF", "GITHUB_REF_NAME", "TRAVIS_BRANCH", "CI_COMMIT_REF_NAME",
                 "BRANCH_NAME">>
tektonVariables == <<"BRANCH", "GIT_BRANCH", "GIT_REF">>

ResolveCIBranchName(branch, env) ==
    LET all == ciVariables \o (IF "PIPELINE_RUN_ID" \in DOMAIN env THEN tektonVariables ELSE <<>>)
        set == SelectSeq(all, LAMBDA v : v \in DOMAIN env)
    IN  IF branch # "HEAD" \/ set = <<>> THEN branch ELSE env[Head(set)]

\* PrepareOfferingImport: the commit must be in the remote repository.
PrepareOfferingImport(inRemote, branch, env) ==
    [error |-> inRemote # "yes", branch |-> ResolveCIBranchName(branch, env)]

\* ImportOffering, CreateCatalog: anything but the status of a new object is an error that
\* is retried if its text allows it.
CreatesInCatalog(statuses, skip) ==
    LET outcome(s) == CASE s = 201 -> "ok" [] s = 429 -> "throttled" [] s >= 500 -> "server error"
                        [] s = 403 -> "unauthorized" [] s = 409 -> "conflict" [] OTHER -> "failed"
    IN  RetryWithConfig(CatalogOperationRetryConfig, [i \in DOMAIN statuses |-> outcome(statuses[i])],
                        skip)

\* GetOfferingInputs: the inputs of one version of the first kind that have a key; a type that
\* is not written is that of the custom configuration, or string.
GetOfferingInputs(offering, version) ==
    LET kinds == offering.kinds
        hits == IF kinds = <<>> THEN <<>> ELSE SelectSeq(kinds[1], LAMBDA v : v.id = version)
        keyed == IF hits = <<>> THEN <<>> ELSE SelectSeq(hits[1].inputs, LAMBDA i : i.key # "")
        typeOf(i) == IF i.type # "" THEN i.type ELSE IF i.custom # "" THEN i.custom ELSE "string"
    IN  [i \in DOMAIN keyed |-> [key |-> keyed[i].key, type |-> typeOf(keyed[i])]]
-----------------------------------------------------------------------------
\* Whenever the deployment succeeds, what is deployed is complete and no more: every
\* offering once; the main addon first; no dependency that the user has disabled at the root,
\* however deep the catalog asks for it; every direct dependency that the catalog requires of
\* a deployed offering, unless the user has disabled it at the root; and all with a locator.
DeployedListRight(catalog, main, list) ==
    LET requiredOf(a) == {r.name : r \in {x \in ToSet(catalog[a.locator].required) :
                                             x.name \in catalog[a.locator].direct}}
    IN  /\ list[1].name = main.name
        /\ Cardinality(Keys(list)) = Len(list)
        /\ \A i \in 2 .. Len(list) : list[i].name \notin DisabledByRoot(main)
        /\ \A i \in DOMAIN list :
              /\ list[i].locator # ""
              /\ requiredOf(list[i]) \ DisabledByRoot(main) \subseteq Names(list)

\* A dependency that the user has written is deployed as he has written it, wherever the
\* catalog asks for the same offering too (see the comment of
\* buildHierarchicalDeploymentList).
TopmostIsDeployed(main, list) ==
    \A dep \in ToSet(main.deps) :
       \A i \in 2 .. Len(list) : list[i].name = dep.name /\ dep.enabled = "yes" => list[i].user
=============================================================================
