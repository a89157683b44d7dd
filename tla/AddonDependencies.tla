-------------------------- MODULE AddonDependencies --------------------------
(***************************************************************************)
(* What an addon test finds of its dependencies: the configurations that   *)
(* are deployed (testaddons/dependency_graph.go), the inputs that are      *)
(* required (config_validation.go), and those of the offering that is      *)
(* tested (offering_utils.go).                                             *)
(***************************************************************************)
EXTENDS AddonChecks

\* buildActuallyDeployedListFromResponse: each deployed configuration is known by the step
\* at which the look at it fails, "" for none.
WarningSteps == {"config", "locator", "version", "no version"}
BuildActuallyDeployedList(configs) ==
    LET Of(steps) == SelectSeq(configs, LAMBDA c : c.fails \in steps)
    IN  [deployed |-> Of({""}), warnings |-> Of(WarningSteps),
         errors |-> SelectSeq(configs, LAMBDA c : c.fails \notin WarningSteps \cup {""})]

\* validateRequiredInputs: an input is required or not, and has a value and a default, "" for
\* none; the API key is left out.
ValidateRequiredInputs(inputs, values) ==
    SelectSeq(inputs, LAMBDA i : /\ i.required /\ i.key # "ibmcloud_api_key"
                                 /\ (i.key \notin DOMAIN values \/ values[i.key] = "")
                                 /\ i.default \in {"", "__NOT_SET__"})

\* validateInputsWithRetry: the readings of the configuration, one for each attempt and one
\* more at the end, an error or what is missing; a reading that fails is the end only when it
\* is the last.
ValidateInputsWithRetry(readings) ==
    LET attempts == Len(readings) - 1
        last == readings[Len(readings)]
    IN  IF \E a \in 1 .. attempts : ~readings[a].error /\ readings[a].missing = <<>>
        THEN [present |-> TRUE, missing |-> <<>>]
        ELSE IF readings[attempts].error \/ last.error
        THEN [present |-> FALSE, missing |-> <<"no configuration">>]
        ELSE [present |-> FALSE, missing |-> last.missing]

\* SetOfferingDetails: how many dependencies are given their inputs before the first that has
\* no version, no offering, or whose offering is not found; all of it stops there.
SetOfferingDetails(top, deps) ==
    LET usable(d) == d.version /\ d.offering /\ d.found
        bad == {i \in DOMAIN deps : ~usable(deps[i])}
    IN  IF ~top THEN [error |-> TRUE, filled |-> 0]
        ELSE IF bad = {} THEN [error |-> FALSE, filled |-> Len(deps)]
        ELSE [error |-> TRUE, filled |-> (CHOOSE i \in bad : \A k \in bad : i <= k) - 1]
=============================================================================
