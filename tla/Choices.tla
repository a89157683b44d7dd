------------------------------ MODULE Choices ------------------------------
(***************************************************************************)
(* Choices that pure functions make among several, each asked for once     *)
(* with some arguments: the version that a constraint stands for, whether  *)
(* to try again and how long to wait, a region, the base that a test       *)
(* compares with, the files that are not pushed, the inputs of a stack,    *)
(* and the values that references stand for.  A task is the function's     *)
(* theme and its arguments.                                                *)
(***************************************************************************)
EXTENDS RegionChoice, VersionConstraint, RetryPolicy, GitHelpers, StackInputs, StackReferences

CONSTANTS ChoiceTasks,
          InputContents   \* what the value of an input of a stack may be

(* What the functions may be asked for.                                    *)
Semvers == {NotSemver} \cup Nat \X Nat \X Nat

ListedVersions == [v : BOOLEAN, semver : Semvers]
ConstraintParts == [op : {"=", "^", "~", ">=", "<="}, semver : Semvers]

VersionTask(t) == t.versions \in Seq(ListedVersions) /\ t.target \in Seq(ConstraintParts)

\* With more attempts a delay that is doubled before each may exceed the code's 64 bits.
MaxAttempts == 30

RetryConfigs == [retries : 0 .. MaxAttempts, initial : Nat, max : Nat,
                 strategy : {"exponential", "linear", "fixed"}, jitter : BOOLEAN,
                 checker : {"none", "general", "project"}]
RetryTask(t) ==
    /\ t.config \in RetryConfigs
    /\ t.outcomes \in Seq(STRING)
    /\ t.config.retries <= Len(t.outcomes)
    /\ t.skip \in BOOLEAN

RegionTask(t) ==
    /\ t.names \in Seq(STRING \ {NoName})
    /\ t.supported \in Seq(STRING \ {NoName})
    /\ t.instances \in Seq(STRING)

Listing == [ok : BOOLEAN, files : Seq(STRING), blank : BOOLEAN]
ChangeTask(t) == t.git \in [status : Listing, unpushed : Listing, lastCommit : Listing]

InputValues == [go : GoTypes, is : InputContents, number : Int, truth : {"", "true", "false"}]
FileInput == [name : STRING, type : STRING, metadata : STRING, default : InputValues]
CatalogEntry == [key : STRING, type : STRING, metadata : STRING, default : InputValues,
                 looks : STRING]
StackTask(t) ==
    /\ t.stack.inputs \in Seq(FileInput)
    /\ t.catalog \in Seq([name : STRING,
                          flavors : Seq([name : STRING, configuration : Seq(CatalogEntry)])])
    /\ t.catalog # <<>>
    /\ \A i \in DOMAIN t.catalog : t.catalog[i].flavors # <<>>
    /\ \A n \in DOMAIN t.given : t.given[n] \in InputValues

Givens == {NotGiven} \cup [kind : {"value"}, value : STRING \ {Unknown}]
          \cup [kind : {"ref"}, path : Seq(STRING)]
Slot == [owner : STRING, side : {"inputs", "outputs"}, name : STRING, given : Givens]
ReferencesTask(t) == t.slots \in Seq(Slot)

ASSUME ChoiceTasksAssumption ==
    \A t \in ChoiceTasks :
        \/ t.kind = "version" /\ VersionTask(t)
        \/ t.kind = "retry" /\ RetryTask(t)
        \/ t.kind = "region" /\ RegionTask(t)
        \/ t.kind = "git"
        \/ t.kind = "changes" /\ ChangeTask(t)
        \/ t.kind = "stack" /\ StackTask(t)
        \/ t.kind = "references" /\ ReferencesTask(t)

\* The text for an input without a default, and the absence of one.
ASSUME InputContentsAssumption == {Null, "__NULL__"} \subseteq InputContents

ChoiceKinds == {"version", "retry", "region", "git", "changes", "stack", "references"}

VARIABLES task,  \* what a function is asked for
          out    \* its answer, in a sequence once there is one

ChoiceOf(t) ==
    CASE t.kind = "version" -> GetLatestVersionByConstraint(t.versions, t.target)
      [] t.kind = "retry" -> RetryWithConfig(t.config, t.outcomes, t.skip)
      [] t.kind = "region" -> RegionChoices(t.names, t.instances, t.supported, t.trackers)
      [] t.kind = "git" -> GetBaseRepoAndBranch(t.given, t.env, t.git)
      [] t.kind = "changes" -> ChangesToBePush(t.git)
      [] t.kind = "stack" ->
            CreateStackFromConfigFile(t.stack, t.catalog, t.given, "p", t.flavor)
      [] t.kind = "references" -> ResolveReferences(CreateStackRefStruct(t.slots))

ChoicesInit == task \in ChoiceTasks /\ out = <<>>

ChoicesNext == out = <<>> /\ out' = <<ChoiceOf(task)>> /\ task' = task

ChoicesSpec == ChoicesInit /\ [][ChoicesNext]_<<task, out>>
-----------------------------------------------------------------------------
Answered(kind) == out # <<>> /\ task.kind = kind

\* What is chosen among several is what should be: the version for a constraint, whether to
\* try again and how long to wait, a region, the repository and branch that a test compares
\* with, the files that are not pushed, the value of a stack's input, and that of a reference.
ChoicesRight ==
    /\ Answered("version") => LatestVersionRight(task.versions, task.target, out[1])
    /\ Answered("retry") => RetryRight(task.config, task.outcomes, task.skip, out[1])
    /\ Answered("region") =>
          RegionsRight(task.names, task.instances, task.supported, task.trackers, out[1])
    /\ Answered("git") => BaseRight(task.given, task.env, task.git, out[1])
    /\ Answered("changes") => ChangesRight(task.git, out[1])
    /\ Answered("stack") => DefinitionRight(task.stack, task.catalog, task.given, "p",
                                            task.flavor, out[1])
    /\ Answered("references") => StackReferencesRight(task.slots, out[1])
=============================================================================
