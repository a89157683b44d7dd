-------------------------- MODULE StackDeployment --------------------------
(***************************************************************************)
(* Deploying and undeploying a stack: TriggerDeployAndWait,                *)
(* TriggerUnDeploy, TriggerUnDeployAndWait and TrackAndResyncState of      *)
(* src/testprojects/tests.go, in the order in which RunProjectsTest and    *)
(* its TestTearDown call them.                                             *)
(*                                                                         *)
(* The code polls the Projects service, whose members go on changing       *)
(* between any two of its calls: the stack is read first, then the members *)
(* one by one, so a poll is no snapshot.  A member is its place in the     *)
(* stack's MemberConfigs.  GetStackMembers returns all of them or an       *)
(* error, so the loops' handling of an incomplete list is never entered    *)
(* and is left out.                                                        *)
(*                                                                         *)
(* A status stands for a member's state and state code together; a reading *)
(* is what the service answers, which may lack the state or the code.      *)
(* Time is the loop's deadline (late) and, for the resync, the number of   *)
(* polls' sleeps, up to Interval + 1.                                      *)
(***************************************************************************)
EXTENDS Integers, Sequences, FiniteSets

CONSTANTS
  N,              \* the number of members
  Containers,     \* those whose name ends in " Container"
  AutoSync,       \* the values options.StackAutoSync may have
  Interval,       \* options.StackAutoSyncInterval, in sleeps of a poll
  CallReplies,    \* what a call may return: "ok", "err"
  TriggerReplies, \* a deploy triggered again: "ok", "sdk_err", "err"
  Blips           \* what a reading may lack: "state", "code"

ASSUME NAssumption == N \in Nat \ {0}
ASSUME IntervalAssumption == Interval \in Nat
ASSUME InputsAssumption ==
  /\ Containers \subseteq 1 .. N
  /\ AutoSync \subseteq BOOLEAN
  /\ CallReplies \subseteq {"ok", "err"}
  /\ TriggerReplies \subseteq {"ok", "sdk_err", "err"}
  /\ Blips \subseteq {"state", "code"}

Members == 1 .. N

VARIABLES
  status,    \* of each member, in the service
  accepted,  \* the service has accepted the undeploy
  autoSync,  \* options.StackAutoSync
  phase,     \* the function that runs
  pc,        \* where it is
  late,      \* the deadline of its loop has passed
  stack,     \* stackDetails, as last read
  list,      \* stackMembers, as far as they are read
  age,       \* the sleeps since memberStateStartTime of each member
  result     \* what the deployment, then the undeployment, returned

serviceVars == <<status, accepted>>
vars == <<serviceVars, autoSync, phase, pc, late, stack, list, age, result>>

(* "prerequisite" and "awaiting" are drafts that wait for another member   *)
(* or for validation; "draft" is any other one.  "plan_ok" and "invalid"   *)
(* are validating_failed, with and without a successful plan; "broken" is  *)
(* deploying_failed.  "approved" is validated as well.                     *)
Status ==
  {"prerequisite", "awaiting", "draft", "validating", "approved", "plan_ok",
   "invalid", "deploying", "broken", "deployed", "undeploying",
   "undeploy_failed"}
Readings == [is : Status \cup {"nil"}, coded : BOOLEAN]

(* What each function tells apart of the stack's state and state code:     *)
(* "nil" is no state, "nocode" no state code, "busy" deploying,            *)
(* undeploying or awaiting a member's deployment, "awaiting" a draft that  *)
(* awaits one, "idle" anything else.                                       *)
ToldApart ==
  [deploy   |-> {"nil", "nocode", "deployed", "failed", "idle"},
   ready    |-> {"nil", "busy", "idle"},
   undeploy |-> {"nil", "awaiting", "undeploy_failed", "idle"}]

Unknown == Interval + 2   \* the member is not in memberStateStartTime
Outcomes ==
  {"none", "ok", "awaiting", "nothing", "api", "timeout", "failed", "stuck",
   "stack", "panic"}

-----------------------------------------------------------------------------
(* The member states the code asks for (cloudinfo/projects.go).            *)
Failing == {"invalid", "broken"}
MemberIsDeploying == {"deploying", "validating", "approved"}
MemberIsUndeployed == {"approved", "draft", "awaiting", "prerequisite"}
Transient == {"validating", "deploying", "undeploying"}

(* The scan over the members keeps two flags: deployableState is set by a  *)
(* member that gives hope and cleared by one that failed, and failed is    *)
(* cleared by a member whose plan succeeded, so their order matters.       *)
Hopeful(r) ==
  \/ r.is \in {"nil", "awaiting", "validating", "deploying", "plan_ok"}
  \/ ~r.coded /\ r.is \notin Failing \cup {"deployed"}

Deployable(l) ==
  \E i \in DOMAIN l : /\ Hopeful(l[i])
                      /\ \A j \in i .. Len(l) : l[j].is \notin Failing

FailedWithPlan(l) == \E i \in DOMAIN l : l[i].is \in Failing \cup {"plan_ok"}
Failed(l) ==
  \E i \in DOMAIN l : /\ l[i].is \in Failing
                      /\ \A j \in i .. Len(l) : l[j].is # "plan_ok"

AllDeployedOrApproved(l) ==
  \A i \in DOMAIN l : l[i].is \in {"deployed", "approved"}
AllDeployed(l) == \A i \in DOMAIN l : l[i].is = "deployed"

(* The members' states are dereferenced up to the first that is not        *)
(* deployed, where a missing one panics.                                   *)
FirstIsNil(l) ==
  \E i \in DOMAIN l : /\ l[i].is = "nil"
                      /\ \A j \in 1 .. i - 1 : l[j].is = "deployed"

(* Of the other statuses the code says nothing more than the state.        *)
CodeMatters ==
  {"prerequisite", "awaiting", "draft", "approved", "undeploying", "undeploy_failed"}

(* "Checking if stuck": every member is on its way or deployed.            *)
AllMoving(l) ==
  \A i \in DOMAIN l :
    \/ l[i].is \in MemberIsDeploying \cup {"awaiting", "draft", "deployed"}
    \/ l[i].is = "prerequisite" /\ ~l[i].coded

UndeployedOrFailed(l) ==
  \A i \in DOMAIN l : l[i].is \in MemberIsUndeployed \cup {"undeploy_failed"}
AllUndeployed(l) == \A i \in DOMAIN l : l[i].is \in MemberIsUndeployed

HasNil(l) == \E i \in DOMAIN l : l[i].is = "nil"

-----------------------------------------------------------------------------
(* The Projects service.                                                   *)

Becomes(m, s) == status' = [status EXCEPT ![m] = s]

(* With auto deploy a member goes on by itself from validation to its      *)
(* deployment, until the undeploy is accepted; what runs then still ends.  *)
GoesOn ==
  {<<"prerequisite", "awaiting">>, <<"awaiting", "validating">>,
   <<"approved", "deploying">>, <<"plan_ok", "deploying">>}
Ends ==
  {<<"validating", "approved">>, <<"validating", "plan_ok">>,
   <<"validating", "invalid">>, <<"validating", "draft">>,
   <<"deploying", "deployed">>, <<"deploying", "broken">>,
   <<"undeploying", "draft">>, <<"undeploying", "undeploy_failed">>}

Moves(s) ==
  {t \in Status : <<s, t>> \in Ends \/ (~accepted /\ <<s, t>> \in GoesOn)}

MemberMoves ==
  /\ pc # "end"
  /\ \E m \in Members : \E s \in Moves(status[m]) : Becomes(m, s)
  /\ UNCHANGED <<accepted, autoSync, phase, pc, late, stack, list, age,
                 result>>

(* The stack's state never says of its members what was never true.        *)
Truthful(s) ==
  /\ s = "deployed" => \A m \in Members : status[m] = "deployed"
  /\ s = "failed" =>
       \E m \in Members : status[m] \in Failing \cup {"plan_ok"}
  /\ s = "undeploy_failed" =>
       \E m \in Members : status[m] = "undeploy_failed"
  /\ s = "nil" => "state" \in Blips
  /\ s = "nocode" => "code" \in Blips

ReadingsOf(m) ==
  [is : {status[m]} \cup {s \in {"nil"} : "state" \in Blips},
   coded : {TRUE} \cup {c \in {FALSE} : /\ "code" \in Blips
                                       /\ status[m] \in CodeMatters}]

-----------------------------------------------------------------------------
NoAges == [m \in Members |-> Unknown]

(* RunProjectsTest has created the stack and calls TriggerDeployAndWait.   *)
Init ==
  /\ status \in [Members -> {"prerequisite", "awaiting"}]
  /\ accepted = FALSE
  /\ autoSync \in AutoSync
  /\ phase = "deploy"
  /\ pc = "trigger"
  /\ late = FALSE
  /\ stack = "idle"
  /\ list = <<>>
  /\ age = NoAges
  /\ result = "none"

(* A function returns.  A panic of the deployment is recovered by          *)
(* RunProjectsTest, whose TestTearDown then runs; one of the undeployment  *)
(* is not.                                                                 *)
Return(r) ==
  /\ result' = r
  /\ pc' = IF phase = "deploy" THEN "returned" ELSE "end"
  /\ list' = <<>>

Goto(place) == pc' = place /\ UNCHANGED result
Leave(place) == Goto(place) /\ list' = <<>>

(* Clocks stop once they are beyond the interval.                          *)
Older(clock) ==
  [m \in Members |-> IF clock[m] <= Interval THEN clock[m] + 1 ELSE clock[m]]

-----------------------------------------------------------------------------
(* The deadline of the loop that runs passes.                              *)
Deadline ==
  /\ pc \in {"poll", "members", "sleep", "sleep_stuck", "latest"}
  /\ ~late
  /\ late' = TRUE
  /\ UNCHANGED <<serviceVars, autoSync, phase, pc, stack, list, age, result>>

(* TriggerDeploy, then the members and the stack are read for their names. *)
TriggerDeploy ==
  /\ pc = "trigger"
  /\ \/ "ok" \in CallReplies /\ Leave("poll")
     \/ "err" \in CallReplies /\ Return("api")
  /\ UNCHANGED <<serviceVars, autoSync, phase, late, stack, age>>

(* Every loop ends at its head when its time is over ...                   *)
ExpiredNever == FALSE
Expired == late

TimeOut ==
  /\ pc = "poll"
  /\ Expired
  /\ Return("timeout")
  /\ UNCHANGED <<serviceVars, autoSync, phase, late, stack, age>>

(* ... or starts a poll with GetConfig of the stack.                       *)
ReadStack ==
  /\ pc = "poll"
  /\ ~Expired
  /\ \/ /\ "ok" \in CallReplies
        /\ stack' \in {s \in ToldApart[phase] : Truthful(s)}
        /\ Leave("members")
     \/ /\ "err" \in CallReplies
        /\ Return("api")
        /\ UNCHANGED stack
  /\ UNCHANGED <<serviceVars, autoSync, phase, late, age>>

(* GetStackMembers: one GetConfig per member, in the order of the stack.   *)
(* An error in the second look at a stuck stack leaves it stuck.           *)
ReadMember ==
  /\ pc \in {"members", "latest"}
  /\ Len(list) < N
  /\ \/ /\ "ok" \in CallReplies
        /\ \E r \in ReadingsOf(Len(list) + 1) : list' = Append(list, r)
        /\ UNCHANGED <<pc, result>>
     \/ /\ "err" \in CallReplies
        /\ Return(IF pc = "members" THEN "api"
                  ELSE IF stack = "nil" THEN "stack" ELSE "stuck")
  /\ UNCHANGED <<serviceVars, autoSync, phase, late, stack, age>>

AllRead == Len(list) = N

(* time.Sleep of StackPollTimeSeconds.                                     *)
Sleep ==
  /\ pc \in {"sleep", "sleep_stuck"}
  /\ Goto(IF pc = "sleep" THEN "poll" ELSE "latest")
  /\ age' = IF autoSync THEN Older(age) ELSE age
  /\ UNCHANGED <<serviceVars, autoSync, phase, late, stack, list>>

-----------------------------------------------------------------------------
(* TrackAndResyncState: a member enters the map when it is first seen; it  *)
(* is synchronised, and timed again, when it has been there for longer     *)
(* than the interval.                                                      *)
Tracked(l) ==
  {i \in DOMAIN l : /\ l[i].is # "deployed"
                    /\ ~(l[i].is = "prerequisite" /\ l[i].coded)}
Due(l) == {i \in Tracked(l) : age[i] = Interval + 1}

TrackAndResyncState ==
  LET fresh == {m \in Tracked(list) : age[m] >= Interval + 1}
  IN  age' = [m \in Members |-> IF autoSync /\ m \in fresh THEN 0 ELSE age[m]]
SyncFails == autoSync /\ Due(list) # {} /\ "err" \in CallReplies
SyncPanics == autoSync /\ HasNil(list)

(* A draft makes the scan trigger the deploy again, unless it is known to  *)
(* await a prerequisite or, if it is a container, its members; an error    *)
(* that is not of the SDK panics.                                          *)
Waits(i) ==
  /\ list[i].coded
  /\ \/ list[i].is = "prerequisite"
     \/ list[i].is = "awaiting" /\ i \in Containers
Retriggers ==
  \E i \in DOMAIN list :
    list[i].is \in {"draft", "awaiting", "prerequisite"} /\ ~Waits(i)

TriggerAgain ==
  \/ UNCHANGED status
  \/ /\ Retriggers
     /\ "ok" \in TriggerReplies
     /\ \E m \in Members : status[m] = "draft" /\ Becomes(m, "validating")

ScanPanics ==
  \/ SyncPanics
  \/ Retriggers /\ "err" \in TriggerReplies
  \/ ~Deployable(list) /\ FirstIsNil(list)
ScanMustPanic ==
  \/ SyncPanics
  \/ Retriggers /\ TriggerReplies = {"err"}
  \/ ~Deployable(list) /\ FirstIsNil(list)

(* No member gives hope, none has failed, and not all are deployed.        *)
Suspect == ~Deployable(list) /\ ~AllDeployed(list) /\ ~Failed(list)

(* The end of a poll: what its members say (failure), then what the stack  *)
(* says.                                                                   *)
EndPoll(failure) ==
  \/ stack = "nil" /\ Return("stack")
  \/ stack # "nil" /\ failure # "none" /\ Return(failure)
  \/ stack = "failed" /\ failure = "none" /\ Return("stack")
  \/ /\ stack \notin {"nil", "failed"} /\ failure = "none"
     /\ Leave(IF stack = "deployed" \/ AllDeployed(list)
              THEN "final" ELSE "sleep")

Scan ==
  /\ phase = "deploy" /\ pc = "members" /\ AllRead
  /\ \/ ScanPanics /\ Return("panic") /\ UNCHANGED <<age, status>>
     \/ /\ ~SyncPanics
        /\ SyncFails
        /\ Return("api")
        /\ UNCHANGED <<age, status>>
     \/ /\ ~ScanMustPanic
        /\ TrackAndResyncState
        /\ TriggerAgain
        /\ IF Suspect
             THEN Leave("sleep_stuck")
             ELSE EndPoll(IF Failed(list) THEN "failed" ELSE "none")
  /\ UNCHANGED <<accepted, autoSync, phase, late, stack>>

(* "Checking if stuck", after a sleep.  The message that the stack is      *)
(* still deploying dereferences its state and state code.                  *)
CheckStuck ==
  /\ pc = "latest" /\ AllRead
  /\ \/ HasNil(list) /\ Return("panic")
     \/ ~HasNil(list) /\ ~AllMoving(list) /\ EndPoll("stuck")
     \/ /\ ~HasNil(list) /\ AllMoving(list)
        /\ IF stack \in {"nil", "nocode"}
             THEN Return("panic") ELSE Leave("sleep")
  /\ UNCHANGED <<serviceVars, autoSync, phase, late, stack, age>>

(* The stack's final state is read for a message.                          *)
Final ==
  /\ pc \in {"final", "final_awaiting"}
  /\ \/ /\ "ok" \in CallReplies
        /\ Return(IF pc = "final" THEN "ok" ELSE "awaiting")
     \/ "err" \in CallReplies /\ Return("api")
     \/ "state" \in Blips /\ Return("panic")
  /\ UNCHANGED <<serviceVars, autoSync, phase, late, stack, age>>

-----------------------------------------------------------------------------
(* TestTearDown: TriggerUnDeployAndWait starts with TriggerUnDeploy.       *)
TearDown ==
  /\ pc = "returned"
  /\ phase' = "ready"
  /\ late' = FALSE
  /\ age' = NoAges
  /\ result' = "none"
  /\ pc' = "poll"
  /\ UNCHANGED <<serviceVars, autoSync, stack, list>>

(* The members decide: what the stack says sets readyForUndeploy, which is *)
(* already set.                                                            *)
Quiet(l) == \A i \in DOMAIN l : l[i].is \notin Transient

CheckReady ==
  /\ phase = "ready" /\ pc = "members" /\ AllRead
  /\ \/ /\ HasNil(list) \/ stack = "nil"
        /\ Return("panic")
        /\ UNCHANGED age
     \/ /\ ~SyncPanics
        /\ SyncFails
        /\ Return("api")
        /\ UNCHANGED age
     \/ /\ ~HasNil(list) /\ stack # "nil"
        /\ TrackAndResyncState
        /\ Leave(IF Quiet(list) THEN "undeploy" ELSE "sleep")
  /\ UNCHANGED <<serviceVars, autoSync, phase, late, stack>>

(* UndeployConfig, and the first read of the members and the stack.        *)
UndeployConfig ==
  /\ pc = "undeploy"
  /\ \/ /\ "ok" \in CallReplies
        /\ accepted' = TRUE
        /\ phase' = "undeploy"
        /\ late' = FALSE
        /\ age' = NoAges
        /\ status' = [m \in Members |->
             IF status[m] \in {"deployed", "broken"} THEN "undeploying"
             ELSE status[m]]
        /\ \/ Leave("poll")
           \/ "err" \in CallReplies /\ Return("api")
     \/ /\ \A m \in Members : status[m] \notin {"deployed", "broken"}
        /\ Return("nothing")
        /\ UNCHANGED <<serviceVars, phase, late, age>>
     \/ /\ "err" \in CallReplies
        /\ Return("api")
        /\ UNCHANGED <<serviceVars, phase, late, age>>
  /\ UNCHANGED <<autoSync, stack>>

(* The wait for the undeployment.  A poll that ends it with a failure      *)
(* sleeps first, so the deadline may pass before the loop's result is told *)
(* apart.                                                                  *)
Undeployed ==
  \/ AllUndeployed(list) /\ Leave("final")
  \/ /\ ~AllUndeployed(list)
     /\ \/ stack = "nil" /\ Return("panic")
        \/ /\ stack = "undeploy_failed"
           /\ Return(IF late THEN "timeout" ELSE "failed")
        \/ stack = "awaiting" /\ Leave("final_awaiting")
        \/ /\ stack = "idle"
           /\ IF \E i \in DOMAIN list : list[i].is = "undeploy_failed"
                THEN \E r \in {"timeout", "failed"} :
                       (late => r = "timeout") /\ Return(r)
                ELSE Leave("sleep")

CheckUndeployed ==
  /\ phase = "undeploy" /\ pc = "members" /\ AllRead
  /\ \/ SyncPanics /\ Return("panic") /\ UNCHANGED age
     \/ ~SyncPanics /\ SyncFails /\ Return("api") /\ UNCHANGED age
     \/ ~SyncPanics /\ TrackAndResyncState /\ Undeployed
  /\ UNCHANGED <<serviceVars, autoSync, phase, late, stack>>

Terminated == pc = "end" /\ UNCHANGED vars

-----------------------------------------------------------------------------
Wait == TimeOut \/ ReadStack \/ ReadMember \/ Sleep \/ Final

Code ==
  \/ TriggerDeploy \/ Scan \/ CheckStuck \/ TearDown
  \/ CheckReady \/ UndeployConfig \/ CheckUndeployed \/ Wait

Next == Code \/ MemberMoves \/ Deadline \/ Terminated

Spec == Init /\ [][Next]_vars

(* The calls of the service return and time passes; no member needs to     *)
(* move.                                                                   *)
FairSpec == Spec /\ WF_vars(Code) /\ WF_vars(Deadline)

-----------------------------------------------------------------------------
TypeOK ==
  /\ status \in [Members -> Status]
  /\ accepted \in BOOLEAN
  /\ autoSync \in BOOLEAN
  /\ phase \in {"deploy", "ready", "undeploy"}
  /\ pc \in {"trigger", "poll", "members", "sleep", "sleep_stuck", "latest",
             "final", "final_awaiting", "returned", "undeploy", "end"}
  /\ late \in BOOLEAN
  /\ stack \in ToldApart.deploy \cup ToldApart.ready \cup ToldApart.undeploy
  /\ list \in Seq(Readings) /\ Len(list) <= N
  /\ age \in [Members -> 0 .. Unknown]
  /\ result \in Outcomes

(* A deployment that succeeds has deployed every member, although the      *)
(* stack and the members are read one after the other while they change.   *)
DeploySound ==
  pc = "returned" /\ result = "ok"
    => \A m \in Members : status[m] = "deployed"

(* A deployment is reported as failed only if a member has failed: a       *)
(* failed validation whose plan succeeded is none.                         *)
DeployFailureReal ==
  pc = "returned" /\ result = "failed"
    => \E m \in Members : status[m] \in Failing

(* An undeployment that succeeds by its members has undeployed all of      *)
(* them, although some may have been on their way when it was triggered.   *)
UndeploySound ==
  pc = "end" /\ result = "ok"
    => \A m \in Members : status[m] \in MemberIsUndeployed

(* Both functions return, however the members behave: no poll and no       *)
(* retry outlives the deadline.                                            *)
Returns == <>(pc = "end")

(* What comments say and the code does not do.                             *)

(* testprojects/tests.go:558: the undeploy is triggered only if the stack  *)
(* is not in a deploying or undeploying state.                             *)
UndeployWaitsForStack == pc = "undeploy" => stack # "busy"
=============================================================================
