----------------------- MODULE StackDeployment_proof -----------------------
(***************************************************************************)
(* Type correctness of StackDeployment, that a deployment or an            *)
(* undeployment that succeeds means what it says, and so does a deployment *)
(* that has failed, for any number of members.                             *)
(***************************************************************************)
EXTENDS StackDeployment, TLAPS

(* What is read of a member is a reading.                                  *)
LEMMA ReadingType ==
  ASSUME TypeOK, NEW m \in Members
  PROVE  /\ ReadingsOf(m) \subseteq Readings
         /\ \A r \in ReadingsOf(m) : r.is \in {status[m], "nil"}
PROOF
  BY DEF ReadingsOf, Readings, TypeOK

(* A step of a member leaves its status a status.                          *)
LEMMA MovesType ==
  ASSUME NEW s \in Status
  PROVE  Moves(s) \subseteq Status
PROOF
  BY DEF Moves, Status

(* Clocks stay in their range.                                             *)
LEMMA OlderType ==
  ASSUME NEW clock \in [Members -> 0 .. Unknown]
  PROVE  Older(clock) \in [Members -> 0 .. Unknown]
PROOF
  BY IntervalAssumption DEF Older, Unknown

LEMMA FreshType ==
  ASSUME TypeOK, TrackAndResyncState
  PROVE  age' \in [Members -> 0 .. Unknown]
PROOF
  BY IntervalAssumption DEF TrackAndResyncState, Unknown, TypeOK

Places ==
  {"trigger", "poll", "members", "sleep", "sleep_stuck", "latest",
   "final", "final_awaiting", "returned", "undeploy", "end"}

(* Every way to leave a place keeps the types of what it changes.          *)
LEMMA LeaveType ==
  ASSUME TypeOK, NEW place \in Places, Leave(place)
  PROVE  pc' \in Places /\ result' \in Outcomes /\ list' = <<>>
PROOF
  BY DEF Leave, Goto, TypeOK

LEMMA ReturnType ==
  ASSUME NEW r \in Outcomes, Return(r)
  PROVE  pc' \in Places /\ result' \in Outcomes /\ list' = <<>>
PROOF
  BY DEF Return, Places

LEMMA EndPollType ==
  ASSUME TypeOK, NEW f \in {"none", "failed", "stuck"}, EndPoll(f)
  PROVE  pc' \in Places /\ result' \in Outcomes /\ list' = <<>>
PROOF
<1>1. CASE stack = "nil" \/ stack = "failed" \/ f # "none"
  <2>1. \E r \in Outcomes : Return(r)
    BY <1>1 DEF EndPoll, Outcomes
  <2> QED
    BY <2>1, ReturnType
<1>2. CASE ~(stack = "nil" \/ stack = "failed" \/ f # "none")
  <2>1. \E place \in Places : Leave(place)
    BY <1>2 DEF EndPoll, Places
  <2> QED
    BY <2>1, LeaveType
<1> QED
  BY <1>1, <1>2

(* The part of TypeOK about the variables that pass through Leave, Return  *)
(* and EndPoll.                                                            *)
Passes == pc' \in Places /\ result' \in Outcomes /\ list' = <<>>

(* No step leaves the types.                                               *)
LEMMA TypeStep == TypeOK /\ [Next]_vars => TypeOK'
PROOF
<1> USE NAssumption, IntervalAssumption, InputsAssumption
<1> SUFFICES ASSUME TypeOK, [Next]_vars PROVE TypeOK'
  OBVIOUS
<1>0. ASSUME Passes, status' \in [Members -> Status],
             accepted' \in BOOLEAN, autoSync' = autoSync,
             phase' \in {"deploy", "ready", "undeploy"}, late' \in BOOLEAN,
             stack' \in ToldApart.deploy \cup ToldApart.ready \cup ToldApart.undeploy,
             age' \in [Members -> 0 .. Unknown]
      PROVE  TypeOK'
  BY <1>0 DEF TypeOK, Passes, Places
<1>1. CASE MemberMoves
  <2>1. PICK m \in Members : \E s \in Moves(status[m]) : Becomes(m, s)
    BY <1>1 DEF MemberMoves
  <2>2. Moves(status[m]) \subseteq Status
    BY MovesType DEF TypeOK
  <2>3. status' \in [Members -> Status]
    BY <2>1, <2>2 DEF Becomes, TypeOK
  <2> QED
    BY <1>1, <2>3 DEF MemberMoves, TypeOK
<1>2. CASE Deadline
  BY <1>2 DEF Deadline, serviceVars, TypeOK
<1>3. CASE TriggerDeploy
  <2>1. Passes
    BY <1>3, LeaveType, ReturnType DEF TriggerDeploy, Passes, Places, Outcomes
  <2> QED
    BY <1>0, <1>3, <2>1 DEF TriggerDeploy, serviceVars, TypeOK
<1>4. CASE TimeOut
  <2>1. Passes
    BY <1>4, ReturnType DEF TimeOut, Passes, Outcomes
  <2> QED
    BY <1>0, <1>4, <2>1 DEF TimeOut, serviceVars, TypeOK
<1>5. CASE ReadStack
  <2>1. Passes
    BY <1>5, LeaveType, ReturnType DEF ReadStack, Passes, Places, Outcomes
  <2>2. stack' \in ToldApart.deploy \cup ToldApart.ready \cup ToldApart.undeploy
    BY <1>5 DEF ReadStack, ToldApart, TypeOK
  <2> QED
    BY <1>0, <1>5, <2>1, <2>2 DEF ReadStack, serviceVars, TypeOK
<1>6. CASE ReadMember
  <2>1. CASE \E r \in ReadingsOf(Len(list) + 1) : list' = Append(list, r) /\ UNCHANGED <<pc, result>>
    <3>1. Len(list) + 1 \in Members
      BY <1>6 DEF ReadMember, Members, TypeOK
    <3>2. list' \in Seq(Readings) /\ Len(list') <= N
      BY <2>1, <3>1, <1>6, ReadingType DEF ReadMember, TypeOK
    <3> QED
      BY <1>6, <2>1, <3>2 DEF ReadMember, serviceVars, TypeOK
  <2>2. CASE \E r \in Outcomes : Return(r)
    <3>1. Passes
      BY <2>2, ReturnType DEF Passes
    <3> QED
      BY <1>0, <1>6, <3>1 DEF ReadMember, serviceVars, TypeOK
  <2> QED
    BY <1>6, <2>1, <2>2 DEF ReadMember, Outcomes
<1>7. CASE Sleep
  <2>1. age' \in [Members -> 0 .. Unknown]
    BY <1>7, OlderType DEF Sleep, TypeOK
  <2> QED
    BY <1>7, <2>1 DEF Sleep, Goto, serviceVars, TypeOK
<1>8. CASE Final
  <2>1. Passes
    BY <1>8, ReturnType DEF Final, Passes, Outcomes
  <2> QED
    BY <1>0, <1>8, <2>1 DEF Final, serviceVars, TypeOK
<1>9. CASE Scan
  <2>1. Passes
    BY <1>9, LeaveType, ReturnType, EndPollType
       DEF Scan, Passes, Places, Outcomes
  <2>2. age' \in [Members -> 0 .. Unknown]
    BY <1>9, FreshType DEF Scan, TypeOK
  <2>3. status' \in [Members -> Status]
    BY <1>9 DEF Scan, TriggerAgain, Becomes, Status, TypeOK
  <2> QED
    BY <1>0, <1>9, <2>1, <2>2, <2>3 DEF Scan, TypeOK
<1>10. CASE CheckStuck
  <2>1. Passes
    BY <1>10, LeaveType, ReturnType, EndPollType
       DEF CheckStuck, Passes, Places, Outcomes
  <2> QED
    BY <1>0, <1>10, <2>1 DEF CheckStuck, serviceVars, TypeOK
<1>11. CASE TearDown
  <2>1. age' \in [Members -> 0 .. Unknown]
    BY <1>11 DEF TearDown, NoAges, Unknown
  <2> QED
    BY <1>11, <2>1 DEF TearDown, Outcomes, serviceVars, TypeOK
<1>12. CASE CheckReady
  <2>1. Passes
    BY <1>12, LeaveType, ReturnType DEF CheckReady, Passes, Places, Outcomes
  <2>2. age' \in [Members -> 0 .. Unknown]
    BY <1>12, FreshType DEF CheckReady, TypeOK
  <2> QED
    BY <1>0, <1>12, <2>1, <2>2 DEF CheckReady, serviceVars, TypeOK
<1>13. CASE UndeployConfig
  <2>1. Passes
    BY <1>13, LeaveType, ReturnType DEF UndeployConfig, Passes, Places, Outcomes
  <2>2. age' \in [Members -> 0 .. Unknown] /\ status' \in [Members -> Status]
    BY <1>13 DEF UndeployConfig, NoAges, Unknown, Status, serviceVars, TypeOK
  <2>3. /\ accepted' \in BOOLEAN /\ late' \in BOOLEAN
        /\ phase' \in {"deploy", "ready", "undeploy"}
        /\ autoSync' = autoSync /\ stack' = stack
    BY <1>13 DEF UndeployConfig, serviceVars, TypeOK
  <2> QED
    BY <1>0, <2>1, <2>2, <2>3 DEF TypeOK
<1>14. CASE CheckUndeployed
  <2>1. Passes
    <3>1. Undeployed => Passes
      BY LeaveType, ReturnType DEF Undeployed, Passes, Places, Outcomes
    <3> QED
      BY <1>14, <3>1, ReturnType DEF CheckUndeployed, Passes, Outcomes
  <2>2. age' \in [Members -> 0 .. Unknown]
    BY <1>14, FreshType DEF CheckUndeployed, TypeOK
  <2> QED
    BY <1>0, <1>14, <2>1, <2>2 DEF CheckUndeployed, serviceVars, TypeOK
<1>15. CASE Terminated \/ UNCHANGED vars
  BY <1>15 DEF Terminated, vars, serviceVars, TypeOK
<1> QED
  BY <1>1, <1>2, <1>3, <1>4, <1>5, <1>6, <1>7, <1>8, <1>9, <1>10, <1>11,
     <1>12, <1>13, <1>14, <1>15 DEF Next, Code, Wait

(* The initial states have the types.                                      *)
LEMMA InitType == Init => TypeOK
PROOF
<1> USE NAssumption, IntervalAssumption, InputsAssumption
<1> SUFFICES ASSUME Init PROVE TypeOK
  OBVIOUS
<1>1. status \in [Members -> Status]
  BY DEF Init, Status
<1>2. age \in [Members -> 0 .. Unknown]
  BY DEF Init, NoAges, Unknown
<1>3. autoSync \in BOOLEAN
  BY DEF Init
<1>4. list \in Seq(Readings) /\ Len(list) <= N
  BY DEF Init
<1>5. stack \in ToldApart.deploy
  BY DEF Init, ToldApart
<1> QED
  BY <1>1, <1>2, <1>3, <1>4, <1>5 DEF Init, TypeOK, Outcomes

(* Every reachable state is well typed, for any number of members, and     *)
(* any replies of the service.                                             *)
THEOREM TypeCorrect == Spec => []TypeOK
PROOF
  BY InitType, TypeStep, PTL DEF Spec

(* The statuses that make a member done, in the deployment and in the      *)
(* undeployment.                                                           *)
Goal ==
  IF phase = "deploy" THEN {"deployed"}
  ELSE IF phase = "undeploy" THEN MemberIsUndeployed ELSE {}
AllDone == \A m \in Members : status[m] \in Goal

(* Where each function can be.                                             *)
PlacesOfPhases ==
  /\ accepted <=> phase = "undeploy"
  /\ pc = "returned" => phase = "deploy"
  /\ pc = "undeploy" => phase = "ready"
  /\ pc \in {"sleep_stuck", "latest"} => phase = "deploy"
  /\ pc = "final_awaiting" => phase = "undeploy"
  /\ pc = "end" => phase # "deploy"

(* A member that was read as done is still done, so a list of members all  *)
(* read as done, and a stack read as deployed, speak of the present.       *)
IInv ==
  /\ TypeOK
  /\ PlacesOfPhases
  /\ \A i \in DOMAIN list : list[i].is \in Goal => status[i] \in Goal
  /\ phase = "deploy" /\ stack = "deployed" => AllDone
  /\ pc = "final" => AllDone
  /\ result = "ok" => AllDone

(* What a step within a phase must not disturb: a member that is done      *)
(* stays done.                                                             *)
Kept == \A m \in Members : status[m] \in Goal => status'[m] \in Goal

(* A step within a phase that keeps what is done, and comes to a place, a  *)
(* result or a reading of the stack only when all is done, preserves IInv. *)
LEMMA Preserved ==
  ASSUME IInv, TypeOK', PlacesOfPhases', phase' = phase, Kept,
         list' \in {<<>>, list},
         phase = "deploy" /\ stack' = "deployed" => AllDone,
         pc' = "final" => AllDone, result' = "ok" => AllDone
  PROVE  IInv'
PROOF
<1>1. Goal' = Goal
  BY DEF Goal
<1>2. AllDone => AllDone'
  BY <1>1 DEF AllDone, Kept
<1>3. ASSUME NEW i \in DOMAIN list', list'[i].is \in Goal'
      PROVE  status'[i] \in Goal'
  <2>1. list' = list
    BY <1>3
  <2>2. i \in Members
    BY <2>1, <1>3, NAssumption DEF IInv, TypeOK, Members
  <2> QED
    BY <1>1, <1>3, <2>1, <2>2 DEF IInv, Kept
<1> QED
  BY <1>2, <1>3 DEF IInv

(* All members were read as deployed: they all are.                        *)
LEMMA ReadDone ==
  ASSUME IInv, AllRead, \A i \in DOMAIN list : list[i].is \in Goal
  PROVE  AllDone
PROOF
  BY NAssumption DEF IInv, TypeOK, AllRead, AllDone, Members

(* A member moves: one that is deployed stays so, one that is undeployed   *)
(* stays so once the undeploy is accepted.                                 *)
LEMMA MoveKeeps ==
  ASSUME IInv, MemberMoves
  PROVE  Kept
PROOF
<1>1. PICK m \in Members : \E s \in Moves(status[m]) : Becomes(m, s)
  BY DEF MemberMoves
<1>2. PICK s \in Moves(status[m]) : Becomes(m, s)
  BY <1>1
<1>3. status[m] \in Goal => s \in Goal
  BY <1>2 DEF Goal, Moves, Ends, GoesOn, MemberIsUndeployed, IInv, PlacesOfPhases
<1> QED
  BY <1>2, <1>3 DEF Kept, Becomes, IInv, TypeOK

(* The service validates a draft again: no member that is done is one.     *)
LEMMA TriggerKeeps ==
  ASSUME IInv, phase = "deploy", TriggerAgain
  PROVE  Kept
PROOF
  BY DEF Kept, TriggerAgain, Becomes, Goal, IInv, TypeOK

(* The stack is read: deployed says so of all its members.                 *)
LEMMA StackDone ==
  ASSUME IInv, phase = "deploy", Truthful("deployed")
  PROVE  AllDone
PROOF
  BY DEF Truthful, AllDone, Goal

(* The ways to leave a place.                                              *)
LEMMA Ways ==
  /\ \A place : Leave(place) => pc' = place /\ result' = result /\ list' = <<>>
  /\ \A r : Return(r) =>
       /\ pc' = (IF phase = "deploy" THEN "returned" ELSE "end")
       /\ result' = r /\ list' = <<>>
PROOF
  BY DEF Leave, Goto, Return

(* EndPoll comes to the final reading only when all members are deployed.  *)
LEMMA EndPollDone ==
  ASSUME IInv, AllRead, phase = "deploy", NEW f \in {"none", "failed", "stuck"},
         EndPoll(f)
  PROVE  /\ list' = <<>>
         /\ pc' \in {"final", "sleep", "returned"}
         /\ pc' = "final" => AllDone
         /\ result' = "ok" => result = "ok"
PROOF
<1>1. AllDeployed(list) => AllDone
  BY ReadDone DEF AllDeployed, Goal
<1>2. stack = "deployed" => AllDone
  BY DEF IInv
<1>3. CASE \E r \in Outcomes \ {"ok"} : Return(r)
  BY <1>3, Ways
<1>4. CASE /\ stack # "nil" /\ f = "none"
           /\ Leave(IF stack = "deployed" \/ AllDeployed(list)
                    THEN "final" ELSE "sleep")
  BY <1>1, <1>2, <1>4, Ways
<1> QED
  BY <1>3, <1>4 DEF EndPoll, Outcomes

(* No step disturbs the invariant.                                         *)
LEMMA Step == IInv /\ [Next]_vars => IInv'
PROOF
<1> USE NAssumption
<1> SUFFICES ASSUME IInv, [Next]_vars PROVE IInv'
  OBVIOUS
<1>0. TypeOK /\ TypeOK'
  BY TypeStep DEF IInv
<1>a. status' = status => Kept
  BY DEF Kept
<1>1. CASE MemberMoves
  BY <1>0, <1>1, MoveKeeps, Preserved
     DEF MemberMoves, Becomes, PlacesOfPhases, IInv
<1>2. CASE Deadline
  BY <1>0, <1>2, <1>a, Preserved DEF Deadline, serviceVars, PlacesOfPhases, IInv
<1>3. CASE TriggerDeploy
  BY <1>0, <1>3, <1>a, Preserved, Ways
     DEF TriggerDeploy, serviceVars, PlacesOfPhases, IInv
<1>4. CASE TimeOut
  BY <1>0, <1>4, <1>a, Preserved, Ways
     DEF TimeOut, serviceVars, PlacesOfPhases, IInv
<1>5. CASE ReadStack
  <2>1. phase = "deploy" /\ stack' = "deployed" => AllDone
    BY <1>5, StackDone DEF ReadStack, IInv
  <2> QED
    BY <1>0, <1>5, <2>1, <1>a, Preserved, Ways
       DEF ReadStack, serviceVars, PlacesOfPhases, IInv
<1>6. CASE ReadMember
  <2>1. CASE \E r \in ReadingsOf(Len(list) + 1) :
               list' = Append(list, r) /\ UNCHANGED <<pc, result>>
    <3>1. PICK r \in ReadingsOf(Len(list) + 1) : list' = Append(list, r)
      BY <2>1
    <3>2. Len(list) + 1 \in Members
      BY <1>0, <1>6 DEF ReadMember, Members, TypeOK
    <3>3. r.is \in {status[Len(list) + 1], "nil"} /\ r \in Readings
      BY <1>0, <3>2, ReadingType
    <3>4. "nil" \notin Goal
      BY DEF Goal, MemberIsUndeployed
    <3>5. \A i \in DOMAIN list' : list'[i].is \in Goal => status[i] \in Goal
      BY <1>0, <3>1, <3>3, <3>4 DEF IInv, TypeOK
    <3>6. Goal' = Goal /\ status' = status
      BY <1>6 DEF ReadMember, Goal, serviceVars
    <3>7. AllDone' = AllDone
      BY <3>6 DEF AllDone
    <3>8. PlacesOfPhases'
      BY <1>6, <2>1 DEF ReadMember, serviceVars, PlacesOfPhases, IInv
    <3> QED
      BY <1>0, <1>6, <2>1, <3>5, <3>6, <3>7, <3>8 DEF ReadMember, IInv
  <2>2. CASE \E r \in Outcomes \ {"ok"} : Return(r)
    BY <1>0, <1>6, <2>2, <1>a, Preserved, Ways
       DEF ReadMember, serviceVars, PlacesOfPhases, IInv
  <2> QED
    BY <1>6, <2>1, <2>2 DEF ReadMember, Outcomes
<1>7. CASE Sleep
  BY <1>0, <1>7, <1>a, Preserved
     DEF Sleep, Goto, serviceVars, PlacesOfPhases, IInv
<1>8. CASE Final
  BY <1>0, <1>8, <1>a, Preserved, Ways
     DEF Final, serviceVars, PlacesOfPhases, IInv
<1>9. CASE Scan
  <2>1. Kept
    BY <1>9, <1>a, TriggerKeeps DEF Scan
  <2>2. /\ list' = <<>>
        /\ pc' \in {"final", "sleep", "sleep_stuck", "returned"}
        /\ pc' = "final" => AllDone
        /\ result' = "ok" => result = "ok"
    BY <1>9, Ways, EndPollDone DEF Scan
  <2> QED
    BY <1>0, <1>9, <2>1, <2>2, Preserved DEF Scan, PlacesOfPhases, IInv
<1>10. CASE CheckStuck
  <2>1. phase = "deploy"
    BY <1>10 DEF CheckStuck, PlacesOfPhases, IInv
  <2>2. /\ list' = <<>>
        /\ pc' \in {"final", "sleep", "returned"}
        /\ pc' = "final" => AllDone
        /\ result' = "ok" => result = "ok"
    BY <1>10, <2>1, Ways, EndPollDone DEF CheckStuck
  <2> QED
    BY <1>0, <1>10, <2>1, <2>2, <1>a, Preserved
       DEF CheckStuck, serviceVars, PlacesOfPhases, IInv
<1>11. CASE TearDown
  <2>1. Goal' = {}
    BY <1>11 DEF TearDown, Goal
  <2> QED
    BY <1>0, <1>11, <2>1 DEF TearDown, serviceVars, PlacesOfPhases, IInv
<1>12. CASE CheckReady
  BY <1>0, <1>12, <1>a, Preserved, Ways
     DEF CheckReady, serviceVars, PlacesOfPhases, IInv
<1>13. CASE UndeployConfig
  <2>1. phase = "ready"
    BY <1>13 DEF UndeployConfig, PlacesOfPhases, IInv
  <2>2. result # "ok"
    BY <2>1 DEF IInv, AllDone, Goal, Members
  <2>3. list' = <<>> /\ pc' \in {"poll", "end"} /\ result' # "ok"
    BY <1>13, <2>1, <2>2, Ways DEF UndeployConfig
  <2>4. phase' # "deploy" /\ PlacesOfPhases'
    BY <1>13, <2>1, <2>3 DEF UndeployConfig, serviceVars, PlacesOfPhases, IInv
  <2> QED
    BY <1>0, <2>3, <2>4 DEF IInv
<1>14. CASE CheckUndeployed
  <2>1. phase = "undeploy" /\ AllRead
    BY <1>14 DEF CheckUndeployed
  <2>2. AllUndeployed(list) => AllDone
    BY <2>1, ReadDone DEF AllUndeployed, Goal
  <2>3. Undeployed => /\ list' = <<>>
                      /\ pc' \in {"final", "final_awaiting", "sleep", "end"}
                      /\ pc' = "final" => AllDone
                      /\ result' = "ok" => result = "ok"
    BY <2>1, <2>2, Ways DEF Undeployed
  <2>4. /\ list' = <<>>
        /\ pc' \in {"final", "final_awaiting", "sleep", "end"}
        /\ pc' = "final" => AllDone
        /\ result' = "ok" => result = "ok"
    BY <1>14, <2>1, <2>3, Ways DEF CheckUndeployed
  <2> QED
    BY <1>0, <1>14, <2>1, <2>4, <1>a, Preserved
       DEF CheckUndeployed, serviceVars, PlacesOfPhases, IInv
<1>15. CASE Terminated \/ UNCHANGED vars
  <2>1. UNCHANGED vars
    BY <1>15 DEF Terminated
  <2>2. Goal' = Goal
    BY <2>1 DEF Goal, vars
  <2> QED
    BY <1>0, <2>1, <1>a, Preserved
       DEF vars, serviceVars, PlacesOfPhases, IInv
<1> QED
  BY <1>1, <1>2, <1>3, <1>4, <1>5, <1>6, <1>7, <1>8, <1>9, <1>10, <1>11,
     <1>12, <1>13, <1>14, <1>15 DEF Next, Code, Wait

LEMMA Invariance == Spec => []IInv
PROOF
<1>1. Init => IInv
  <2> SUFFICES ASSUME Init PROVE IInv
    OBVIOUS
  <2>1. TypeOK
    BY InitType
  <2> QED
    BY <2>1 DEF Init, IInv, PlacesOfPhases
<1> QED
  BY <1>1, Step, PTL DEF Spec

(* A deployment that returns with success has deployed every member: what  *)
(* TriggerDeployAndWait read of them, one by one, is still true.           *)
THEOREM DeploymentSound == Spec => []DeploySound
PROOF
<1>1. IInv => DeploySound
  BY DEF IInv, PlacesOfPhases, DeploySound, AllDone, Goal
<1> QED
  BY <1>1, Invariance, PTL

(* An undeployment that ends with success by its members has undeployed    *)
(* all of them, those included that began to deploy after the last look at *)
(* them before it was triggered.                                           *)
THEOREM UndeploymentSound == Spec => []UndeploySound
PROOF
<1>1. IInv => UndeploySound
  <2> SUFFICES ASSUME IInv, pc = "end", result = "ok"
               PROVE  \A m \in Members : status[m] \in MemberIsUndeployed
    BY DEF UndeploySound
  <2>1. AllDone /\ phase # "deploy"
    BY DEF IInv, PlacesOfPhases
  <2> QED
    BY <2>1 DEF AllDone, Goal
<1> QED
  BY <1>1, Invariance, PTL

-----------------------------------------------------------------------------
(* The other way round: while it is deployed a member that has failed      *)
(* stays so, hence one that was read as failed still is.                   *)
SomeFailed == \E m \in Members : status[m] \in Failing
FailInv ==
  phase = "deploy" =>
    /\ \A i \in DOMAIN list : list[i].is \in Failing => status[i] \in Failing
    /\ result = "failed" => SomeFailed

StaysFailed == \A m \in Members : status[m] \in Failing => status'[m] \in Failing

LEMMA FailPreserved ==
  ASSUME IInv, FailInv, StaysFailed, phase' = phase, list' \in {<<>>, list},
         phase = "deploy" /\ result' = "failed" => SomeFailed
  PROVE  FailInv'
PROOF
<1>1. SomeFailed => SomeFailed'
  BY DEF SomeFailed, StaysFailed
<1>2. ASSUME phase = "deploy", NEW i \in DOMAIN list', list'[i].is \in Failing
      PROVE  status'[i] \in Failing
  <2>1. list' = list
    BY <1>2
  <2>2. i \in Members
    BY <1>2, <2>1, NAssumption DEF IInv, TypeOK, Members
  <2> QED
    BY <1>2, <2>1, <2>2 DEF FailInv, StaysFailed
<1> QED
  BY <1>1, <1>2 DEF FailInv

(* The end of a poll reports a failure only if a member has failed.        *)
LEMMA EndPollFailed ==
  ASSUME IInv, FailInv, phase = "deploy", NEW f \in {"none", "failed", "stuck"},
         EndPoll(f), f = "failed" => Failed(list)
  PROVE  list' = <<>> /\ (result' = "failed" => SomeFailed)
PROOF
<1>1. Failed(list) => SomeFailed
  <2> SUFFICES ASSUME Failed(list) PROVE SomeFailed
    OBVIOUS
  <2>1. PICK i \in DOMAIN list : list[i].is \in Failing
    BY DEF Failed
  <2>2. i \in Members
    BY <2>1, NAssumption DEF IInv, TypeOK, Members
  <2> QED
    BY <2>1, <2>2 DEF FailInv, SomeFailed
<1>2. CASE \E r \in Outcomes \ {"failed"} : Return(r)
  BY <1>2, Ways
<1>3. CASE f = "failed" /\ Return(f)
  BY <1>1, <1>3, Ways
<1>4. CASE \E place \in {"final", "sleep"} : Leave(place)
  BY <1>4, Ways DEF FailInv
<1> QED
  BY <1>2, <1>3, <1>4 DEF EndPoll, Outcomes

LEMMA FailStep == IInv /\ FailInv /\ [Next]_vars => FailInv'
PROOF
<1> SUFFICES ASSUME IInv, FailInv, [Next]_vars PROVE FailInv'
  OBVIOUS
<1>a. status' = status => StaysFailed
  BY DEF StaysFailed
<1>b. phase = "deploy" /\ result' = result /\ result' = "failed" => SomeFailed
  BY DEF FailInv
<1>1. CASE MemberMoves
  <2>1. StaysFailed
    <3>1. PICK m \in Members : \E s \in Moves(status[m]) : Becomes(m, s)
      BY <1>1 DEF MemberMoves
    <3>2. PICK s \in Moves(status[m]) : Becomes(m, s)
      BY <3>1
    <3>3. status[m] \notin Failing
      BY <3>2 DEF Moves, Ends, GoesOn, Failing
    <3> QED
      BY <3>2, <3>3 DEF StaysFailed, Becomes, IInv, TypeOK
  <2> QED
    BY <1>1, <1>b, <2>1, FailPreserved DEF MemberMoves
<1>2. CASE \/ Deadline \/ Sleep \/ Terminated \/ UNCHANGED vars
  BY <1>2, <1>a, <1>b, FailPreserved
  DEF Deadline, Sleep, Goto, Terminated, vars, serviceVars
<1>3. CASE TriggerDeploy \/ TimeOut \/ ReadStack \/ Final \/ CheckReady
  <2>1. UNCHANGED <<serviceVars, phase>>
    BY <1>3 DEF TriggerDeploy, TimeOut, ReadStack, Final, CheckReady
  <2>2. list' = <<>> /\ (result' = result \/ result' # "failed")
    BY <1>3, Ways DEF TriggerDeploy, TimeOut, ReadStack, Final, CheckReady
  <2> QED
    BY <2>1, <2>2, <1>a, <1>b, FailPreserved DEF serviceVars
<1>4. CASE ReadMember
  <2>0. TypeOK /\ UNCHANGED <<status, phase>>
    BY <1>4 DEF ReadMember, IInv, serviceVars
  <2>1. CASE \E r \in ReadingsOf(Len(list) + 1) :
               list' = Append(list, r) /\ UNCHANGED <<pc, result>>
    <3>1. PICK r \in ReadingsOf(Len(list) + 1) : list' = Append(list, r)
      BY <2>1
    <3>2. Len(list) + 1 \in Members
      BY <2>0, <1>4, NAssumption DEF ReadMember, Members, TypeOK
    <3>3. r.is \in {status[Len(list) + 1], "nil"} /\ r \in Readings
      BY <2>0, <3>2, ReadingType
    <3>4. "nil" \notin Failing
      BY DEF Failing
    <3>5. ASSUME phase = "deploy"
          PROVE  \A i \in DOMAIN list' : list'[i].is \in Failing => status[i] \in Failing
      BY <2>0, <3>1, <3>3, <3>4, <3>5 DEF FailInv, TypeOK
    <3>6. SomeFailed' = SomeFailed /\ UNCHANGED result
      BY <2>0, <2>1 DEF SomeFailed
    <3> QED
      BY <2>0, <3>5, <3>6 DEF FailInv
  <2>2. CASE \E r \in Outcomes \ {"failed"} : Return(r)
    BY <2>0, <2>2, <1>a, FailPreserved, Ways
  <2> QED
    BY <1>4, <2>1, <2>2 DEF ReadMember, Outcomes
<1>5. CASE Scan
  <2>1. StaysFailed
    BY <1>5, <1>a DEF Scan, TriggerAgain, Becomes, StaysFailed, Failing, IInv, TypeOK
  <2>2. list' = <<>> /\ (result' = "failed" => SomeFailed)
    <3>1. CASE \E r \in Outcomes \ {"failed"} : Return(r)
      BY <3>1, Ways
    <3>2. CASE \E place : Leave(place)
      BY <1>5, <3>2, Ways DEF FailInv, Scan
    <3>3. CASE EndPoll(IF Failed(list) THEN "failed" ELSE "none")
      BY <1>5, <3>3, EndPollFailed DEF Scan
    <3> QED
      BY <1>5, <3>1, <3>2, <3>3 DEF Scan, Outcomes
  <2> QED
    BY <1>5, <2>1, <2>2, FailPreserved DEF Scan
<1>6. CASE CheckStuck
  <2>1. phase = "deploy" /\ phase' = phase /\ status' = status
    BY <1>6 DEF CheckStuck, PlacesOfPhases, IInv, serviceVars
  <2>2. list' = <<>> /\ (result' = "failed" => SomeFailed)
    <3>1. CASE \E r \in Outcomes \ {"failed"} : Return(r)
      BY <3>1, Ways
    <3>2. CASE \E place : Leave(place)
      BY <2>1, <3>2, Ways DEF FailInv
    <3>3. CASE EndPoll("stuck")
      BY <2>1, <3>3, EndPollFailed
    <3> QED
      BY <1>6, <3>1, <3>2, <3>3 DEF CheckStuck, Outcomes
  <2> QED
    BY <2>1, <2>2, <1>a, FailPreserved
<1>7. CASE TearDown \/ UndeployConfig \/ CheckUndeployed
  <2>1. phase' # "deploy"
    BY <1>7 DEF TearDown, UndeployConfig, CheckUndeployed, PlacesOfPhases, IInv
  <2> QED
    BY <2>1 DEF FailInv
<1> QED
  BY <1>1, <1>2, <1>3, <1>4, <1>5, <1>6, <1>7 DEF Next, Code, Wait

(* A deployment reported as failed has a member that failed, although the  *)
(* scan's flags depend on the order of the members and the stack is read   *)
(* at another time.                                                        *)
THEOREM DeployFailureGenuine == Spec => []DeployFailureReal
PROOF
<1>1. Init => FailInv
  BY DEF Init, FailInv
<1>2. IInv /\ FailInv => DeployFailureReal
  BY DEF IInv, PlacesOfPhases, FailInv, SomeFailed, DeployFailureReal
<1> QED
  BY <1>1, <1>2, FailStep, Invariance, PTL DEF Spec
=============================================================================
