-------------------------- MODULE StackReferences --------------------------
(***************************************************************************)
(* The references among the inputs and outputs of a stack and its members, *)
(* common/stack_ref_resolver.go, which a failed deployment is explained    *)
(* with.  A stack is a sequence of slots in the order in which the code    *)
(* goes through them: its own inputs and outputs, then those of each       *)
(* member.  A slot has an owner ("" for the stack), a side, a name and     *)
(* what it was given: nothing (or something that is no string and no       *)
(* list), a value, or a reference, a path of parts.                        *)
(***************************************************************************)
EXTENDS Integers, Sequences

TheStack == ""
Unknown == "unknown"
NotGiven == [kind |-> "nothing"]
Value(v) == [kind |-> "value", value |-> v]
Ref(path) == [kind |-> "ref", path |-> path]

\* processValue: a value that is no reference is resolved; what is neither is not, and for
\* an output it is taken as resolved nevertheless.
ProcessValue(given, side) ==
    [isRef |-> given.kind = "ref",
     value |-> IF given.kind = "value" THEN given.value ELSE Unknown,
     resolved |-> given.kind = "value" \/ (side = "outputs" /\ given.kind # "ref")]

\* CreateStackRefStruct, ProcessInputs, ProcessOutputs, ProcessMembers.
CreateStackRefStruct(slots) ==
    [i \in DOMAIN slots |->
        LET read == ProcessValue(slots[i].given, slots[i].side)
        IN  [owner |-> slots[i].owner, side |-> slots[i].side, name |-> slots[i].name,
             given |-> slots[i].given, isRef |-> read.isRef, value |-> read.value,
             resolved |-> read.resolved]]

Lost == [at |-> "lost"]

\* What a path can lead through: where the slots are and what they are called.
Places(stack) == [i \in DOMAIN stack |-> [owner |-> stack[i].owner, side |-> stack[i].side,
                                         name |-> stack[i].name]]
Members(places) == {places[i].owner : i \in DOMAIN places} \ {TheStack}

\* One part further: from the stack to its lists, its members or a member by its name, from
\* a member to its lists, from a list to a value.
NavigateToPart(places, from, part) ==
    LET slots == {i \in DOMAIN places : /\ from.at = "list" /\ places[i].owner = from.owner
                                        /\ places[i].side = from.side /\ places[i].name = part}
    IN  CASE from.at = "stack" /\ part \in {"inputs", "outputs"} ->
                [at |-> "list", owner |-> TheStack, side |-> part]
          [] from.at = "stack" /\ part = "members" -> [at |-> "members"]
          [] from.at \in {"stack", "members"} /\ part \in Members(places) ->
                [at |-> "member", owner |-> part]
          [] from.at = "member" /\ part \in {"inputs", "outputs"} ->
                [at |-> "list", owner |-> from.owner, side |-> part]
          [] slots # {} -> [at |-> "slot", slot |-> CHOOSE i \in slots : \A k \in slots : i <= k]
          [] OTHER -> Lost

\* ".." leads nowhere else.
PartsThatStay == {"..", ""}
Step(places, from, part) ==
    IF part \in PartsThatStay THEN from ELSE NavigateToPart(places, from, part)

\* The parts of a path one after the other.
Target(places, path) ==
    LET at[n \in 0 .. Len(path)] == IF n = 0 THEN [at |-> "stack"]
                                    ELSE Step(places, at[n - 1], path[n])
    IN  at[Len(path)]

\* The value that is known there now.
GetReferenceValue(stack, path) ==
    LET target == Target(Places(stack), path)
    IN  IF target.at = "slot" THEN stack[target.slot].value ELSE Unknown

\* A reference whose value is known becomes resolved, for those after it too.
ResolveSlot(stack, i) ==
    LET value == GetReferenceValue(stack, stack[i].given.path)
    IN  IF ~stack[i].isRef THEN stack
        ELSE IF value = Unknown THEN stack
        ELSE [stack EXCEPT ![i].value = value, ![i].resolved = TRUE]

\* ResolveReferences with resolveConfigRefs: one pass.
ResolveReferences(stack) ==
    LET pass[n \in 0 .. Len(stack)] == IF n = 0 THEN stack ELSE ResolveSlot(pass[n - 1], n)
    IN  pass[Len(stack)]

GetAllUnresolvedRefs(stack) == {i \in DOMAIN stack : ~stack[i].resolved /\ stack[i].isRef}

\* Whether the whole stack is resolved, as CreateStackRefStruct says before the pass and
\* ResolveReferences after it.
StackResolved(stack) == GetAllUnresolvedRefs(stack) = {}

\* isStackResolved: a member's own inputs that are neither text nor list are unresolved
\* here, and are no longer looked at by resolveConfigRefs.
MemberResolved(stack, owner) ==
    \A i \in DOMAIN stack : stack[i].owner = owner => stack[i].resolved
-----------------------------------------------------------------------------
\* The slot that a reference leads to, 0 for none, and the one that n references lead to.
LeadsTo(stack, i) ==
    LET target == Target(Places(stack), stack[i].given.path)
    IN  IF target.at = "slot" THEN target.slot ELSE 0

Follow(stack, i, n) ==
    LET at[k \in 0 .. n] == IF k = 0 THEN i
                            ELSE IF at[k - 1] = 0 THEN 0
                            ELSE IF stack[at[k - 1]].isRef THEN LeadsTo(stack, at[k - 1])
                            ELSE at[k - 1]
    IN  at[n]

\* A reference is given the value at the end of its chain of references and no other; it is
\* left unresolved when the chain ends in no value, or passes a reference that is further
\* down in the stack and so was not resolved yet; and nothing but references changes.
StackReferencesRight(slots, stack) ==
    LET end(i) == Follow(stack, i, Len(stack)) IN
    /\ DOMAIN stack = DOMAIN slots
    /\ \A i \in DOMAIN stack :
          IF stack[i].isRef
          THEN /\ stack[i].resolved =>
                     end(i) # 0 /\ stack[end(i)].given = Value(stack[i].value)
               /\ ~stack[i].resolved =>
                     \/ end(i) = 0 \/ stack[end(i)].given.kind # "value"
                     \/ /\ stack[LeadsTo(stack, i)].isRef
                        /\ LeadsTo(stack, i) > i \/ ~stack[LeadsTo(stack, i)].resolved
          ELSE stack[i] = CreateStackRefStruct(slots)[i]
=============================================================================
