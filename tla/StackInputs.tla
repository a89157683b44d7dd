---------------------------- MODULE StackInputs ----------------------------
(***************************************************************************)
(* The definition of a stack that CreateStackFromConfigFile                *)
(* (cloudinfo/projects.go) makes from a stack file, a catalog file and     *)
(* what the test gives.  An input of the stack file has a name, a type,    *)
(* the metadata of the type and a default, one of the catalog a key for a  *)
(* name and what a default that is a text looks like: a list, an object or *)
(* "".  A value has a type of Go, what it is, the whole number that it is  *)
(* read or cut off as (0 if it cannot be read) and the truth that it is    *)
(* read as, if any.  The test's inputs are a function.                     *)
(***************************************************************************)
EXTENDS Integers, Sequences, FiniteSets, SequencesExt

\* No state, and what is not kept of a value.
Null == "none"

\* "[nil]" stands for a list with no value in it.
GoTypes == {"nil", "string", "int", "int64", "float64", "bool", "[]interface {}", "[nil]",
            "map[string]interface {}"}
InputValue(go, is, number, truth) == [go |-> go, is |-> is, number |-> number, truth |-> truth]

\* convertSliceToString, which panics where there is no value.
AsText(value) ==
    IF value.go = "[]interface {}" THEN InputValue("string", value.is, value.number, value.truth)
    ELSE value
NoText(value) == value.go \in {"nil", "[nil]"}

HasDuplicates(list, Name(_)) == \E i, k \in DOMAIN list : i < k /\ Name(list[i]) = Name(list[k])

\* checkStackForDuplicates.
CheckStackForDuplicates(stack) ==
    \/ HasDuplicates(stack.inputs, LAMBDA i : i.name)
    \/ HasDuplicates(stack.outputs, LAMBDA o : o)
    \/ \E k \in DOMAIN stack.members : HasDuplicates(stack.members[k].inputs, LAMBDA i : i.name)

\* setMemberInputsMap, processMembers: a member's inputs are those of the stack file, but
\* for those that the test gives; the members before the first that cannot be created are.
MemberInputs(member, given) ==
    [n \in {i.name : i \in ToSet(member.inputs)} \cup DOMAIN given |->
        IF n \in DOMAIN given THEN given[n]
        ELSE SelectSeq(member.inputs, LAMBDA i : i.name = n)[Len(SelectSeq(member.inputs,
                                                                 LAMBDA i : i.name = n))].value]

ProcessMembers(stack) ==
    LET bad == {k \in DOMAIN stack.members : ~stack.members[k].created}
    IN  [error |-> bad # {},
         created |-> IF bad = {} THEN Len(stack.members)
                     ELSE (CHOOSE k \in bad : \A j \in bad : k <= j) - 1]

\* trackStackInputs, defineStackIO.
StackValue(in, given) ==
    IF in.name \in DOMAIN given THEN given[in.name]
    ELSE IF in.default.go = "nil" THEN InputValue("string", "__NULL__", 0, "") ELSE in.default

DefineStackIO(stack, given) ==
    [i \in DOMAIN stack.inputs |->
        [name |-> stack.inputs[i].name, type |-> stack.inputs[i].type,
         default |-> AsText(StackValue(stack.inputs[i], given))]]

\* readCatalogConfig: a product or flavor that is not found is the first.
IndexOf(names, name) ==
    IF name \in ToSet(names) THEN CHOOSE i \in DOMAIN names : /\ names[i] = name
                                                              /\ \A k \in 1 .. i - 1 : names[k] # name
    ELSE 1

Flavor(catalog, product, flavor) ==
    LET p == catalog[IndexOf([i \in DOMAIN catalog |-> catalog[i].name], product)]
    IN  p.flavors[IndexOf([i \in DOMAIN p.flavors |-> p.flavors[i].name], flavor)]

texts == {"string", "password", "array", "object"}
truths == {"bool", "boolean"}

\* What an input of a type takes, and as what; it panics over a value that is not even a text.
Takes(type, value) ==
    \/ type = "int" /\ value.go \in {"int", "float64", "string"}
    \/ type \in texts /\ value.go = "string"
    \/ type \in truths /\ (value.go = "bool" \/ (value.go = "string" /\ value.truth # ""))
Taken(type, value) ==
    CASE type = "int" -> InputValue("int64", Null, value.number, "")
      [] type \in truths -> InputValue("bool", Null, 0, value.truth)
      [] OTHER -> value
Refuses(type, value) ==
    \/ type = "int" /\ value.go \notin {"int", "float64", "string"}
    \/ type \in truths /\ value.go \notin {"bool", "string"}

EntryValue(input, given) == IF input.key \in DOMAIN given THEN given[input.key] ELSE input.default
RowsOf(definition, input) == {i \in DOMAIN definition : definition[i].name = input.key}
FirstRow(definition, input) ==
    CHOOSE i \in RowsOf(definition, input) : \A j \in RowsOf(definition, input) : i <= j

\* One input of the catalog, for the first of its name in the definition or as one more.
UpdateInput(definition, input, given) ==
    LET value == AsText(EntryValue(input, given))
        i == FirstRow(definition, input)
    IN  IF value.go = "nil" THEN definition
        ELSE IF RowsOf(definition, input) = {}
             THEN Append(definition, [name |-> input.key, type |-> input.type,
                                      default |-> input.default])
        ELSE IF Takes(definition[i].type, value)
             THEN [definition EXCEPT ![i].default = Taken(definition[i].type, value)]
        ELSE definition

UpdatePanics(definition, input, given) ==
    LET value == AsText(EntryValue(input, given))
    IN  /\ value.go # "nil"
        /\ \/ NoText(value)
           \/ /\ RowsOf(definition, input) # {}
              /\ Refuses(definition[FirstRow(definition, input)].type, value)

\* updateInputsFromCatalog: the definition after each of the catalog's inputs.
Updates(definition, configuration, given) ==
    LET updated[i \in 0 .. Len(configuration)] ==
            IF i = 0 THEN definition ELSE UpdateInput(updated[i - 1], configuration[i], given)
    IN  updated

\* convertGoTypeToExpectedType, isValidType.
ConvertGoType(type) ==
    CASE type \in {"int", "int64", "float32", "float64"} -> "int"
      [] type \in {"[]interface {}", "[nil]"} -> "array"
      [] type = "map[string]interface {}" -> "object"
      [] OTHER -> type

IsValidType(expected, actual) ==
    CASE expected = "password" -> actual \in {"password", "string"}
      [] expected = "boolean" -> actual \in {"boolean", "bool"}
      [] expected = "int" -> actual \in {"int", "int64", "float32", "float64"}
      [] expected = "float" -> actual \in {"float32", "float64"}
      [] OTHER -> expected = actual

\* validateCatalogInputsInStackDefinition: the kinds of what is wrong with an input.  A text
\* that looks like a list or an object passes as one.
Mismatches(stack, input) ==
    LET named == {i \in DOMAIN stack.inputs : stack.inputs[i].name = input.key}
        first == CHOOSE i \in named : \A k \in named : i <= k
        declared == stack.inputs[first]
        expected == ConvertGoType(IF declared.type = "" THEN declared.metadata ELSE declared.type)
        structured == /\ input.default.go = "string"
                      /\ expected \in {"array", "object"}
                      /\ input.looks = expected
    IN  IF input.key = "ibmcloud_api_key" THEN {}
        ELSE IF named = {} THEN {"extra"}
        ELSE (IF input.type # "" /\ ~IsValidType(input.type, expected) THEN {"type"} ELSE {})
             \cup (IF input.metadata # "" /\ ~IsValidType(input.metadata, expected)
                   THEN {"metadata"} ELSE {})
             \cup (IF input.default.go # "nil" /\ ~structured
                      /\ ~IsValidType(expected, ConvertGoType(input.default.go))
                   THEN {"default type"} ELSE {})

\* CreateStackFromConfigFile: the members are created before anything else is looked at.
CreateStackFromConfigFile(stack, catalog, given, product, flavor) ==
    LET configuration == Flavor(catalog, product, flavor).configuration
        members == ProcessMembers(stack)
        updated == Updates(DefineStackIO(stack, given), configuration, given)
        panics ==
            /\ ~members.error
            /\ \/ \E i \in DOMAIN stack.inputs : NoText(StackValue(stack.inputs[i], given))
               \/ \E i \in DOMAIN configuration : UpdatePanics(updated[i - 1], configuration[i], given)
        wrong == \/ CheckStackForDuplicates(stack)
                 \/ HasDuplicates(configuration, LAMBDA i : i.key)
                 \/ \E i \in DOMAIN configuration : Mismatches(stack, configuration[i]) # {}
    IN  [error |-> members.error \/ (~panics /\ wrong), panics |-> panics,
         members |-> members.created,
         definition |-> IF members.error \/ panics \/ wrong THEN <<>>
                        ELSE updated[Len(configuration)]]

\* GetConfigAndDependenciesStates: the states of a configuration and of those members that
\* can be read.
ConfigAndDependenciesStates(main, members) ==
    LET shown(c) == c.readable /\ c.state # Null
    IN  [error |-> ~main.readable,
         states |-> IF ~main.readable THEN <<>>
                    ELSE SelectSeq(<<main>> \o (IF main.stack THEN members ELSE <<>>), shown)]
-----------------------------------------------------------------------------
\* The value of every input of the stack file comes from the test if the test gives one, or
\* else from the catalog if it has one that an input of that type takes, or else from the
\* stack file, and every name is there once; it is kept as a number or a truth if the type
\* asks for one.  Only the API key is added for the catalog, and then with the catalog's value
\* whatever the test gives.  The code panics over nothing but a value that is no text.
DefinitionRight(stack, catalog, given, product, flavor, result) ==
    LET configuration == Flavor(catalog, product, flavor).configuration
        names == {s.name : s \in ToSet(stack.inputs)}
        entries(n) == {c \in ToSet(configuration) : c.key = n}
        taken(d) == {Taken(d.type, AsText(e.default)) :
                        e \in {c \in entries(d.name) : Takes(d.type, AsText(c.default))}}
        kept(type, v) == {v} \cup (IF Takes(type, v) THEN {Taken(type, v)} ELSE {})
        written(n) == {AsText(StackValue(i, given)) : i \in {s \in ToSet(stack.inputs) : s.name = n}}
        right(d) ==
            IF d.name \in DOMAIN given THEN kept(d.type, AsText(given[d.name]))
            ELSE IF taken(d) # {} THEN taken(d)
            ELSE written(d.name)
        values == {given[n] : n \in DOMAIN given} \cup {s.default : s \in ToSet(stack.inputs)}
                  \cup {c.default : c \in ToSet(configuration)}
    IN  /\ result.panics => \E v \in values : AsText(v).go # "string"
        /\ \/ result.error \/ result.panics
           \/ /\ ~HasDuplicates(result.definition, LAMBDA d : d.name)
              /\ names \subseteq {d.name : d \in ToSet(result.definition)}
              /\ \A d \in ToSet(result.definition) :
                    IF d.name \in names THEN d.default \in right(d)
                    ELSE /\ d.name = "ibmcloud_api_key"
                         /\ d.default \in {e.default : e \in entries(d.name)}
=============================================================================
