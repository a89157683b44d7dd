---------------------------- MODULE DataHelpers ----------------------------
(***************************************************************************)
(* What the tests do with plans, overrides and files: common/general.go    *)
(* and common/json_helpers.go.  A JSON value is an object, with a function *)
(* from its keys, a list, or a leaf; a directory has files and other       *)
(* directories below it.                                                   *)
(***************************************************************************)
EXTENDS Integers, Sequences, FiniteSets

LOCAL INSTANCE SequencesExt

Object(f) == [kind |-> "object", of |-> f]
List(s) == [kind |-> "list", of |-> s]
Leaf(v) == [kind |-> "leaf", of |-> v]

Hidden == Leaf("SECURE_VALUE_HIDDEN_HASH")

\* Of these only booleans are expected.
notSanitized == {"before_sensitive", "after_sensitive", "after_unknown"}

RECURSIVE SanitizeJSON(_, _)

\* sanitizeJSON.
SanitizeJSON(data, secure) ==
    CASE data.kind = "object" ->
            Object([k \in DOMAIN data.of |->
                        IF k \in notSanitized THEN data.of[k]
                        ELSE IF k \in secure THEN Hidden ELSE SanitizeJSON(data.of[k], secure)])
      [] data.kind = "list" -> List([i \in DOMAIN data.of |-> SanitizeJSON(data.of[i], secure)])
      [] data.kind = "leaf" -> data

AsBag(list) == [x \in ToSet(list) |-> Cardinality({i \in DOMAIN list : list[i] = x})]

RECURSIVE SortJson(_)

\* SortSlice, SortMap: a list is known by what is in it, each sorted too.
SortJson(data) ==
    CASE data.kind = "object" -> Object([k \in DOMAIN data.of |-> SortJson(data.of[k])])
      [] data.kind = "list" -> [kind |-> "sorted",
                                of |-> AsBag([i \in DOMAIN data.of |-> SortJson(data.of[i])])]
      [] data.kind = "leaf" -> data

\* IsJsonEqual, of two files that can be read.
IsJsonEqual(a, b) == SortJson(a) = SortJson(b)

JsonNull == Leaf("null")

\* GetBeforeAfterDiff: what is not equal in the other, where a key that is not there is null.
Different(one, other) ==
    LET counterpart(k) == IF k \in DOMAIN other THEN other[k] ELSE JsonNull
    IN  [k \in {x \in DOMAIN one : counterpart(x) # one[x]} |-> one[k]]

GetBeforeAfterDiff(json) ==
    IF {"before", "after"} \subseteq DOMAIN json
    THEN [error |-> FALSE, before |-> Different(json.before, json.after),
          after |-> Different(json.after, json.before)]
    ELSE [error |-> TRUE, before |-> <<>>, after |-> <<>>]

\* MergeMaps: of a key in several maps the last value.
MergeMaps(maps) ==
    FoldLeft(LAMBDA all, m : [k \in DOMAIN all \cup DOMAIN m |->
                                 IF k \in DOMAIN m THEN m[k] ELSE all[k]],
             [k \in {} |-> ""], maps)

ConditionalAdd(map, key, value, compare) ==
    IF value = compare THEN map ELSE MergeMaps(<<map, [k \in {key} |-> value]>>)

StrArrayContains(list, value) == \E i \in DOMAIN list : list[i] = value

\* GetRequiredEnvVars: what fails the test.
MissingEnvVars(names, env) == SelectSeq(names, LAMBDA n : n \notin DOMAIN env)

\* DoNotDestroyOnFailure, once the value is trimmed and in lower case.
DoNotDestroyOnFailure(value) == value \in {"true", "1", "yes"}

RECURSIVE CopyDirectory(_, _)

\* CopyDirectory: the filter lets these names through.  The first file that cannot be copied
\* ends it, with what has been copied before.
CopyDirectory(entries, wanted) ==
    FoldLeft(LAMBDA copy, e :
                IF copy.error \/ e.name \notin wanted THEN copy
                ELSE IF e.dir
                THEN LET sub == CopyDirectory(e.entries, wanted)
                     IN  [error |-> sub.error, names |-> copy.names \o <<e.name>> \o sub.names]
                ELSE IF e.readable THEN [copy EXCEPT !.names = Append(@, e.name)]
                ELSE [copy EXCEPT !.error = TRUE],
             [error |-> FALSE, names |-> <<>>], entries)
-----------------------------------------------------------------------------
RECURSIVE Secrets(_, _, _)

\* The values that are below one of the secure keys, but for the sections that hold none.
Secrets(data, secure, below) ==
    CASE data.kind = "object" -> UNION {Secrets(data.of[k], secure, below \/ k \in secure) :
                                           k \in DOMAIN data.of \ notSanitized}
      [] data.kind = "list" -> UNION {Secrets(data.of[i], secure, below) : i \in DOMAIN data.of}
      [] data.kind = "leaf" -> IF below /\ data # Hidden THEN {data.of} ELSE {}

\* A plan that is printed has no value of a sensitive key anywhere; it has all of its keys,
\* and the values of the others.
NothingSecretIsLeft(data, secure, result) ==
    /\ Secrets(result, secure, FALSE) = {}
    /\ DOMAIN result.of = DOMAIN data.of
    /\ \A k \in DOMAIN data.of \ secure :
          data.of[k].kind = "leaf" => result.of[k] = data.of[k]
=============================================================================
