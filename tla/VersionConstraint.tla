------------------------- MODULE VersionConstraint -------------------------
(***************************************************************************)
(* GetLatestVersionByConstraint (common/version.go): the version of an     *)
(* offering that a dependency's constraint stands for.  A version in a     *)
(* list is a record of its three numbers, or of none where it is no        *)
(* version, and of the v that it may be written with; a constraint is one  *)
(* part, or the two parts around a comma, each an operator ("=" stands for *)
(* none) and a version.                                                    *)
(***************************************************************************)
EXTENDS Integers, Sequences, FiniteSets

NotSemver == <<>>
NoVersion == [v |-> FALSE, semver |-> NotSemver]

\* Lexicographic.
Below(a, b) ==
    \/ a[1] < b[1]
    \/ a[1] = b[1] /\ a[2] < b[2]
    \/ a[1] = b[1] /\ a[2] = b[2] /\ a[3] <= b[3]

Invalid == [type |-> "invalid", min |-> NotSemver, max |-> NotSemver]

\* Of a two-sided range one part is the lower and one the upper end, in any order.
RangeOf(p, q) ==
    IF /\ {p.op, q.op} = {">=", "<="}
       /\ p.semver # NotSemver /\ q.semver # NotSemver
    THEN LET lower == IF p.op = ">=" THEN p.semver ELSE q.semver
             upper == IF p.op = ">=" THEN q.semver ELSE p.semver
         IN  IF Below(lower, upper) THEN [type |-> "range", min |-> lower, max |-> upper]
             ELSE Invalid
    ELSE Invalid

\* What a constraint means; target is the sequence of its parts.
Constraint(target) ==
    IF Len(target) = 2 THEN RangeOf(target[1], target[2])
    ELSE IF Len(target) # 1 \/ target[1].semver = NotSemver THEN Invalid
    ELSE [type |-> target[1].op, min |-> target[1].semver, max |-> target[1].semver]

CaretIgnoresMinorBUG(n, c) ==
    CASE c.type = "^" -> n[1] = c.min[1] /\ n[3] >= c.min[3]
      [] OTHER -> n = c.min

Satisfies(n, c) ==
    CASE c.type = "="     -> n = c.min
      [] c.type = "^"     -> n[1] = c.min[1] /\ (n[2] > c.min[2] \/ (n[2] = c.min[2] /\ n[3] >= c.min[3]))
      [] c.type = "~"     -> n[1] = c.min[1] /\ n[2] = c.min[2] /\ n[3] >= c.min[3]
      [] c.type = "range" -> Below(c.min, n) /\ Below(n, c.max)
      [] c.type = ">="    -> Below(c.min, n)
      [] c.type = "<="    -> Below(n, c.max)

\* An exact match is the first in the list; of the others the highest is taken, and of two
\* that are written with and without a v the later one.
GetLatestVersionByConstraint(versions, target) ==
    LET c == Constraint(target)
        hits == {i \in DOMAIN versions : versions[i].semver # NotSemver
                                         /\ Satisfies(versions[i].semver, c)}
        top(i) == /\ \A k \in hits : Below(versions[k].semver, versions[i].semver)
                  /\ \A k \in hits : versions[k].semver = versions[i].semver => k <= i
    IN  IF c = Invalid THEN NoVersion
        ELSE IF hits = {} THEN NoVersion
        ELSE IF c.type = "=" THEN versions[CHOOSE i \in hits : \A k \in hits : i <= k]
        ELSE versions[CHOOSE i \in hits : top(i)]
-----------------------------------------------------------------------------
\* What the documentation of a constraint says, as the interval it stands for.
Next3(n, digits) == CASE digits = 1 -> <<n[1] + 1, 0, 0>> [] digits = 2 -> <<n[1], n[2] + 1, 0>>

InInterval(n, c) ==
    CASE c.type = "^" -> Below(c.min, n) /\ ~Below(Next3(c.min, 1), n)
      [] c.type = "~" -> Below(c.min, n) /\ ~Below(Next3(c.min, 2), n)
      [] c.type = ">=" -> Below(c.min, n)
      [] c.type = "<=" -> Below(n, c.max)
      [] OTHER -> Below(c.min, n) /\ Below(n, c.max)

\* The answer is a version of the list, within the interval that the constraint stands for,
\* and none of the list within that interval is higher; no answer means that there is none.
LatestVersionRight(versions, target, answer) ==
    LET c == Constraint(target)
        meeting == {i \in DOMAIN versions : versions[i].semver # NotSemver
                                            /\ InInterval(versions[i].semver, c)}
    IN  IF c = Invalid THEN answer = NoVersion
        ELSE IF meeting = {} THEN answer = NoVersion
        ELSE /\ \E i \in meeting : answer = versions[i]
             /\ \A i \in meeting : Below(versions[i].semver, answer.semver)
=============================================================================
