--------------------------- MODULE SharedResource ---------------------------
(***************************************************************************)
(* What the matrix runner promises of a resource its test cases share: one *)
(* of them creates it, the others join, and it is deleted once, when no    *)
(* user of it is left.                                                     *)
(***************************************************************************)
CONSTANT Users

VARIABLES
  status,  \* "absent", "live" or "deleted"
  users    \* those that hold the resource

vars == <<status, users>>

Init == status = "absent" /\ users = {}

Create(u) ==
  /\ status = "absent"
  /\ status' = "live"
  /\ users' = {u}

Join(u) ==
  /\ status = "live"
  /\ users' = users \cup {u}
  /\ UNCHANGED status

Leave(u) ==
  /\ u \in users
  /\ users' = users \ {u}
  /\ UNCHANGED status

Delete ==
  /\ status = "live"
  /\ users = {}
  /\ status' = "deleted"
  /\ UNCHANGED users

Next == Delete \/ \E u \in Users : Create(u) \/ Join(u) \/ Leave(u)

Spec == Init /\ [][Next]_vars
=============================================================================
