---------------------------- MODULE StackResync ----------------------------
(***************************************************************************)
(* StackDeployment with a history of what was read of each member.  It     *)
(* says whether TrackAndResyncState synchronises the members its comment   *)
(* speaks of.                                                              *)
(***************************************************************************)
EXTENDS StackDeployment

VARIABLES
  seen,  \* the last reading of each member, poll by poll
  since  \* the sleeps since that reading first came, up to Interval + 1

NotSeen == "none"

SInit ==
  /\ Init
  /\ seen = [m \in Members |-> NotSeen]
  /\ since = [m \in Members |-> 0]

PollRead == pc = "members" /\ AllRead /\ list' = <<>>
Slept == pc \in {"sleep", "sleep_stuck"} /\ pc' # pc

SNext ==
  /\ Next
  /\ seen' = IF PollRead THEN [m \in Members |-> list[m].is] ELSE seen
  /\ since' = IF Slept THEN Older(since)
              ELSE [m \in Members |->
                     IF seen'[m] = seen[m] THEN since[m] ELSE 0]

SSpec == SInit /\ [][SNext]_<<vars, seen, since>>

(* testprojects/tests.go:1213: a member is synchronised when it is stuck   *)
(* in a state for more than the interval.                                  *)
SyncsOnlyStuckMembers ==
  [][\A m \in Members :
       age[m] = Interval + 1 /\ age'[m] = 0 => since'[m] = Interval + 1]_<<vars, seen, since>>
=============================================================================
