------------------------------- MODULE Loops -------------------------------
(***************************************************************************)
(* Loops over a list that append to another what they do not pass over, as *)
(* many functions of the repository have them.                             *)
(***************************************************************************)
EXTENDS Integers, Sequences, SequencesExt

\* The names that a loop appends.
NotIn(names, excluded) ==
    LET kept[i \in 0 .. Len(names)] ==
            IF i = 0 THEN <<>>
            ELSE IF names[i] \in excluded THEN kept[i - 1] ELSE Append(kept[i - 1], names[i])
    IN  kept[Len(names)]

\* The names that are among some.
Among(names, some) == NotIn(names, ToSet(names) \ some)
=============================================================================
