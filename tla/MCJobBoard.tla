------------------------------ MODULE MCJobBoard ------------------------------
(* JobBoard on small sets of ids. *)
EXTENDS JobBoard, TLC

CONSTANTS j1, j2, d1, d2, d3, a1, r1, t1, t2, e1, e2

MCPercentages == {0, 40, 60}
MCDeadlines == {1, 2}

\* An employer with requests from two tabs, and two employers with one each.
MCOneEmployer == t1 :> e1 @@ t2 :> e1
MCTwoEmployers == t1 :> e1 @@ t2 :> e2

\* Draft fields as the pages have them, or with either value.
MCShown == e1 :> {TRUE}
MCEither == e1 :> BOOLEAN
MCShownOrEither == e1 :> {TRUE} @@ e2 :> BOOLEAN

\* Ids of one table, and the tabs of one employer, are interchangeable.
SameIds == Permutations(Duties) \cup Permutations(Jobs)
Symmetry == SameIds \cup Permutations(Threads)
=============================================================================
