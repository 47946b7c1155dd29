--------------------------- MODULE MCMessageThreads ---------------------------
(* MessageThreads with one request at a time for each of three users. *)
EXTENDS MessageThreads, TLC

CONSTANTS t1, t2, t3, u1, u2, u3, k1, k2

MCRequester == t1 :> u1 @@ t2 :> u2 @@ t3 :> u3

\* Invitations to the first talk come as the page sends them, those to the second
\* may name the first in the query string.
MCQueried == k1 :> {} @@ k2 :> {k1}

\* Ids of one table are interchangeable; the talks are not, by MCQueried.
Symmetry == Permutations(Participations) \cup Permutations(Messages)
=============================================================================
