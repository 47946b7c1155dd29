------------------------------ MODULE MCAccounts ------------------------------
(* Accounts with one browser, and one request at a time, for each user. *)
EXTENDS Accounts, TLC

CONSTANTS a1, a2, a3, t1, t2, t3, s1, s2, s3

MCSessionOf == [t \in Threads |-> CASE t = t1 -> s1 [] t = t2 -> s2 [] t = t3 -> s3]
MCOwner == [s \in Sessions |-> CASE s = s1 -> a1 [] s = s2 -> a2 [] s = s3 -> a3]
MCSelfMade == {"Employer"}

\* Roles and names are interchangeable.
Symmetry == Permutations(Roles) \cup Permutations(Names)
=============================================================================
