------------------------------ MODULE MCBulletin ------------------------------
(* Bulletin with a session that sends two requests at a time and one that does not. *)
EXTENDS Bulletin, TLC

CONSTANTS t1, t2, t3, s1, s2, sp1, sp2

MCSessionOf == t1 :> s1 @@ t2 :> s1 @@ t3 :> s2
MCSponsorOf == s1 :> sp1 @@ s2 :> sp2
MCRolesOf == s1 :> {"Authenticated", "Sponsor"} @@ s2 :> {"Sponsor", "Administrator"}

\* The two requests of s1 are interchangeable.
Symmetry == Permutations({t1, t2})
=============================================================================
