----------------------------- MODULE MCPopulator -----------------------------
(* Populator with a file of four entities, all but one of which refer to that *)
(* one, an empty file, and one with a chain of references.                    *)
EXTENDS Populator

CONSTANTS e1, e2, e3, e4, e5, e6, e7

MCFiles == <<{e1, e2, e3, e4}, {}, {e5, e6, e7}>>
MCNeeds == e1 :> {} @@ e2 :> {e1} @@ e3 :> {e1} @@ e4 :> {e1}
           @@ e5 :> {} @@ e6 :> {e5} @@ e7 :> {e6}
=============================================================================
