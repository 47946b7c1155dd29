------------------------------ MODULE AtomicRows ------------------------------
(***************************************************************************)
(* What the services take from the database without a lock of their own: a *)
(* transaction changes the very rows it read, all of them at once, or none. *)
(* A claim is the rows a transaction means to change, as it read them.     *)
(***************************************************************************)
CONSTANTS Ids, Threads

VARIABLES rows, claim

Nothing(t) == DOMAIN claim[t] = {}

Init ==
    /\ rows = [i \in Ids |-> rows[i]]
    /\ claim = [t \in Threads |-> claim[t]]
    /\ \A t \in Threads : Nothing(t)

Claim(t) ==
    /\ Nothing(t)
    /\ \E S \in SUBSET Ids : claim' = [claim EXCEPT ![t] = [i \in S |-> rows[i]]]
    /\ UNCHANGED rows

\* The claim is let go.
Release(t) ==
    /\ ~Nothing(t)
    /\ claim' = [claim EXCEPT ![t] = claim'[t]]
    /\ Nothing(t)'

\* Nobody has changed a claimed row, and only claimed rows are changed.
Change(t) ==
    /\ Release(t)
    /\ \A i \in DOMAIN claim[t] : rows[i] = claim[t][i]
    /\ rows' = [i \in Ids |-> IF i \in DOMAIN claim[t] THEN rows'[i] ELSE rows[i]]

GiveUp(t) ==
    /\ Release(t)
    /\ UNCHANGED rows

Next == \E t \in Threads : Claim(t) \/ Change(t) \/ GiveUp(t)

Spec == Init /\ [][Next]_<<rows, claim>>
=============================================================================
