---------------------------- MODULE RequestPromise ----------------------------
(***************************************************************************)
(* What AbstractController promises of every request: its work is kept or  *)
(* discarded as a whole and once, and the answer tells which.              *)
(***************************************************************************)
CONSTANT Requests

VARIABLES work, answer

Init ==
    /\ work = [r \in Requests |-> "pending"]
    /\ answer = [r \in Requests |-> "none"]

\* The answer a request may get once its work has ended so; the panic view says
\* nothing of the work, for onSuccess may fail after the commit.
Deserves(end, view) ==
    \/ view = "success" /\ end = "committed"
    \/ view = "errors" /\ end = "undone"
    \/ view = "panic" /\ end # "pending"

End(r) ==
    /\ work[r] = "pending"
    /\ \E end \in {"committed", "undone"} : work' = [work EXCEPT ![r] = end]
    /\ UNCHANGED answer

Answer(r) ==
    /\ answer[r] = "none"
    /\ \E view \in {"success", "errors", "panic"} :
        /\ Deserves(work[r], view)
        /\ answer' = [answer EXCEPT ![r] = view]
    /\ UNCHANGED work

Next == \E r \in Requests : End(r) \/ Answer(r)

Spec == Init /\ [][Next]_<<work, answer>>
=============================================================================
