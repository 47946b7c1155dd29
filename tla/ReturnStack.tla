----------------------------- MODULE ReturnStack -----------------------------
(***************************************************************************)
(* What the return buttons promise: the listings one has gone through are  *)
(* a stack, and going back leads to the one on top of it.                  *)
(***************************************************************************)
EXTENDS Integers, Sequences

CONSTANT Home

VARIABLES
    place,   \* the page on the screen
    stack    \* the pages to return to, the next one last

Init == stack = <<>>

\* From a page to another that returns where this one does.
Follow == stack' = stack

\* Into something the page on the screen lists.
Enter == stack' = Append(stack, place)

Return ==
    /\ stack # <<>>
    /\ place' = stack[Len(stack)]
    /\ stack' = SubSeq(stack, 1, Len(stack) - 1)

ReturnHome ==
    /\ stack = <<>>
    /\ place' = Home
    /\ stack' = <<>>

\* The menu starts anew.
Restart == stack' = <<>>

Next == Follow \/ Enter \/ Return \/ ReturnHome \/ Restart

Spec == Init /\ [][Next]_<<place, stack>>
=============================================================================
