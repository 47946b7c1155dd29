----------------------- MODULE RequestControllerProofs -----------------------
(***************************************************************************)
(* A controller that serves one request at a time keeps its promise, for   *)
(* any number of requests and whatever throws wherever.  Of requests that  *)
(* overlap, less is true: the types, that every transaction ends once, and *)
(* that handleRequest only moves on.                                       *)
(***************************************************************************)
EXTENDS RequestController, FiniteSetTheorems, TLAPS

Ends == {"none", "committed", "undone"}
AtRest == {"idle", "done"}

\* At most one request is being served.
Alone == \A r, q \in Requests : pc[r] \notin AtRest /\ pc[q] \notin AtRest => r = q

\* r's thread is in no transaction, or in the one of status <<r, p>>, and that
\* is what the field holds.
Quiescent(r) ==
    /\ bound[r] = NoStatus
    /\ \A p \in Phases : fate[<<r, p>>] \in Ends
InTransaction(r, p) ==
    /\ bound[r] = <<r, p>>
    /\ transactionStatus = <<r, p>>
    /\ fate[<<r, p>>] = "open"
    /\ \A o \in Phases \ {p} : fate[<<r, o>>] \in Ends

\* Where r is in its transactions.
Where(r) ==
    /\ pc[r] \notin {"run", "end", "catch", "rollback"} => Quiescent(r)
    /\ pc[r] \in {"run", "end"} => InTransaction(r, phase[r])
    /\ pc[r] = "rollback" => InTransaction(r, "work") \/ InTransaction(r, "hook")
    /\ pc[r] = "catch" =>
          Quiescent(r) \/ InTransaction(r, "work") \/ InTransaction(r, "hook")

\* What became of the work, as the verdict wants it.
Decided(r) ==
    \/ verdict[r] = "success" /\ fate[<<r, "work">>] = "committed"
    \/ verdict[r] = "errors" /\ fate[<<r, "work">>] = "undone"

\* How far r's story has gone in each phase.
Story(r) ==
    /\ phase[r] = "work" =>
          /\ pc[r] \in {"idle", "start", "run", "end", "clear"}
          /\ fate[<<r, "hook">>] = "none" /\ fate[<<r, "panic">>] = "none"
          /\ pc[r] \in {"idle", "start"} => fate[<<r, "work">>] = "none"
          /\ pc[r] \in {"end"} => verdict[r] \in {"success", "errors"}
          /\ pc[r] = "clear" => Decided(r)
    /\ phase[r] = "hook" =>
          /\ pc[r] \in {"start", "run", "end", "clear", "view", "done"}
          /\ Decided(r)
          /\ fate[<<r, "panic">>] = "none"
          /\ pc[r] = "start" => fate[<<r, "hook">>] = "none"
    /\ phase[r] = "panic" =>
          /\ pc[r] \in {"start", "run", "end", "clear", "view", "catch", "rollback", "forget",
                        "failure", "done"}
          /\ pc[r] \in {"catch", "rollback", "forget", "failure", "start"} =>
                fate[<<r, "panic">>] = "none"

OneInv == TypeOK /\ Alone /\ \A r \in Requests : Where(r) /\ Story(r)

-----------------------------------------------------------------------------
(* Types, for any pool *)

LEMMA TypesKept == TypeOK /\ [Next]_vars => TypeOK'
<1> SUFFICES ASSUME TypeOK, [Next]_vars PROVE TypeOK'
  OBVIOUS
<1> USE DEF TypeOK
<1>1. \A r \in Requests : Own(r) \in Statuses /\ Own(r) = <<r, phase[r]>> /\ phase[r] \in Phases
  BY DEF Own, Statuses
<1>2. "work" \in Phases /\ "hook" \in Phases /\ "panic" \in Phases
  BY DEF Phases
<1>3. ASSUME NEW r \in Requests, Throw(r)
      PROVE  /\ phase' \in [Requests -> Phases]
             /\ pc' \in [Requests -> {"idle", "start", "run", "end", "clear", "view", "catch",
                                      "rollback", "forget", "failure", "done"}]
  BY <1>2, <1>3 DEF Throw
<1>4. ASSUME NEW r \in Requests, NEW end \in {"committed", "undone"},
             isTransactionActive, Complete(r, transactionStatus, end)
      PROVE  /\ fate' \in [Statuses -> {"none", "open", "joined", "committed", "undone"}]
             /\ fate'[transactionStatus] # "none"
             /\ bound' \in [Requests -> {NoStatus} \cup Statuses]
             /\ \A q \in Requests : bound'[q] \in {NoStatus} \cup ({q} \X Phases)
  BY <1>4 DEF isTransactionActive, Complete
<1>5. ASSUME NEW r \in Requests, Arrive(r) PROVE TypeOK'
  BY <1>5 DEF Arrive
<1>6. ASSUME NEW r \in Requests, startTransaction(r) PROVE TypeOK'
  <2>1. CASE Throw(r) /\ UNCHANGED <<transactionStatus, fate, bound>>
    BY <1>3, <1>6, <2>1 DEF startTransaction
  <2>2. CASE /\ GetTransaction(r) /\ transactionStatus' = Own(r)
             /\ pc' = [pc EXCEPT ![r] = "run"] /\ UNCHANGED phase
    <3>1. /\ fate' \in [Statuses -> {"none", "open", "joined", "committed", "undone"}]
          /\ fate'[Own(r)] # "none"
      BY <1>1, <2>2 DEF GetTransaction
    <3>2. /\ bound' \in [Requests -> {NoStatus} \cup Statuses]
          /\ \A q \in Requests : bound'[q] \in {NoStatus} \cup ({q} \X Phases)
      BY <1>1, <2>2 DEF GetTransaction
    <3>3. QED
      BY <1>1, <1>6, <2>2, <3>1, <3>2 DEF startTransaction
  <2>3. QED
    BY <1>6, <2>1, <2>2 DEF startTransaction
<1>7. ASSUME NEW r \in Requests, Serve(r) PROVE TypeOK'
  BY <1>3, <1>7 DEF Serve
<1>8. ASSUME NEW r \in Requests, Hook(r) PROVE TypeOK'
  BY <1>3, <1>8 DEF Hook
<1>9. ASSUME NEW r \in Requests, EndTransaction(r) PROVE TypeOK'
  <2>1. Ending(r) \in {"committed", "undone"}
    BY DEF Ending
  <2>2. QED
    BY <1>3, <1>4, <1>9, <2>1 DEF EndTransaction
<1>10. ASSUME NEW r \in Requests, Clear(r) PROVE TypeOK'
  BY <1>2, <1>10 DEF Clear
<1>11. ASSUME NEW r \in Requests, View(r) PROVE TypeOK'
  BY <1>3, <1>11 DEF View
<1>12. ASSUME NEW r \in Requests, Catch(r) PROVE TypeOK'
  BY <1>12 DEF Catch
<1>13. ASSUME NEW r \in Requests, Rollback(r) PROVE TypeOK'
  BY <1>3, <1>4, <1>13 DEF Rollback
<1>14. ASSUME NEW r \in Requests, Forget(r) PROVE TypeOK'
  BY <1>14 DEF Forget
<1>15. ASSUME NEW r \in Requests, Failure(r) PROVE TypeOK'
  BY <1>15 DEF Failure
<1>16. CASE UNCHANGED vars
  BY <1>16 DEF vars
<1>17. QED
  BY <1>5, <1>6, <1>7, <1>8, <1>9, <1>10, <1>11, <1>12, <1>13, <1>14, <1>15, <1>16
     DEF Next, handleRequest

LEMMA TypesInit == Init => TypeOK
BY DEF Init, TypeOK, Statuses, Phases

\* The field only ever holds a status that was started, and a thread is bound to
\* no transaction but its own, however many requests overlap.
THEOREM TypeCorrect == Spec => []TypeOK
BY TypesInit, TypesKept, PTL DEF Spec

-----------------------------------------------------------------------------
(* One request at a time *)

\* What a step of r leaves alone, and what it may do to r's promise.
Frame(r) ==
    \A q \in Requests \ {r} :
        /\ pc'[q] = pc[q] /\ phase'[q] = phase[q] /\ verdict'[q] = verdict[q]
        /\ bound'[q] = bound[q]
        /\ \A p \in Phases : fate'[<<q, p>>] = fate[<<q, p>>]

Kept(r) ==
    \/ work'[r] = work[r] /\ answer'[r] = answer[r]
    \/ work[r] = "pending" /\ work'[r] \in {"committed", "undone"} /\ answer'[r] = answer[r]
    \/ /\ answer[r] = "none" /\ work'[r] = work[r]
       /\ answer'[r] \in {"success", "errors", "panic"}
       /\ Promise!Deserves(work[r], answer'[r])

GoodStep(r) == Frame(r) /\ Where(r)' /\ Story(r)' /\ Kept(r)

LEMMA PhaseNames == "work" \in Phases /\ "hook" \in Phases /\ "panic" \in Phases
BY DEF Phases

\* Between r's transactions the field holds nothing that could be ended.
LEMMA FieldAtRest ==
    ASSUME OneInv, NEW r \in Requests, pc[r] \notin AtRest, Quiescent(r)
    PROVE  ~isTransactionActive
<1> SUFFICES ASSUME isTransactionActive PROVE FALSE
  OBVIOUS
<1>1. /\ transactionStatus \in Requests \X Phases
      /\ fate[transactionStatus] \notin Ends
  BY DEF OneInv, TypeOK, Statuses, isTransactionActive, Completed, Ends
<1>2. PICK q \in Requests, p \in Phases : transactionStatus = <<q, p>>
  BY <1>1
<1>3. q # r
  BY <1>1, <1>2 DEF Quiescent
<1>4. pc[q] \in AtRest
  BY <1>3 DEF OneInv, Alone
<1>5. Quiescent(q)
  BY <1>4 DEF OneInv, Where, AtRest
<1>6. QED
  BY <1>1, <1>2, <1>5 DEF Quiescent

\* In its transaction, the field holds r's own status, and ending it ends that.
LEMMA FieldInTransaction ==
    ASSUME NEW r \in Requests, NEW p \in Phases, InTransaction(r, p)
    PROVE  isTransactionActive /\ transactionStatus = <<r, p>>
<1>1. transactionStatus = <<r, p>> /\ fate[<<r, p>>] = "open"
  BY DEF InTransaction
<1>2. QED
  BY <1>1, NullAssumption DEF isTransactionActive, Completed, Statuses

LEMMA EndsOwn ==
    ASSUME TypeOK, NEW r \in Requests, NEW p \in Phases, InTransaction(r, p),
           NEW end \in {"committed", "undone"}, Complete(r, transactionStatus, end)
    PROVE  /\ bound'[r] = NoStatus
           /\ \A q \in Requests \ {r} : bound'[q] = bound[q]
           /\ fate'[<<r, p>>] = end
           /\ \A q \in Requests, o \in Phases :
                 <<q, o>> # <<r, p>> => fate'[<<q, o>>] = fate[<<q, o>>]
BY DEF TypeOK, InTransaction, Complete, Statuses

\* Control passes from the try block to the catch block, and from there out.
LEMMA ThrowStep ==
    ASSUME TypeOK, NEW r \in Requests, Throw(r)
    PROVE  /\ \A q \in Requests \ {r} : pc'[q] = pc[q] /\ phase'[q] = phase[q]
           /\ phase'[r] = "panic"
           /\ phase[r] = "panic" => pc'[r] = "done"
           /\ phase[r] # "panic" => pc'[r] = "catch"
BY DEF TypeOK, Throw

\* What r's promise is, from where it is.
Reads(r) ==
    /\ pc[r] # "done" => answer[r] = "none"
    /\ pc[r] = "done" /\ phase[r] = "panic" => answer[r] = "panic"
    /\ pc[r] = "done" /\ phase[r] # "panic" => answer[r] = verdict[r]
    /\ fate[<<r, "work">>] \in {"committed", "undone"} => work[r] = fate[<<r, "work">>]
    /\ fate[<<r, "work">>] = "none" /\ phase[r] = "panic" => work[r] = "undone"
    /\ fate[<<r, "work">>] = "none" /\ phase[r] # "panic" => work[r] = "pending"
    /\ fate[<<r, "work">>] \in {"open", "joined"} => work[r] = "pending"

LEMMA PromiseOf == \A r \in Requests : Reads(r)
<1> SUFFICES ASSUME NEW r \in Requests PROVE Reads(r)
  OBVIOUS
<1>1. answer[r] = IF pc[r] # "done" THEN "none"
                  ELSE IF phase[r] = "panic" THEN "panic" ELSE verdict[r]
  BY DEF answer
<1>2. work[r] = CASE Completed(<<r, "work">>) -> fate[<<r, "work">>]
                  [] fate[<<r, "work">>] = "none" /\ phase[r] = "panic" -> "undone"
                  [] OTHER -> "pending"
  BY DEF work
<1>3. Completed(<<r, "work">>) <=> fate[<<r, "work">>] \in {"committed", "undone"}
  BY DEF Completed
<1>4. QED
  BY <1>1, <1>2, <1>3 DEF Reads

LEMMA PromiseOfNext == (\A r \in Requests : Reads(r))'
BY PromiseOf, PTL

\* The four things a step may do to r's promise: nothing, ...
LEMMA KeptSame ==
    ASSUME TypeOK, NEW r \in Requests, pc[r] # "done", pc'[r] # "done",
           fate'[<<r, "work">>] = fate[<<r, "work">>],
           fate[<<r, "work">>] = "none" => (phase[r] = "panic" <=> phase'[r] = "panic")
    PROVE  Kept(r)
<1>1. Reads(r) /\ Reads(r)'
  BY PromiseOf, PromiseOfNext
<1>2. fate[<<r, "work">>] \in {"none", "open", "joined", "committed", "undone"}
  BY PhaseNames DEF TypeOK, Statuses
<1>3. answer'[r] = answer[r]
  BY <1>1 DEF Reads
<1>4. work'[r] = work[r]
  BY <1>1, <1>2 DEF Reads
<1>5. QED
  BY <1>3, <1>4 DEF Kept

\* ... begin or end the work, or give it up before it began, ...
LEMMA KeptEnd ==
    ASSUME TypeOK, NEW r \in Requests, pc[r] # "done", pc'[r] # "done",
           \/ /\ fate[<<r, "work">>] = "none" /\ phase[r] # "panic"
              /\ fate'[<<r, "work">>] = "open"
           \/ fate[<<r, "work">>] = "open" /\ fate'[<<r, "work">>] \in {"committed", "undone"}
           \/ /\ fate[<<r, "work">>] = "none" /\ phase[r] # "panic"
              /\ fate'[<<r, "work">>] = "none" /\ phase'[r] = "panic"
    PROVE  Kept(r)
<1>1. Reads(r) /\ Reads(r)'
  BY PromiseOf, PromiseOfNext
<1>2. answer'[r] = answer[r] /\ work[r] = "pending"
  BY <1>1 DEF Reads
<1>3. work'[r] \in {"pending", "committed", "undone"}
  BY <1>1 DEF Reads
<1>4. QED
  BY <1>2, <1>3 DEF Kept

\* ... answer with the panic view, ...
LEMMA KeptPanic ==
    ASSUME TypeOK, NEW r \in Requests, pc[r] # "done", pc'[r] = "done",
           phase[r] = "panic", phase'[r] = "panic",
           fate'[<<r, "work">>] = fate[<<r, "work">>], fate[<<r, "work">>] \in Ends
    PROVE  Kept(r)
<1>1. Reads(r) /\ Reads(r)'
  BY PromiseOf, PromiseOfNext
<1>2. answer[r] = "none" /\ answer'[r] = "panic"
  BY <1>1 DEF Reads
<1>3. work'[r] = work[r] /\ work[r] # "pending"
  BY <1>1 DEF Reads, Ends
<1>4. QED
  BY <1>2, <1>3 DEF Kept, Promise!Deserves

\* ... and answer with the view that was requested.
LEMMA KeptAnswer ==
    ASSUME TypeOK, NEW r \in Requests, pc[r] # "done", pc'[r] = "done",
           phase'[r] # "panic", verdict'[r] = verdict[r],
           fate'[<<r, "work">>] = fate[<<r, "work">>], Decided(r)
    PROVE  Kept(r)
<1>1. Reads(r) /\ Reads(r)'
  BY PromiseOf, PromiseOfNext
<1>2. answer[r] = "none" /\ answer'[r] = verdict[r]
  BY <1>1 DEF Reads
<1>3. work'[r] = work[r] /\ work[r] = fate[<<r, "work">>]
  BY <1>1 DEF Reads, Decided
<1>4. QED
  BY <1>2, <1>3 DEF Kept, Promise!Deserves, Decided

LEMMA StartStep ==
    ASSUME OneInv, NEW r \in Requests, startTransaction(r)
    PROVE  GoodStep(r)
<1>1. TypeOK /\ Where(r) /\ Story(r) /\ pc[r] = "start" /\ phase[r] \in Phases
  BY DEF OneInv, startTransaction, TypeOK
<1>2. Quiescent(r)
  BY <1>1 DEF Where
<1>3. fate[<<r, phase[r]>>] = "none" /\ fate[<<r, "panic">>] = "none"
  BY <1>1 DEF Story, Phases
<1>4. verdict' = verdict
  BY DEF startTransaction
<1>5. CASE /\ GetTransaction(r) /\ transactionStatus' = Own(r)
           /\ pc' = [pc EXCEPT ![r] = "run"] /\ UNCHANGED phase
  <2>1. /\ pc'[r] = "run" /\ phase'[r] = phase[r] /\ phase' = phase
        /\ \A q \in Requests \ {r} : pc'[q] = pc[q]
    BY <1>1, <1>5 DEF TypeOK
  <2>2. /\ bound'[r] = <<r, phase[r]>>
        /\ \A q \in Requests \ {r} : bound'[q] = bound[q]
    BY <1>1, <1>2, <1>5 DEF GetTransaction, Own, Quiescent, TypeOK
  <2>3. /\ fate'[<<r, phase[r]>>] = "open"
        /\ \A q \in Requests, o \in Phases :
              <<q, o>> # <<r, phase[r]>> => fate'[<<q, o>>] = fate[<<q, o>>]
    BY <1>1, <1>2, <1>5 DEF GetTransaction, Own, Quiescent, TypeOK, Statuses
  <2>4. Frame(r)
    BY <1>4, <2>1, <2>2, <2>3 DEF Frame
  <2>5. Where(r)'
    BY <1>2, <1>5, <2>1, <2>2, <2>3 DEF Where, InTransaction, Own, Quiescent
  <2>6. Story(r)'
    BY <1>1, <1>4, <2>1, <2>3, PhaseNames DEF Story, Decided
  <2>7. Kept(r)
    <3>1. CASE phase[r] = "work"
      BY <1>1, <1>3, <2>1, <2>3, <3>1, KeptEnd
    <3>2. CASE phase[r] # "work"
      BY <1>1, <2>1, <2>3, <3>2, PhaseNames, KeptSame
    <3>3. QED
      BY <3>1, <3>2
  <2>8. QED
    BY <2>4, <2>5, <2>6, <2>7 DEF GoodStep
<1>6. CASE Throw(r) /\ UNCHANGED <<transactionStatus, fate, bound>>
  <2>1. /\ fate' = fate /\ bound' = bound
        /\ \A q \in Requests \ {r} : pc'[q] = pc[q] /\ phase'[q] = phase[q]
        /\ phase'[r] = "panic"
        /\ phase[r] = "panic" => pc'[r] = "done"
        /\ phase[r] # "panic" => pc'[r] = "catch"
    BY <1>1, <1>6, ThrowStep
  <2>2. Frame(r) /\ Where(r)' /\ Story(r)'
    BY <1>2, <1>3, <1>4, <2>1 DEF Frame, Where, Quiescent, Story
  <2>3. fate[<<r, "work">>] \in Ends
    BY <1>2, PhaseNames DEF Quiescent
  <2>4. Kept(r)
    <3>1. CASE phase[r] = "work"
      BY <1>1, <1>3, <2>1, <3>1, KeptEnd
    <3>2. CASE phase[r] = "hook"
      BY <1>1, <2>1, <3>2, KeptSame DEF Story, Decided
    <3>3. CASE phase[r] = "panic"
      BY <1>1, <2>1, <2>3, <3>3, KeptPanic
    <3>4. QED
      BY <1>1, <3>1, <3>2, <3>3 DEF Phases
  <2>5. QED
    BY <2>2, <2>4 DEF GoodStep
<1>7. QED
  BY <1>5, <1>6 DEF startTransaction

LEMMA RunStep ==
    ASSUME OneInv, NEW r \in Requests, Serve(r) \/ Hook(r)
    PROVE  GoodStep(r)
<1>1. TypeOK /\ Where(r) /\ Story(r) /\ pc[r] = "run" /\ phase[r] \in Phases
  BY DEF OneInv, Serve, Hook, TypeOK
<1>2. InTransaction(r, phase[r])
  BY <1>1 DEF Where
<1>3. UNCHANGED <<transactionStatus, fate, bound>>
  BY DEF Serve, Hook
<1>4. \A q \in Requests \ {r} : verdict'[q] = verdict[q]
  BY <1>1 DEF Serve, Hook, TypeOK
<1>5. CASE /\ pc' = [pc EXCEPT ![r] = "end"] /\ UNCHANGED phase
           /\ phase[r] = "work" => verdict'[r] \in {"success", "errors"}
           /\ phase[r] # "work" => verdict' = verdict
  <2>1. pc'[r] = "end" /\ \A q \in Requests \ {r} : pc'[q] = pc[q]
    BY <1>1, <1>5 DEF TypeOK
  <2>2. Frame(r) /\ Where(r)'
    BY <1>2, <1>3, <1>4, <1>5, <2>1 DEF Frame, Where, InTransaction
  <2>3. Story(r)'
    BY <1>1, <1>3, <1>5, <2>1 DEF Story, Decided
  <2>4. Kept(r)
    BY <1>1, <1>3, <1>5, <2>1, KeptSame
  <2>5. QED
    BY <2>2, <2>3, <2>4 DEF GoodStep
<1>6. CASE Throw(r) /\ phase[r] # "panic"
  <2>1. /\ \A q \in Requests \ {r} : pc'[q] = pc[q] /\ phase'[q] = phase[q]
        /\ phase'[r] = "panic" /\ pc'[r] = "catch"
    BY <1>1, <1>6, ThrowStep
  <2>2. Frame(r) /\ Where(r)'
    BY <1>1, <1>2, <1>3, <1>4, <1>6, <2>1 DEF Frame, Where, InTransaction, Phases, Quiescent
  <2>3. Story(r)'
    BY <1>1, <1>3, <1>6, <2>1 DEF Story, Phases
  <2>4. fate[<<r, "work">>] # "none"
    BY <1>1, <1>2, <1>6 DEF Story, Decided, InTransaction, Phases
  <2>5. Kept(r)
    BY <1>1, <1>3, <2>1, <2>4, KeptSame
  <2>6. QED
    BY <2>2, <2>3, <2>5 DEF GoodStep
<1>7. QED
  BY <1>1, <1>5, <1>6 DEF Serve, Hook, TypeOK

LEMMA EndStep ==
    ASSUME OneInv, NEW r \in Requests, EndTransaction(r)
    PROVE  GoodStep(r)
<1>1. TypeOK /\ Where(r) /\ Story(r) /\ pc[r] = "end" /\ phase[r] \in Phases
  BY DEF OneInv, EndTransaction, TypeOK
<1>2. InTransaction(r, phase[r])
  BY <1>1 DEF Where
<1>3. isTransactionActive /\ verdict' = verdict
  BY <1>1, <1>2, FieldInTransaction DEF EndTransaction
<1>4. PICK end \in {"committed", "undone"} :
         /\ Complete(r, transactionStatus, end)
         /\ \/ end = Ending(r) /\ pc' = [pc EXCEPT ![r] = "clear"] /\ UNCHANGED phase
            \/ Throw(r) /\ Ending(r) = "committed" /\ end = "undone"
  BY <1>3 DEF EndTransaction, Ending
<1>5. /\ bound'[r] = NoStatus
      /\ \A q \in Requests \ {r} : bound'[q] = bound[q]
      /\ fate'[<<r, phase[r]>>] = end
      /\ \A q \in Requests, o \in Phases :
            <<q, o>> # <<r, phase[r]>> => fate'[<<q, o>>] = fate[<<q, o>>]
  BY <1>1, <1>2, <1>4, EndsOwn
<1>6. \A o \in Phases : fate'[<<r, o>>] \in Ends
  BY <1>2, <1>4, <1>5 DEF InTransaction, Ends
<1>7. CASE end = Ending(r) /\ pc' = [pc EXCEPT ![r] = "clear"] /\ UNCHANGED phase
  <2>1. pc'[r] = "clear" /\ \A q \in Requests \ {r} : pc'[q] = pc[q]
    BY <1>1, <1>7 DEF TypeOK
  <2>2. Frame(r) /\ Where(r)'
    BY <1>3, <1>5, <1>6, <1>7, <2>1 DEF Frame, Where, Quiescent
  <2>3. Story(r)'
    BY <1>1, <1>3, <1>5, <1>7, <2>1, PhaseNames DEF Story, Decided, Ending
  <2>4. Kept(r)
    <3>1. CASE phase[r] = "work"
      BY <1>1, <1>2, <1>5, <2>1, <3>1, KeptEnd DEF InTransaction
    <3>2. CASE phase[r] # "work"
      BY <1>1, <1>5, <1>7, <2>1, <3>2, PhaseNames, KeptSame
    <3>3. QED
      BY <3>1, <3>2
  <2>5. QED
    BY <2>2, <2>3, <2>4 DEF GoodStep
<1>8. CASE Throw(r) /\ Ending(r) = "committed" /\ end = "undone"
  <2>1. /\ \A q \in Requests \ {r} : pc'[q] = pc[q] /\ phase'[q] = phase[q]
        /\ phase'[r] = "panic"
        /\ phase[r] = "panic" => pc'[r] = "done"
        /\ phase[r] # "panic" => pc'[r] = "catch"
    BY <1>1, <1>8, ThrowStep
  <2>2. Frame(r) /\ Where(r)'
    BY <1>3, <1>5, <1>6, <2>1 DEF Frame, Where, Quiescent
  <2>3. Story(r)'
    BY <1>1, <1>5, <2>1, PhaseNames DEF Story, Phases
  <2>4. Kept(r)
    <3>1. CASE phase[r] = "work"
      BY <1>1, <1>2, <1>5, <2>1, <3>1, KeptEnd DEF InTransaction
    <3>2. CASE phase[r] = "hook"
      BY <1>1, <1>5, <2>1, <3>2, PhaseNames, KeptSame DEF Story, Decided
    <3>3. CASE phase[r] = "panic"
      <4>1. fate[<<r, "work">>] \in Ends /\ fate'[<<r, "work">>] = fate[<<r, "work">>]
        BY <1>2, <1>5, <3>3, PhaseNames DEF InTransaction
      <4>2. QED
        BY <1>1, <2>1, <3>3, <4>1, KeptPanic
    <3>4. QED
      BY <1>1, <3>1, <3>2, <3>3 DEF Phases
  <2>5. QED
    BY <2>2, <2>3, <2>4 DEF GoodStep
<1>9. QED
  BY <1>4, <1>7, <1>8

\* "this.transactionStatus = null" in the two places it is written.
LEMMA ClearStep ==
    ASSUME OneInv, NEW r \in Requests, Clear(r) \/ Forget(r)
    PROVE  GoodStep(r)
<1>1. TypeOK /\ Where(r) /\ Story(r) /\ pc[r] \in {"clear", "forget"} /\ phase[r] \in Phases
  BY DEF OneInv, Clear, Forget, TypeOK
<1>2. Quiescent(r) /\ UNCHANGED <<fate, bound, verdict>>
  BY <1>1 DEF Where, Clear, Forget
<1>3. /\ \A q \in Requests \ {r} : pc'[q] = pc[q] /\ phase'[q] = phase[q]
      /\ \/ pc[r] = "clear" /\ phase[r] = "work" /\ pc'[r] = "start" /\ phase'[r] = "hook"
         \/ pc[r] = "clear" /\ phase[r] # "work" /\ pc'[r] = "view" /\ phase'[r] = phase[r]
         \/ pc[r] = "forget" /\ pc'[r] = "failure" /\ phase'[r] = phase[r]
  BY <1>1 DEF Clear, Forget, TypeOK
<1>4. Frame(r) /\ Where(r)'
  BY <1>2, <1>3 DEF Frame, Where, Quiescent
<1>5. Story(r)'
  BY <1>1, <1>2, <1>3 DEF Story, Decided
<1>6. fate'[<<r, "work">>] = fate[<<r, "work">>] /\ (phase[r] = "panic" <=> phase'[r] = "panic")
  BY <1>2, <1>3
<1>7. Kept(r)
  BY <1>1, <1>3, <1>6, KeptSame
<1>8. QED
  BY <1>4, <1>5, <1>7 DEF GoodStep

LEMMA ViewStep ==
    ASSUME OneInv, NEW r \in Requests, View(r)
    PROVE  GoodStep(r)
<1>1. TypeOK /\ Where(r) /\ Story(r) /\ pc[r] = "view" /\ phase[r] \in {"hook", "panic"}
  BY DEF OneInv, View, TypeOK, Story, Phases
<1>2. Quiescent(r) /\ UNCHANGED <<fate, bound, verdict>>
  BY <1>1 DEF Where, View
<1>3. fate[<<r, "work">>] \in Ends /\ fate'[<<r, "work">>] = fate[<<r, "work">>]
  BY <1>2, PhaseNames DEF Quiescent
<1>4. CASE pc' = [pc EXCEPT ![r] = "done"] /\ UNCHANGED phase
  <2>1. pc'[r] = "done" /\ phase'[r] = phase[r] /\ \A q \in Requests \ {r} : pc'[q] = pc[q]
    BY <1>1, <1>4 DEF TypeOK
  <2>2. Frame(r) /\ Where(r)' /\ Story(r)'
    BY <1>1, <1>2, <1>4, <2>1 DEF Frame, Where, Quiescent, Story, Decided
  <2>3. CASE phase[r] = "panic"
    BY <1>1, <1>3, <2>1, <2>2, <2>3, KeptPanic DEF GoodStep
  <2>4. CASE phase[r] = "hook"
    <3>1. Decided(r) /\ verdict'[r] = verdict[r]
      BY <1>1, <1>2, <2>4 DEF Story
    <3>2. Kept(r)
      BY <1>1, <1>3, <2>1, <2>4, <3>1, KeptAnswer
    <3>3. QED
      BY <2>2, <3>2 DEF GoodStep
  <2>5. QED
    BY <1>1, <2>3, <2>4
<1>5. CASE phase[r] = "hook" /\ Throw(r)
  <2>1. /\ \A q \in Requests \ {r} : pc'[q] = pc[q] /\ phase'[q] = phase[q]
        /\ phase'[r] = "panic" /\ pc'[r] = "catch"
    BY <1>1, <1>5, ThrowStep
  <2>2. Frame(r) /\ Where(r)' /\ Story(r)'
    BY <1>1, <1>2, <1>5, <2>1 DEF Frame, Where, Quiescent, Story
  <2>3. fate[<<r, "work">>] # "none"
    BY <1>1, <1>5 DEF Story, Decided
  <2>4. Kept(r)
    BY <1>1, <1>3, <2>1, <2>3, KeptSame
  <2>5. QED
    BY <2>2, <2>4 DEF GoodStep
<1>6. QED
  BY <1>4, <1>5 DEF View

LEMMA CatchStep ==
    ASSUME OneInv, NEW r \in Requests, Catch(r)
    PROVE  GoodStep(r)
<1>1. TypeOK /\ Where(r) /\ Story(r) /\ pc[r] = "catch"
  BY DEF OneInv, Catch
<1>2. UNCHANGED <<transactionStatus, fate, bound, phase, verdict>>
  BY DEF Catch
<1>3. /\ \A q \in Requests \ {r} : pc'[q] = pc[q]
      /\ pc'[r] = IF isTransactionActive THEN "rollback" ELSE "failure"
  BY <1>1 DEF Catch, TypeOK
<1>4. Frame(r) /\ Story(r)'
  BY <1>1, <1>2, <1>3 DEF Frame, Story, Decided
<1>5. Where(r)'
  <2>1. CASE Quiescent(r)
    <3>1. pc'[r] = "failure"
      BY <1>1, <1>3, <2>1, FieldAtRest DEF AtRest
    <3>2. QED
      BY <1>2, <2>1, <3>1 DEF Where, Quiescent
  <2>2. CASE InTransaction(r, "work") \/ InTransaction(r, "hook")
    <3>1. pc'[r] = "rollback"
      BY <1>3, <2>2, PhaseNames, FieldInTransaction
    <3>2. (InTransaction(r, "work") \/ InTransaction(r, "hook"))'
      BY <1>2, <2>2 DEF InTransaction
    <3>3. QED
      BY <3>1, <3>2 DEF Where
  <2>3. QED
    BY <1>1, <2>1, <2>2 DEF Where
<1>6. Kept(r)
  BY <1>1, <1>2, <1>3, KeptSame
<1>7. QED
  BY <1>4, <1>5, <1>6 DEF GoodStep

LEMMA RollbackStep ==
    ASSUME OneInv, NEW r \in Requests, Rollback(r)
    PROVE  GoodStep(r)
<1>1. TypeOK /\ Where(r) /\ Story(r) /\ pc[r] = "rollback" /\ phase[r] = "panic"
  BY DEF OneInv, Rollback, Story, TypeOK, Phases
<1>2. PICK p \in {"work", "hook"} : InTransaction(r, p)
  BY <1>1 DEF Where
<1>3. p \in Phases /\ isTransactionActive
  BY <1>2, PhaseNames, FieldInTransaction
<1>4. /\ Complete(r, transactionStatus, "undone") /\ pc' = [pc EXCEPT ![r] = "forget"]
      /\ phase' = phase /\ verdict' = verdict
  BY <1>3 DEF Rollback
<1>5. /\ bound'[r] = NoStatus
      /\ \A q \in Requests \ {r} : bound'[q] = bound[q]
      /\ fate'[<<r, p>>] = "undone"
      /\ \A q \in Requests, o \in Phases : <<q, o>> # <<r, p>> => fate'[<<q, o>>] = fate[<<q, o>>]
  BY <1>1, <1>2, <1>3, <1>4, EndsOwn
<1>6. pc'[r] = "forget" /\ \A q \in Requests \ {r} : pc'[q] = pc[q]
  BY <1>1, <1>4 DEF TypeOK
<1>7. \A o \in Phases : fate'[<<r, o>>] \in Ends
  BY <1>2, <1>5 DEF InTransaction, Ends
<1>8. Frame(r) /\ Where(r)'
  BY <1>4, <1>5, <1>6, <1>7 DEF Frame, Where, Quiescent
<1>9. Story(r)'
  BY <1>1, <1>2, <1>4, <1>5, <1>6, PhaseNames DEF Story
<1>10. Kept(r)
  <2>1. CASE p = "work"
    BY <1>1, <1>2, <1>5, <1>6, <2>1, KeptEnd DEF InTransaction
  <2>2. CASE p = "hook"
    BY <1>1, <1>4, <1>5, <1>6, <2>2, PhaseNames, KeptSame
  <2>3. QED
    BY <2>1, <2>2
<1>11. QED
  BY <1>8, <1>9, <1>10 DEF GoodStep

LEMMA FailureStep ==
    ASSUME OneInv, NEW r \in Requests, Failure(r)
    PROVE  GoodStep(r)
<1>1. TypeOK /\ Where(r) /\ Story(r) /\ pc[r] = "failure" /\ Quiescent(r)
  BY DEF OneInv, Failure, Where
<1>2. UNCHANGED <<transactionStatus, fate, bound, phase, verdict>>
  BY DEF Failure
<1>3. pc'[r] \in {"view", "start"} /\ \A q \in Requests \ {r} : pc'[q] = pc[q]
  BY <1>1 DEF Failure, TypeOK
<1>4. Frame(r) /\ Where(r)' /\ Story(r)'
  BY <1>1, <1>2, <1>3 DEF Frame, Where, Quiescent, Story, Decided
<1>5. Kept(r)
  BY <1>1, <1>2, <1>3, KeptSame
<1>6. QED
  BY <1>4, <1>5 DEF GoodStep

LEMMA HandleStep ==
    ASSUME OneInv, NEW r \in Requests, handleRequest(r)
    PROVE  GoodStep(r) /\ pc[r] \notin AtRest
<1>1. pc[r] \notin AtRest
  BY DEF handleRequest, startTransaction, Serve, Hook, EndTransaction, Clear, View, Catch,
         Rollback, Forget, Failure, AtRest
<1>2. QED
  BY <1>1, StartStep, RunStep, EndStep, ClearStep, ViewStep, CatchStep, RollbackStep, FailureStep
     DEF handleRequest

\* A request arrives only when no other is being served.
LEMMA ArriveStep ==
    ASSUME OneInv, Pool = 1, NEW r \in Requests, Arrive(r)
    PROVE  GoodStep(r) /\ \A q \in Requests : pc[q] \in AtRest
<1>1. TypeOK /\ Where(r) /\ Story(r) /\ pc[r] = "idle" /\ Quiescent(r)
  BY DEF OneInv, Arrive, Where
<1>2. Serving = {}
  <2>1. IsFiniteSet(Serving)
    BY PoolAssumption, FS_Subset DEF Serving
  <2>2. Cardinality(Serving) = 0
    BY <2>1, FS_CardinalityType DEF Arrive
  <2>3. QED
    BY <2>1, <2>2, FS_EmptySet
<1>3. UNCHANGED <<transactionStatus, fate, bound, phase, verdict>>
  BY DEF Arrive
<1>4. pc'[r] = "start" /\ \A q \in Requests \ {r} : pc'[q] = pc[q]
  BY <1>1 DEF Arrive, TypeOK
<1>5. Frame(r) /\ Where(r)' /\ Story(r)'
  BY <1>1, <1>3, <1>4 DEF Frame, Where, Quiescent, Story
<1>6. Kept(r)
  BY <1>1, <1>3, <1>4, KeptSame
<1>7. QED
  BY <1>2, <1>5, <1>6 DEF GoodStep, Serving, AtRest

\* What a step of r does to the whole of the invariant, and to the promise.
LEMMA GoodStepKeeps ==
    ASSUME OneInv, TypeOK', NEW r \in Requests, GoodStep(r),
           \A q \in Requests \ {r} : pc[q] \in AtRest
    PROVE  OneInv' /\ [Promise!Next]_<<work, answer>>
<1>1. Frame(r) /\ Where(r)' /\ Story(r)' /\ Kept(r)
  BY DEF GoodStep
<1>2. Alone'
  BY <1>1 DEF Frame, Alone
<1>3. ASSUME NEW q \in Requests \ {r} PROVE Where(q)' /\ Story(q)'
  <2>1. Quiescent(q) /\ Story(q) /\ pc'[q] \in AtRest
    BY <1>1, <1>3 DEF OneInv, Where, Frame, AtRest
  <2>2. Quiescent(q)'
    BY <1>1, <2>1 DEF Frame, Quiescent
  <2>3. Story(q)'
    BY <1>1, <2>1, PhaseNames DEF Frame, Story, Decided
  <2>4. QED
    BY <2>1, <2>2, <2>3 DEF Where, AtRest
<1>4. OneInv'
  BY <1>1, <1>2, <1>3 DEF OneInv
<1>5. \A q \in Requests \ {r} : work'[q] = work[q] /\ answer'[q] = answer[q]
  <2> SUFFICES ASSUME NEW q \in Requests \ {r}
               PROVE  work'[q] = work[q] /\ answer'[q] = answer[q]
    OBVIOUS
  <2>1. /\ pc'[q] = pc[q] /\ phase'[q] = phase[q] /\ verdict'[q] = verdict[q]
        /\ fate'[<<q, "work">>] = fate[<<q, "work">>]
    BY <1>1, PhaseNames DEF Frame
  <2>2. fate[<<q, "work">>] \in {"none", "open", "joined", "committed", "undone"}
    BY PhaseNames DEF OneInv, TypeOK, Statuses
  <2>3. Reads(q) /\ Reads(q)'
    BY PromiseOf, PromiseOfNext
  <2>4. answer'[q] = answer[q]
    BY <2>1, <2>3 DEF Reads
  <2>5. work'[q] = work[q]
    BY <2>1, <2>2, <2>3 DEF Reads
  <2>6. QED
    BY <2>4, <2>5
<1>6. /\ work = [q \in Requests |-> work[q]] /\ answer = [q \in Requests |-> answer[q]]
      /\ work' = [q \in Requests |-> work'[q]] /\ answer' = [q \in Requests |-> answer'[q]]
  BY DEF work, answer
<1>7. [Promise!Next]_<<work, answer>>
  <2>1. CASE work'[r] = work[r] /\ answer'[r] = answer[r]
    BY <1>5, <1>6, <2>1
  <2>2. CASE /\ work[r] = "pending" /\ work'[r] \in {"committed", "undone"}
             /\ answer'[r] = answer[r]
    <3>1. work' = [work EXCEPT ![r] = work'[r]] /\ answer' = answer
      BY <1>5, <1>6, <2>2
    <3>2. Promise!End(r)
      BY <2>2, <3>1 DEF Promise!End
    <3>3. QED
      BY <3>2 DEF Promise!Next
  <2>3. CASE /\ answer[r] = "none" /\ work'[r] = work[r]
             /\ answer'[r] \in {"success", "errors", "panic"}
             /\ Promise!Deserves(work[r], answer'[r])
    <3>1. answer' = [answer EXCEPT ![r] = answer'[r]] /\ work' = work
      BY <1>5, <1>6, <2>3
    <3>2. Promise!Answer(r)
      BY <2>3, <3>1 DEF Promise!Answer
    <3>3. QED
      BY <3>2 DEF Promise!Next
  <2>4. QED
    BY <1>1, <2>1, <2>2, <2>3 DEF Kept
<1>8. QED
  BY <1>4, <1>7

LEMMA OneInit == Init => OneInv /\ Promise!Init
<1> SUFFICES ASSUME Init PROVE OneInv /\ Promise!Init
  OBVIOUS
<1>1. TypeOK
  BY TypesInit
<1>2. Alone
  BY DEF Init, Alone, AtRest
<1>3. \A r \in Requests : Where(r) /\ Story(r)
  BY PhaseNames DEF Init, Where, Story, Quiescent, Ends, Statuses
<1>4. \A r \in Requests : work[r] = "pending" /\ answer[r] = "none"
  BY PromiseOf, PhaseNames DEF Reads, Init, Statuses
<1>5. QED
  BY <1>1, <1>2, <1>3, <1>4 DEF OneInv, Promise!Init, work, answer

LEMMA OneKept == Pool = 1 /\ OneInv /\ [Next]_vars => OneInv' /\ [Promise!Next]_<<work, answer>>
<1> SUFFICES ASSUME Pool = 1, OneInv, [Next]_vars
             PROVE  OneInv' /\ [Promise!Next]_<<work, answer>>
  OBVIOUS
<1>1. TypeOK'
  BY TypesKept DEF OneInv
<1>2. ASSUME NEW r \in Requests, Arrive(r)
      PROVE  OneInv' /\ [Promise!Next]_<<work, answer>>
  BY <1>1, <1>2, ArriveStep, GoodStepKeeps
<1>3. ASSUME NEW r \in Requests, handleRequest(r)
      PROVE  OneInv' /\ [Promise!Next]_<<work, answer>>
  <2>1. GoodStep(r) /\ pc[r] \notin AtRest
    BY <1>3, HandleStep
  <2>2. \A q \in Requests \ {r} : pc[q] \in AtRest
    BY <2>1 DEF OneInv, Alone
  <2>3. QED
    BY <1>1, <2>1, <2>2, GoodStepKeeps
<1>4. CASE UNCHANGED vars
  <2>1. work' = work /\ answer' = answer
    <3>1. fate' = fate /\ phase' = phase /\ pc' = pc /\ verdict' = verdict
      BY <1>4 DEF vars
    <3>2. \A s : Completed(s)' <=> Completed(s)
      BY <3>1 DEF Completed
    <3>3. QED
      BY <3>1, <3>2 DEF work, answer
  <2>2. Alone' /\ \A r \in Requests : Where(r)'
    BY <1>4 DEF vars, OneInv, Alone, Where, Quiescent, InTransaction
  <2>3. \A r \in Requests : Story(r)'
    BY <1>4 DEF vars, OneInv, Story, Decided
  <2>4. QED
    BY <1>1, <2>1, <2>2, <2>3 DEF OneInv
<1>5. QED
  BY <1>2, <1>3, <1>4 DEF Next

\* Served one at a time, a request that is over has left no transaction open,
\* whatever threw in it and wherever.
THEOREM OneLeavesNothingOpen == Pool = 1 => (Spec => []NothingLeftOpen)
<1> SUFFICES ASSUME Pool = 1 PROVE Spec => []NothingLeftOpen
  OBVIOUS
<1>1. Init => OneInv
  BY OneInit
<1>2. OneInv /\ [Next]_vars => OneInv'
  BY OneKept
<1>3. OneInv => NothingLeftOpen
  BY DEF OneInv, Where, Quiescent, Ends, NothingLeftOpen
<1>4. QED
  BY <1>1, <1>2, <1>3, PTL DEF Spec

\* Served one at a time, every request's work is kept or discarded once, and the
\* answer tells which: the controller implements RequestPromise.
THEOREM OneKeepsPromise == Pool = 1 => (Spec => KeepsPromise)
<1> SUFFICES ASSUME Pool = 1 PROVE Spec => KeepsPromise
  OBVIOUS
<1>1. Init => OneInv /\ Promise!Init
  BY OneInit
<1>2. OneInv /\ [Next]_vars => OneInv' /\ [Promise!Next]_<<work, answer>>
  BY OneKept
<1>3. QED
  BY <1>1, <1>2, PTL DEF Spec, KeepsPromise, Promise!Spec

-----------------------------------------------------------------------------
(* Any number of requests at a time *)

\* The transactions r has not come to yet have no status.
NotBegun(r) ==
    /\ phase[r] = "work" =>
          /\ pc[r] \notin {"catch", "rollback", "forget", "failure", "view", "done"}
          /\ fate[<<r, "hook">>] = "none" /\ fate[<<r, "panic">>] = "none"
          /\ pc[r] \in {"idle", "start"} => fate[<<r, "work">>] = "none"
    /\ phase[r] = "hook" =>
          /\ pc[r] \notin {"idle", "catch", "rollback", "forget", "failure"}
          /\ fate[<<r, "panic">>] = "none"
          /\ pc[r] = "start" => fate[<<r, "hook">>] = "none"
    /\ phase[r] = "panic" =>
          /\ pc[r] # "idle"
          /\ pc[r] \in {"catch", "rollback", "forget", "failure", "start"} =>
                fate[<<r, "panic">>] = "none"

AnyInv == TypeOK /\ \A r \in Requests : NotBegun(r)

\* A step of r: where it stands afterwards, and which statuses it ends.
Forward(r) ==
    /\ NotBegun(r)'
    /\ Progress(r)' > Progress(r)
    /\ \A q \in Requests \ {r} : pc'[q] = pc[q] /\ phase'[q] = phase[q]
    /\ \A s \in Statuses :
          /\ Completed(s) => fate'[s] = fate[s]
          /\ fate[s] = "none" => fate'[s] = "none" \/ s = Own(r)

LEMMA Places ==
    /\ \A r \in Requests :
          TypeOK => Progress(r) = Place[pc[r]] + (IF phase[r] = "work" THEN 0
                                                  ELSE IF phase[r] = "hook" THEN 11 ELSE 22)
    /\ Place["idle"] = 0 /\ Place["catch"] = 1 /\ Place["rollback"] = 2 /\ Place["forget"] = 3
    /\ Place["failure"] = 4 /\ Place["start"] = 5 /\ Place["run"] = 6 /\ Place["end"] = 7
    /\ Place["clear"] = 8 /\ Place["view"] = 9 /\ Place["done"] = 10
<1>1. \A r \in Requests :
          TypeOK => Progress(r) = Place[pc[r]] + (IF phase[r] = "work" THEN 0
                                                  ELSE IF phase[r] = "hook" THEN 11 ELSE 22)
  BY DEF Progress, TypeOK, Phases
<1>2. QED
  BY <1>1 DEF Place

\* A step that starts no transaction: it may end the one the field holds, which
\* is active, so that nothing that is over is touched.
StartsNothing ==
    \A s \in Statuses :
        /\ Completed(s) => fate'[s] = fate[s]
        /\ fate[s] = "none" => fate'[s] = "none"

LEMMA EndsOnce ==
    ASSUME TypeOK, NEW r \in Requests, NEW end \in {"committed", "undone"},
           isTransactionActive, Complete(r, transactionStatus, end)
    PROVE  StartsNothing
<1>1. /\ transactionStatus \in Statuses /\ ~Completed(transactionStatus)
      /\ fate[transactionStatus] # "none"
  BY DEF TypeOK, isTransactionActive
<1>2. \A s \in Statuses \ {transactionStatus} : fate'[s] = fate[s]
  BY <1>1 DEF Complete, TypeOK
<1>3. QED
  BY <1>1, <1>2 DEF StartsNothing

\* Where a step that starts nothing takes r, by the phase it is in.
Moves(r) ==
    /\ \A q \in Requests \ {r} : pc'[q] = pc[q] /\ phase'[q] = phase[q]
    /\ StartsNothing
    /\ \/ phase'[r] = phase[r] /\
          \/ pc[r] = "idle" /\ pc'[r] = "start"
          \/ pc[r] = "run" /\ pc'[r] = "end"
          \/ pc[r] = "end" /\ pc'[r] = "clear"
          \/ pc[r] = "clear" /\ phase[r] # "work" /\ pc'[r] = "view"
          \/ pc[r] = "view" /\ pc'[r] = "done"
          \/ pc[r] = "catch" /\ pc'[r] \in {"rollback", "failure"}
          \/ pc[r] = "rollback" /\ pc'[r] = "forget"
          \/ pc[r] = "forget" /\ pc'[r] = "failure"
          \/ pc[r] = "failure" /\ pc'[r] \in {"start", "view"}
          \/ phase[r] = "panic" /\ pc[r] # "done" /\ pc'[r] = "done"
       \/ phase[r] = "work" /\ phase'[r] = "hook" /\ pc[r] = "clear" /\ pc'[r] = "start"
       \/ phase[r] # "panic" /\ phase'[r] = "panic" /\ pc[r] # "idle" /\ pc'[r] = "catch"

LEMMA MovesForward ==
    ASSUME AnyInv, TypeOK', NEW r \in Requests, Moves(r)
    PROVE  Forward(r)
<1>1. /\ phase[r] \in Phases /\ phase'[r] \in Phases
      /\ pc[r] \in {"idle", "start", "run", "end", "clear", "view", "catch", "rollback",
                    "forget", "failure", "done"}
      /\ NotBegun(r)
  BY DEF AnyInv, TypeOK
<1>2. \A p \in Phases : fate[<<r, p>>] = "none" => fate'[<<r, p>>] = "none"
  BY DEF Moves, StartsNothing, Statuses
<1>3. NotBegun(r)'
  <2>1. /\ fate[<<r, "work">>] = "none" => fate'[<<r, "work">>] = "none"
        /\ fate[<<r, "hook">>] = "none" => fate'[<<r, "hook">>] = "none"
        /\ fate[<<r, "panic">>] = "none" => fate'[<<r, "panic">>] = "none"
    BY <1>2, PhaseNames
  <2>2. CASE phase'[r] = "work"
    BY <1>1, <2>1, <2>2 DEF Moves, NotBegun
  <2>3. CASE phase'[r] = "hook"
    BY <1>1, <2>1, <2>3 DEF Moves, NotBegun
  <2>4. CASE phase'[r] = "panic"
    BY <1>1, <2>1, <2>4 DEF Moves, NotBegun, Phases
  <2>5. QED
    BY <1>1, <2>2, <2>3, <2>4 DEF Phases
<1>4. Progress(r)' > Progress(r)
  <2>1. /\ Progress(r) = Place[pc[r]] + (IF phase[r] = "work" THEN 0
                                         ELSE IF phase[r] = "hook" THEN 11 ELSE 22)
        /\ Progress(r)' = Place[pc'[r]] + (IF phase'[r] = "work" THEN 0
                                           ELSE IF phase'[r] = "hook" THEN 11 ELSE 22)
    BY <1>1 DEF Progress, Phases
  <2>2. CASE phase'[r] = phase[r] /\ phase[r] # "panic"
    <3>1. Place[pc'[r]] > Place[pc[r]] /\ Place[pc[r]] \in Nat /\ Place[pc'[r]] \in Nat
      BY <1>1, <2>2, Places DEF Moves, NotBegun, Phases
    <3>2. QED
      BY <2>1, <2>2, <3>1
  <2>3. CASE phase'[r] = phase[r] /\ phase[r] = "panic"
    <3>1. Place[pc'[r]] > Place[pc[r]] /\ Place[pc[r]] \in Nat /\ Place[pc'[r]] \in Nat
      BY <1>1, <2>3, Places DEF Moves
    <3>2. QED
      BY <2>1, <2>3, <3>1
  <2>4. CASE phase'[r] # phase[r]
    <3>1. \/ Place[pc[r]] \in 0 .. 9 /\ Place[pc'[r]] \in Nat
          \/ phase'[r] = "panic" /\ phase[r] # "panic"
      BY <1>1, <2>4, Places DEF Moves, NotBegun, Phases
    <3>2. QED
      BY <1>1, <2>1, <2>4, <3>1, Places DEF Moves, Phases
  <2>5. QED
    BY <2>2, <2>3, <2>4
<1>5. QED
  BY <1>3, <1>4 DEF Forward, Moves, StartsNothing

LEMMA ThrowMoves ==
    ASSUME TypeOK, NEW r \in Requests, Throw(r), pc[r] \notin {"idle", "done"}, StartsNothing
    PROVE  Moves(r)
BY ThrowStep DEF Moves

LEMMA ControllerForward ==
    ASSUME AnyInv, TypeOK', NEW r \in Requests, Arrive(r) \/ handleRequest(r)
    PROVE  Forward(r)
<1>0. TypeOK /\ phase[r] \in Phases /\ NotBegun(r)
  BY DEF AnyInv, TypeOK
<1>1. fate' = fate => StartsNothing
  BY DEF StartsNothing
<1>2. \A at \in {"idle", "start", "run", "end", "clear", "view", "catch", "rollback", "forget",
                 "failure", "done"} :
         pc' = [pc EXCEPT ![r] = at] =>
            pc'[r] = at /\ \A q \in Requests \ {r} : pc'[q] = pc[q]
  BY <1>0 DEF TypeOK
<1>3. ASSUME NEW at \in {"end", "clear", "view", "done", "failure", "rollback", "forget", "start"},
             pc' = [pc EXCEPT ![r] = at], phase' = phase
      PROVE  /\ pc'[r] = at /\ phase'[r] = phase[r]
             /\ \A q \in Requests \ {r} : pc'[q] = pc[q] /\ phase'[q] = phase[q]
  BY <1>2, <1>3
<1>4. CASE Arrive(r)
  BY <1>0, <1>1, <1>3, <1>4, MovesForward DEF Arrive, Moves
<1>5. CASE startTransaction(r)
  <2>1. CASE Throw(r) /\ UNCHANGED <<transactionStatus, fate, bound>>
    BY <1>0, <1>1, <1>5, <2>1, ThrowMoves, MovesForward DEF startTransaction
  <2>2. CASE GetTransaction(r) /\ pc' = [pc EXCEPT ![r] = "run"] /\ phase' = phase
    <3>1. /\ pc[r] = "start" /\ pc'[r] = "run" /\ phase'[r] = phase[r]
          /\ \A q \in Requests \ {r} : pc'[q] = pc[q] /\ phase'[q] = phase[q]
      BY <1>2, <1>5, <2>2 DEF startTransaction
    <3>2. Own(r) = <<r, phase[r]>> /\ Own(r) \in Statuses /\ fate[Own(r)] = "none"
      BY <1>0, <3>1 DEF Own, Statuses, NotBegun, Phases
    <3>3. \A s \in Statuses \ {Own(r)} : fate'[s] = fate[s]
      BY <1>0, <2>2, <3>2 DEF GetTransaction, TypeOK
    <3>4. ~Completed(Own(r))
      BY <3>2 DEF Completed
    <3>5. \A p \in Phases \ {phase[r]} : fate'[<<r, p>>] = fate[<<r, p>>]
      BY <3>2, <3>3 DEF Statuses
    <3>6. NotBegun(r)'
      BY <1>0, <3>1, <3>5, PhaseNames DEF NotBegun
    <3>7. Progress(r)' > Progress(r)
      <4>1. /\ Progress(r) = Place["start"] + (IF phase[r] = "work" THEN 0
                                               ELSE IF phase[r] = "hook" THEN 11 ELSE 22)
            /\ Progress(r)' = Place["run"] + (IF phase[r] = "work" THEN 0
                                              ELSE IF phase[r] = "hook" THEN 11 ELSE 22)
        BY <1>0, <3>1 DEF Progress, Phases
      <4>2. QED
        BY <4>1, Places
    <3>8. QED
      BY <3>1, <3>3, <3>4, <3>6, <3>7 DEF Forward
  <2>3. QED
    BY <1>5, <2>1, <2>2 DEF startTransaction
<1>6. CASE Serve(r) \/ Hook(r)
  <2>1. pc[r] = "run" /\ fate' = fate
    BY <1>6 DEF Serve, Hook
  <2>2. CASE Throw(r)
    BY <1>0, <1>1, <2>1, <2>2, ThrowMoves, MovesForward
  <2>3. CASE pc' = [pc EXCEPT ![r] = "end"] /\ phase' = phase
    BY <1>1, <1>3, <2>1, <2>3, MovesForward DEF Moves
  <2>4. QED
    BY <1>6, <2>2, <2>3 DEF Serve, Hook
<1>7. CASE EndTransaction(r)
  <2>1. pc[r] = "end" /\ Ending(r) \in {"committed", "undone"}
    BY <1>7 DEF EndTransaction, Ending
  <2>2. CASE isTransactionActive /\ Complete(r, transactionStatus, Ending(r))
             /\ pc' = [pc EXCEPT ![r] = "clear"] /\ phase' = phase
    <3>1. StartsNothing
      BY <1>0, <2>1, <2>2, EndsOnce
    <3>2. QED
      BY <1>3, <2>1, <2>2, <3>1, MovesForward DEF Moves
  <2>3. CASE isTransactionActive /\ Complete(r, transactionStatus, "undone") /\ Throw(r)
    <3>1. StartsNothing
      BY <1>0, <2>3, EndsOnce
    <3>2. QED
      BY <1>0, <2>1, <2>3, <3>1, ThrowMoves, MovesForward
  <2>4. CASE Throw(r) /\ fate' = fate
    BY <1>0, <1>1, <2>1, <2>4, ThrowMoves, MovesForward
  <2>5. QED
    BY <1>7, <2>2, <2>3, <2>4 DEF EndTransaction
<1>8. CASE Clear(r)
  <2>1. /\ pc[r] = "clear" /\ fate' = fate
        /\ pc'[r] = IF phase[r] = "work" THEN "start" ELSE "view"
        /\ phase'[r] = IF phase[r] = "work" THEN "hook" ELSE phase[r]
        /\ \A q \in Requests \ {r} : pc'[q] = pc[q] /\ phase'[q] = phase[q]
    BY <1>0, <1>8 DEF Clear, TypeOK
  <2>2. QED
    BY <1>1, <2>1, MovesForward DEF Moves
<1>9. CASE View(r)
  <2>1. pc[r] = "view" /\ fate' = fate
    BY <1>9 DEF View
  <2>2. CASE Throw(r)
    BY <1>0, <1>1, <2>1, <2>2, ThrowMoves, MovesForward
  <2>3. CASE pc' = [pc EXCEPT ![r] = "done"] /\ phase' = phase
    BY <1>1, <1>3, <2>1, <2>3, MovesForward DEF Moves
  <2>4. QED
    BY <1>9, <2>2, <2>3 DEF View
<1>10. CASE Catch(r)
  BY <1>1, <1>3, <1>10, MovesForward DEF Catch, Moves
<1>11. CASE Rollback(r)
  <2>1. pc[r] = "rollback"
    BY <1>11 DEF Rollback
  <2>2. CASE isTransactionActive /\ Complete(r, transactionStatus, "undone")
             /\ pc' = [pc EXCEPT ![r] = "forget"] /\ phase' = phase
    <3>1. StartsNothing
      BY <1>0, <2>2, EndsOnce
    <3>2. QED
      BY <1>3, <2>1, <2>2, <3>1, MovesForward DEF Moves
  <2>3. CASE Throw(r) /\ fate' = fate
    BY <1>0, <1>1, <2>1, <2>3, ThrowMoves, MovesForward
  <2>4. QED
    BY <1>11, <2>2, <2>3 DEF Rollback
<1>12. CASE Forget(r)
  BY <1>1, <1>3, <1>12, MovesForward DEF Forget, Moves
<1>13. CASE Failure(r)
  BY <1>1, <1>3, <1>13, MovesForward DEF Failure, Moves
<1>14. QED
  BY <1>4, <1>5, <1>6, <1>7, <1>8, <1>9, <1>10, <1>11, <1>12, <1>13 DEF handleRequest

LEMMA AnyInit == Init => AnyInv
<1> SUFFICES ASSUME Init PROVE AnyInv
  OBVIOUS
<1>1. \A r \in Requests : NotBegun(r)
  BY PhaseNames DEF Init, NotBegun, Statuses
<1>2. QED
  BY <1>1, TypesInit DEF AnyInv

\* The step of one request leaves the others where they are.
LEMMA AnyKept == AnyInv /\ [Next]_vars => AnyInv'
<1> SUFFICES ASSUME AnyInv, [Next]_vars PROVE AnyInv'
  OBVIOUS
<1>1. TypeOK'
  BY TypesKept DEF AnyInv
<1>2. ASSUME NEW r \in Requests, Arrive(r) \/ handleRequest(r)
      PROVE  \A q \in Requests : NotBegun(q)'
  <2>1. Forward(r)
    BY <1>1, <1>2, ControllerForward
  <2>2. ASSUME NEW q \in Requests \ {r} PROVE NotBegun(q)'
    <3>1. \A p \in Phases : fate[<<q, p>>] = "none" => fate'[<<q, p>>] = "none"
      BY <2>1 DEF Forward, Own, Statuses
    <3>2. pc'[q] = pc[q] /\ phase'[q] = phase[q] /\ NotBegun(q)
      BY <2>1 DEF Forward, AnyInv
    <3>3. QED
      BY <3>1, <3>2, PhaseNames DEF NotBegun
  <2>3. QED
    BY <2>1, <2>2 DEF Forward
<1>3. CASE UNCHANGED vars
  BY <1>1, <1>3 DEF vars, AnyInv, NotBegun
<1>4. CASE Next
  <2>1. PICK r \in Requests : Arrive(r) \/ handleRequest(r)
    BY <1>4 DEF Next
  <2>2. \A q \in Requests : NotBegun(q)'
    BY <1>2, <2>1
  <2>3. QED
    BY <1>1, <2>2 DEF AnyInv
<1>5. QED
  BY <1>3, <1>4

\* However many requests share the controller's field, a transaction that has
\* ended has ended: what they mix up is whose it was, never how it ended.
THEOREM TransactionsEndOnce == Spec => EndedOnce
<1>1. ASSUME AnyInv, [Next]_vars, NEW s \in Statuses, Completed(s)
      PROVE  fate'[s] = fate[s]
  <2>1. TypeOK'
    BY <1>1, TypesKept DEF AnyInv
  <2>2. CASE UNCHANGED vars
    BY <2>2 DEF vars
  <2>3. CASE Next
    <3>1. PICK r \in Requests : Arrive(r) \/ handleRequest(r)
      BY <2>3 DEF Next
    <3>2. Forward(r)
      BY <1>1, <2>1, <3>1, ControllerForward
    <3>3. QED
      BY <1>1, <3>2 DEF Forward
  <2>4. QED
    BY <1>1, <2>2, <2>3
<1>2. AnyInv /\ [Next]_vars => [\A s \in Statuses : Completed(s) => fate'[s] = fate[s]]_vars
  BY <1>1
<1>3. QED
  BY <1>2, AnyInit, AnyKept, PTL DEF Spec, EndedOnce

\* Whatever throws, and however requests overlap, a step takes one request forward
\* and no other back: handleRequest comes to its end if it is scheduled.
THEOREM RequestsOnlyAdvance == Spec => StepsForward
<1>1. ASSUME AnyInv, Next
      PROVE  \E r \in Requests :
                /\ Progress(r)' > Progress(r)
                /\ \A q \in Requests \ {r} : Progress(q)' = Progress(q)
  <2>1. PICK r \in Requests : Arrive(r) \/ handleRequest(r)
    BY <1>1 DEF Next
  <2>2. Forward(r)
    BY <1>1, <2>1, TypesKept, ControllerForward DEF AnyInv
  <2>3. \A q \in Requests \ {r} : Progress(q)' = Progress(q)
    BY <2>2 DEF Forward, Progress
  <2>4. QED
    BY <2>2, <2>3 DEF Forward
<1>2. AnyInv /\ [Next]_vars =>
        [\E r \in Requests :
            /\ Progress(r)' > Progress(r)
            /\ \A q \in Requests \ {r} : Progress(q)' = Progress(q)]_vars
  BY <1>1
<1>3. QED
  BY <1>2, AnyInit, AnyKept, PTL DEF Spec, StepsForward

=============================================================================
