-------------------------- MODULE RequestController --------------------------
(***************************************************************************)
(* AbstractController.handleRequest, one request per thread of the pool.   *)
(* The controller is a singleton: its field transactionStatus is shared by *)
(* every request it is serving.  The transaction manager (Spring's         *)
(* JpaTransactionManager, external) binds a transaction to the thread that *)
(* starts it; commit and rollback end the transaction of the status they   *)
(* are given, and unbind whatever the calling thread has bound.            *)
(***************************************************************************)
EXTENDS Naturals, FiniteSets

CONSTANTS
    Requests,
    Pool,      \* requests the server serves at the same time
    NoStatus   \* null

ASSUME PoolAssumption == IsFiniteSet(Requests) /\ Pool \in Nat \ {0}

VARIABLES
    transactionStatus,  \* the field: a status, or NoStatus
    fate,     \* what became of each status
    bound,    \* the status of the transaction r's thread works in, or NoStatus
    phase,    \* which of its transactions r is in
    pc,       \* where in handleRequest r is
    verdict   \* how the service ended; "none" while it is not known

vars == <<transactionStatus, fate, bound, phase, pc, verdict>>

\* The transaction of the request's work, the fresh one of onSuccess or
\* onFailure, and the one of the catch block.
Phases == {"work", "hook", "panic"}
Statuses == Requests \X Phases

ASSUME NullAssumption == NoStatus \notin Statuses

Own(r) == <<r, phase[r]>>
Completed(s) == fate[s] \in {"committed", "undone"}

\* mutant: a status that is over passes for a transaction
isTransactionKnown == transactionStatus # NoStatus

isTransactionActive == transactionStatus # NoStatus /\ ~Completed(transactionStatus)

\* r's thread is bound to a transaction that another thread has ended: its
\* entity manager is closed, and whatever it does throws.
Broken(r) == bound[r] # NoStatus /\ Completed(bound[r])

Serving == {r \in Requests : pc[r] \notin {"idle", "done"}}

-----------------------------------------------------------------------------
(* The transaction manager *)

\* getTransaction: a thread that is still in a transaction joins it.
GetTransaction(r) ==
    IF bound[r] = NoStatus
    THEN /\ fate' = [fate EXCEPT ![Own(r)] = "open"]
         /\ bound' = [bound EXCEPT ![r] = Own(r)]
    ELSE /\ fate' = [fate EXCEPT ![Own(r)] = "joined"]
         /\ UNCHANGED bound

\* commit and rollback of the status s by r's thread; ending a status that only
\* joined a transaction leaves the transaction as it is.
Complete(r, s, end) ==
    /\ fate' = [fate EXCEPT ![s] = end]
    /\ bound' = IF fate[s] = "open" THEN [bound EXCEPT ![r] = NoStatus] ELSE bound

-----------------------------------------------------------------------------
(* handleRequest *)

\* mutant: the catch block catches its own exceptions
ThrowAgain(r) ==
    pc' = [pc EXCEPT ![r] = "catch"] /\ phase' = [phase EXCEPT ![r] = "panic"]

\* Control leaves the try block for the catch block; from the catch block it
\* leaves the controller, and the error page is the same panic view.
Throw(r) ==
    IF phase[r] = "panic"
    THEN pc' = [pc EXCEPT ![r] = "done"] /\ UNCHANGED phase
    ELSE pc' = [pc EXCEPT ![r] = "catch"] /\ phase' = [phase EXCEPT ![r] = "panic"]

Arrive(r) ==
    /\ pc[r] = "idle"
    /\ Cardinality(Serving) < Pool
    /\ pc' = [pc EXCEPT ![r] = "start"]
    /\ UNCHANGED <<transactionStatus, fate, bound, phase, verdict>>

\* mutant: the field is set before getTransaction returns
startTransactionEarly(r) ==
    /\ pc[r] = "start"
    /\ transactionStatus' = Own(r)
    /\ \/ /\ ~Broken(r)
          /\ GetTransaction(r)
          /\ pc' = [pc EXCEPT ![r] = "run"]
          /\ UNCHANGED phase
       \/ Throw(r) /\ UNCHANGED <<fate, bound>>
    /\ UNCHANGED verdict

\* The database may be out of reach.
startTransaction(r) ==
    /\ pc[r] = "start"
    /\ \/ /\ ~Broken(r)
          /\ GetTransaction(r)
          /\ transactionStatus' = Own(r)
          /\ pc' = [pc EXCEPT ![r] = "run"]
          /\ UNCHANGED phase
       \/ /\ Throw(r)
          /\ UNCHANGED <<transactionStatus, fate, bound>>
    /\ UNCHANGED verdict

\* From the command to doGet or doPost: the response has errors or not, or
\* something throws, before or after the service is known.
Serve(r) ==
    /\ pc[r] = "run" /\ phase[r] = "work"
    /\ \/ /\ ~Broken(r)
          /\ \E v \in {"success", "errors"} : verdict' = [verdict EXCEPT ![r] = v]
          /\ pc' = [pc EXCEPT ![r] = "end"]
          /\ UNCHANGED phase
       \/ /\ \E v \in {"none", "thrown"} : verdict' = [verdict EXCEPT ![r] = v]
          /\ Throw(r)
    /\ UNCHANGED <<transactionStatus, fate, bound>>

\* onSuccess, which may throw, or onFailure, which no service overrides.
Hook(r) ==
    /\ pc[r] = "run" /\ phase[r] # "work"
    /\ \/ /\ pc' = [pc EXCEPT ![r] = "end"]
          /\ UNCHANGED phase
       \/ /\ phase[r] = "hook" /\ verdict[r] = "success"
          /\ Throw(r)
    /\ UNCHANGED <<transactionStatus, fate, bound, verdict>>

\* mutant: the branches of "if (!response.hasErrors())" swapped
EndingSwapped(r) ==
    IF phase[r] = "work" /\ verdict[r] = "success" THEN "undone" ELSE "committed"

\* Which of commitTransaction and rollbackTransaction comes next.
Ending(r) ==
    IF phase[r] = "work" /\ verdict[r] = "errors" THEN "undone" ELSE "committed"

\* The call to the transaction manager, on whatever the field holds; a commit
\* may fail, and then has rolled back.
EndTransaction(r) ==
    /\ pc[r] = "end"
    /\ \/ /\ isTransactionActive
          /\ Complete(r, transactionStatus, Ending(r))
          /\ pc' = [pc EXCEPT ![r] = "clear"]
          /\ UNCHANGED phase
       \/ /\ isTransactionActive
          /\ Ending(r) = "committed"
          /\ Complete(r, transactionStatus, "undone")
          /\ Throw(r)
       \/ /\ ~isTransactionActive
          /\ Throw(r)
          /\ UNCHANGED <<fate, bound>>
    /\ UNCHANGED <<transactionStatus, verdict>>

\* "this.transactionStatus = null", and on to what comes next.
Clear(r) ==
    /\ pc[r] = "clear"
    /\ transactionStatus' = NoStatus
    /\ pc' = [pc EXCEPT ![r] = IF phase[r] = "work" THEN "start" ELSE "view"]
    /\ phase' = [phase EXCEPT ![r] = IF @ = "work" THEN "hook" ELSE @]
    /\ UNCHANGED <<fate, bound, verdict>>

\* buildRequestedView, or buildPanicView, which cannot fail.
View(r) ==
    /\ pc[r] = "view"
    /\ \/ pc' = [pc EXCEPT ![r] = "done"] /\ UNCHANGED phase
       \/ phase[r] = "hook" /\ Throw(r)
    /\ UNCHANGED <<transactionStatus, fate, bound, verdict>>

\* mutant: the catch block goes straight to onFailure
CatchNoRollback(r) ==
    /\ pc[r] = "catch"
    /\ pc' = [pc EXCEPT ![r] = "failure"]
    /\ UNCHANGED <<transactionStatus, fate, bound, phase, verdict>>

\* The catch block: "if (this.isTransactionActive())" ...
Catch(r) ==
    /\ pc[r] = "catch"
    /\ pc' = [pc EXCEPT ![r] = IF isTransactionActive THEN "rollback" ELSE "failure"]
    /\ UNCHANGED <<transactionStatus, fate, bound, phase, verdict>>

\* ... rollbackTransaction, which reads the field again ...
Rollback(r) ==
    /\ pc[r] = "rollback"
    /\ \/ /\ isTransactionActive
          /\ Complete(r, transactionStatus, "undone")
          /\ pc' = [pc EXCEPT ![r] = "forget"]
          /\ UNCHANGED phase
       \/ /\ ~isTransactionActive
          /\ Throw(r)
          /\ UNCHANGED <<fate, bound>>
    /\ UNCHANGED <<transactionStatus, verdict>>

Forget(r) ==
    /\ pc[r] = "forget"
    /\ transactionStatus' = NoStatus
    /\ pc' = [pc EXCEPT ![r] = "failure"]
    /\ UNCHANGED <<fate, bound, phase, verdict>>

\* ... and onFailure in a fresh transaction, if there is a service.
Failure(r) ==
    /\ pc[r] = "failure"
    /\ pc' = [pc EXCEPT ![r] = IF verdict[r] = "none" THEN "view" ELSE "start"]
    /\ UNCHANGED <<transactionStatus, fate, bound, phase, verdict>>

-----------------------------------------------------------------------------
Init ==
    /\ transactionStatus = NoStatus
    /\ fate = [s \in Statuses |-> "none"]
    /\ bound = [r \in Requests |-> NoStatus]
    /\ phase = [r \in Requests |-> "work"]
    /\ pc = [r \in Requests |-> "idle"]
    /\ verdict = [r \in Requests |-> "none"]

handleRequest(r) ==
    \/ startTransaction(r) \/ Serve(r) \/ Hook(r) \/ EndTransaction(r) \/ Clear(r) \/ View(r)
    \/ Catch(r) \/ Rollback(r) \/ Forget(r) \/ Failure(r)

Next == \E r \in Requests : Arrive(r) \/ handleRequest(r)

\* A thread that serves a request is scheduled, and what it calls returns.
Spec == Init /\ [][Next]_vars /\ \A r \in Requests : WF_vars(handleRequest(r))

-----------------------------------------------------------------------------
(* Properties *)

\* The field holds a status that was started, and a thread is only ever bound
\* to a transaction that it started itself.
TypeOK ==
    /\ transactionStatus # NoStatus => fate[transactionStatus] # "none"
    /\ transactionStatus \in Statuses \cup {NoStatus}
    /\ fate \in [Statuses -> {"none", "open", "joined", "committed", "undone"}]
    /\ bound \in [Requests -> {NoStatus} \cup Statuses]
    /\ \A r \in Requests : bound[r] \in {NoStatus} \cup ({r} \X Phases)
    /\ phase \in [Requests -> Phases]
    /\ pc \in [Requests -> {"idle", "start", "run", "end", "clear", "view", "catch", "rollback",
                            "forget", "failure", "done"}]
    /\ verdict \in [Requests -> {"none", "success", "errors", "thrown"}]

\* The view a request is answered with.
answer == [r \in Requests |->
    IF pc[r] # "done" THEN "none" ELSE IF phase[r] = "panic" THEN "panic" ELSE verdict[r]]
work == [r \in Requests |->
    CASE Completed(<<r, "work">>) -> fate[<<r, "work">>]
      [] fate[<<r, "work">>] = "none" /\ phase[r] = "panic" -> "undone"
      [] OTHER -> "pending"]

\* "let's commit or rollback the transaction depending on whether there are
\* errors or not in the response": the work of a request that is answered with
\* success is in the database.
SuccessIsCommitted == \A r \in Requests : answer[r] = "success" => work[r] = "committed"

\* The controller keeps the promise: nobody's work is both kept and discarded,
\* and no answer lies.
Promise == INSTANCE RequestPromise WITH Requests <- Requests, work <- work, answer <- answer
KeepsPromise == Promise!Spec

\* A request that is over has given its connection back: no transaction of its
\* thread is left open, whichever way handleRequest was left.
NothingLeftOpen ==
    \A r \in Requests : pc[r] = "done" =>
        bound[r] = NoStatus /\ \A p \in Phases : fate[<<r, p>>] \notin {"open", "joined"}

\* However requests mix up their transactions, each transaction ends once: what
\* is committed is never rolled back, what is rolled back is never committed, and
\* no status is started again.
EndedOnce == [][\A s \in Statuses : Completed(s) => fate'[s] = fate[s]]_vars

\* How far a request has come: the catch block is entered once and precedes the
\* transaction of onFailure.
Place ==
    [idle |-> 0, catch |-> 1, rollback |-> 2, forget |-> 3, failure |-> 4, start |-> 5,
     run |-> 6, end |-> 7, clear |-> 8, view |-> 9, done |-> 10]
Progress(r) ==
    Place[pc[r]] + (CASE phase[r] = "work" -> 0 [] phase[r] = "hook" -> 11 [] phase[r] = "panic" -> 22)

\* Every step takes one request forward and none back, whatever throws and in
\* whatever order requests overlap: the catch block cannot send a request round in
\* circles, and no request takes more than 32 steps.
StepsForward ==
    [][\E r \in Requests :
          /\ Progress(r)' > Progress(r)
          /\ \A q \in Requests \ {r} : Progress(q)' = Progress(q)]_vars

\* Every request that is being served is answered.
Answered == \A r \in Requests : pc[r] = "start" ~> pc[r] = "done"
=============================================================================
