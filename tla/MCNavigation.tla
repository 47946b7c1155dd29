---------------------------- MODULE MCNavigation ----------------------------
(* The pages an employer goes through: his jobs, a job, its duties, a duty, *)
(* a new duty, and the applications of all his jobs.                        *)
EXTENDS Navigation, TLC

CONSTANTS Jobs, Job, Duties, Duty, NewDuty, Applications, Application

MCItems == Jobs :> {Job} @@ Duties :> {Duty} @@ Applications :> {Application}
MCButtons == Job :> {Duties, NewDuty} @@ Duty :> {} @@ NewDuty :> {} @@ Application :> {}
MCMenuPages == {Home, Jobs, Applications}
MCReturning == {Job, Duties, Duty, NewDuty, Application}
MCWritable == {Job, Duty, NewDuty, Application}
=============================================================================
