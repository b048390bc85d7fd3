---------------------------- MODULE MCScheduler ----------------------------
(* Jobs whose minutes coincide and differ, so that occurrences are missed, *)
(* compete for permits and fall due while an earlier run is in progress.   *)
EXTENDS Scheduler, TLC

CONSTANTS j1, j2, j3

TwoJobs == {j1, j2}
ThreeJobs == {j1, j2, j3}

(* Every minute of the bound; the first only; the second only.             *)
MCOccurs == (j1 :> {1, 2}) @@ (j2 :> {1}) @@ (j3 :> {2})
OccursOf(jobs) == [j \in jobs |-> MCOccurs[j]]
OccursTwo == OccursOf(TwoJobs)
OccursThree == OccursOf(ThreeJobs)

(* A due job is reserved if executions end, stop() returns even if they    *)
(* hang, and a job that was removed does not come back.                    *)
JobsRunAndStop == DueJobRuns /\ StopEnds /\ RemovedStaysRemoved

Always == {TRUE}
Sometimes == BOOLEAN

=============================================================================
