---------------------------- MODULE MCScheduler ----------------------------
(***************************************************************************)
(* Instances of Scheduler for TLC.                                         *)
(***************************************************************************)
EXTENDS Scheduler, TLC

CONSTANTS i1, i2, j1, j2

OneInstance == {i1}
TwoInstances == {i1, i2}
OneJob == {j1}
TwoJobs == {j1, j2}

Every1 == {[type |-> "interval", n |-> 1]}
EveryAndCron == {[type |-> "interval", n |-> 1], [type |-> "cron", n |-> 2]}

InstanceSymmetry == Permutations(Instances)

-----------------------------------------------------------------------------
(* What the documentation says of the program and the code does not do. *)

\* docs/guides/scheduling.md: a schedule runs its pipeline again and again, so
\* a schedule that has fired is given a next run.
ScheduleIsRearmed ==
  \A j \in Jobs : Exists(j) /\ nextRun[j] = Null ~> ~(Exists(j) /\ nextRun[j] = Null)
=============================================================================
