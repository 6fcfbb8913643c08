---------------------------- MODULE MCScheduler ----------------------------
(* Instances of Scheduler for TLC. *)
EXTENDS Scheduler

CONSTANTS weather, octopus

TwoJobs == {weather, octopus}
OneSystemJob == {octopus}
ShortIntervals == [j \in TwoJobs |-> IF j = octopus THEN 3 ELSE 2]

NoFaults  == {}
LostWakes == {"wake"}
AnyFaults == AllFaults
=============================================================================
