---------------------------- MODULE MCJobManager ----------------------------
(* JobManager on small instances; requests are interchangeable.             *)
EXTENDS JobManager, TLC

CONSTANT StandingJob   \* jobs whose expression croniter rejects

EveryMinute == [by |-> "croniter", minutes |-> 1]   \* "* * * * *"
EveryTick == [by |-> "fallback", minutes |-> 0]     \* "*/0 * * * *"

MCWritten ==
  [j \in Job |-> IF j \in StandingJob
                 THEN [schedule : {"CRON"}, cron : {EveryTick}, policy : {"ALLOW_CONCURRENT"}]
                 ELSE [schedule : Schedule, cron : {EveryMinute}, policy : Policy]]

Symmetry == Permutations(Request)
=============================================================================
