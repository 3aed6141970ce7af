----------------------------- MODULE JobSchedule -----------------------------
(***************************************************************************)
(* When a collection job runs next: scheduled_interval of jobs.py, the     *)
(* delay computed at the end of run_due and the adjustment of the stored   *)
(* schedule in synchronize_jobs.  The numbers of the code are constants,   *)
(* so that a model can use a coarser clock than seconds.                   *)
(***************************************************************************)
EXTENDS Integers, FiniteSetsExt

CONSTANTS
  ExternalFloor,   \* 600: the shortest interval of a job that calls a provider
  ForecastCeiling, \* 1800: forecasts are checked at least this often
  LongestDelay,    \* 86400: the cap of the backoff
  ShortestDelay    \* 30: the retry of a projection whose inputs changed

ASSUME ScheduleAssumption ==
  /\ {ExternalFloor, ForecastCeiling, LongestDelay, ShortestDelay} \subseteq Nat \ {0}
  /\ ShortestDelay <= ExternalFloor
  /\ ExternalFloor <= ForecastCeiling
  /\ ForecastCeiling <= LongestDelay

NoTime == -1

\* A job: its configured interval, whether it contacts a provider, whether it
\* is one of FORECAST_JOBS.
ScheduledInterval(job) ==
  IF ~job.external THEN job.interval
  ELSE Max({ExternalFloor,
            IF job.forecast THEN Min({ForecastCeiling, job.interval}) ELSE job.interval})

Backoff(interval, failures) == Min({LongestDelay, interval * 2 ^ Min({failures, 6})})

\* The delay after a run that ended with state, after failures consecutive
\* failures (this run included); continuation is the delay the job itself
\* asked for, or NoTime; changed says that a projection met changed inputs.
Delay(job, state, failures, continuation, changed) ==
  LET delay ==
        IF changed THEN ShortestDelay
        ELSE IF failures > 0 THEN Backoff(ScheduledInterval(job), failures)
        ELSE IF continuation # NoTime /\ state \in {"succeeded", "partial"} THEN continuation
        ELSE ScheduledInterval(job)
  IN IF job.external THEN Max({ExternalFloor, delay}) ELSE delay

\* Mutant: the schedule follows a new interval also while a failure backs off.
FollowIntervalAlways(row, interval) ==
  IF row.finishedAt # NoTime /\ interval # row.interval
  THEN row.finishedAt + interval ELSE row.nextRun

\* synchronize_jobs: a longer interval postpones and a shorter one advances
\* the next run of a job that is not backing off.
FollowInterval(row, interval) ==
  LET next == row.finishedAt + interval
  IN IF row.failures # 0 \/ row.finishedAt = NoTime THEN row.nextRun
     ELSE IF interval > row.interval THEN Max({row.nextRun, next})
     ELSE IF interval < row.interval THEN Min({row.nextRun, next})
     ELSE row.nextRun
=============================================================================
