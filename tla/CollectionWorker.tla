--------------------------- MODULE CollectionWorker ---------------------------
(***************************************************************************)
(* The collection worker (ingestion/worker.py) and the refresh requests it *)
(* serves (refresh/service.py).  Workers share the tables collection_job,  *)
(* collection_refresh_request and collection_refresh_task; a lock per job  *)
(* and one for the refresh keep them apart.  A lock belongs to an idle     *)
(* guard session of its own: when that is lost the lock is gone, while     *)
(* the worker goes on over other connections and notices at the unlock.    *)
(* A worker goes through its jobs again and again (an automatic pass) and  *)
(* between two jobs looks after the refresh request.                       *)
(*                                                                         *)
(* A step reads and writes at once; a session is lost between two steps.   *)
(* One unit of the clock stands for any shorter real time: timestamps are  *)
(* only compared.  Times after MaxTime are one time, Later.                *)
(***************************************************************************)
EXTENDS JobSchedule, Sequences, SequencesExt

CONSTANTS
  Workers,
  SourceOrder,      \* names of DYNAMIC_JOBS, in the order of their tasks
  ForecastJobs,     \* the sources with an upper bound on their interval
  Configs,          \* configurations a worker may start with
  Outcomes,         \* how a run may end
  Continuations,    \* delays an incomplete projection may ask for
  MaxTime,          \* bound: the clock stops here
  MaxRequests,      \* bound on refresh requests
  MaxRevocations,   \* bound on withdrawals of evidence
  MaxCrashes,       \* bound on crashes of workers and writes that fail
  MaxLosses         \* bound on losses of guard sessions

Condition       == "condition_projection"
ProjectionOrder == <<Condition, "forecast_projection",
                     "water_index_evaluation", "quality_comparison">>

Sources     == {SourceOrder[i] : i \in DOMAIN SourceOrder}
Projections == {ProjectionOrder[i] : i \in DOMAIN ProjectionOrder}
Jobs        == Sources \cup Projections

\* The task that stands for missing source configuration.
External == "external_data"
Tasks    == Jobs \cup {External}

ASSUME WorkerAssumption ==
  /\ SourceOrder \in Seq(STRING)
  /\ \A i, k \in DOMAIN SourceOrder : SourceOrder[i] = SourceOrder[k] => i = k
  /\ {External, "none"} \cap Jobs = {}  \* they stand for missing sources, no job
  /\ Sources \cap Projections = {}
  /\ ForecastJobs \subseteq Sources
  /\ Configs \subseteq [Jobs -> [enabled : BOOLEAN, interval : Nat \ {0}]]
  /\ Outcomes \subseteq {"succeeded", "partial", "no_data", "failed"}
  /\ MaxRevocations > 0 => "failed" \in Outcomes  \* an overtaken run fails
  /\ Continuations \subseteq ShortestDelay .. LongestDelay
  /\ {MaxTime, MaxRequests, MaxRevocations, MaxCrashes, MaxLosses} \subseteq Nat

Terminal == {"succeeded", "partial", "no_data", "failed"}
Active   == {"queued", "running"}
Later    == MaxTime + 1
Bounded(t) == Min({t, Later})

VARIABLES
  clock,
  config,    \* the jobs each worker process was started with
  row,       \* collection_job
  request,   \* the last refresh request and its tasks
  requests,  \* number of requests so far
  pass,      \* position of each worker in its automatic pass, 0 outside
  refresh,   \* what each worker does for the request
  run,       \* the job each worker is running
  urgent,    \* projection_urgent: nothing published that may be served
  revocations,
  crashes,
  losses,
  disturbed  \* history: a guard session was lost since the request was made,
             \* or before it and what was left of that still went on

faults == <<crashes, losses, disturbed>>

vars == <<clock, config, row, request, requests, pass, refresh, run, urgent,
          revocations, faults>>

\* A task; startedAt is history: the start of the run it was credited with.
NoTask == [state |-> "none", notBefore |-> NoTime, finishedAt |-> NoTime,
           startedAt |-> NoTime]

NoTasks == [j \in Tasks |-> NoTask]

\* A run; overtaken is set when evidence it has read is withdrawn, locked says
\* that the guard session still holds the lock of the job.
NoRun == [job |-> "none", startedAt |-> NoTime, manual |-> FALSE, failures |-> 0,
          overtaken |-> FALSE, locked |-> FALSE]

\* A worker in the refresh: the request it serves and the tasks as last read.
NoRefresh == [stage |-> "none", position |-> 0, readyAt |-> NoTime, of |-> 0,
              rows |-> NoTasks, locked |-> FALSE]

Task(state, notBefore, finishedAt) ==
  [NoTask EXCEPT !.state = state, !.notBefore = notBefore, !.finishedAt = finishedAt]

Enabled(w) == {j \in Jobs : config[w][j].enabled}
PassOrder(w) == SelectSeq(SourceOrder \o ProjectionOrder, LAMBDA j : j \in Enabled(w))
JobOf(w, j) == [interval |-> config[w][j].interval, external |-> j \in Sources,
                forecast |-> j \in ForecastJobs]

JobLocked(j)  == \E w \in Workers : run[w].job = j /\ run[w].locked
RefreshLocked == \E w \in Workers : refresh[w].locked

Idle(w) == run[w] = NoRun

-----------------------------------------------------------------------------
Init ==
  /\ clock = 0
  /\ config \in [Workers -> Configs]
  /\ row = [j \in Jobs |-> [state |-> "new", interval |-> 0, startedAt |-> NoTime,
                            finishedAt |-> NoTime, nextRun |-> NoTime, failures |-> 0]]
  /\ request = [status |-> "none", requestedAt |-> NoTime, tasks |-> NoTasks]
  /\ requests = 0
  /\ pass = [w \in Workers |-> 0]
  /\ refresh = [w \in Workers |-> NoRefresh]
  /\ run = [w \in Workers |-> NoRun]
  /\ urgent = TRUE
  /\ revocations = 0
  /\ crashes = 0
  /\ losses = 0
  /\ disturbed = FALSE

Tick ==
  /\ clock < MaxTime
  /\ clock' = clock + 1
  /\ UNCHANGED <<config, row, request, requests, pass, refresh, run, urgent, revocations, faults>>

\* enqueue_refresh: a new request unless one is active, which is then shared.
Enqueue ==
  /\ request.status \notin Active
  /\ requests < MaxRequests
  /\ requests' = requests + 1
  /\ request' = [status |-> "queued", requestedAt |-> clock, tasks |-> NoTasks]
  /\ disturbed' = \E w \in Workers : \/ refresh[w] # NoRefresh
                                     \/ run[w] # NoRun /\ ~run[w].locked
  /\ UNCHANGED <<clock, config, row, pass, refresh, run, urgent, revocations, crashes, losses>>

\* Evidence is withdrawn (condition_invalidation.py): what is published may no
\* longer be served, and a projection that has read the evidence is overtaken.
Revoke ==
  /\ revocations < MaxRevocations
  /\ revocations' = revocations + 1
  /\ urgent' = TRUE
  /\ run' \in {[w \in Workers |-> IF run[w].job = Condition
                                 THEN [run[w] EXCEPT !.overtaken = @ \/ late] ELSE run[w]] :
                 late \in BOOLEAN}
  /\ UNCHANGED <<clock, config, row, request, requests, pass, refresh, faults>>

-----------------------------------------------------------------------------
(* synchronize_jobs, for one job of a worker.                              *)
Synchronized(w, j) ==
  LET old == row[j]
      interval == ScheduledInterval(JobOf(w, j))
  IN IF old.state = "new"
     THEN [old EXCEPT !.state = IF j \in Enabled(w) THEN "pending" ELSE "disabled",
                      !.interval = interval, !.nextRun = clock]
     ELSE [old EXCEPT !.interval = interval, !.nextRun = Bounded(FollowInterval(old, interval)),
                      !.state = IF j \notin Enabled(w) THEN "disabled"
                                ELSE IF @ = "disabled" THEN "pending" ELSE @]

\* The job lock is taken, the row read and found due: the run begins.
Begin(w, j, r, manual) ==
  /\ row' = [row EXCEPT ![j] = [r EXCEPT !.state = "running", !.startedAt = clock]]
  /\ run' = [run EXCEPT ![w] = [job |-> j, startedAt |-> clock, manual |-> manual,
                                failures |-> r.failures, overtaken |-> FALSE,
                                locked |-> TRUE]]

BackingOff(r) == r.failures # 0 /\ r.nextRun > clock

-----------------------------------------------------------------------------
(* The automatic pass: run_due(jobs, before_job=refresh_if_requested).     *)

StartPass(w) ==
  /\ Idle(w) /\ refresh[w] = NoRefresh /\ pass[w] = 0
  /\ row' = [j \in Jobs |-> Synchronized(w, j)]
  /\ pass' = [pass EXCEPT ![w] = IF PassOrder(w) = <<>> THEN 0 ELSE 1]
  /\ UNCHANGED <<clock, config, request, requests, refresh, run, urgent, revocations, faults>>

\* The next position; behind the last job the pass ends.
Advance(w) == pass' = [pass EXCEPT ![w] = IF @ = Len(PassOrder(w)) THEN 0 ELSE @ + 1]

\* Mutant: the condition projection waits for its interval in any case.
DueBySchedule(j) == row[j].nextRun <= clock

\* A job runs when its time has come; the condition projection also when
\* nothing may be served, unless it is backing off.
Due(j) ==
  \/ row[j].nextRun <= clock
  \/ j = Condition /\ row[j].failures = 0 /\ urgent

PassJob(w) ==
  /\ Idle(w) /\ refresh[w] = NoRefresh /\ pass[w] # 0
  /\ LET j == PassOrder(w)[pass[w]]
         runs == ~JobLocked(j) /\ Due(j)
     IN \/ runs /\ Begin(w, j, row[j], FALSE)
        \/ ~runs /\ UNCHANGED <<row, run>>
  /\ Advance(w)
  /\ UNCHANGED <<clock, config, request, requests, refresh, urgent, revocations, faults>>

-----------------------------------------------------------------------------
(* The refresh: run_pending_refresh, between two jobs or two passes.       *)

\* The tasks of a request: the enabled source and projection jobs, and failed
\* tasks for what a refresh cannot do without.
InitialTasks(w) ==
  [j \in Tasks |->
     IF j \in Enabled(w) THEN Task("pending", request.requestedAt, NoTime)
     ELSE IF \/ j = External /\ Sources \cap Enabled(w) = {}
             \/ j = Condition
     THEN Task("failed", request.requestedAt, clock)
     ELSE NoTask]

\* Mutant: a request is taken up once.
TakenOnce == request.status = "queued"

\* A queued request is started, a running one resumed.
Pending == request.status \in Active

BeginRefresh(w) ==
  /\ Idle(w) /\ refresh[w] = NoRefresh /\ ~RefreshLocked
  /\ Pending
  /\ request' = IF request.status = "queued"
                THEN [request EXCEPT !.status = "running", !.tasks = InitialTasks(w)]
                ELSE request
  /\ refresh' = [refresh EXCEPT ![w] =
                   [stage |-> "sources", position |-> 1, readyAt |-> NoTime,
                    of |-> requests, rows |-> request'.tasks, locked |-> TRUE]]
  /\ UNCHANGED <<clock, config, row, requests, pass, run, urgent, revocations, faults>>

Next1(w) == refresh' = [refresh EXCEPT ![w].position = @ + 1] /\ UNCHANGED pass

\* An exception leaves the refresh and the pass around it.
Abandon(w) ==
  /\ refresh' = [refresh EXCEPT ![w] = NoRefresh]
  /\ pass' = [pass EXCEPT ![w] = 0]

\* The refresh lock is given back; without its session that raises.
EndRefresh(w) ==
  IF refresh[w].locked
  THEN refresh' = [refresh EXCEPT ![w] = NoRefresh] /\ UNCHANGED pass
  ELSE Abandon(w)

\* Only after the loss of its session may a worker serve a request that others
\* have closed and a new one has replaced; every task of that one has ended.
Current(w) == refresh[w].of = requests

\* The state of the task is not looked at.
FinishTask(w, j, task) ==
  request' = IF Current(w) THEN [request EXCEPT !.tasks[j] = task] ELSE request

\* A finished automatic run fulfils the task if it started after the boundary.
Reusable(r, boundary) ==
  /\ r.state \in Terminal
  /\ r.startedAt # NoTime /\ r.startedAt >= boundary
  /\ r.finishedAt # NoTime

\* Mutant: a resumed refresh tries incomplete tasks again.
OpenOrIncomplete(task) == task.state \in {"pending", "running", "partial", "failed"}

\* Mutant: a task that a crash left running is not taken up again.
OpenPending(task) == task.state = "pending"

Open(task) == task.state \in {"pending", "running"}

\* run_due of one job for the request: synchronize, lock, then reuse a run,
\* respect the backoff or run.  boundary is the time the run must not precede;
\* it is kept in the task of a projection (raised for it, never lowered).
Raised(j, boundary) ==
  [request.tasks[j] EXCEPT !.notBefore = Max({@, boundary})]

\* The lock is got, and the task has not ended since the rows were read.
Free(w, j) ==
  /\ j \in Enabled(w)
  /\ ~JobLocked(j)
  /\ Current(w) /\ Open(request.tasks[j])

Reuse(w, j, boundary) ==
  LET r == Synchronized(w, j) IN
  /\ Free(w, j)
  /\ Reusable(r, boundary)
  /\ row' = [row EXCEPT ![j] = r]
  /\ FinishTask(w, j, [Raised(j, boundary) EXCEPT !.state = r.state, !.finishedAt = r.finishedAt,
                                                  !.startedAt = r.startedAt])
  /\ UNCHANGED run

Refuse(w, j, boundary) ==
  LET r == Synchronized(w, j) IN
  /\ Free(w, j)
  /\ ~Reusable(r, boundary) /\ BackingOff(r)
  /\ row' = [row EXCEPT ![j] = r]
  /\ FinishTask(w, j, [Raised(j, boundary) EXCEPT !.state = "failed", !.finishedAt = clock])
  /\ UNCHANGED run

RunNow(w, j, boundary) ==
  LET r == Synchronized(w, j) IN
  /\ Free(w, j)
  /\ ~Reusable(r, boundary) /\ ~BackingOff(r)
  /\ FinishTask(w, j, [Raised(j, boundary) EXCEPT !.state = "running"])
  /\ Begin(w, j, r, TRUE)

\* Another worker runs the job, or has ended the task meanwhile.
Busy(w, j, boundary) ==
  /\ j \in Enabled(w) /\ ~Free(w, j)
  /\ row' = [row EXCEPT ![j] = Synchronized(w, j)]
  /\ FinishTask(w, j, Raised(j, boundary))
  /\ UNCHANGED run

\* A job that the configuration no longer enables fails its task.
Unavailable(w, j) ==
  /\ j \notin Enabled(w)
  /\ FinishTask(w, j, [request.tasks[j] EXCEPT !.state = "failed", !.finishedAt = clock])
  /\ UNCHANGED <<row, run>>

SourceTask(w) ==
  /\ Idle(w) /\ refresh[w].stage = "sources"
  /\ refresh[w].position <= Len(SourceOrder)
  /\ LET j == SourceOrder[refresh[w].position]
         task == refresh[w].rows[j]
     IN \/ ~Open(task) /\ UNCHANGED <<request, row, run>>
        \/ /\ Open(task)
           /\ \/ Unavailable(w, j)
              \/ Reuse(w, j, task.notBefore)
              \/ Refuse(w, j, task.notBefore)
              \/ RunNow(w, j, task.notBefore)
              \/ Busy(w, j, task.notBefore)
  /\ Next1(w)
  /\ UNCHANGED <<clock, config, requests, urgent, revocations, faults>>

SourceTasks == {request.tasks[j] : j \in Sources \cup {External}} \ {NoTask}

\* Mutant: the projections wait for the request only.
ReadySinceRequest == request.requestedAt

\* The dependency boundary: when every source task had ended.
ReadyAt == Max({request.requestedAt} \cup {t.finishedAt : t \in SourceTasks})

SourcesDone(w) ==
  /\ Idle(w) /\ refresh[w].stage = "sources"
  /\ refresh[w].position > Len(SourceOrder)
  /\ IF ~Current(w) \/ \E t \in SourceTasks : Open(t)
     THEN EndRefresh(w)
     ELSE /\ refresh' = [refresh EXCEPT ![w].stage = "projections", ![w].position = 1,
                                        ![w].readyAt = ReadyAt, ![w].rows = request.tasks]
          /\ UNCHANGED pass
  /\ UNCHANGED <<clock, config, row, request, requests, run, urgent, revocations, faults>>

\* The boundary of the later projections once the one of task t has ended.
After(w, t) ==
  /\ refresh' = [refresh EXCEPT ![w].position = @ + 1, ![w].readyAt = Max({@, t.finishedAt})]
  /\ UNCHANGED pass

ProjectionTask(w) ==
  /\ Idle(w) /\ refresh[w].stage = "projections"
  /\ refresh[w].position <= Len(ProjectionOrder)
  /\ LET j == ProjectionOrder[refresh[w].position]
         task == refresh[w].rows[j]
         boundary == refresh[w].readyAt
     IN \/ ~Open(task) /\ After(w, task) /\ UNCHANGED <<request, row, run>>
        \/ /\ Open(task)
           /\ \/ Unavailable(w, j) /\ Next1(w)
              \/ Reuse(w, j, boundary) /\ After(w, request'.tasks[j])
              \/ Refuse(w, j, boundary) /\ After(w, request'.tasks[j])
              \/ RunNow(w, j, boundary) /\ UNCHANGED <<refresh, pass>>
              \/ Busy(w, j, boundary) /\ EndRefresh(w)
  /\ UNCHANGED <<clock, config, requests, urgent, revocations, faults>>

\* The final status: no success without a source and the condition projection.
Final(states) ==
  IF \/ \A j \in Sources : states[j] \notin {"succeeded", "partial"}
     \/ states[Condition] \notin {"succeeded", "partial"}
  THEN "failed"
  ELSE IF \E j \in Tasks : states[j] \notin {"none", "succeeded"} THEN "partial"
  ELSE "succeeded"

CompleteRequest(w) ==
  /\ Idle(w) /\ refresh[w].stage = "projections"
  /\ refresh[w].position > Len(ProjectionOrder)
  /\ IF ~Current(w) \/ \E j \in Tasks : Open(request.tasks[j])
     THEN UNCHANGED request
     ELSE request' = [request EXCEPT !.status = Final([j \in Tasks |-> request.tasks[j].state])]
  /\ EndRefresh(w)
  /\ UNCHANGED <<clock, config, row, requests, run, urgent, revocations, faults>>

-----------------------------------------------------------------------------
(* The end of a run: row, history and task in one transaction, whoever has *)
(* the lock by then; the unlock that follows raises when it is lost.       *)

OutcomesOf(j) ==
  CASE j \in {Condition, "forecast_projection"} -> {"succeeded", "failed"}
    [] j = "water_index_evaluation"             -> {"succeeded", "partial", "failed"}
    [] j = "quality_comparison"                 -> {"succeeded", "no_data", "failed"}
    [] OTHER                                    -> Terminal

\* What a run may report: a projection that met changed inputs fails, an
\* evaluation that left work for later asks for a continuation.
Reports(j, overtaken) ==
  {r \in [outcome : Outcomes \cap OutcomesOf(j), changed : BOOLEAN,
          continuation : Continuations \cup {NoTime}] :
     /\ r.changed \/ overtaken => j = Condition /\ r.outcome = "failed"
     /\ r.continuation # NoTime => j = "water_index_evaluation" /\ r.outcome = "partial"}

FinishRun(w) ==
  \E r \in Reports(run[w].job, run[w].overtaken) :
    LET j == run[w].job
        failures == IF r.outcome = "failed" THEN run[w].failures + 1 ELSE 0
        next == clock + Delay(JobOf(w, j), r.outcome, failures, r.continuation, r.changed)
    IN /\ ~Idle(w)
       /\ row' = [row EXCEPT ![j].state = r.outcome, ![j].finishedAt = clock,
                             ![j].nextRun = Bounded(next), ![j].failures = failures]
       /\ run' = [run EXCEPT ![w] = NoRun]
       /\ urgent' = (urgent /\ ~(j = Condition /\ r.outcome = "succeeded"))
       /\ IF run[w].manual
          THEN FinishTask(w, j, [request.tasks[j] EXCEPT !.state = r.outcome, !.finishedAt = clock,
                                                        !.startedAt = run[w].startedAt])
          ELSE UNCHANGED request
       /\ IF ~run[w].locked THEN Abandon(w)
          ELSE IF run[w].manual /\ j \in Projections THEN After(w, request'.tasks[j])
          ELSE UNCHANGED <<refresh, pass>>
       /\ UNCHANGED <<clock, config, requests, revocations, faults>>

\* The guard session of a run, of the refresh or of both is lost (connection
\* reset, database restarted): others may take the locks, w does not notice.
LoseSession(w) ==
  /\ losses < MaxLosses
  /\ losses' = losses + 1
  /\ run' \in {run, [run EXCEPT ![w].locked = FALSE]}
  /\ refresh' \in {refresh, [refresh EXCEPT ![w].locked = FALSE]}
  /\ <<run', refresh'>> # <<run, refresh>>
  /\ disturbed' = TRUE
  /\ UNCHANGED <<clock, config, row, request, requests, pass, urgent, revocations, crashes>>

\* The process dies, or a write of its own fails and the exception leaves run,
\* refresh and pass: the guard sessions end with them, the row stays as it is.
\* The worker starts again with what is then configured.
Crash(w) ==
  /\ crashes < MaxCrashes
  /\ crashes' = crashes + 1
  /\ config' \in {[config EXCEPT ![w] = c] : c \in Configs}
  /\ Abandon(w)
  /\ run' = [run EXCEPT ![w] = NoRun]
  /\ UNCHANGED <<clock, row, request, requests, urgent, revocations, losses, disturbed>>

WorkerStep(w) ==
  \/ StartPass(w) \/ PassJob(w)
  \/ BeginRefresh(w) \/ SourceTask(w) \/ SourcesDone(w)
  \/ ProjectionTask(w) \/ CompleteRequest(w)
  \/ FinishRun(w)

Next ==
  \/ Tick
  \/ Enqueue
  \/ Revoke
  \/ \E w \in Workers : WorkerStep(w) \/ LoseSession(w) \/ Crash(w)

Spec == Init /\ [][Next]_vars

\* A worker keeps going and a run ends (provider and database calls have
\* timeouts).  The refresh is looked after before every job and in every turn
\* of the main loop, so a refresh that can be taken up again and again is.
Fairness ==
  /\ WF_vars(Tick)
  /\ \A w \in Workers : WF_vars(WorkerStep(w))
  /\ SF_vars(\E w \in Workers : BeginRefresh(w))

FairSpec == Spec /\ Fairness

-----------------------------------------------------------------------------
(* Properties.                                                             *)

Successful(j) == request.tasks[j].state \in {"succeeded", "partial"}

\* A request that reports success delivers it: some source was collected by a
\* run that started after the request, the scores were projected by a run that
\* started after the last source had ended, the later projections by runs that
\* started after the earlier ones had ended, and a full success leaves no task
\* behind.  Runs may be borrowed from automatic passes of other workers, and
\* the refresh may be interrupted and resumed anywhere.  Not claimed of a
\* request disturbed by a lost session: a run that goes on without its lock may
\* move the end of a source past the start of the projections built on it.
SuccessMeansRefreshed ==
  ~disturbed /\ request.status \in {"succeeded", "partial"} =>
    /\ \E j \in Sources : Successful(j) /\ request.tasks[j].startedAt >= request.requestedAt
    /\ Successful(Condition)
    /\ \A t \in SourceTasks : request.tasks[Condition].startedAt >= t.finishedAt
    /\ \A i, k \in DOMAIN ProjectionOrder :
         LET earlier == request.tasks[ProjectionOrder[i]]
             later   == request.tasks[ProjectionOrder[k]]
         IN i < k /\ earlier.startedAt # NoTime /\ later.startedAt # NoTime
              => later.startedAt >= earlier.finishedAt
    /\ request.status = "succeeded" =>
         \A j \in Tasks : request.tasks[j].state \in {"none", "succeeded"}

\* A request is closed only when nothing is left to do for it: no task is open
\* and no worker still runs a job in its name.  Not claimed of a disturbed
\* request: others may close it while a run without its lock goes on.
ClosedMeansSettled ==
  ~disturbed /\ request.status \notin Active =>
    /\ \A j \in Tasks : ~(request.tasks[j].state \in {"pending", "running"})
    /\ \A w \in Workers : ~run[w].manual

\* What a task has reported stays reported: a resumed refresh does not repeat
\* or overwrite a finished task of the same request.  Not claimed of a disturbed
\* request: finish_task does not look at the state of the task it writes.
FinishedTaskStable ==
  [][\A j \in Tasks :
       ~disturbed /\ request.tasks[j].state \in Terminal /\ requests' = requests
         => request'.tasks[j] = request.tasks[j]]_vars

Starts(j) == \E w \in Workers : run[w].job # j /\ run'[w].job = j

\* A provider is left alone: after a failure for the whole backoff, whoever
\* asks, and after any other run for the shortest interval, unless a refresh
\* was requested.  Neither restarts with another interval nor runs whose lock is
\* lost shorten the pause.
ProviderPause ==
  [][\A j \in Sources :
       Starts(j) /\ row[j].finishedAt # NoTime =>
         \/ clock >= row[j].finishedAt + IF row[j].failures = 0 THEN ExternalFloor
                                         ELSE Backoff(ExternalFloor, row[j].failures)
         \/ row[j].failures = 0 /\ \E w \in Workers : run'[w].job = j /\ run'[w].manual]_vars

\* A refresh ends, whatever its jobs report and although workers crash and
\* sessions are lost.
RequestCompletes == request.status \in Active ~> request.status \notin Active

\* A withdrawal is answered by a new projection without waiting for the
\* interval; only the backoff of a failing projection postpones it.
RevocationAnswered == urgent ~> ~urgent \/ row[Condition].failures # 0
=============================================================================
