------------------------ MODULE CollectionWorkerProofs ------------------------
(***************************************************************************)
(* Proofs about the collection worker: a closed request is settled, what a *)
(* task has reported stays and a request that reports success delivers it, *)
(* as long as no lock session is lost; and a provider is left alone for    *)
(* its pause, whatever is lost.  All of it for any number of workers,      *)
(* jobs, configurations, requests, crashes and lost sessions.              *)
(*                                                                         *)
(* BInv holds in every state.  IInv and WInv are what the locks are for:   *)
(* they hold until a session is lost and again from the first request on   *)
(* that is made when nothing is left of what had lost its lock.            *)
(***************************************************************************)
EXTENDS CollectionWorker, NumberSets

-----------------------------------------------------------------------------
(* The invariants.                                                         *)

\* Records and functions of the expected shape; what their times are does not
\* matter here.
\* Records and functions of the expected shape; what their times are does not
\* matter here.
ShapedTask(t) == t = [state |-> t.state, notBefore |-> t.notBefore,
                      finishedAt |-> t.finishedAt, startedAt |-> t.startedAt]

ShapedRequest(r) ==
  /\ r = [status |-> r.status, requestedAt |-> r.requestedAt,
          tasks |-> [j \in Tasks |-> r.tasks[j]]]
  /\ \A j \in Tasks : ShapedTask(r.tasks[j])

ShapedRefresh(f) ==
  /\ f = [w \in Workers |-> f[w]]
  /\ \A w \in Workers : f[w] = [stage |-> f[w].stage, position |-> f[w].position,
                                readyAt |-> f[w].readyAt, of |-> f[w].of,
                                rows |-> f[w].rows, locked |-> f[w].locked]

ShapedRun(f) ==
  /\ f = [w \in Workers |-> f[w]]
  /\ \A w \in Workers :
       f[w] = [job |-> f[w].job, startedAt |-> f[w].startedAt, manual |-> f[w].manual,
               failures |-> f[w].failures, overtaken |-> f[w].overtaken,
               locked |-> f[w].locked]

Shape ==
  /\ requests \in Nat
  /\ ShapedRequest(request)
  /\ ShapedRefresh(refresh)
  /\ ShapedRun(run)

\* A server stands at a position of the orders of tasks.
Positions ==
  \A w \in Workers : refresh[w].stage # "none" => refresh[w].position \in Nat \ {0}

\* Stored jobs.
GoodRow(r, now) ==
  /\ r = [state |-> r.state, interval |-> r.interval, startedAt |-> r.startedAt,
          finishedAt |-> r.finishedAt, nextRun |-> r.nextRun, failures |-> r.failures]
  /\ {r.startedAt, r.finishedAt} \subseteq NoTime .. now

GoodRows(R, now) == R = [j \in Jobs |-> R[j]] /\ \A j \in Jobs : GoodRow(R[j], now)

\* A run says when it started, whether it is for the request and whether it
\* still has its lock; one for the request is of a job and by a worker in the refresh.
RunKnown(w) ==
  /\ run[w].manual \in BOOLEAN /\ run[w].locked \in BOOLEAN
  /\ run[w].startedAt \in NoTime .. clock
  /\ run[w].manual = TRUE => refresh[w].stage # "none" /\ run[w].job \in Jobs

BInv ==
  /\ Shape /\ Positions
  /\ clock \in Nat /\ GoodRows(row, clock)
  /\ \A w \in Workers : RunKnown(w)

\* The refresh lock: one worker at a time serves the request, which is running.
OneServer ==
  /\ \A v, w \in Workers :
       refresh[v].stage # "none" /\ refresh[w].stage # "none" => v = w
  /\ \A w \in Workers : refresh[w].stage # "none" => request.status = "running"

\* A run for the request belongs to its server and keeps its task running.
ManualRuns ==
  \A w \in Workers :
    run[w].manual = TRUE =>
      /\ refresh[w].stage # "none"
      /\ run[w].job \in Jobs
      /\ request.tasks[run[w].job].state = "running"

\* A queued request has no tasks yet, a closed one has no open task.
TasksFitStatus ==
  /\ request.status = "queued" => \A j \in Tasks : request.tasks[j].state = "none"
  /\ request.status \notin Active => \A j \in Tasks : ~Open(request.tasks[j])

Inputs   == Sources \cup {External}
Ordinals == DOMAIN ProjectionOrder

\* The tasks whose rows a worker in the refresh has read and not yet come to.
Ahead(w) ==
  {j \in Jobs :
     \/ /\ refresh[w].stage = "sources"
        /\ \E i \in DOMAIN SourceOrder : i >= refresh[w].position /\ j = SourceOrder[i]
     \/ /\ refresh[w].stage = "projections"
        /\ \E k \in Ordinals :
             /\ \/ k > refresh[w].position
                \/ k = refresh[w].position /\ run[w].manual = FALSE
             /\ j = ProjectionOrder[k]}

\* What the locks keep up to date: they are held, the worker in the refresh
\* serves the last request, the rows it will come to are as it has read them,
\* and what it runs is behind it.
UpToDate(w) ==
  /\ refresh[w].stage # "none" => refresh[w].locked = TRUE /\ refresh[w].of = requests
  /\ run[w] = NoRun \/ run[w].locked = TRUE
  /\ \A j \in Ahead(w) : refresh[w].rows[j] = request.tasks[j]
  /\ run[w].manual = TRUE =>
       /\ run[w].job \notin Ahead(w)
       /\ refresh[w].stage = "projections" => run[w].job \in Projections

IInv ==
  /\ BInv /\ OneServer /\ ManualRuns /\ TasksFitStatus
  /\ \A w \in Workers : UpToDate(w)

\* What FinishedTaskStable says of one step.
ReportsKept ==
  \A j \in Tasks :
    request.tasks[j].state \in Terminal /\ requests' = requests
      => request'.tasks[j] = request.tasks[j]

-----------------------------------------------------------------------------
(* The orders of the tasks.                                                *)

LEMMA OrderFacts ==
  /\ Ordinals = 1 .. 4 /\ Len(ProjectionOrder) = 4
  /\ \A k \in Ordinals : ProjectionOrder[k] \in Projections
  /\ \A i, k \in Ordinals : ProjectionOrder[i] = ProjectionOrder[k] => i = k
  /\ ProjectionOrder[1] = Condition /\ Condition \in Projections
  /\ Projections \subseteq Jobs /\ Sources \subseteq Jobs
  /\ Jobs \subseteq Tasks /\ Inputs \subseteq Tasks
  /\ Projections \cap Inputs = {}
<1>1. Ordinals = 1 .. 4 /\ Len(ProjectionOrder) = 4
  BY DEF Ordinals, ProjectionOrder
<1>2. /\ ProjectionOrder[1] = Condition
      /\ ProjectionOrder[2] = "forecast_projection"
      /\ ProjectionOrder[3] = "water_index_evaluation"
      /\ ProjectionOrder[4] = "quality_comparison"
  BY DEF ProjectionOrder
<1>3. \A i, k \in 1 .. 4 : ProjectionOrder[i] = ProjectionOrder[k] => i = k
  <2> SUFFICES ASSUME NEW i \in 1 .. 4, NEW k \in 1 .. 4,
                      ProjectionOrder[i] = ProjectionOrder[k]
               PROVE  i = k
    OBVIOUS
  <2>1. i \in {1, 2, 3, 4} /\ k \in {1, 2, 3, 4}
    OBVIOUS
  <2> QED
    BY <1>2, <2>1 DEF Condition
<1>4. \A k \in Ordinals : ProjectionOrder[k] \in Projections
  BY DEF Projections, Ordinals
<1>5. Condition \in Projections
  BY <1>1, <1>2, <1>4
<1> QED
  BY <1>1, <1>2, <1>3, <1>4, <1>5, WorkerAssumption
  DEF WorkerAssumption, Jobs, Tasks, Inputs

\* The names at the positions of the two orders are jobs.
LEMMA OrdersAreJobs ==
  /\ \A p \in Nat \ {0} : p <= Len(SourceOrder) => SourceOrder[p] \in Jobs
  /\ \A p \in Nat \ {0} : p <= Len(ProjectionOrder) =>
       ProjectionOrder[p] \in Jobs /\ ProjectionOrder[p] \in Projections
<1>1. SourceOrder \in Seq(STRING)
  BY WorkerAssumption DEF WorkerAssumption
<1>2. Len(ProjectionOrder) = 4 /\ DOMAIN ProjectionOrder = 1 .. 4
  BY DEF ProjectionOrder
<1>3. Sources \subseteq Jobs /\ Projections \subseteq Jobs
  BY DEF Jobs
<1>4. ASSUME NEW p \in Nat \ {0}, p <= Len(SourceOrder) PROVE SourceOrder[p] \in Sources
  BY <1>1, <1>4 DEF Sources
<1>5. ASSUME NEW p \in Nat \ {0}, p <= Len(ProjectionOrder)
      PROVE  ProjectionOrder[p] \in Projections
  BY <1>2, <1>5 DEF Projections
<1> QED
  BY <1>3, <1>4, <1>5

LEMMA JobsAreTasks == Jobs \subseteq Tasks
  BY DEF Tasks

-----------------------------------------------------------------------------
(* Single changes.                                                         *)

\* Finishing a task changes nothing but this task.
LEMMA TaskChange ==
  ASSUME NEW r, ShapedRequest(r), NEW i \in Tasks, NEW t, ShapedTask(t)
  PROVE  LET q == [r EXCEPT !.tasks[i] = t]
         IN /\ ShapedRequest(q)
            /\ q.status = r.status /\ q.requestedAt = r.requestedAt
            /\ q.tasks[i] = t
            /\ \A j \in Tasks : j # i => q.tasks[j] = r.tasks[j]
<1> DEFINE q == [r EXCEPT !.tasks[i] = t]
<1>1. q = [status |-> r.status, requestedAt |-> r.requestedAt,
           tasks |-> [j \in Tasks |-> IF j = i THEN t ELSE r.tasks[j]]]
  BY DEF ShapedRequest
<1>2. \A j \in Tasks : q.tasks[j] = IF j = i THEN t ELSE r.tasks[j]
  BY <1>1
<1>3. q.status = r.status /\ q.requestedAt = r.requestedAt
  BY <1>1
<1>4. ShapedRequest(q)
  BY <1>1, <1>2 DEF ShapedRequest, ShapedTask
<1> QED
  BY <1>2, <1>3, <1>4

\* A worker goes to position p of its order of tasks with boundary m.
Stands(w, p, m) ==
  /\ ShapedRefresh(refresh')
  /\ refresh'[w].stage = refresh[w].stage
  /\ refresh'[w].position = p /\ refresh'[w].readyAt = m
  /\ refresh'[w].of = refresh[w].of /\ refresh'[w].rows = refresh[w].rows
  /\ refresh'[w].locked = refresh[w].locked
  /\ \A v \in Workers : v # w => refresh'[v] = refresh[v]

LEMMA Next1Stands ==
  ASSUME Shape, NEW w \in Workers, Next1(w)
  PROVE  Stands(w, refresh[w].position + 1, refresh[w].readyAt)
<1>1. PICK p : refresh' = [refresh EXCEPT ![w].position = p] /\ p = refresh[w].position + 1
  BY Zenon DEF Next1
<1>2. refresh' = [v \in Workers |->
                    IF v = w THEN [stage |-> refresh[w].stage, position |-> p,
                                   readyAt |-> refresh[w].readyAt, of |-> refresh[w].of,
                                   rows |-> refresh[w].rows, locked |-> refresh[w].locked]
                    ELSE refresh[v]]
  BY <1>1 DEF Shape, ShapedRefresh
<1>3. ShapedRefresh(refresh')
  BY <1>2 DEF Shape, ShapedRefresh
<1> QED
  BY <1>1, <1>2, <1>3 DEF Stands

LEMMA AfterStands ==
  ASSUME Shape, NEW w \in Workers, NEW t, After(w, t)
  PROVE  Stands(w, refresh[w].position + 1, Max({refresh[w].readyAt, t.finishedAt}))
<1>1. PICK p, m : /\ refresh' = [refresh EXCEPT ![w].position = p, ![w].readyAt = m]
                  /\ p = refresh[w].position + 1
                  /\ m = Max({refresh[w].readyAt, t.finishedAt})
  <2>1. refresh' = [refresh EXCEPT ![w].position = @ + 1, ![w].readyAt = Max({@, t.finishedAt})]
    BY DEF After
  <2> QED
    BY <2>1, Zenon
<1> DEFINE g == [refresh EXCEPT ![w].position = p]
<1>2. g = [v \in Workers |->
             IF v = w THEN [stage |-> refresh[w].stage, position |-> p,
                            readyAt |-> refresh[w].readyAt, of |-> refresh[w].of,
                            rows |-> refresh[w].rows, locked |-> refresh[w].locked]
             ELSE refresh[v]]
  BY DEF Shape, ShapedRefresh
<1>3. refresh' = [g EXCEPT ![w].readyAt = m]
  BY <1>1, Zenon
<1> HIDE DEF g
<1>4. refresh' = [v \in Workers |->
                    [g[v] EXCEPT !.readyAt = IF v = w THEN m ELSE g[v].readyAt]]
  BY <1>2, <1>3 DEF Shape, ShapedRefresh
<1>5. refresh' = [v \in Workers |->
                    IF v = w THEN [stage |-> refresh[w].stage, position |-> p,
                                   readyAt |-> m, of |-> refresh[w].of,
                                   rows |-> refresh[w].rows, locked |-> refresh[w].locked]
                    ELSE refresh[v]]
  BY <1>2, <1>4 DEF Shape, ShapedRefresh
<1>6. ShapedRefresh(refresh')
  BY <1>5 DEF Shape, ShapedRefresh
<1>7. p = refresh[w].position + 1 /\ m = Max({refresh[w].readyAt, t.finishedAt})
  BY <1>1
<1> HIDE <1>1
<1> QED
  BY <1>5, <1>6, <1>7 DEF Stands

\* A worker stays where it is.
LEMMA StaysStands ==
  ASSUME Shape, NEW w \in Workers, refresh' = refresh
  PROVE  Stands(w, refresh[w].position, refresh[w].readyAt)
  BY DEF Shape, Stands

\* A worker leaves the refresh.
LEMMA EndChange ==
  ASSUME Shape, NEW w \in Workers, EndRefresh(w) \/ Abandon(w)
  PROVE  /\ ShapedRefresh(refresh')
         /\ refresh'[w] = NoRefresh /\ refresh'[w].stage = "none"
         /\ \A v \in Workers : v # w => refresh'[v] = refresh[v]
<1>1. refresh' = [refresh EXCEPT ![w] = NoRefresh]
  BY Zenon DEF EndRefresh, Abandon
<1>2. /\ refresh'[w] = NoRefresh
      /\ \A v \in Workers : v # w => refresh'[v] = refresh[v]
      /\ refresh' = [v \in Workers |-> refresh'[v]]
  BY <1>1 DEF Shape, ShapedRefresh
<1>3. NoRefresh = [stage |-> "none", position |-> 0, readyAt |-> NoTime, of |-> 0,
                   rows |-> NoTasks, locked |-> FALSE]
  BY DEF NoRefresh
<1> QED
  BY <1>2, <1>3 DEF Shape, ShapedRefresh

\* A run is over.
LEMMA RunOver ==
  ASSUME Shape, NEW w \in Workers, run' = [run EXCEPT ![w] = NoRun]
  PROVE  /\ ShapedRun(run')
         /\ run'[w] = NoRun /\ run'[w].manual = FALSE
         /\ \A v \in Workers : v # w => run'[v] = run[v]
  BY DEF Shape, ShapedRun, NoRun

\* Evidence is withdrawn: some runs are overtaken.
LEMMA OvertakenRuns ==
  ASSUME Shape, Revoke
  PROVE  /\ ShapedRun(run')
         /\ \A v \in Workers :
              /\ run'[v].manual = run[v].manual /\ run'[v].job = run[v].job
              /\ run'[v].startedAt = run[v].startedAt /\ run'[v].failures = run[v].failures
              /\ run'[v].locked = run[v].locked
              /\ run'[v] # run[v] => run[v].job = Condition
<1>1. PICK late \in BOOLEAN :
        run' = [w \in Workers |-> IF run[w].job = Condition
                                  THEN [run[w] EXCEPT !.overtaken = @ \/ late] ELSE run[w]]
  BY DEF Revoke
<1> QED
  BY <1>1 DEF Shape, ShapedRun

\* A session is lost: nothing changes but what holds a lock.
LEMMA LostSession ==
  ASSUME Shape, NEW w \in Workers, LoseSession(w)
  PROVE  /\ ShapedRun(run') /\ ShapedRefresh(refresh')
         /\ \A v \in Workers :
              /\ refresh'[v].stage = refresh[v].stage
              /\ refresh'[v].position = refresh[v].position
              /\ run'[v].manual = run[v].manual /\ run'[v].job = run[v].job
              /\ run'[v].startedAt = run[v].startedAt /\ run'[v].failures = run[v].failures
              /\ run'[v].locked \in {run[v].locked, FALSE}
<1>1. CASE run' = run /\ refresh' = refresh
  BY <1>1 DEF Shape
<1> PICK no : no = FALSE
  OBVIOUS
<1> DEFINE x == [run EXCEPT ![w].locked = no]
           y == [refresh EXCEPT ![w].locked = no]
<1>2. x = [v \in Workers |->
             IF v = w THEN [job |-> run[w].job, startedAt |-> run[w].startedAt,
                            manual |-> run[w].manual, failures |-> run[w].failures,
                            overtaken |-> run[w].overtaken, locked |-> no]
             ELSE run[v]]
  BY DEF Shape, ShapedRun
<1>3. y = [v \in Workers |->
             IF v = w THEN [stage |-> refresh[w].stage, position |-> refresh[w].position,
                            readyAt |-> refresh[w].readyAt, of |-> refresh[w].of,
                            rows |-> refresh[w].rows, locked |-> no]
             ELSE refresh[v]]
  BY DEF Shape, ShapedRefresh
<1>4. run' \in {run, x} /\ refresh' \in {refresh, y}
  BY Zenon DEF LoseSession
<1> HIDE DEF x, y
<1>5. /\ ShapedRun(x)
      /\ \A v \in Workers :
           /\ x[v].manual = run[v].manual /\ x[v].job = run[v].job
           /\ x[v].startedAt = run[v].startedAt /\ x[v].failures = run[v].failures
           /\ x[v].locked \in {run[v].locked, FALSE}
  BY <1>2 DEF Shape, ShapedRun
<1>6. /\ ShapedRefresh(y)
      /\ \A v \in Workers : y[v].stage = refresh[v].stage /\ y[v].position = refresh[v].position
  BY <1>3 DEF Shape, ShapedRefresh
<1> QED
  BY <1>4, <1>5, <1>6 DEF Shape

-----------------------------------------------------------------------------
(* One attempt at a task of the request.                                   *)

\* The task of job j changes, no other; the worker may start to run j for it.
Attempt(w, j) ==
  /\ ShapedRequest(request')
  /\ request'.status = request.status
  /\ \A i \in Tasks : i # j => request'.tasks[i] = request.tasks[i]
  /\ ShapedRun(run')
  /\ \A v \in Workers : v # w => run'[v] = run[v]
  /\ \/ run'[w] = run[w]
     \/ /\ run'[w].manual = TRUE /\ run'[w].job = j
        /\ run'[w].locked = TRUE /\ run'[w].startedAt = clock
        /\ request'.tasks[j].state = "running"

\* The task is written when the worker serves the last request.
LEMMA FinishTaskChange ==
  ASSUME Shape, NEW w \in Workers, NEW j \in Tasks, NEW t, ShapedTask(t),
         FinishTask(w, j, t)
  PROVE  /\ ShapedRequest(request')
         /\ request'.status = request.status /\ request'.requestedAt = request.requestedAt
         /\ Current(w) => request'.tasks[j] = t
         /\ \A i \in Tasks : i # j => request'.tasks[i] = request.tasks[i]
         /\ run' = run => Attempt(w, j)
<1>1. request' = IF Current(w) THEN [request EXCEPT !.tasks[j] = t] ELSE request
  BY DEF FinishTask
<1>2. /\ ShapedRequest(request') /\ request'.status = request.status
      /\ request'.requestedAt = request.requestedAt
      /\ Current(w) => request'.tasks[j] = t
      /\ \A i \in Tasks : i # j => request'.tasks[i] = request.tasks[i]
  <2>1. CASE Current(w)
    BY <1>1, <2>1, TaskChange DEF Shape
  <2>2. CASE ~Current(w)
    BY <1>1, <2>2 DEF Shape
  <2> QED
    BY <2>1, <2>2
<1> QED
  BY <1>2 DEF Attempt, Shape

\* A task that is credited with a run.
CreditedTask(u, s, f, b) == [u EXCEPT !.state = s, !.finishedAt = f, !.startedAt = b]

\* What updates of the fields of a task make of it.
LEMMA TaskValues ==
  ASSUME NEW u, ShapedTask(u), NEW s, NEW f, NEW b
  PROVE  /\ [u EXCEPT !.notBefore = b] =
              [state |-> u.state, notBefore |-> b, finishedAt |-> u.finishedAt,
               startedAt |-> u.startedAt]
         /\ [u EXCEPT !.state = s] =
              [state |-> s, notBefore |-> u.notBefore, finishedAt |-> u.finishedAt,
               startedAt |-> u.startedAt]
         /\ [u EXCEPT !.state = s, !.finishedAt = f] =
              [state |-> s, notBefore |-> u.notBefore, finishedAt |-> f,
               startedAt |-> u.startedAt]
<1>1. [u EXCEPT !.notBefore = b] =
        [state |-> u.state, notBefore |-> b, finishedAt |-> u.finishedAt,
         startedAt |-> u.startedAt]
  BY DEF ShapedTask
<1>2. [u EXCEPT !.state = s] =
        [state |-> s, notBefore |-> u.notBefore, finishedAt |-> u.finishedAt,
         startedAt |-> u.startedAt]
  BY DEF ShapedTask
<1> DEFINE v == [u EXCEPT !.state = s]
<1>3. [u EXCEPT !.state = s, !.finishedAt = f] =
        [state |-> s, notBefore |-> u.notBefore, finishedAt |-> f,
         startedAt |-> u.startedAt]
  <2>1. [u EXCEPT !.state = s, !.finishedAt = f] = [v EXCEPT !.finishedAt = f]
    BY Zenon
  <2>2. v = [state |-> s, notBefore |-> u.notBefore, finishedAt |-> u.finishedAt,
             startedAt |-> u.startedAt]
    BY <1>2
  <2> HIDE DEF v
  <2> QED
    BY <2>1, <2>2
<1> QED
  BY <1>1, <1>2, <1>3

LEMMA CreditedValue ==
  ASSUME NEW u, ShapedTask(u), NEW s, NEW f, NEW b
  PROVE  CreditedTask(u, s, f, b) =
           [state |-> s, notBefore |-> u.notBefore, finishedAt |-> f, startedAt |-> b]
<1> DEFINE w == [u EXCEPT !.state = s, !.finishedAt = f]
<1>1. w = [state |-> s, notBefore |-> u.notBefore, finishedAt |-> f,
           startedAt |-> u.startedAt]
  BY TaskValues
<1>2. CreditedTask(u, s, f, b) = [w EXCEPT !.startedAt = b]
  BY Zenon DEF CreditedTask
<1> HIDE DEF w
<1> QED
  BY <1>1, <1>2

\* Updating the fields of a task leaves it a task.
LEMMA TaskFields ==
  ASSUME NEW u, ShapedTask(u), NEW s, NEW f, NEW b
  PROVE  /\ ShapedTask([u EXCEPT !.notBefore = b])
         /\ ShapedTask([u EXCEPT !.state = s])
         /\ [u EXCEPT !.state = s].state = s
         /\ ShapedTask([u EXCEPT !.state = s, !.finishedAt = f])
         /\ ShapedTask([u EXCEPT !.state = s, !.finishedAt = f, !.startedAt = b])
<1>1. ShapedTask([u EXCEPT !.notBefore = b])
  BY TaskValues DEF ShapedTask
<1>2. ShapedTask([u EXCEPT !.state = s]) /\ [u EXCEPT !.state = s].state = s
  BY TaskValues DEF ShapedTask
<1>3. ShapedTask([u EXCEPT !.state = s, !.finishedAt = f])
  <2>1. [u EXCEPT !.state = s, !.finishedAt = f] =
          [state |-> s, notBefore |-> u.notBefore, finishedAt |-> f,
           startedAt |-> u.startedAt]
    BY TaskValues
  <2> QED
    BY <2>1 DEF ShapedTask
<1>4. ShapedTask([u EXCEPT !.state = s, !.finishedAt = f, !.startedAt = b])
  <2>1. CreditedTask(u, s, f, b) =
          [state |-> s, notBefore |-> u.notBefore, finishedAt |-> f, startedAt |-> b]
    BY CreditedValue
  <2>2. ShapedTask(CreditedTask(u, s, f, b))
    BY <2>1 DEF ShapedTask
  <2> QED
    BY <2>2, Zenon DEF CreditedTask
<1> QED
  BY <1>1, <1>2, <1>3, <1>4

LEMMA RaisedShape ==
  ASSUME Shape, NEW j \in Tasks, NEW boundary
  PROVE  ShapedTask(request.tasks[j]) /\ ShapedTask(Raised(j, boundary))
<1>1. ShapedTask(request.tasks[j])
  BY DEF Shape, ShapedRequest
<1> QED
  BY <1>1, TaskFields DEF Raised

LEMMA AttemptOutcomes ==
  ASSUME Shape, NEW w \in Workers, NEW j \in Jobs, NEW boundary,
         \/ Unavailable(w, j)
         \/ Reuse(w, j, boundary)
         \/ Refuse(w, j, boundary)
         \/ RunNow(w, j, boundary)
         \/ Busy(w, j, boundary)
  PROVE  Attempt(w, j)
<1> DEFINE u == request.tasks[j]
           v == Raised(j, boundary)
           r == Synchronized(w, j)
<1>j. j \in Tasks
  BY JobsAreTasks
<1>s. ShapedTask(u) /\ ShapedTask(v)
  BY <1>j, RaisedShape
<1> HIDE DEF r
<1>1. CASE Unavailable(w, j)
  <2> DEFINE t == [u EXCEPT !.state = "failed", !.finishedAt = clock]
  <2>1. FinishTask(w, j, t) /\ run' = run
    BY <1>1 DEF Unavailable
  <2>2. ShapedTask(t)
    <3> HIDE DEF u
    <3> QED BY <1>s, TaskFields
  <2> HIDE DEF t
  <2> QED BY <2>1, <2>2, <1>j, FinishTaskChange
<1>2. CASE Reuse(w, j, boundary)
  <2> DEFINE t == [v EXCEPT !.state = r.state, !.finishedAt = r.finishedAt,
                            !.startedAt = r.startedAt]
  <2>1. FinishTask(w, j, t) /\ run' = run
    BY <1>2 DEF Reuse, r
  <2>2. ShapedTask(t)
    <3> HIDE DEF v
    <3> QED BY <1>s, TaskFields
  <2> HIDE DEF t
  <2> QED BY <2>1, <2>2, <1>j, FinishTaskChange
<1>3. CASE Refuse(w, j, boundary)
  <2> DEFINE t == [v EXCEPT !.state = "failed", !.finishedAt = clock]
  <2>1. FinishTask(w, j, t) /\ run' = run
    BY <1>3 DEF Refuse
  <2>2. ShapedTask(t)
    <3> HIDE DEF v
    <3> QED BY <1>s, TaskFields
  <2> HIDE DEF t
  <2> QED BY <2>1, <2>2, <1>j, FinishTaskChange
<1>4. CASE Busy(w, j, boundary)
  <2>1. FinishTask(w, j, v) /\ run' = run
    BY <1>4 DEF Busy
  <2> HIDE DEF v
  <2> QED BY <2>1, <1>s, <1>j, FinishTaskChange
<1>5. CASE RunNow(w, j, boundary)
  <2> DEFINE t == [v EXCEPT !.state = "running"]
             n == [job |-> j, startedAt |-> clock, manual |-> TRUE,
                   failures |-> r.failures, overtaken |-> FALSE,
                   locked |-> TRUE]
  <2>1. FinishTask(w, j, t) /\ run' = [run EXCEPT ![w] = n] /\ Current(w)
    BY <1>5 DEF RunNow, Begin, Free, r
  <2>2. ShapedTask(t) /\ t.state = "running"
    <3> HIDE DEF v
    <3> QED BY <1>s, TaskFields
  <2> HIDE DEF t
  <2>4. /\ ShapedRequest(request') /\ request'.status = request.status
        /\ request'.tasks[j] = t
        /\ \A i \in Tasks : i # j => request'.tasks[i] = request.tasks[i]
    BY <1>j, <2>1, <2>2, FinishTaskChange
  <2>5. /\ ShapedRun(run') /\ run'[w] = n
        /\ \A x \in Workers : x # w => run'[x] = run[x]
    BY <2>1 DEF Shape, ShapedRun
  <2> QED
    BY <2>2, <2>4, <2>5 DEF Attempt
<1> QED
  BY <1>1, <1>2, <1>3, <1>4, <1>5

-----------------------------------------------------------------------------
(* The rows.                                                               *)

LEMMA RowFields ==
  ASSUME NEW r, NEW now, GoodRow(r, now), NEW s, NEW i, NEW n
  PROVE  /\ GoodRow([r EXCEPT !.state = s, !.interval = i, !.nextRun = n], now)
         /\ GoodRow([r EXCEPT !.interval = i, !.nextRun = n, !.state = s], now)
         /\ LET q == [state |-> s, interval |-> i, startedAt |-> r.startedAt,
                      finishedAt |-> r.finishedAt, nextRun |-> n, failures |-> r.failures]
            IN  /\ [r EXCEPT !.state = s, !.interval = i, !.nextRun = n] = q
                /\ [r EXCEPT !.interval = i, !.nextRun = n, !.state = s] = q
<1> DEFINE u == [r EXCEPT !.state = s]
           v == [u EXCEPT !.interval = i]
           x == [r EXCEPT !.interval = i]
           y == [x EXCEPT !.nextRun = n]
           q == [state |-> s, interval |-> i, startedAt |-> r.startedAt,
                 finishedAt |-> r.finishedAt, nextRun |-> n, failures |-> r.failures]
<1>1. u = [state |-> s, interval |-> r.interval, startedAt |-> r.startedAt,
           finishedAt |-> r.finishedAt, nextRun |-> r.nextRun, failures |-> r.failures]
  BY DEF GoodRow
<1>2. v = [state |-> s, interval |-> i, startedAt |-> r.startedAt,
           finishedAt |-> r.finishedAt, nextRun |-> r.nextRun, failures |-> r.failures]
  <2> HIDE DEF u
  <2> QED BY <1>1
<1>3. [r EXCEPT !.state = s, !.interval = i, !.nextRun = n] = q
  <2>1. [r EXCEPT !.state = s, !.interval = i, !.nextRun = n] = [v EXCEPT !.nextRun = n]
    BY Zenon
  <2> HIDE DEF v
  <2> QED BY <1>2, <2>1
<1>4. x = [state |-> r.state, interval |-> i, startedAt |-> r.startedAt,
           finishedAt |-> r.finishedAt, nextRun |-> r.nextRun, failures |-> r.failures]
  BY DEF GoodRow
<1>5. y = [state |-> r.state, interval |-> i, startedAt |-> r.startedAt,
           finishedAt |-> r.finishedAt, nextRun |-> n, failures |-> r.failures]
  <2> HIDE DEF x
  <2> QED BY <1>4
<1>6. [r EXCEPT !.interval = i, !.nextRun = n, !.state = s] = q
  <2>1. [r EXCEPT !.interval = i, !.nextRun = n, !.state = s] = [y EXCEPT !.state = s]
    BY Zenon
  <2> HIDE DEF y
  <2> QED BY <1>5, <2>1
<1>7. GoodRow(q, now)
  BY DEF GoodRow
<1> QED
  BY <1>3, <1>6, <1>7

\* Synchronizing a job changes none of its times but the next.
LEMMA SynchronizedRow ==
  ASSUME BInv, NEW w \in Workers, NEW j \in Jobs
  PROVE  GoodRow(Synchronized(w, j), clock)
<1> DEFINE old == row[j]
<1>1. GoodRow(old, clock)
  BY DEF BInv, GoodRows
<1>2. \/ \E s, i, n : Synchronized(w, j) = [old EXCEPT !.state = s, !.interval = i, !.nextRun = n]
      \/ \E s, i, n : Synchronized(w, j) = [old EXCEPT !.interval = i, !.nextRun = n, !.state = s]
  BY Zenon DEF Synchronized
<1> HIDE DEF old
<1>3. CASE \E s, i, n : Synchronized(w, j) = [old EXCEPT !.state = s, !.interval = i, !.nextRun = n]
  <2>1. PICK s, i, n : Synchronized(w, j) = [old EXCEPT !.state = s, !.interval = i, !.nextRun = n]
    BY <1>3
  <2>2. GoodRow([old EXCEPT !.state = s, !.interval = i, !.nextRun = n], clock)
    BY <1>1, RowFields
  <2> QED
    BY <2>1, <2>2, Zenon
<1>4. CASE \E s, i, n : Synchronized(w, j) = [old EXCEPT !.interval = i, !.nextRun = n, !.state = s]
  <2>1. PICK s, i, n : Synchronized(w, j) = [old EXCEPT !.interval = i, !.nextRun = n, !.state = s]
    BY <1>4
  <2>2. GoodRow([old EXCEPT !.interval = i, !.nextRun = n, !.state = s], clock)
    BY <1>1, RowFields
  <2> QED
    BY <2>1, <2>2, Zenon
<1> QED
  BY <1>2, <1>3, <1>4

\* One row is replaced.
LEMMA RowsChange ==
  ASSUME BInv, NEW j \in Jobs, NEW r, GoodRow(r, clock), row' = [row EXCEPT ![j] = r]
  PROVE  GoodRows(row', clock)
<1>1. row' = [i \in Jobs |-> IF i = j THEN r ELSE row[i]]
  BY DEF BInv, GoodRows
<1> QED
  BY <1>1 DEF BInv, GoodRows

\* A run begins now.
LEMMA BegunRow ==
  ASSUME NEW r, NEW now \in Nat, GoodRow(r, now), NEW s
  PROVE  /\ GoodRow([r EXCEPT !.state = s, !.startedAt = now], now)
         /\ [r EXCEPT !.state = s, !.startedAt = now] =
              [state |-> s, interval |-> r.interval, startedAt |-> now,
               finishedAt |-> r.finishedAt, nextRun |-> r.nextRun, failures |-> r.failures]
<1> DEFINE u == [r EXCEPT !.state = s]
<1>1. u = [state |-> s, interval |-> r.interval, startedAt |-> r.startedAt,
           finishedAt |-> r.finishedAt, nextRun |-> r.nextRun, failures |-> r.failures]
  BY DEF GoodRow
<1>2. [r EXCEPT !.state = s, !.startedAt = now] =
        [state |-> s, interval |-> r.interval, startedAt |-> now,
         finishedAt |-> r.finishedAt, nextRun |-> r.nextRun, failures |-> r.failures]
  <2>1. [r EXCEPT !.state = s, !.startedAt = now] = [u EXCEPT !.startedAt = now]
    BY Zenon
  <2> HIDE DEF u
  <2> QED BY <1>1, <2>1
<1> QED
  BY <1>2 DEF GoodRow, NoTime

LEMMA BeginChange ==
  ASSUME BInv, NEW w \in Workers, NEW j, NEW r, NEW manual,
         j \in Jobs => GoodRow(r, clock), Begin(w, j, r, manual)
  PROVE  /\ GoodRows(row', clock)
         /\ run'[w].startedAt = clock /\ run'[w].job = j /\ run'[w].manual = manual
         /\ run'[w].failures = r.failures /\ run'[w].locked = TRUE
         /\ ShapedRun(run')
         /\ \A v \in Workers : v # w => run'[v] = run[v]
<1> DEFINE n == [job |-> j, startedAt |-> clock, manual |-> manual,
                 failures |-> r.failures, overtaken |-> FALSE, locked |-> TRUE]
           q == [r EXCEPT !.state = "running", !.startedAt = clock]
<1>1. row' = [row EXCEPT ![j] = q] /\ run' = [run EXCEPT ![w] = n]
  BY DEF Begin
<1>2. run'[w] = n /\ ShapedRun(run') /\ \A v \in Workers : v # w => run'[v] = run[v]
  BY <1>1 DEF BInv, Shape, ShapedRun
<1>3. CASE j \in Jobs
  <2>1. GoodRow(q, clock)
    BY <1>3, BegunRow DEF BInv
  <2> HIDE DEF q
  <2>2. GoodRows(row', clock)
    BY <1>1, <1>3, <2>1, RowsChange
  <2> QED
    BY <1>2, <2>2
<1>4. CASE j \notin Jobs
  <2>1. row' = row
    BY <1>1, <1>4 DEF BInv, GoodRows
  <2> QED
    BY <1>2, <2>1 DEF BInv
<1> QED
  BY <1>3, <1>4

\* The row at the end of a run.
RowEnds(j, o, n, x) ==
  /\ \A i \in Jobs : i # j => row'[i] = row[i]
  /\ j \in Jobs => row'[j] = [state |-> o, interval |-> row[j].interval,
                             startedAt |-> row[j].startedAt, finishedAt |-> clock,
                             nextRun |-> n, failures |-> x]

LEMMA EndedRow ==
  ASSUME BInv, NEW j, NEW o, NEW n, NEW x,
         row' = [row EXCEPT ![j].state = o, ![j].finishedAt = clock,
                            ![j].nextRun = n, ![j].failures = x]
  PROVE  /\ GoodRows(row', clock)
         /\ RowEnds(j, o, n, x)
<1> DEFINE r == row[j]
           u1 == [r EXCEPT !.state = o]
           u2 == [u1 EXCEPT !.finishedAt = clock]
           u3 == [u2 EXCEPT !.nextRun = n]
           u4 == [u3 EXCEPT !.failures = x]
           R1 == [row EXCEPT ![j].state = o]
           R2 == [R1 EXCEPT ![j].finishedAt = clock]
           R3 == [R2 EXCEPT ![j].nextRun = n]
<1>1. row = [i \in Jobs |-> row[i]] /\ (\A i \in Jobs : GoodRow(row[i], clock)) /\ clock \in Nat
  BY DEF BInv, GoodRows
<1>2. row' = [R3 EXCEPT ![j].failures = x]
  BY Zenon
<1>3. CASE j \notin Jobs
  <2>1. R1 = row
    BY <1>1, <1>3
  <2>2. R2 = row
    <3> HIDE DEF R1
    <3> QED BY <1>1, <1>3, <2>1
  <2>3. R3 = row
    <3> HIDE DEF R2
    <3> QED BY <1>1, <1>3, <2>2
  <2>4. row' = row
    <3> HIDE DEF R3
    <3> QED BY <1>1, <1>2, <1>3, <2>3
  <2>5. GoodRows(row', clock)
    BY <2>4 DEF BInv
  <2> QED
    BY <1>3, <2>4, <2>5 DEF RowEnds
<1>4. CASE j \in Jobs
  <2>1. R1 = [i \in Jobs |-> IF i = j THEN u1 ELSE row[i]]
    BY <1>1, <1>4
  <2>2. R2 = [i \in Jobs |-> IF i = j THEN u2 ELSE row[i]]
    <3> HIDE DEF R1, u1
    <3> QED BY <1>4, <2>1
  <2>3. R3 = [i \in Jobs |-> IF i = j THEN u3 ELSE row[i]]
    <3> HIDE DEF R2, u2
    <3> QED BY <1>4, <2>2
  <2>4. row' = [i \in Jobs |-> IF i = j THEN u4 ELSE row[i]]
    <3> HIDE DEF R3, u3
    <3> QED BY <1>2, <1>4, <2>3
  <2>5. GoodRow(r, clock)
    BY <1>1, <1>4
  <2> HIDE DEF r
  <2>6. u1 = [state |-> o, interval |-> r.interval, startedAt |-> r.startedAt,
              finishedAt |-> r.finishedAt, nextRun |-> r.nextRun, failures |-> r.failures]
    BY <2>5 DEF GoodRow
  <2>7. u2 = [state |-> o, interval |-> r.interval, startedAt |-> r.startedAt,
              finishedAt |-> clock, nextRun |-> r.nextRun, failures |-> r.failures]
    <3> HIDE DEF u1
    <3> QED BY <2>6
  <2>8. u3 = [state |-> o, interval |-> r.interval, startedAt |-> r.startedAt,
              finishedAt |-> clock, nextRun |-> n, failures |-> r.failures]
    <3> HIDE DEF u2
    <3> QED BY <2>7
  <2>9. u4 = [state |-> o, interval |-> r.interval, startedAt |-> r.startedAt,
              finishedAt |-> clock, nextRun |-> n, failures |-> x]
    <3> HIDE DEF u3
    <3> QED BY <2>8
  <2>10. GoodRow(u4, clock)
    <3> HIDE DEF u4
    <3>1. {r.startedAt, clock} \subseteq NoTime .. clock
      BY <1>1, <2>5 DEF GoodRow, NoTime
    <3> QED
      BY <2>9, <3>1 DEF GoodRow
  <2> HIDE DEF u4
  <2>11. GoodRows(row', clock)
    BY <1>1, <2>4, <2>10 DEF GoodRows
  <2>12. row'[j] = u4 /\ \A i \in Jobs : i # j => row'[i] = row[i]
    BY <1>4, <2>4
  <2> QED
    BY <2>9, <2>11, <2>12 DEF r, RowEnds
<1> QED
  BY <1>3, <1>4

\* What an attempt at task j does to the rows and the runs.
Attempted(w, j) ==
  \/ row' = row /\ run' = run
  \/ row' = [row EXCEPT ![j] = Synchronized(w, j)] /\ run' = run
  \/ Begin(w, j, Synchronized(w, j), TRUE) /\ ~BackingOff(Synchronized(w, j))

\* Whatever comes of an attempt.
LEMMA AttemptEffects ==
  ASSUME NEW w \in Workers, NEW j, NEW b,
         \/ Unavailable(w, j) \/ Reuse(w, j, b) \/ Refuse(w, j, b)
         \/ RunNow(w, j, b) \/ Busy(w, j, b)
  PROVE  Attempted(w, j)
  BY Zenon DEF Attempted, Unavailable, Reuse, Refuse, RunNow, Busy

LEMMA AttemptRows ==
  ASSUME BInv, NEW w \in Workers, NEW j \in Jobs, Attempted(w, j)
  PROVE  GoodRows(row', clock)
<1>1. GoodRow(Synchronized(w, j), clock)
  BY SynchronizedRow
<1>2. CASE row' = row
  BY <1>2 DEF BInv
<1>3. CASE row' = [row EXCEPT ![j] = Synchronized(w, j)]
  BY <1>1, <1>3, RowsChange
<1>4. CASE Begin(w, j, Synchronized(w, j), TRUE)
  BY <1>1, <1>4, BeginChange
<1> QED
  BY <1>2, <1>3, <1>4 DEF Attempted

-----------------------------------------------------------------------------
(* What holds whatever is lost.                                            *)

\* A worker in the refresh that runs nothing attempts a task or leaves the
\* request alone, and goes on or leaves.
LEMMA TaskBasics ==
  ASSUME BInv, NEW w \in Workers, Idle(w), NEW j \in Jobs,
         clock' = clock, requests' = requests,
         \/ UNCHANGED <<request, row, run>>
         \/ Attempt(w, j) /\ Attempted(w, j),
         ShapedRefresh(refresh'),
         \A v \in Workers : v # w => refresh'[v] = refresh[v],
         refresh'[w].stage # "none" => refresh'[w].position \in Nat \ {0},
         refresh'[w].stage # "none" \/ run' = run
  PROVE  BInv'
<1>1. Shape' /\ clock \in Nat
  BY DEF BInv, Shape, Attempt
<1>2. Positions'
  BY DEF BInv, Positions
<1>3. GoodRows(row', clock)
  BY AttemptRows DEF BInv
<1>4. RunKnown(w)'
  <2>1. run[w].manual = FALSE /\ RunKnown(w)
    BY DEF BInv, Idle, NoRun
  <2>2. CASE run'[w] = run[w]
    BY <2>1, <2>2 DEF RunKnown
  <2>3. CASE /\ run'[w].manual = TRUE /\ run'[w].locked = TRUE /\ run'[w].startedAt = clock
             /\ refresh'[w].stage # "none" /\ run'[w].job \in Jobs
    <3>1. clock' \in NoTime .. clock'
      BY <1>1 DEF NoTime
    <3>2. TRUE \in BOOLEAN
      OBVIOUS
    <3> QED
      BY <2>3, <3>1, <3>2, Zenon DEF RunKnown
  <2> QED
    BY <2>2, <2>3 DEF Attempt
<1>5. ASSUME NEW v \in Workers, v # w PROVE RunKnown(v)'
  <2>1. run'[v] = run[v] /\ RunKnown(v)
    BY <1>5 DEF Attempt, BInv
  <2> QED
    BY <1>5, <2>1 DEF RunKnown
<1> QED
  BY <1>1, <1>2, <1>3, <1>4, <1>5 DEF BInv

LEMMA SourceTaskBasics == ASSUME BInv, NEW w \in Workers, SourceTask(w) PROVE BInv'
<1> DEFINE j == SourceOrder[refresh[w].position]
           b == refresh[w].rows[j].notBefore
<1>1. /\ Idle(w) /\ refresh[w].stage = "sources" /\ clock' = clock /\ requests' = requests
      /\ refresh[w].position <= Len(SourceOrder) /\ Next1(w)
      /\ \/ UNCHANGED <<request, row, run>>
         \/ \/ Unavailable(w, j) \/ Reuse(w, j, b) \/ Refuse(w, j, b)
            \/ RunNow(w, j, b) \/ Busy(w, j, b)
  BY Zenon DEF SourceTask
<1>2. Shape /\ refresh[w].position \in Nat \ {0} /\ j \in Jobs
  BY <1>1, OrdersAreJobs DEF BInv, Positions
<1>3. Stands(w, refresh[w].position + 1, refresh[w].readyAt)
  BY <1>1, <1>2, Next1Stands
<1> HIDE DEF j, b
<1>4. \/ UNCHANGED <<request, row, run>>
      \/ Attempt(w, j) /\ Attempted(w, j)
  BY <1>1, <1>2, AttemptOutcomes, AttemptEffects, Zenon
<1>5. refresh'[w].stage # "none" /\ refresh'[w].position \in Nat \ {0}
  BY <1>1, <1>2, <1>3 DEF Stands
<1> QED
  BY <1>1, <1>2, <1>3, <1>4, <1>5, TaskBasics DEF Stands

LEMMA ProjectionTaskBasics ==
  ASSUME BInv, NEW w \in Workers, ProjectionTask(w) PROVE BInv'
<1> DEFINE j == ProjectionOrder[refresh[w].position]
           b == refresh[w].readyAt
<1>1. /\ Idle(w) /\ refresh[w].stage = "projections" /\ clock' = clock /\ requests' = requests
      /\ refresh[w].position <= Len(ProjectionOrder)
      /\ \/ UNCHANGED <<request, row, run>>
         \/ \/ Unavailable(w, j) \/ Reuse(w, j, b) \/ Refuse(w, j, b)
            \/ RunNow(w, j, b) \/ Busy(w, j, b)
      /\ \/ \E t : After(w, t)
         \/ Next1(w)
         \/ refresh' = refresh
         \/ EndRefresh(w) /\ Busy(w, j, b)
  BY Zenon DEF ProjectionTask
<1>2. Shape /\ refresh[w].position \in Nat \ {0} /\ j \in Jobs
  BY <1>1, OrdersAreJobs DEF BInv, Positions
<1> HIDE DEF j, b
<1>3. \/ UNCHANGED <<request, row, run>>
      \/ Attempt(w, j) /\ Attempted(w, j)
  BY <1>1, <1>2, AttemptOutcomes, AttemptEffects, Zenon
<1>4. CASE EndRefresh(w) /\ Busy(w, j, b)
  <2>1. run' = run
    BY <1>4 DEF Busy
  <2>2. /\ ShapedRefresh(refresh') /\ refresh'[w].stage = "none"
        /\ \A v \in Workers : v # w => refresh'[v] = refresh[v]
    BY <1>2, <1>4, EndChange
  <2> QED
    BY <1>1, <1>2, <1>3, <2>1, <2>2, TaskBasics
<1>5. CASE (\E t : After(w, t)) \/ Next1(w) \/ refresh' = refresh
  <2>p. \E p \in Nat \ {0} : \E m : Stands(w, p, m)
    <3>1. refresh[w].position + 1 \in Nat \ {0}
      BY <1>2
    <3>2. CASE \E t : After(w, t)
      <4>1. PICK t : After(w, t)
        BY <3>2
      <4> QED
        BY <1>2, <3>1, <4>1, AfterStands, Zenon
    <3>3. CASE Next1(w)
      BY <1>2, <3>1, <3>3, Next1Stands, Zenon
    <3>4. CASE refresh' = refresh
      BY <1>2, <3>4, StaysStands, Zenon
    <3> QED
      BY <1>5, <3>2, <3>3, <3>4
  <2>1. PICK p \in Nat \ {0} : \E m : Stands(w, p, m)
    BY <2>p
  <2>m. PICK m : Stands(w, p, m)
    BY <2>1
  <2>2. refresh'[w].stage # "none" /\ refresh'[w].position \in Nat \ {0}
    BY <1>1, <2>m DEF Stands
  <2> QED
    BY <1>1, <1>2, <1>3, <2>m, <2>2, TaskBasics DEF Stands
<1> QED
  BY <1>1, <1>4, <1>5

\* The request stays in shape and nobody's run is begun: runs may end, lose their
\* lock or be overtaken, and workers go on in the refresh or leave it.
LEMMA OtherBasics ==
  ASSUME BInv, requests' \in Nat, ShapedRequest(request'),
         ShapedRefresh(refresh'), ShapedRun(run'), clock' = clock, GoodRows(row', clock),
         \A v \in Workers :
           /\ refresh'[v].stage # "none" => refresh'[v].position \in Nat \ {0}
           /\ \/ run'[v] = NoRun
              \/ /\ run'[v].manual = run[v].manual /\ run'[v].startedAt = run[v].startedAt
                 /\ run'[v].job = run[v].job
                 /\ run'[v].locked \in {run[v].locked, FALSE}
                 /\ refresh'[v].stage # "none" \/ run[v].manual = FALSE
  PROVE  BInv'
<1>1. Shape' /\ Positions' /\ clock \in Nat
  BY DEF BInv, Shape, Positions
<1>2. ASSUME NEW v \in Workers PROVE RunKnown(v)'
  <2>1. RunKnown(v)
    BY DEF BInv
  <2>2. CASE run'[v] = NoRun
    BY <1>1, <2>2 DEF RunKnown, NoRun, NoTime
  <2>3. CASE /\ run'[v].manual = run[v].manual /\ run'[v].startedAt = run[v].startedAt
             /\ run'[v].job = run[v].job
             /\ run'[v].locked \in {run[v].locked, FALSE}
             /\ refresh'[v].stage # "none" \/ run[v].manual = FALSE
    BY <2>1, <2>3 DEF RunKnown
  <2> QED
    BY <2>2, <2>3
<1> QED
  BY <1>1, <1>2 DEF BInv

\* Nobody but worker w, which runs nothing, changes its place in the refresh.
LEMMA ServerBasics ==
  ASSUME BInv, NEW w \in Workers, Idle(w), requests' = requests, run' = run,
         ShapedRequest(request'), clock' = clock, row' = row, ShapedRefresh(refresh'),
         \A v \in Workers : v # w => refresh'[v] = refresh[v],
         refresh'[w].stage # "none" => refresh'[w].position \in Nat \ {0}
  PROVE  BInv'
<1>1. /\ requests' \in Nat /\ ShapedRun(run') /\ GoodRows(row', clock)
      /\ run[w].manual = FALSE
  BY DEF BInv, Shape, Idle, NoRun
<1>2. ASSUME NEW v \in Workers
      PROVE  /\ refresh'[v].stage # "none" => refresh'[v].position \in Nat \ {0}
             /\ run'[v].manual = run[v].manual /\ run'[v].startedAt = run[v].startedAt
             /\ run'[v].job = run[v].job
             /\ run'[v].locked \in {run[v].locked, FALSE}
             /\ refresh'[v].stage # "none" \/ run[v].manual = FALSE
  BY <1>1 DEF BInv, Positions, RunKnown
<1> QED
  BY <1>1, <1>2, OtherBasics

LEMMA RevokeBasics == ASSUME BInv, Revoke PROVE BInv'
<1>1. UNCHANGED <<clock, row, request, requests, refresh>> /\ Shape
  BY DEF Revoke, BInv
<1>2. /\ ShapedRun(run')
      /\ \A v \in Workers :
           /\ run'[v].manual = run[v].manual /\ run'[v].job = run[v].job
           /\ run'[v].startedAt = run[v].startedAt /\ run'[v].locked = run[v].locked
  BY <1>1, OvertakenRuns
<1>3. ASSUME NEW v \in Workers
      PROVE  /\ refresh'[v].stage # "none" => refresh'[v].position \in Nat \ {0}
             /\ refresh'[v].stage # "none" \/ run[v].manual = FALSE
  BY <1>1 DEF BInv, Positions, RunKnown
<1>4. /\ requests' \in Nat /\ ShapedRequest(request') /\ ShapedRefresh(refresh')
      /\ GoodRows(row', clock)
  BY <1>1 DEF BInv, Shape
<1> QED
  BY <1>1, <1>2, <1>3, <1>4, OtherBasics

LEMMA LoseSessionBasics == ASSUME BInv, NEW w \in Workers, LoseSession(w) PROVE BInv'
<1>1. UNCHANGED <<clock, row, request, requests>> /\ Shape
  BY DEF LoseSession, BInv
<1>2. /\ ShapedRun(run') /\ ShapedRefresh(refresh')
      /\ \A v \in Workers :
           /\ refresh'[v].stage = refresh[v].stage
           /\ refresh'[v].position = refresh[v].position
           /\ run'[v].manual = run[v].manual /\ run'[v].job = run[v].job
           /\ run'[v].startedAt = run[v].startedAt
           /\ run'[v].locked \in {run[v].locked, FALSE}
  BY <1>1, LostSession
<1>3. ASSUME NEW v \in Workers
      PROVE  /\ refresh'[v].stage # "none" => refresh'[v].position \in Nat \ {0}
             /\ refresh'[v].stage # "none" \/ run[v].manual = FALSE
  <2>1. refresh'[v].stage = refresh[v].stage /\ refresh'[v].position = refresh[v].position
    BY <1>2
  <2> QED
    BY <2>1 DEF BInv, Positions, RunKnown
<1>4. requests' \in Nat /\ ShapedRequest(request') /\ GoodRows(row', clock)
  BY <1>1 DEF BInv, Shape
<1> QED
  BY <1>1, <1>2, <1>3, <1>4, OtherBasics

\* A worker leaves run and refresh, or comes to the end of its run.
LEMMA RunOverBasics ==
  ASSUME BInv, NEW w \in Workers, run' = [run EXCEPT ![w] = NoRun],
         requests' = requests, clock' = clock, ShapedRequest(request'),
         GoodRows(row', clock), ShapedRefresh(refresh'),
         refresh'[w].stage # "none" => refresh'[w].position \in Nat \ {0},
         \A v \in Workers : v # w => refresh'[v] = refresh[v]
  PROVE  BInv'
<1>1. /\ ShapedRun(run') /\ run'[w] = NoRun
      /\ \A v \in Workers : v # w => run'[v] = run[v]
  BY RunOver DEF BInv
<1>2. ASSUME NEW v \in Workers, v # w
      PROVE  /\ refresh'[v].stage # "none" => refresh'[v].position \in Nat \ {0}
             /\ run'[v].manual = run[v].manual /\ run'[v].startedAt = run[v].startedAt
             /\ run'[v].job = run[v].job
             /\ run'[v].locked \in {run[v].locked, FALSE}
             /\ refresh'[v].stage # "none" \/ run[v].manual = FALSE
  <2>1. run'[v] = run[v] /\ refresh'[v] = refresh[v]
    BY <1>1, <1>2
  <2> QED
    BY <2>1 DEF BInv, Positions, RunKnown
<1>3. requests' \in Nat
  BY DEF BInv, Shape
<1> QED
  BY <1>1, <1>2, <1>3, OtherBasics

LEMMA CrashBasics == ASSUME BInv, NEW w \in Workers, Crash(w) PROVE BInv'
<1>1. /\ UNCHANGED <<clock, row, request, requests>> /\ Shape
      /\ Abandon(w) /\ run' = [run EXCEPT ![w] = NoRun]
  BY DEF Crash, BInv
<1>2. /\ ShapedRefresh(refresh') /\ refresh'[w].stage = "none"
      /\ \A v \in Workers : v # w => refresh'[v] = refresh[v]
  BY <1>1, EndChange
<1>3. ShapedRequest(request') /\ GoodRows(row', clock)
  BY <1>1 DEF BInv, Shape
<1> QED
  BY <1>1, <1>2, <1>3, RunOverBasics

\* What the end of a run does, as far as others can see.
LEMMA FinishRunEffects ==
  ASSUME NEW w \in Workers, FinishRun(w)
  PROVE  \E o, n, x :
           LET j == run[w].job
               t == CreditedTask(request.tasks[j], o, clock, run[w].startedAt)
           IN /\ run[w] # NoRun /\ o \in Terminal
              /\ row' = [row EXCEPT ![j].state = o, ![j].finishedAt = clock,
                                    ![j].nextRun = n, ![j].failures = x]
              /\ run' = [run EXCEPT ![w] = NoRun]
              /\ IF run[w].manual THEN FinishTask(w, j, t) ELSE UNCHANGED request
              /\ \/ run[w].locked /\ run[w].manual /\ j \in Projections
                      /\ After(w, request'.tasks[j])
                 \/ run[w].locked /\ ~(run[w].manual /\ j \in Projections)
                      /\ UNCHANGED <<refresh, pass>>
                 \/ ~run[w].locked /\ Abandon(w)
              /\ UNCHANGED <<clock, config, requests, revocations, faults>>
<1> DEFINE j == run[w].job
           f(r) == IF r.outcome = "failed" THEN run[w].failures + 1 ELSE 0
           m(r) == clock + Delay(JobOf(w, j), r.outcome, f(r), r.continuation, r.changed)
<1>1. PICK r \in Reports(j, run[w].overtaken) :
        /\ run[w] # NoRun
        /\ row' = [row EXCEPT ![j].state = r.outcome, ![j].finishedAt = clock,
                              ![j].nextRun = Bounded(m(r)), ![j].failures = f(r)]
        /\ run' = [run EXCEPT ![w] = NoRun]
        /\ IF run[w].manual
           THEN FinishTask(w, j, [request.tasks[j] EXCEPT !.state = r.outcome, !.finishedAt = clock,
                                                         !.startedAt = run[w].startedAt])
           ELSE UNCHANGED request
        /\ IF ~run[w].locked THEN Abandon(w)
           ELSE IF run[w].manual /\ j \in Projections THEN After(w, request'.tasks[j])
           ELSE UNCHANGED <<refresh, pass>>
        /\ UNCHANGED <<clock, config, requests, revocations, faults>>
  BY Zenon DEF FinishRun, Idle
<1> DEFINE o == r.outcome
           n == Bounded(m(r))
           x == f(r)
           t == CreditedTask(request.tasks[j], o, clock, run[w].startedAt)
<1>t. o \in Terminal
  BY DEF Reports, OutcomesOf, Terminal
<1>2. /\ run[w] # NoRun
      /\ row' = [row EXCEPT ![j].state = o, ![j].finishedAt = clock,
                            ![j].nextRun = n, ![j].failures = x]
      /\ run' = [run EXCEPT ![w] = NoRun]
      /\ UNCHANGED <<clock, config, requests, revocations, faults>>
  BY <1>1, Zenon
<1>3. IF run[w].manual THEN FinishTask(w, j, t) ELSE UNCHANGED request
  BY <1>1, Zenon DEF CreditedTask
<1>4. \/ run[w].locked /\ run[w].manual /\ j \in Projections
           /\ After(w, request'.tasks[j])
      \/ run[w].locked /\ ~(run[w].manual /\ j \in Projections)
           /\ UNCHANGED <<refresh, pass>>
      \/ ~run[w].locked /\ Abandon(w)
  BY <1>1, Zenon
<1> HIDE DEF o, n, x
<1> QED
  BY <1>t, <1>2, <1>3, <1>4, Zenon

LEMMA FinishRunBasics == ASSUME BInv, NEW w \in Workers, FinishRun(w) PROVE BInv'
<1> DEFINE j == run[w].job
<1>1. PICK o, n, x :
        LET t == CreditedTask(request.tasks[j], o, clock, run[w].startedAt)
        IN /\ row' = [row EXCEPT ![j].state = o, ![j].finishedAt = clock,
                                 ![j].nextRun = n, ![j].failures = x]
           /\ run' = [run EXCEPT ![w] = NoRun]
           /\ IF run[w].manual THEN FinishTask(w, j, t) ELSE UNCHANGED request
           /\ \/ run[w].locked /\ run[w].manual /\ j \in Projections
                   /\ After(w, request'.tasks[j])
              \/ run[w].locked /\ ~(run[w].manual /\ j \in Projections)
                   /\ UNCHANGED <<refresh, pass>>
              \/ ~run[w].locked /\ Abandon(w)
           /\ UNCHANGED <<clock, config, requests, revocations, faults>>
  BY FinishRunEffects, Zenon
<1> HIDE DEF j
<1>2. Shape /\ RunKnown(w)
  BY DEF BInv
<1>3. GoodRows(row', clock)
  BY <1>1, EndedRow
<1>4. ShapedRequest(request')
  <2> DEFINE u == request.tasks[j]
             t == CreditedTask(u, o, clock, run[w].startedAt)
  <2>1. CASE run[w].manual = TRUE
    <3>1. j \in Tasks
      BY <1>2, <2>1, JobsAreTasks DEF RunKnown, j
    <3>2. ShapedTask(u)
      BY <1>2, <3>1, RaisedShape
    <3>3. FinishTask(w, j, t)
      BY <1>1, <2>1, Zenon
    <3> HIDE DEF u
    <3>4. ShapedTask(t)
      BY <3>2, TaskFields DEF CreditedTask
    <3> HIDE DEF t
    <3> QED
      BY <1>2, <3>1, <3>3, <3>4, FinishTaskChange
  <2>2. CASE run[w].manual = FALSE
    BY <1>1, <1>2, <2>2, Zenon DEF Shape
  <2> QED
    BY <1>2, <2>1, <2>2 DEF RunKnown
<1>5. /\ ShapedRefresh(refresh')
      /\ refresh'[w].stage # "none" => refresh'[w].position \in Nat \ {0}
      /\ \A v \in Workers : v # w => refresh'[v] = refresh[v]
  <2>1. CASE Abandon(w)
    BY <1>2, <2>1, EndChange
  <2>2. CASE \E t : After(w, t)
    <3>1. PICK t : After(w, t)
      BY <2>2
    <3>2. Stands(w, refresh[w].position + 1, Max({refresh[w].readyAt, t.finishedAt}))
      BY <1>2, <3>1, AfterStands
    <3>3. refresh[w].stage # "none" => refresh[w].position + 1 \in Nat \ {0}
      BY DEF BInv, Positions
    <3> QED
      BY <3>2, <3>3 DEF Stands
  <2>3. CASE refresh' = refresh
    BY <1>2, <2>3 DEF BInv, Positions, Shape
  <2> QED
    BY <1>1, <2>1, <2>2, <2>3, Zenon
<1> QED
  BY <1>1, <1>3, <1>4, <1>5, RunOverBasics

\* Nothing changes but the time and the rows.
LEMMA UnchangedBasics ==
  ASSUME BInv, UNCHANGED <<request, requests, refresh, run>>,
         clock' \in {clock, clock + 1}, GoodRows(row', clock')
  PROVE  BInv'
<1>1. Shape' /\ Positions' /\ clock' \in Nat
  BY DEF BInv, Shape, Positions
<1>2. NoTime .. clock \subseteq NoTime .. clock'
  BY DEF BInv, NoTime
<1>3. \A w \in Workers : RunKnown(w)'
  BY <1>2 DEF BInv, RunKnown
<1> QED
  BY <1>1, <1>3 DEF BInv

LEMMA TickBasics == ASSUME BInv, Tick PROVE BInv'
<1>1. clock' = clock + 1 /\ UNCHANGED <<row, request, requests, refresh, run>> /\ clock \in Nat
  BY DEF Tick, BInv
<1>2. NoTime .. clock \subseteq NoTime .. clock + 1
  BY <1>1 DEF NoTime
<1>3. GoodRows(row', clock')
  BY <1>1, <1>2 DEF BInv, GoodRows, GoodRow
<1> QED
  BY <1>1, <1>3, UnchangedBasics

\* The rows of a pass that starts.
LEMMA StartPassRows == ASSUME BInv, NEW w \in Workers, StartPass(w) PROVE GoodRows(row', clock)
<1>1. row' = [j \in Jobs |-> Synchronized(w, j)]
  BY DEF StartPass
<1>2. \A j \in Jobs : GoodRow(Synchronized(w, j), clock)
  BY SynchronizedRow
<1> QED
  BY <1>1, <1>2 DEF GoodRows

LEMMA StartPassBasics == ASSUME BInv, NEW w \in Workers, StartPass(w) PROVE BInv'
<1>1. UNCHANGED <<clock, request, requests, refresh, run>>
  BY DEF StartPass
<1>2. GoodRows(row', clock')
  BY <1>1, StartPassRows
<1> QED
  BY <1>1, <1>2, UnchangedBasics

\* A job of the pass is skipped or begins to run.
LEMMA PassJobChange ==
  ASSUME BInv, NEW w \in Workers, PassJob(w)
  PROVE  /\ UNCHANGED <<clock, request, requests, refresh>>
         /\ run[w] = NoRun /\ refresh[w].stage = "none"
         /\ GoodRows(row', clock) /\ ShapedRun(run')
         /\ \A v \in Workers : v # w => run'[v] = run[v]
         /\ \/ run' = run /\ row' = row
            \/ /\ run'[w].manual = FALSE /\ run'[w].locked = TRUE /\ run'[w].startedAt = clock
               /\ run'[w] # NoRun
<1>1. /\ UNCHANGED <<clock, request, requests, refresh>> /\ refresh[w] = NoRefresh
      /\ run[w] = NoRun
      /\ \/ row' = row /\ run' = run
         \/ \E j : Begin(w, j, row[j], FALSE)
  BY Zenon DEF PassJob, Idle
<1>2. refresh[w].stage = "none"
  BY <1>1 DEF NoRefresh
<1>3. CASE row' = row /\ run' = run
  BY <1>1, <1>2, <1>3 DEF BInv, Shape
<1>4. CASE \E j : Begin(w, j, row[j], FALSE)
  <2>1. PICK j, r : Begin(w, j, r, FALSE) /\ r = row[j]
    BY <1>4
  <2>2. j \in Jobs => GoodRow(r, clock)
    BY <2>1 DEF BInv, GoodRows
  <2>3. /\ GoodRows(row', clock) /\ ShapedRun(run')
        /\ run'[w].startedAt = clock /\ run'[w].manual = FALSE /\ run'[w].locked = TRUE
        /\ \A v \in Workers : v # w => run'[v] = run[v]
    BY <2>1, <2>2, BeginChange
  <2>4. run'[w] # NoRun
    BY <2>3 DEF NoRun
  <2> QED
    BY <1>1, <1>2, <2>3, <2>4
<1> QED
  BY <1>1, <1>3, <1>4

LEMMA PassJobBasics == ASSUME BInv, NEW w \in Workers, PassJob(w) PROVE BInv'
<1>1. /\ UNCHANGED <<clock, request, requests, refresh>>
      /\ GoodRows(row', clock) /\ ShapedRun(run')
      /\ \A v \in Workers : v # w => run'[v] = run[v]
      /\ \/ run' = run
         \/ run'[w].manual = FALSE /\ run'[w].locked = TRUE /\ run'[w].startedAt = clock
  BY PassJobChange
<1>2. Shape' /\ Positions' /\ clock \in Nat
  BY <1>1 DEF BInv, Shape, Positions
<1>3. ASSUME NEW v \in Workers PROVE RunKnown(v)'
  <2>1. CASE run'[v] = run[v]
    BY <1>1, <2>1 DEF BInv, RunKnown
  <2>2. CASE run'[v].manual = FALSE /\ run'[v].locked = TRUE /\ run'[v].startedAt = clock
    <3>1. clock' \in NoTime .. clock'
      BY <1>1, <1>2 DEF NoTime
    <3>2. TRUE \in BOOLEAN /\ FALSE \in BOOLEAN /\ TRUE # FALSE
      OBVIOUS
    <3> QED
      BY <1>1, <2>2, <3>1, <3>2, Zenon DEF RunKnown
  <2> QED
    BY <1>1, <2>1, <2>2
<1> QED
  BY <1>1, <1>2, <1>3 DEF BInv

\* A new request has no tasks.
LEMMA NewRequest ==
  ASSUME Enqueue
  PROVE  /\ ShapedRequest(request')
         /\ request'.status = "queued" /\ request'.requestedAt = clock
         /\ \A j \in Tasks : request'.tasks[j] = NoTask
<1>1. request' = [status |-> "queued", requestedAt |-> clock,
                  tasks |-> [j \in Tasks |-> NoTask]]
  BY DEF Enqueue, NoTasks
<1> QED
  BY <1>1 DEF ShapedRequest, ShapedTask, NoTask

LEMMA EnqueueBasics == ASSUME BInv, Enqueue PROVE BInv'
<1>1. UNCHANGED <<clock, row, refresh, run>> /\ requests' = requests + 1
  BY DEF Enqueue
<1>2. Shape'
  BY <1>1, NewRequest DEF BInv, Shape
<1>3. Positions' /\ \A w \in Workers : RunKnown(w)'
  BY <1>1 DEF BInv, Positions, RunKnown
<1> QED
  BY <1>1, <1>2, <1>3 DEF BInv

\* A worker takes up the request: a queued one is started, a running one stays.
LEMMA BegunRefresh ==
  ASSUME Shape, NEW w \in Workers, BeginRefresh(w)
  PROVE  /\ UNCHANGED <<clock, row, requests, run>>
         /\ run[w] = NoRun /\ refresh[w].stage = "none"
         /\ \A v \in Workers : ~refresh[v].locked
         /\ request.status \in Active /\ request'.status = "running"
         /\ ShapedRequest(request') /\ request'.requestedAt = request.requestedAt
         /\ \/ request.status = "queued" /\ request'.tasks = InitialTasks(w)
            \/ request.status # "queued" /\ request' = request
         /\ ShapedRefresh(refresh')
         /\ refresh'[w].stage = "sources" /\ refresh'[w].position = 1
         /\ refresh'[w].readyAt = NoTime /\ refresh'[w].of = requests
         /\ refresh'[w].rows = request'.tasks /\ refresh'[w].locked = TRUE
         /\ \A v \in Workers : v # w => refresh'[v] = refresh[v]
<1> DEFINE f == [stage |-> "sources", position |-> 1, readyAt |-> NoTime, of |-> requests,
                 rows |-> request'.tasks, locked |-> TRUE]
<1>1. /\ UNCHANGED <<clock, row, requests, run>>
      /\ run[w] = NoRun /\ refresh[w] = NoRefresh
      /\ \A v \in Workers : ~refresh[v].locked
      /\ request.status \in Active
      /\ request' = IF request.status = "queued"
                    THEN [request EXCEPT !.status = "running", !.tasks = InitialTasks(w)]
                    ELSE request
      /\ refresh' = [refresh EXCEPT ![w] = f]
  BY DEF BeginRefresh, RefreshLocked, Pending, Idle
<1>2. /\ ShapedRefresh(refresh') /\ refresh'[w] = f
      /\ \A v \in Workers : v # w => refresh'[v] = refresh[v]
  BY <1>1 DEF Shape, ShapedRefresh
<1>3. /\ f.stage = "sources" /\ f.position = 1 /\ f.readyAt = NoTime /\ f.of = requests
      /\ f.rows = request'.tasks /\ f.locked = TRUE
  OBVIOUS
<1>4. refresh[w].stage = "none"
  BY <1>1 DEF NoRefresh
<1>5. /\ ShapedRequest(request') /\ request'.requestedAt = request.requestedAt
      /\ request'.status = "running"
      /\ \/ request.status = "queued" /\ request'.tasks = InitialTasks(w)
         \/ request.status # "queued" /\ request' = request
  <2>1. CASE request.status = "queued"
    <3> DEFINE T == InitialTasks(w)
    <3>1. \A j \in Tasks : ShapedTask(T[j])
      BY DEF InitialTasks, Task, NoTask, ShapedTask
    <3>2. T = [j \in Tasks |-> T[j]]
      BY DEF InitialTasks
    <3> HIDE DEF T
    <3>3. request' = [status |-> "running", requestedAt |-> request.requestedAt,
                      tasks |-> T]
      BY <1>1, <2>1 DEF Shape, ShapedRequest, T
    <3> QED
      BY <2>1, <3>1, <3>2, <3>3 DEF ShapedRequest, T
  <2>2. CASE request.status # "queued"
    BY <1>1, <2>2 DEF Shape, Active
  <2> QED
    BY <2>1, <2>2
<1> HIDE DEF f
<1> QED
  BY <1>1, <1>2, <1>3, <1>4, <1>5

LEMMA BeginRefreshBasics == ASSUME BInv, NEW w \in Workers, BeginRefresh(w) PROVE BInv'
<1>1. /\ UNCHANGED <<clock, row, requests, run>> /\ Idle(w)
      /\ ShapedRequest(request') /\ ShapedRefresh(refresh')
      /\ refresh'[w].position = 1
      /\ \A v \in Workers : v # w => refresh'[v] = refresh[v]
  BY BegunRefresh DEF BInv, Idle
<1> QED
  BY <1>1, ServerBasics

\* The sources are done: the projections begin, on the rows read again.
LEMMA Projecting ==
  ASSUME Shape, NEW w \in Workers, SourcesDone(w), ~EndRefresh(w)
  PROVE  /\ Current(w) /\ \A t \in SourceTasks : ~Open(t)
         /\ ShapedRefresh(refresh')
         /\ refresh'[w].stage = "projections" /\ refresh'[w].position = 1
         /\ refresh'[w].readyAt = ReadyAt /\ refresh'[w].rows = request.tasks
         /\ refresh'[w].of = refresh[w].of /\ refresh'[w].locked = refresh[w].locked
         /\ \A v \in Workers : v # w => refresh'[v] = refresh[v]
<1> DEFINE R1 == [refresh EXCEPT ![w].stage = "projections"]
           R2 == [R1 EXCEPT ![w].position = 1]
           R3 == [R2 EXCEPT ![w].readyAt = ReadyAt]
           f(s, p, m, t) == [stage |-> s, position |-> p, readyAt |-> m,
                             of |-> refresh[w].of, rows |-> t, locked |-> refresh[w].locked]
           At(R, q) == R = [v \in Workers |-> IF v = w THEN q ELSE refresh[v]]
<1>1. /\ Current(w) /\ \A t \in SourceTasks : ~Open(t)
      /\ refresh' = [R3 EXCEPT ![w].rows = request.tasks]
  BY Zenon DEF SourcesDone
<1>2. At(R1, f("projections", refresh[w].position, refresh[w].readyAt, refresh[w].rows))
  BY DEF Shape, ShapedRefresh
<1>3. At(R2, f("projections", 1, refresh[w].readyAt, refresh[w].rows))
  <2> HIDE DEF R1
  <2> QED BY <1>2 DEF Shape, ShapedRefresh
<1>4. At(R3, f("projections", 1, ReadyAt, refresh[w].rows))
  <2> HIDE DEF R2
  <2> QED BY <1>3 DEF Shape, ShapedRefresh
<1>5. At(refresh', f("projections", 1, ReadyAt, request.tasks))
  <2> HIDE DEF R3
  <2> QED BY <1>1, <1>4 DEF Shape, ShapedRefresh
<1> HIDE <1>1, <1>2, <1>3, <1>4
<1>6. ShapedRefresh(refresh')
  BY <1>5 DEF Shape, ShapedRefresh
<1> QED
  BY <1>1, <1>5, <1>6

LEMMA SourcesDoneBasics == ASSUME BInv, NEW w \in Workers, SourcesDone(w) PROVE BInv'
<1>1. UNCHANGED <<clock, row, request, requests, run>> /\ Idle(w) /\ Shape
  BY DEF SourcesDone, BInv
<1>2. CASE EndRefresh(w)
  <2>1. /\ ShapedRefresh(refresh') /\ refresh'[w].stage = "none"
        /\ \A v \in Workers : v # w => refresh'[v] = refresh[v]
    BY <1>1, <1>2, EndChange
  <2> QED
    BY <1>1, <2>1, ServerBasics DEF Shape
<1>3. CASE ~EndRefresh(w)
  <2>1. /\ ShapedRefresh(refresh') /\ refresh'[w].position = 1
        /\ \A v \in Workers : v # w => refresh'[v] = refresh[v]
    BY <1>1, <1>3, Projecting
  <2> QED
    BY <1>1, <2>1, ServerBasics DEF Shape
<1> QED
  BY <1>2, <1>3

\* The server closes the request or leaves it open.
LEMMA Completed ==
  ASSUME Shape, NEW w \in Workers, CompleteRequest(w)
  PROVE  /\ UNCHANGED <<clock, row, requests, run>> /\ run[w] = NoRun
         /\ refresh[w].stage = "projections"
         /\ ShapedRequest(request') /\ request'.requestedAt = request.requestedAt
         /\ \A j \in Tasks : request'.tasks[j] = request.tasks[j]
         /\ ShapedRefresh(refresh') /\ refresh'[w] = NoRefresh /\ refresh'[w].stage = "none"
         /\ \A v \in Workers : v # w => refresh'[v] = refresh[v]
         /\ \/ request' = request
            \/ /\ \A j \in Tasks : ~Open(request.tasks[j])
               /\ request'.tasks = request.tasks
               /\ request'.status = Final([j \in Tasks |-> request.tasks[j].state])
<1>1. /\ UNCHANGED <<clock, row, requests, run>> /\ run[w] = NoRun
      /\ refresh[w].stage = "projections" /\ EndRefresh(w)
      /\ \/ request' = request
         \/ /\ \A j \in Tasks : ~Open(request.tasks[j])
            /\ request' = [request EXCEPT !.status =
                             Final([j \in Tasks |-> request.tasks[j].state])]
  BY Zenon DEF CompleteRequest, Idle
<1>2. /\ ShapedRefresh(refresh') /\ refresh'[w] = NoRefresh /\ refresh'[w].stage = "none"
      /\ \A v \in Workers : v # w => refresh'[v] = refresh[v]
  BY <1>1, EndChange
<1>3. CASE request' = request
  BY <1>1, <1>2, <1>3 DEF Shape
<1>4. CASE request' # request
  <2>1. PICK s : /\ request' = [request EXCEPT !.status = s]
                 /\ s = Final([j \in Tasks |-> request.tasks[j].state])
    BY <1>1, <1>4
  <2>2. /\ request'.status = s /\ ShapedRequest(request')
        /\ request'.requestedAt = request.requestedAt /\ request'.tasks = request.tasks
    BY <2>1 DEF Shape, ShapedRequest
  <2> QED
    BY <1>1, <1>2, <1>4, <2>1, <2>2
<1> QED
  BY <1>3, <1>4

LEMMA CompleteRequestBasics == ASSUME BInv, NEW w \in Workers, CompleteRequest(w) PROVE BInv'
<1>1. /\ UNCHANGED <<clock, row, requests, run>> /\ Idle(w)
      /\ ShapedRequest(request') /\ ShapedRefresh(refresh') /\ refresh'[w].stage = "none"
      /\ \A v \in Workers : v # w => refresh'[v] = refresh[v]
  BY Completed DEF BInv, Idle
<1> QED
  BY <1>1, ServerBasics

LEMMA InitBasics == Init => BInv
<1> SUFFICES ASSUME Init PROVE BInv
  OBVIOUS
<1>1. /\ requests = 0 /\ clock = 0 /\ clock \in Nat
      /\ row = [j \in Jobs |-> [state |-> "new", interval |-> 0, startedAt |-> NoTime,
                                finishedAt |-> NoTime, nextRun |-> NoTime, failures |-> 0]]
      /\ request = [status |-> "none", requestedAt |-> NoTime,
                    tasks |-> [j \in Tasks |-> NoTask]]
      /\ refresh = [w \in Workers |-> NoRefresh]
      /\ run = [w \in Workers |-> NoRun]
  BY DEF Init, NoTasks
<1>2. Shape
  <2>1. ShapedRequest(request)
    BY <1>1 DEF ShapedRequest, ShapedTask, NoTask
  <2>2. ShapedRefresh(refresh) /\ ShapedRun(run)
    BY <1>1 DEF ShapedRefresh, ShapedRun, NoRefresh, NoRun
  <2> QED
    BY <1>1, <2>1, <2>2 DEF Shape
<1>3. NoTime \in NoTime .. clock
  BY <1>1 DEF NoTime
<1>4. GoodRows(row, clock)
  BY <1>1, <1>3 DEF GoodRows, GoodRow
<1>5. Positions
  BY <1>1 DEF Positions, NoRefresh
<1>6. \A w \in Workers : RunKnown(w)
  BY <1>1, <1>3 DEF RunKnown, NoRun
<1> QED
  BY <1>1, <1>2, <1>4, <1>5, <1>6 DEF BInv

LEMMA BasicsStep == BInv /\ [Next]_vars => BInv'
<1> SUFFICES ASSUME BInv, [Next]_vars PROVE BInv'
  OBVIOUS
<1>1. CASE UNCHANGED vars
  BY <1>1, UnchangedBasics DEF vars, BInv
<1>2. ASSUME NEW w \in Workers, WorkerStep(w) PROVE BInv'
  BY <1>2, StartPassBasics, PassJobBasics, BeginRefreshBasics, SourceTaskBasics,
     SourcesDoneBasics, ProjectionTaskBasics, CompleteRequestBasics, FinishRunBasics,
     Zenon DEF WorkerStep
<1> QED
  BY <1>1, <1>2, TickBasics, EnqueueBasics, RevokeBasics, LoseSessionBasics, CrashBasics,
     Zenon DEF Next

-----------------------------------------------------------------------------
(* What the locks keep: the request.                                       *)

\* What a step keeps, apart from what always holds.
Kept ==
  /\ OneServer' /\ ManualRuns' /\ TasksFitStatus'
  /\ \A w \in Workers : UpToDate(w)'
  /\ ReportsKept

\* A worker in the refresh has its lock and serves the last request.
LEMMA ServerIsCurrent ==
  ASSUME IInv, NEW w \in Workers, refresh[w].stage # "none"
  PROVE  Current(w) /\ refresh[w].locked = TRUE
  BY DEF IInv, UpToDate, Current

LEMMA AheadAreJobs == ASSUME NEW w \in Workers PROVE Ahead(w) \subseteq Jobs
  BY DEF Ahead

\* The task a worker comes to is one it has not come to yet.
LEMMA ReachedAhead ==
  ASSUME BInv, NEW w \in Workers, Idle(w)
  PROVE  /\ refresh[w].stage = "sources" /\ refresh[w].position <= Len(SourceOrder)
              => SourceOrder[refresh[w].position] \in Ahead(w)
         /\ refresh[w].stage = "projections" /\ refresh[w].position <= Len(ProjectionOrder)
              => ProjectionOrder[refresh[w].position] \in Ahead(w)
<1>1. DOMAIN SourceOrder = 1 .. Len(SourceOrder)
  BY WorkerAssumption
<1>2. Len(ProjectionOrder) = 4 /\ Ordinals = 1 .. 4
  BY DEF ProjectionOrder, Ordinals
<1>3. refresh[w].stage # "none" => refresh[w].position \in Nat \ {0}
  BY DEF BInv, Positions
<1>4. run[w].manual = FALSE
  BY DEF Idle, NoRun
<1>5. CASE refresh[w].stage = "sources" /\ refresh[w].position <= Len(SourceOrder)
  <2>1. refresh[w].position \in DOMAIN SourceOrder /\ SourceOrder[refresh[w].position] \in Jobs
    BY <1>1, <1>3, <1>5, OrdersAreJobs
  <2> QED
    BY <1>3, <1>5, <2>1 DEF Ahead
<1>6. CASE refresh[w].stage = "projections" /\ refresh[w].position <= Len(ProjectionOrder)
  <2>1. refresh[w].position \in Ordinals /\ ProjectionOrder[refresh[w].position] \in Jobs
    BY <1>2, <1>3, <1>6, OrdersAreJobs
  <2> QED
    BY <1>4, <1>6, <2>1, Zenon DEF Ahead
<1> QED
  BY <1>5, <1>6

\* A worker that goes on leaves the task it came to behind.
LEMMA AheadPasses ==
  ASSUME BInv, NEW w \in Workers, refresh[w].stage # "none",
         refresh'[w].stage = refresh[w].stage,
         refresh'[w].position = refresh[w].position + 1
  PROVE  /\ Ahead(w)' \subseteq Ahead(w)
         /\ refresh[w].stage = "sources" /\ refresh[w].position <= Len(SourceOrder)
              => SourceOrder[refresh[w].position] \notin Ahead(w)'
         /\ refresh[w].stage = "projections" /\ refresh[w].position <= Len(ProjectionOrder)
              => ProjectionOrder[refresh[w].position] \notin Ahead(w)'
<1> DEFINE p == refresh[w].position
<1>1. p \in Nat \ {0}
  BY DEF BInv, Positions
<1> HIDE DEF p
<1>2. CASE refresh[w].stage = "sources"
  <2>1. DOMAIN SourceOrder = 1 .. Len(SourceOrder) /\ Len(SourceOrder) \in Nat
    BY WorkerAssumption
  <2>2. ASSUME NEW j \in Ahead(w)'
        PROVE  j \in Ahead(w) /\ (p <= Len(SourceOrder) => j # SourceOrder[p])
    <3>1. j \in Jobs /\ \E i \in DOMAIN SourceOrder : i >= p + 1 /\ j = SourceOrder[i]
      BY <1>2 DEF Ahead, p
    <3>2. PICK i \in DOMAIN SourceOrder : i >= p + 1 /\ j = SourceOrder[i]
      BY <3>1
    <3>3. i >= p /\ i # p
      BY <1>1, <2>1, <3>2
    <3>4. j \in Ahead(w)
      BY <1>2, <3>1, <3>2, <3>3 DEF Ahead, p
    <3>5. p <= Len(SourceOrder) => p \in DOMAIN SourceOrder
      BY <1>1, <2>1
    <3> QED
      BY <3>2, <3>3, <3>4, <3>5, WorkerAssumption
  <2> QED
    BY <1>2, <2>2 DEF p
<1>3. CASE refresh[w].stage = "projections"
  <2>1. Ordinals = 1 .. 4 /\ Len(ProjectionOrder) = 4
    BY DEF ProjectionOrder, Ordinals
  <2>2. \A i, k \in Ordinals : ProjectionOrder[i] = ProjectionOrder[k] => i = k
    BY DEF ProjectionOrder, Ordinals, Condition
  <2>3. ASSUME NEW j \in Ahead(w)'
        PROVE  j \in Ahead(w) /\ (p <= 4 => j # ProjectionOrder[p])
    <3>1. /\ j \in Jobs
          /\ \E k \in Ordinals : (k > p + 1 \/ k = p + 1) /\ j = ProjectionOrder[k]
      BY <1>3, Zenon DEF Ahead, p
    <3>2. PICK k \in Ordinals : (k > p + 1 \/ k = p + 1) /\ j = ProjectionOrder[k]
      BY <3>1
    <3>3. k > p
      BY <1>1, <2>1, <3>2
    <3>4. j \in Ahead(w)
      BY <1>3, <3>1, <3>2, <3>3, Zenon DEF Ahead, p
    <3>5. p <= 4 => p \in Ordinals /\ p # k
      BY <1>1, <2>1, <3>3
    <3> QED
      BY <2>2, <3>2, <3>4, <3>5
  <2> QED
    BY <1>3, <2>1, <2>3 DEF p
<1>4. CASE refresh[w].stage \notin {"sources", "projections"}
  BY <1>4 DEF Ahead
<1> QED
  BY <1>2, <1>3, <1>4

\* So does one that begins to run the projection it came to.
LEMMA AheadRuns ==
  ASSUME BInv, NEW w \in Workers, Idle(w), refresh[w].stage = "projections",
         refresh[w].position <= Len(ProjectionOrder),
         refresh'[w] = refresh[w], run'[w].manual = TRUE
  PROVE  /\ Ahead(w)' \subseteq Ahead(w)
         /\ ProjectionOrder[refresh[w].position] \notin Ahead(w)'
<1> DEFINE p == refresh[w].position
<1>1. p \in Nat \ {0}
  BY DEF BInv, Positions
<1> HIDE DEF p
<1>2. Ordinals = 1 .. 4 /\ Len(ProjectionOrder) = 4
  BY DEF ProjectionOrder, Ordinals
<1>3. \A i, k \in Ordinals : ProjectionOrder[i] = ProjectionOrder[k] => i = k
  BY DEF ProjectionOrder, Ordinals, Condition
<1>4. ASSUME NEW j \in Ahead(w)'
      PROVE  j \in Ahead(w) /\ j # ProjectionOrder[p]
  <2>1. j \in Jobs /\ \E k \in Ordinals : k > p /\ j = ProjectionOrder[k]
    BY Zenon DEF Ahead, p
  <2>2. PICK k \in Ordinals : k > p /\ j = ProjectionOrder[k]
    BY <2>1
  <2>3. j \in Ahead(w)
    BY <2>1, <2>2, Zenon DEF Ahead, p
  <2>4. p \in Ordinals /\ p # k
    BY <1>1, <1>2, <2>2 DEF p
  <2> QED
    BY <1>3, <2>2, <2>3, <2>4
<1> QED
  BY <1>4 DEF p

\* What a worker will come to depends on its place and on whether it runs a job
\* for the request.
LEMMA AheadSame ==
  ASSUME NEW w \in Workers,
         refresh'[w].stage = refresh[w].stage, refresh'[w].position = refresh[w].position,
         run'[w].manual = run[w].manual \/ refresh[w].stage # "projections"
  PROVE  Ahead(w)' = Ahead(w)
<1>1. CASE run'[w].manual = run[w].manual
  BY <1>1, Zenon DEF Ahead
<1>2. CASE refresh[w].stage # "projections"
  BY <1>2, Zenon DEF Ahead
<1> QED
  BY <1>1, <1>2

\* A worker that is in no refresh or goes on in it, and begins no run for it.
LEMMA UpToDateKept ==
  ASSUME NEW v \in Workers, UpToDate(v), requests' = requests,
         \/ refresh'[v].stage = "none"
         \/ /\ refresh'[v].stage = refresh[v].stage /\ refresh'[v].of = refresh[v].of
            /\ refresh'[v].rows = refresh[v].rows /\ refresh'[v].locked = refresh[v].locked
            /\ Ahead(v)' \subseteq Ahead(v)
            /\ \A i \in Ahead(v)' : request'.tasks[i] = request.tasks[i],
         run'[v] = NoRun \/ run'[v].locked = TRUE,
         run'[v].manual = TRUE =>
           /\ run[v].manual = TRUE /\ run'[v].job = run[v].job
           /\ refresh'[v].stage = refresh[v].stage
  PROVE  UpToDate(v)'
<1>1. CASE refresh'[v].stage = "none"
  <2>1. Ahead(v)' = {}
    BY <1>1 DEF Ahead
  <2> QED
    BY <1>1, <2>1 DEF UpToDate
<1>2. CASE refresh'[v].stage # "none"
  <2>1. /\ refresh'[v].stage = refresh[v].stage /\ refresh'[v].of = refresh[v].of
        /\ refresh'[v].rows = refresh[v].rows /\ refresh'[v].locked = refresh[v].locked
        /\ Ahead(v)' \subseteq Ahead(v)
        /\ \A i \in Ahead(v)' : request'.tasks[i] = request.tasks[i]
    BY <1>2
  <2>2. \A i \in Ahead(v)' : refresh'[v].rows[i] = request'.tasks[i]
    BY <2>1 DEF UpToDate
  <2> QED
    BY <2>1, <2>2 DEF UpToDate
<1> QED
  BY <1>1, <1>2

-----------------------------------------------------------------------------
(* The steps.                                                              *)

\* The server of the request, while it runs nothing, attempts an open task or
\* leaves the request alone, and goes on or leaves.
LEMMA ServerStep ==
  ASSUME IInv, NEW w \in Workers, Idle(w), refresh[w].stage # "none", requests' = requests,
         NEW j \in Jobs, refresh[w].stage = "projections" => j \in Projections,
         \/ request' = request /\ run' = run
         \/ Open(request.tasks[j]) /\ Attempt(w, j),
         \A v \in Workers : v # w => refresh'[v] = refresh[v],
         \/ refresh'[w].stage = "none" /\ run'[w] = run[w]
         \/ /\ refresh'[w].stage = refresh[w].stage /\ refresh'[w].of = refresh[w].of
            /\ refresh'[w].rows = refresh[w].rows /\ refresh'[w].locked = refresh[w].locked
            /\ Ahead(w)' \subseteq Ahead(w) /\ j \notin Ahead(w)'
  PROVE  Kept
<1>i. /\ BInv /\ OneServer /\ ManualRuns /\ TasksFitStatus /\ UpToDate(w)
      /\ run[w].manual = FALSE /\ run[w] = NoRun /\ j \in Tasks
  BY JobsAreTasks DEF IInv, Idle, NoRun
<1>1. request'.status = "running" /\ request.status = "running"
  BY <1>i DEF OneServer, Attempt
<1>2. \A i \in Tasks : i # j => request'.tasks[i] = request.tasks[i]
  BY DEF Attempt
<1>3. \A v \in Workers : v # w =>
         /\ refresh[v].stage = "none" /\ refresh'[v].stage = "none"
         /\ run[v].manual = FALSE /\ run'[v] = run[v]
  BY <1>i DEF BInv, RunKnown, OneServer, ManualRuns, Attempt
<1>4. OneServer'
  BY <1>1, <1>3 DEF OneServer
<1>5. ManualRuns'
  BY <1>i, <1>3 DEF ManualRuns, Attempt
<1>6. TasksFitStatus'
  BY <1>1 DEF TasksFitStatus, Active
<1>7. ReportsKept
  BY <1>2 DEF ReportsKept, Open, Terminal
<1>8. ASSUME NEW v \in Workers, v # w PROVE UpToDate(v)'
  <2>1. /\ UpToDate(v) /\ refresh'[v].stage = "none" /\ run'[v] = run[v]
        /\ run[v].manual = FALSE
    BY <1>3, <1>8 DEF IInv
  <2>2. run'[v] = NoRun \/ run'[v].locked = TRUE
    BY <2>1 DEF UpToDate
  <2> QED
    BY <2>1, <2>2, UpToDateKept
<1>9. UpToDate(w)'
  <2>1. CASE run'[w] = run[w]
    <3>1. ASSUME refresh'[w].stage # "none"
          PROVE  \A i \in Ahead(w)' : request'.tasks[i] = request.tasks[i]
      BY <1>2, <3>1, AheadAreJobs, JobsAreTasks
    <3> QED
      BY <1>i, <2>1, <3>1, UpToDateKept
  <2>2. CASE run'[w] # run[w]
    <3>1. /\ refresh'[w].stage = refresh[w].stage /\ refresh'[w].of = refresh[w].of
          /\ refresh'[w].rows = refresh[w].rows /\ refresh'[w].locked = refresh[w].locked
          /\ Ahead(w)' \subseteq Ahead(w) /\ j \notin Ahead(w)'
          /\ run'[w].job = j /\ run'[w].locked = TRUE
      BY <2>2 DEF Attempt
    <3>2. ASSUME NEW i \in Ahead(w)' PROVE refresh'[w].rows[i] = request'.tasks[i]
      <4>1. i \in Ahead(w) /\ i # j /\ i \in Tasks
        BY <3>1, <3>2, AheadAreJobs, JobsAreTasks
      <4> QED
        BY <1>i, <1>2, <3>1, <4>1 DEF UpToDate
    <3> QED
      BY <1>i, <3>1, <3>2 DEF UpToDate
  <2> QED
    BY <2>1, <2>2
<1> QED
  BY <1>4, <1>5, <1>6, <1>7, <1>8, <1>9 DEF Kept

\* What the server does with a source task.
LEMMA SourceTaskFacts ==
  ASSUME IInv, NEW w \in Workers, SourceTask(w)
  PROVE  LET j == SourceOrder[refresh[w].position]
             task == request.tasks[j]
         IN /\ Idle(w) /\ refresh[w].stage = "sources" /\ requests' = requests
            /\ refresh[w].position <= Len(SourceOrder) /\ Next1(w) /\ Current(w)
            /\ \/ ~Open(task) /\ UNCHANGED <<request, row, run>>
               \/ /\ Open(task)
                  /\ \/ Unavailable(w, j)
                     \/ Reuse(w, j, task.notBefore)
                     \/ Refuse(w, j, task.notBefore)
                     \/ RunNow(w, j, task.notBefore)
                     \/ Busy(w, j, task.notBefore)
            /\ UNCHANGED <<clock, config, urgent, revocations, faults>>
<1> DEFINE j == SourceOrder[refresh[w].position]
<1>1. Idle(w) /\ refresh[w].stage = "sources" /\ refresh[w].position <= Len(SourceOrder)
  BY DEF SourceTask
<1>2. j \in Ahead(w)
  BY <1>1, ReachedAhead DEF IInv
<1>3. refresh[w].rows[j] = request.tasks[j]
  BY <1>2 DEF IInv, UpToDate
<1>4. Current(w)
  BY <1>1, ServerIsCurrent
<1> QED
  BY <1>3, <1>4, Zenon DEF SourceTask

\* What the server does with the task of projection j.
ProjectionTried(w, j, boundary) ==
  \/ Unavailable(w, j) /\ Next1(w)
  \/ Reuse(w, j, boundary) /\ After(w, request'.tasks[j])
  \/ Refuse(w, j, boundary) /\ After(w, request'.tasks[j])
  \/ RunNow(w, j, boundary) /\ refresh' = refresh
  \/ Busy(w, j, boundary) /\ EndRefresh(w)

ProjectionTaskNow(w, j) ==
  LET task == request.tasks[j]
  IN /\ Idle(w) /\ refresh[w].stage = "projections" /\ requests' = requests
     /\ refresh[w].position <= Len(ProjectionOrder) /\ Current(w)
     /\ \/ ~Open(task) /\ After(w, task) /\ UNCHANGED <<request, row, run>>
        \/ Open(task) /\ ProjectionTried(w, j, refresh[w].readyAt)
     /\ UNCHANGED <<clock, config, urgent, revocations, faults>>

LEMMA ProjectionTaskFacts ==
  ASSUME IInv, NEW w \in Workers, ProjectionTask(w)
  PROVE  ProjectionTaskNow(w, ProjectionOrder[refresh[w].position])
<1> DEFINE j == ProjectionOrder[refresh[w].position]
<1>1. /\ Idle(w) /\ refresh[w].stage = "projections"
      /\ refresh[w].position <= Len(ProjectionOrder)
  BY DEF ProjectionTask
<1>2. j \in Ahead(w)
  BY <1>1, ReachedAhead DEF IInv
<1>3. refresh[w].rows[j] = request.tasks[j]
  BY <1>2 DEF IInv, UpToDate
<1>4. Current(w)
  BY <1>1, ServerIsCurrent
<1> QED
  BY <1>3, <1>4, Zenon DEF ProjectionTask, ProjectionTaskNow, ProjectionTried

LEMMA SourceTaskStep ==
  ASSUME IInv, NEW w \in Workers, SourceTask(w)
  PROVE  IInv' /\ ReportsKept
<1> DEFINE j == SourceOrder[refresh[w].position]
           b == request.tasks[j].notBefore
<1>1. /\ Idle(w) /\ refresh[w].stage = "sources" /\ requests' = requests
      /\ refresh[w].position <= Len(SourceOrder) /\ Next1(w)
      /\ \/ request' = request /\ run' = run
         \/ /\ Open(request.tasks[j])
            /\ \/ Unavailable(w, j) \/ Reuse(w, j, b) \/ Refuse(w, j, b)
               \/ RunNow(w, j, b) \/ Busy(w, j, b)
  BY SourceTaskFacts, Zenon
<1>2. BInv /\ Shape /\ j \in Jobs /\ BInv'
  BY <1>1, OrdersAreJobs, SourceTaskBasics DEF IInv, BInv, Positions
<1>3. Stands(w, refresh[w].position + 1, refresh[w].readyAt)
  BY <1>1, <1>2, Next1Stands
<1>4. Ahead(w)' \subseteq Ahead(w) /\ j \notin Ahead(w)'
  BY <1>1, <1>2, <1>3, AheadPasses DEF Stands
<1> HIDE DEF j, b
<1>5. \/ request' = request /\ run' = run
      \/ Open(request.tasks[j]) /\ Attempt(w, j)
  BY <1>1, <1>2, AttemptOutcomes, Zenon
<1>6. Kept
  BY <1>1, <1>2, <1>3, <1>4, <1>5, ServerStep DEF Stands
<1> QED
  BY <1>2, <1>6 DEF IInv, Kept

LEMMA ProjectionTaskStep ==
  ASSUME IInv, NEW w \in Workers, ProjectionTask(w)
  PROVE  IInv' /\ ReportsKept
<1> DEFINE j == ProjectionOrder[refresh[w].position]
           task == request.tasks[j]
           b == refresh[w].readyAt
<1>0. ProjectionTaskNow(w, j)
  BY ProjectionTaskFacts
<1>1. /\ Idle(w) /\ refresh[w].stage = "projections" /\ requests' = requests
      /\ refresh[w].position <= Len(ProjectionOrder)
      /\ \/ ~Open(task) /\ After(w, task) /\ UNCHANGED <<request, row, run>>
         \/ Open(task) /\ ProjectionTried(w, j, b)
  BY <1>0, Zenon DEF ProjectionTaskNow
<1>2. BInv /\ Shape /\ j \in Jobs /\ j \in Projections /\ BInv'
  BY <1>1, OrdersAreJobs, ProjectionTaskBasics DEF IInv, BInv, Positions
<1>p. /\ Ahead(w)' \subseteq Ahead(w) /\ j \notin Ahead(w)'
      <=> /\ Ahead(w)' \subseteq Ahead(w)
          /\ ProjectionOrder[refresh[w].position] \notin Ahead(w)'
  OBVIOUS
<1> HIDE DEF j, task, b
<1>3. CASE \E t : After(w, t)
  <2>1. PICK t : After(w, t)
    BY <1>3
  <2>2. Stands(w, refresh[w].position + 1, Max({refresh[w].readyAt, t.finishedAt}))
    BY <1>2, <2>1, AfterStands
  <2>3. Ahead(w)' \subseteq Ahead(w) /\ j \notin Ahead(w)'
    BY <1>1, <1>2, <1>p, <2>2, AheadPasses DEF Stands
  <2>4. \/ request' = request /\ run' = run
        \/ Open(request.tasks[j]) /\ Attempt(w, j)
        \/ EndRefresh(w)
        \/ UNCHANGED refresh
    BY <1>1, <1>2, AttemptOutcomes, Zenon DEF task, ProjectionTried
  <2>5. ~EndRefresh(w) /\ refresh' # refresh
    <3>1. refresh[w].position \in Nat /\ refresh'[w].stage = "projections"
      BY <1>1, <1>2, <2>2 DEF BInv, Positions, Stands
    <3>2. refresh'[w].position # refresh[w].position
      BY <2>2, <3>1 DEF Stands
    <3>3. EndRefresh(w) => refresh'[w].stage = "none"
      BY <1>2, EndChange
    <3> QED
      BY <3>1, <3>2, <3>3
  <2>6. Kept
    BY <1>1, <1>2, <2>2, <2>3, <2>4, <2>5, ServerStep DEF Stands
  <2> QED
    BY <1>2, <2>6 DEF IInv, Kept
<1>4. CASE Open(task) /\ Unavailable(w, j) /\ Next1(w)
  <2>1. Attempt(w, j)
    BY <1>2, <1>4, AttemptOutcomes, Zenon
  <2>2. Stands(w, refresh[w].position + 1, refresh[w].readyAt)
    BY <1>2, <1>4, Next1Stands
  <2>3. Ahead(w)' \subseteq Ahead(w) /\ j \notin Ahead(w)'
    BY <1>1, <1>2, <1>p, <2>2, AheadPasses DEF Stands
  <2>4. Kept
    BY <1>1, <1>2, <1>4, <2>1, <2>2, <2>3, ServerStep DEF Stands, task
  <2> QED
    BY <1>2, <2>4 DEF IInv, Kept
<1>5. CASE Open(task) /\ RunNow(w, j, b) /\ refresh' = refresh
  <2>1. Attempt(w, j) /\ refresh' = refresh
    BY <1>2, <1>5, AttemptOutcomes, Zenon
  <2>2. run'[w].manual = TRUE
    <3>1. Begin(w, j, Synchronized(w, j), TRUE)
      BY <1>5, Zenon DEF RunNow
    <3> QED
      BY <1>2, <3>1, SynchronizedRow, BeginChange
  <2>3. Ahead(w)' \subseteq Ahead(w) /\ j \notin Ahead(w)'
    BY <1>1, <1>2, <1>p, <2>1, <2>2, AheadRuns
  <2>4. Kept
    BY <1>1, <1>2, <1>5, <2>1, <2>3, ServerStep DEF task
  <2> QED
    BY <1>2, <2>4 DEF IInv, Kept
<1>6. CASE Open(task) /\ Busy(w, j, b) /\ EndRefresh(w)
  <2>1. Attempt(w, j) /\ run' = run
    BY <1>2, <1>6, AttemptOutcomes, Zenon DEF Busy
  <2>2. /\ ShapedRefresh(refresh') /\ refresh'[w].stage = "none"
        /\ \A v \in Workers : v # w => refresh'[v] = refresh[v]
    BY <1>2, <1>6, EndChange
  <2>3. Kept
    BY <1>1, <1>2, <1>6, <2>1, <2>2, ServerStep DEF task
  <2> QED
    BY <1>2, <2>3 DEF IInv, Kept
<1> QED
  BY <1>1, <1>3, <1>4, <1>5, <1>6, Zenon DEF ProjectionTried

\* The end of a run, as long as its lock is held.
LEMMA FinishRunFacts ==
  ASSUME IInv, NEW w \in Workers, FinishRun(w)
  PROVE  \E o, n, x :
           LET j == run[w].job
               t == CreditedTask(request.tasks[j], o, clock, run[w].startedAt)
           IN /\ run[w] # NoRun /\ o \in Terminal
              /\ row' = [row EXCEPT ![j].state = o, ![j].finishedAt = clock,
                                    ![j].nextRun = n, ![j].failures = x]
              /\ run' = [run EXCEPT ![w] = NoRun]
              /\ \/ run[w].manual = FALSE /\ UNCHANGED request
                 \/ run[w].manual = TRUE /\ Current(w) /\ FinishTask(w, j, t)
              /\ \/ run[w].manual = TRUE /\ j \in Projections /\ After(w, request'.tasks[j])
                 \/ ~(run[w].manual = TRUE /\ j \in Projections) /\ UNCHANGED <<refresh, pass>>
              /\ UNCHANGED <<clock, config, requests, revocations, faults>>
<1> DEFINE j == run[w].job
           t(o) == CreditedTask(request.tasks[j], o, clock, run[w].startedAt)
<1>1. PICK o, n, x :
        /\ run[w] # NoRun /\ o \in Terminal
        /\ row' = [row EXCEPT ![j].state = o, ![j].finishedAt = clock,
                              ![j].nextRun = n, ![j].failures = x]
        /\ run' = [run EXCEPT ![w] = NoRun]
        /\ IF run[w].manual THEN FinishTask(w, j, t(o)) ELSE UNCHANGED request
        /\ \/ run[w].locked /\ run[w].manual /\ j \in Projections
                /\ After(w, request'.tasks[j])
           \/ run[w].locked /\ ~(run[w].manual /\ j \in Projections)
                /\ UNCHANGED <<refresh, pass>>
           \/ ~run[w].locked /\ Abandon(w)
        /\ UNCHANGED <<clock, config, requests, revocations, faults>>
  BY FinishRunEffects, Zenon
<1>2. run[w].locked = TRUE
  BY <1>1 DEF IInv, UpToDate
<1>3. run[w].manual \in BOOLEAN /\ (run[w].manual = TRUE => Current(w))
  BY ServerIsCurrent DEF IInv, BInv, RunKnown
<1>4. \/ run[w].manual = FALSE /\ UNCHANGED request
      \/ run[w].manual = TRUE /\ Current(w) /\ FinishTask(w, j, t(o))
  BY <1>1, <1>3, Zenon
<1>5. \/ run[w].manual = TRUE /\ j \in Projections /\ After(w, request'.tasks[j])
      \/ ~(run[w].manual = TRUE /\ j \in Projections) /\ UNCHANGED <<refresh, pass>>
  BY <1>1, <1>2, <1>3, Zenon
<1> HIDE DEF j
<1>6. /\ run[w] # NoRun /\ o \in Terminal
      /\ row' = [row EXCEPT ![j].state = o, ![j].finishedAt = clock,
                            ![j].nextRun = n, ![j].failures = x]
      /\ run' = [run EXCEPT ![w] = NoRun]
      /\ UNCHANGED <<clock, config, requests, revocations, faults>>
  BY <1>1
<1> QED
  BY <1>4, <1>5, <1>6, Zenon DEF j

LEMMA FinishRunStep ==
  ASSUME IInv, NEW w \in Workers, FinishRun(w)
  PROVE  IInv' /\ ReportsKept
<1> DEFINE j == run[w].job
<1>1. PICK o : /\ run' = [run EXCEPT ![w] = NoRun] /\ requests' = requests
               /\ \/ run[w].manual = FALSE /\ UNCHANGED request
                  \/ /\ run[w].manual = TRUE
                     /\ FinishTask(w, j, CreditedTask(request.tasks[j], o, clock,
                                                      run[w].startedAt))
               /\ \/ run[w].manual = TRUE /\ j \in Projections /\ After(w, request'.tasks[j])
                  \/ ~(run[w].manual = TRUE /\ j \in Projections) /\ UNCHANGED <<refresh, pass>>
  BY FinishRunFacts, Zenon
<1>2. Shape /\ BInv /\ BInv' /\ UpToDate(w)
  BY FinishRunBasics DEF IInv, BInv
<1>3. /\ run'[w] = NoRun /\ run'[w].manual = FALSE
      /\ \A v \in Workers : v # w => run'[v] = run[v]
  BY <1>1, <1>2, RunOver
<1>4. \E p, m : /\ Stands(w, p, m)
                /\ \/ refresh' = refresh
                   \/ run[w].manual = TRUE /\ p = refresh[w].position + 1
  <2>1. CASE refresh' = refresh
    BY <1>2, <2>1, StaysStands
  <2>2. CASE run[w].manual = TRUE /\ \E t : After(w, t)
    <3>1. PICK t : After(w, t)
      BY <2>2
    <3> QED
      BY <1>2, <2>2, <3>1, AfterStands, Zenon
  <2> QED
    BY <1>1, <2>1, <2>2, Zenon
<1>5. PICK p, m : /\ Stands(w, p, m)
                  /\ \/ refresh' = refresh
                     \/ run[w].manual = TRUE /\ p = refresh[w].position + 1
  BY <1>4
<1>6. /\ refresh'[w].stage = refresh[w].stage /\ refresh'[w].of = refresh[w].of
      /\ refresh'[w].rows = refresh[w].rows /\ refresh'[w].locked = refresh[w].locked
      /\ refresh'[w].position = p
      /\ \A v \in Workers : v # w => refresh'[v] = refresh[v]
  BY <1>5 DEF Stands
<1>7. Ahead(w)' \subseteq Ahead(w)
  <2>1. CASE run[w].manual = TRUE /\ p = refresh[w].position + 1
    <3>1. refresh[w].stage # "none"
      BY <1>2, <2>1 DEF BInv, RunKnown
    <3> QED
      BY <1>2, <1>6, <2>1, <3>1, AheadPasses
  <2>2. CASE refresh' = refresh
    <3>1. CASE run[w].manual = FALSE
      BY <1>3, <2>2, <3>1, AheadSame
    <3>2. CASE run[w].manual = TRUE
      <4>1. CASE refresh[w].stage = "projections"
        <5>1. j \in Projections
          BY <1>2, <3>2, <4>1 DEF UpToDate
        <5>2. PICK t : After(w, t)
          BY <1>1, <3>2, <5>1
        <5>3. Stands(w, refresh[w].position + 1, Max({refresh[w].readyAt, t.finishedAt}))
          BY <1>2, <5>2, AfterStands
        <5> QED
          BY <1>2, <4>1, <5>3, AheadPasses DEF Stands
      <4>2. CASE refresh[w].stage # "projections"
        BY <2>2, <4>2, AheadSame
      <4> QED
        BY <4>1, <4>2
    <3> QED
      BY <1>2, <3>1, <3>2 DEF BInv, RunKnown
  <2> QED
    BY <1>5, <2>1, <2>2
<1> HIDE <1>1, <1>4, <1>5
<1>8. CASE run[w].manual = FALSE
  <2>1. request' = request
    BY <1>1, <1>8
  <2>2. OneServer' /\ TasksFitStatus' /\ ReportsKept
    BY <1>6, <2>1 DEF IInv, OneServer, TasksFitStatus, ReportsKept
  <2>3. ManualRuns'
    BY <1>3, <1>6, <2>1 DEF IInv, ManualRuns
  <2>4. ASSUME NEW v \in Workers PROVE UpToDate(v)'
    <3>1. CASE v = w
      BY <1>1, <1>2, <1>3, <1>6, <1>7, <2>1, <3>1, UpToDateKept
    <3>2. CASE v # w
      <4>1. Ahead(v)' = Ahead(v)
        BY <1>3, <1>6, <3>2, AheadSame
      <4> QED
        BY <1>1, <1>3, <1>6, <2>1, <3>2, <4>1 DEF IInv, UpToDate
    <3> QED
      BY <3>1, <3>2
  <2> QED
    BY <1>2, <2>2, <2>3, <2>4 DEF IInv
<1>9. CASE run[w].manual = TRUE
  <2>1. /\ j \in Tasks /\ request.tasks[j].state = "running"
        /\ request.status = "running" /\ refresh[w].stage # "none" /\ j \notin Ahead(w)
        /\ \A v \in Workers : v # w => run[v].manual = FALSE /\ refresh[v].stage = "none"
    BY <1>2, <1>9, JobsAreTasks DEF IInv, BInv, RunKnown, ManualRuns, OneServer, UpToDate
  <2> DEFINE u == request.tasks[j]
             t == CreditedTask(u, o, clock, run[w].startedAt)
  <2>2. FinishTask(w, j, t)
    BY <1>1, <1>9, Zenon
  <2>3. ShapedTask(t)
    <3>1. ShapedTask(u)
      BY <1>2, <2>1, RaisedShape
    <3> HIDE DEF u
    <3> QED
      BY <3>1, TaskFields DEF CreditedTask
  <2> HIDE DEF t, j
  <2>4. /\ ShapedRequest(request') /\ request'.status = request.status
        /\ \A i \in Tasks : i # j => request'.tasks[i] = request.tasks[i]
    BY <1>2, <2>1, <2>2, <2>3, FinishTaskChange
  <2>5. OneServer' /\ TasksFitStatus'
    BY <1>6, <2>1, <2>4 DEF IInv, OneServer, TasksFitStatus, Active
  <2>6. ManualRuns'
    BY <1>3, <2>1 DEF ManualRuns
  <2>7. ReportsKept
    BY <2>1, <2>4 DEF ReportsKept, Terminal
  <2>8. ASSUME NEW v \in Workers PROVE UpToDate(v)'
    <3>1. CASE v = w
      <4>1. \A i \in Ahead(w)' : request'.tasks[i] = request.tasks[i]
        BY <1>7, <2>1, <2>4, AheadAreJobs, JobsAreTasks
      <4> QED
        BY <1>1, <1>2, <1>3, <1>6, <1>7, <3>1, <4>1, UpToDateKept
    <3>2. CASE v # w
      <4>1. UpToDate(v) /\ refresh'[v].stage = "none" /\ run'[v] = run[v] /\ run[v].manual = FALSE
        BY <1>3, <1>6, <2>1, <3>2 DEF IInv
      <4>2. run'[v] = NoRun \/ run'[v].locked = TRUE
        BY <4>1 DEF UpToDate
      <4> QED
        BY <1>1, <4>1, <4>2, UpToDateKept
    <3> QED
      BY <3>1, <3>2
  <2> QED
    BY <1>2, <2>5, <2>6, <2>7, <2>8 DEF IInv
<1> QED
  BY <1>2, <1>8, <1>9 DEF BInv, RunKnown

-----------------------------------------------------------------------------
(* Steps that leave the request alone.                                     *)

\* Runs may begin or be lost and workers may leave the refresh or go on in it.
LEMMA QuietStep ==
  ASSUME IInv, BInv', request' = request, requests' = requests,
         \A v \in Workers :
           /\ refresh'[v].stage = "none" \/ refresh[v].stage # "none"
           /\ \/ run'[v].manual = FALSE
              \/ /\ run'[v].manual = run[v].manual /\ run'[v].job = run[v].job
                 /\ refresh'[v].stage = refresh[v].stage
           /\ UpToDate(v)'
  PROVE  IInv' /\ ReportsKept
<1>1. TasksFitStatus' /\ ReportsKept
  BY DEF IInv, TasksFitStatus, ReportsKept
<1>2. OneServer'
  BY DEF IInv, OneServer
<1>3. ManualRuns'
  BY DEF IInv, ManualRuns
<1> QED
  BY <1>1, <1>2, <1>3 DEF IInv

\* What holds a lock and who is where stays as it is.
LEMMA UpToDateStays ==
  ASSUME IInv, NEW v \in Workers, request' = request, requests' = requests,
         refresh'[v] = refresh[v],
         run'[v].manual = run[v].manual, run'[v].job = run[v].job,
         run'[v] = NoRun \/ run'[v].locked = TRUE
  PROVE  UpToDate(v)'
<1>1. Ahead(v)' = Ahead(v)
  BY AheadSame
<1> QED
  BY <1>1 DEF IInv, UpToDate

LEMMA UnchangedStep ==
  ASSUME IInv, BInv', UNCHANGED <<request, requests, refresh, run>>
  PROVE  IInv' /\ ReportsKept
<1>1. ASSUME NEW v \in Workers PROVE UpToDate(v)'
  <2>1. run'[v] = NoRun \/ run'[v].locked = TRUE
    BY DEF IInv, UpToDate
  <2> QED
    BY <2>1, UpToDateStays
<1> QED
  BY <1>1, QuietStep

LEMMA RevokeStep == ASSUME IInv, Revoke PROVE IInv' /\ ReportsKept
<1>1. UNCHANGED <<request, requests, refresh>> /\ BInv /\ Shape /\ BInv'
  BY RevokeBasics DEF Revoke, IInv, BInv
<1>2. \A v \in Workers :
        /\ run'[v].manual = run[v].manual /\ run'[v].job = run[v].job
        /\ run'[v].locked = run[v].locked
        /\ run'[v] # run[v] => run[v].job = Condition
  BY <1>1, OvertakenRuns
<1>3. ASSUME NEW v \in Workers PROVE UpToDate(v)'
  <2>1. run[v] = NoRun \/ run[v].locked = TRUE
    BY DEF IInv, UpToDate
  <2>2. Condition # "none"
    BY DEF Condition
  <2>3. run'[v] = NoRun \/ run'[v].locked = TRUE
    BY <1>2, <2>1, <2>2 DEF NoRun
  <2> QED
    BY <1>1, <1>2, <2>3, UpToDateStays
<1> QED
  BY <1>1, <1>2, <1>3, QuietStep

LEMMA PassJobStep == ASSUME IInv, NEW w \in Workers, PassJob(w) PROVE IInv' /\ ReportsKept
<1>1. BInv /\ BInv'
  BY PassJobBasics DEF IInv
<1>2. /\ UNCHANGED <<clock, request, requests, refresh>>
      /\ run[w] = NoRun /\ refresh[w].stage = "none"
      /\ \A v \in Workers : v # w => run'[v] = run[v]
      /\ \/ run' = run
         \/ run'[w].manual = FALSE /\ run'[w].locked = TRUE
  BY <1>1, PassJobChange
<1>3. ASSUME NEW v \in Workers PROVE UpToDate(v)'
  <2>1. CASE run'[v] = run[v]
    <3>1. run'[v] = NoRun \/ run'[v].locked = TRUE
      BY <2>1 DEF IInv, UpToDate
    <3> QED
      BY <1>2, <2>1, <3>1, UpToDateStays
  <2>2. CASE v = w /\ run'[w].manual = FALSE /\ run'[w].locked = TRUE
    <3>1. UpToDate(v) /\ refresh'[v].stage = "none"
      BY <1>2, <2>2 DEF IInv
    <3> QED
      BY <1>2, <2>2, <3>1, UpToDateKept
  <2> QED
    BY <1>2, <2>1, <2>2
<1>4. run[w].manual = FALSE /\ \A v \in Workers : run[v].manual \in BOOLEAN
  BY <1>1, <1>2 DEF NoRun, BInv, RunKnown
<1> QED
  BY <1>1, <1>2, <1>3, <1>4, QuietStep

\* A worker that runs nothing leaves the refresh.
LEMMA LeaveStep ==
  ASSUME IInv, BInv', NEW w \in Workers, UNCHANGED <<request, requests>>,
         run'[w] = NoRun, refresh'[w].stage = "none",
         \A v \in Workers : v # w => refresh'[v] = refresh[v] /\ run'[v] = run[v]
  PROVE  IInv' /\ ReportsKept
<1>1. ASSUME NEW v \in Workers PROVE UpToDate(v)'
  <2>1. CASE v = w
    <3>1. UpToDate(v) /\ run'[v].manual = FALSE
      BY <2>1 DEF IInv, NoRun
    <3> QED
      BY <2>1, <3>1, UpToDateKept
  <2>2. CASE v # w
    <3>1. run'[v] = NoRun \/ run'[v].locked = TRUE
      BY <2>2 DEF IInv, UpToDate
    <3> QED
      BY <2>2, <3>1, UpToDateStays
  <2> QED
    BY <2>1, <2>2
<1>2. run'[w].manual = FALSE
  BY DEF NoRun
<1> QED
  BY <1>1, <1>2, QuietStep

LEMMA SourcesDoneStep ==
  ASSUME IInv, NEW w \in Workers, SourcesDone(w) PROVE IInv' /\ ReportsKept
<1>1. /\ UNCHANGED <<request, requests, run>> /\ run[w] = NoRun /\ run[w].manual = FALSE
      /\ refresh[w].stage # "none" /\ BInv /\ Shape /\ BInv' /\ UpToDate(w)
  <2>1. UNCHANGED <<request, requests, run>> /\ Idle(w) /\ refresh[w].stage = "sources"
    BY DEF SourcesDone
  <2>2. BInv /\ Shape /\ BInv' /\ UpToDate(w)
    BY SourcesDoneBasics DEF IInv, BInv
  <2> QED
    BY <2>1, <2>2 DEF Idle, NoRun
<1>2. CASE EndRefresh(w)
  <2>1. /\ refresh'[w].stage = "none"
        /\ \A v \in Workers : v # w => refresh'[v] = refresh[v]
    BY <1>1, <1>2, EndChange
  <2> QED
    BY <1>1, <2>1, LeaveStep
<1>3. CASE ~EndRefresh(w)
  <2>1. /\ refresh'[w].stage = "projections" /\ refresh'[w].position = 1
        /\ refresh'[w].rows = request.tasks /\ refresh'[w].of = refresh[w].of
        /\ refresh'[w].locked = refresh[w].locked
        /\ \A v \in Workers : v # w => refresh'[v] = refresh[v]
    BY <1>1, <1>3, Projecting
  <2>2. UpToDate(w)'
    BY <1>1, <2>1 DEF UpToDate
  <2>3. ASSUME NEW v \in Workers, v # w PROVE UpToDate(v)'
    <3>1. run'[v] = NoRun \/ run'[v].locked = TRUE
      BY <1>1, <2>3 DEF IInv, UpToDate
    <3> QED
      BY <1>1, <2>1, <2>3, <3>1, UpToDateStays
  <2>4. ASSUME NEW v \in Workers
        PROVE  /\ refresh'[v].stage = "none" \/ refresh[v].stage # "none"
               /\ \/ run'[v].manual = FALSE
                  \/ /\ run'[v].manual = run[v].manual /\ run'[v].job = run[v].job
                     /\ refresh'[v].stage = refresh[v].stage
               /\ UpToDate(v)'
    BY <1>1, <2>1, <2>2, <2>3
  <2> QED
    BY <1>1, <2>4, QuietStep
<1> QED
  BY <1>2, <1>3

LEMMA CrashStep == ASSUME IInv, NEW w \in Workers, Crash(w) PROVE IInv' /\ ReportsKept
<1>1. /\ UNCHANGED <<request, requests>> /\ Abandon(w) /\ run' = [run EXCEPT ![w] = NoRun]
      /\ BInv /\ Shape /\ BInv'
  BY CrashBasics DEF Crash, IInv, BInv
<1>2. /\ refresh'[w].stage = "none"
      /\ \A v \in Workers : v # w => refresh'[v] = refresh[v]
  BY <1>1, EndChange
<1>3. run'[w] = NoRun /\ \A v \in Workers : v # w => run'[v] = run[v]
  BY <1>1, RunOver
<1> QED
  BY <1>1, <1>2, <1>3, LeaveStep

-----------------------------------------------------------------------------
(* Requests begin, are taken up and close.                                 *)

\* A request that is made when nothing is left of what had lost its lock.
LEMMA EnqueueStep == ASSUME BInv, Enqueue, disturbed' = FALSE PROVE IInv' /\ ReportsKept
<1>1. UNCHANGED <<refresh, run>> /\ requests' = requests + 1 /\ BInv'
  BY EnqueueBasics DEF Enqueue
<1>2. /\ request'.status = "queued"
      /\ \A j \in Tasks : request'.tasks[j] = NoTask
  BY NewRequest
<1>3. ASSUME NEW v \in Workers
      PROVE  /\ refresh'[v].stage = "none" /\ run'[v].manual = FALSE
             /\ run'[v] = NoRun \/ run'[v].locked = TRUE
  <2>1. refresh[v] = NoRefresh /\ (run[v] = NoRun \/ run[v].locked)
    BY Zenon DEF Enqueue
  <2>2. refresh[v].stage = "none" /\ RunKnown(v)
    BY <2>1 DEF NoRefresh, BInv
  <2> QED
    BY <1>1, <2>1, <2>2 DEF RunKnown
<1>4. TasksFitStatus'
  BY <1>2 DEF TasksFitStatus, Active, NoTask
<1>5. OneServer' /\ ManualRuns'
  BY <1>3 DEF OneServer, ManualRuns
<1>6. ASSUME NEW v \in Workers PROVE UpToDate(v)'
  <2>1. Ahead(v)' = {}
    BY <1>3 DEF Ahead
  <2> QED
    BY <1>3, <2>1 DEF UpToDate
<1>7. ReportsKept
  BY <1>1 DEF ReportsKept, BInv, Shape
<1> QED
  BY <1>1, <1>4, <1>5, <1>6, <1>7 DEF IInv

LEMMA BeginRefreshStep ==
  ASSUME IInv, NEW w \in Workers, BeginRefresh(w) PROVE IInv' /\ ReportsKept
<1>1. BInv /\ Shape /\ BInv'
  BY BeginRefreshBasics DEF IInv, BInv
<1>2. /\ UNCHANGED <<requests, run>> /\ run[w] = NoRun
      /\ \A v \in Workers : ~refresh[v].locked
      /\ request'.status = "running"
      /\ request.status = "queued" \/ request' = request
      /\ refresh'[w].stage = "sources" /\ refresh'[w].of = requests
      /\ refresh'[w].rows = request'.tasks /\ refresh'[w].locked = TRUE
      /\ \A v \in Workers : v # w => refresh'[v] = refresh[v]
  BY <1>1, BegunRefresh
<1>3. ASSUME NEW v \in Workers
      PROVE  /\ refresh[v].stage = "none" /\ run'[v].manual = FALSE
             /\ run'[v] = NoRun \/ run'[v].locked = TRUE
  <2>1. UpToDate(v) /\ RunKnown(v)
    BY <1>1 DEF IInv, BInv
  <2>2. refresh[v].stage = "none"
    BY <1>2, <2>1 DEF UpToDate
  <2> QED
    BY <1>2, <2>1, <2>2 DEF UpToDate, RunKnown
<1>4. OneServer'
  <2>1. \A v \in Workers : v # w => refresh'[v].stage = "none"
    BY <1>2, <1>3
  <2> QED
    BY <1>2, <2>1 DEF OneServer
<1>5. ManualRuns'
  BY <1>3 DEF ManualRuns
<1>6. TasksFitStatus'
  BY <1>2 DEF TasksFitStatus, Active
<1>7. ReportsKept
  <2>1. CASE request.status = "queued"
    BY <2>1 DEF IInv, TasksFitStatus, ReportsKept, Terminal
  <2>2. CASE request' = request
    BY <2>2 DEF ReportsKept
  <2> QED
    BY <1>2, <2>1, <2>2
<1>8. ASSUME NEW v \in Workers PROVE UpToDate(v)'
  <2>1. CASE v = w
    BY <1>2, <1>3, <2>1 DEF UpToDate
  <2>2. CASE v # w
    <3>1. UpToDate(v) /\ refresh'[v].stage = "none"
      BY <1>2, <1>3, <2>2 DEF IInv
    <3> QED
      BY <1>2, <1>3, <3>1, UpToDateKept
  <2> QED
    BY <2>1, <2>2
<1> QED
  BY <1>1, <1>4, <1>5, <1>6, <1>7, <1>8 DEF IInv

LEMMA CompleteRequestStep ==
  ASSUME IInv, NEW w \in Workers, CompleteRequest(w) PROVE IInv' /\ ReportsKept
<1>1. BInv /\ Shape /\ BInv'
  BY CompleteRequestBasics DEF IInv, BInv
<1>2. /\ UNCHANGED <<requests, run>> /\ run[w] = NoRun /\ refresh[w].stage = "projections"
      /\ \A j \in Tasks : request'.tasks[j] = request.tasks[j]
      /\ refresh'[w].stage = "none"
      /\ \A v \in Workers : v # w => refresh'[v] = refresh[v]
      /\ \/ request' = request
         \/ \A j \in Tasks : ~Open(request.tasks[j])
  BY <1>1, Completed
<1>3. CASE request' = request
  BY <1>1, <1>2, <1>3, LeaveStep
<1>4. CASE request' # request
  <2>1. request'.status \in {"failed", "partial", "succeeded"}
    <3>1. request'.status = Final([j \in Tasks |-> request.tasks[j].state])
      BY <1>1, <1>4, Completed
    <3> QED
      BY <3>1 DEF Final
  <2>2. ASSUME NEW v \in Workers
        PROVE  /\ refresh'[v].stage = "none" /\ run'[v].manual = FALSE
               /\ run'[v] = NoRun \/ run'[v].locked = TRUE
    <3>1. RunKnown(v) /\ UpToDate(v)
      BY <1>1 DEF IInv, BInv
    <3>2. v # w => refresh[v].stage = "none"
      BY <1>2 DEF IInv, OneServer
    <3> QED
      BY <1>2, <3>1, <3>2 DEF RunKnown, UpToDate, NoRun
  <2>3. OneServer' /\ ManualRuns'
    BY <2>2 DEF OneServer, ManualRuns
  <2>4. TasksFitStatus' /\ ReportsKept
    BY <1>2, <1>4, <2>1 DEF TasksFitStatus, ReportsKept, Active, Open
  <2>5. ASSUME NEW v \in Workers PROVE UpToDate(v)'
    BY <1>2, <2>2, UpToDateKept DEF IInv
  <2> QED
    BY <1>1, <2>3, <2>4, <2>5 DEF IInv
<1> QED
  BY <1>3, <1>4

LEMMA InitStep == Init => IInv
<1> SUFFICES ASSUME Init PROVE IInv
  OBVIOUS
<1>1. /\ request.status = "none" /\ \A j \in Tasks : request.tasks[j] = NoTask
      /\ \A w \in Workers : refresh[w] = NoRefresh /\ run[w] = NoRun
  BY DEF Init, NoTasks
<1>2. \A w \in Workers : refresh[w].stage = "none" /\ run[w].manual = FALSE
  BY <1>1 DEF NoRefresh, NoRun
<1>3. OneServer /\ ManualRuns
  BY <1>2 DEF OneServer, ManualRuns
<1>4. TasksFitStatus
  BY <1>1 DEF TasksFitStatus, Open, NoTask
<1>5. \A w \in Workers : UpToDate(w)
  BY <1>1, <1>2 DEF UpToDate, Ahead
<1> QED
  BY <1>3, <1>4, <1>5, InitBasics DEF IInv

-----------------------------------------------------------------------------
(* The invariant, and what it says of the reports.                         *)

\* A request is no longer disturbed when the next one is made.
LEMMA Disturbances ==
  ASSUME disturbed \in BOOLEAN, [Next]_vars
  PROVE  /\ disturbed' \in BOOLEAN
         /\ disturbed' = FALSE =>
              \/ Enqueue
              \/ /\ disturbed = FALSE
                 /\ \/ UNCHANGED vars \/ Tick \/ Revoke
                    \/ \E w \in Workers : WorkerStep(w) \/ Crash(w)
<1>1. CASE UNCHANGED vars
  BY <1>1 DEF vars, faults
<1>2. CASE Tick \/ Revoke
  BY <1>2 DEF Tick, Revoke, faults
<1>3. CASE Enqueue
  BY <1>3, Zenon DEF Enqueue
<1>4. ASSUME NEW w \in Workers, WorkerStep(w) PROVE disturbed' = disturbed
  <2>1. CASE FinishRun(w)
    BY <2>1, FinishRunEffects, Zenon DEF faults
  <2>2. CASE ~FinishRun(w)
    BY <1>4, <2>2, Zenon DEF WorkerStep, StartPass, PassJob, BeginRefresh, SourceTask,
       SourcesDone, ProjectionTask, CompleteRequest, faults
  <2> QED
    BY <2>1, <2>2
<1>5. ASSUME NEW w \in Workers, Crash(w) PROVE disturbed' = disturbed
  BY <1>5 DEF Crash
<1>6. ASSUME NEW w \in Workers, LoseSession(w) PROVE disturbed' = TRUE
  BY <1>6 DEF LoseSession
<1> QED
  BY <1>1, <1>2, <1>3, <1>4, <1>5, <1>6, Zenon DEF Next

\* A step of an undisturbed request.
LEMMA WorkerKeeps ==
  ASSUME IInv, UNCHANGED vars \/ Tick \/ Revoke \/ \E w \in Workers : WorkerStep(w) \/ Crash(w)
  PROVE  IInv' /\ ReportsKept
<1>1. CASE UNCHANGED vars
  <2>1. BInv'
    BY <1>1, BasicsStep DEF IInv
  <2> QED
    BY <1>1, <2>1, UnchangedStep DEF vars
<1>2. CASE Tick
  BY <1>2, TickBasics, UnchangedStep DEF Tick, IInv
<1>3. ASSUME NEW w \in Workers, StartPass(w) PROVE IInv' /\ ReportsKept
  BY <1>3, StartPassBasics, UnchangedStep DEF StartPass, IInv
<1>4. ASSUME NEW w \in Workers, WorkerStep(w) PROVE IInv' /\ ReportsKept
  BY <1>3, <1>4, PassJobStep, BeginRefreshStep, SourceTaskStep, SourcesDoneStep,
     ProjectionTaskStep, CompleteRequestStep, FinishRunStep, Zenon DEF WorkerStep
<1> QED
  BY <1>1, <1>2, <1>4, RevokeStep, CrashStep, Zenon

DInv == disturbed \in BOOLEAN /\ BInv /\ (disturbed = FALSE => IInv)

\* Every step keeps the invariant, and unless the request is disturbed what its
\* tasks have reported.
LEMMA NextStep == DInv /\ [Next]_vars => DInv' /\ (disturbed = TRUE \/ ReportsKept)
<1> SUFFICES ASSUME DInv, [Next]_vars PROVE DInv' /\ (disturbed = TRUE \/ ReportsKept)
  OBVIOUS
<1>1. BInv /\ BInv' /\ disturbed \in BOOLEAN /\ disturbed' \in BOOLEAN
  BY BasicsStep, Disturbances DEF DInv
<1>2. ASSUME disturbed' = FALSE PROVE IInv'
  <2>1. CASE Enqueue
    BY <1>1, <1>2, <2>1, EnqueueStep
  <2>2. CASE ~Enqueue
    <3>1. disturbed = FALSE
      BY <1>1, <1>2, <2>2, Disturbances
    <3>2. UNCHANGED vars \/ Tick \/ Revoke \/ \E w \in Workers : WorkerStep(w) \/ Crash(w)
      BY <1>1, <1>2, <2>2, Disturbances
    <3> QED
      BY <3>1, <3>2, WorkerKeeps DEF DInv
  <2> QED
    BY <2>1, <2>2
<1>3. ASSUME disturbed = FALSE PROVE ReportsKept
  <2>1. CASE Enqueue
    <3>1. requests' = requests + 1
      BY <2>1 DEF Enqueue
    <3> QED
      BY <1>1, <3>1 DEF ReportsKept, BInv, Shape
  <2>2. CASE \E w \in Workers : LoseSession(w)
    BY <2>2 DEF LoseSession, ReportsKept
  <2>3. CASE UNCHANGED vars \/ Tick \/ Revoke \/ \E w \in Workers : WorkerStep(w) \/ Crash(w)
    BY <1>3, <2>3, WorkerKeeps DEF DInv
  <2> QED
    BY <2>1, <2>2, <2>3, Zenon DEF Next
<1> QED
  BY <1>1, <1>2, <1>3 DEF DInv

\* The invariant holds in every state.
LEMMA Invariant == Spec => []DInv
<1>1. Init => DInv
  BY InitStep, InitBasics DEF Init, DInv
<1> QED
  BY <1>1, NextStep, PTL DEF Spec

\* A closed request is settled: no task of it is open and no run still works
\* for it, whichever workers crashed while they served it, unless a session was
\* lost since it was made or something was left of an earlier loss.
THEOREM RequestsSettle == Spec => []ClosedMeansSettled
<1>1. ASSUME DInv PROVE ClosedMeansSettled
  <2>1. CASE disturbed = TRUE
    BY <2>1 DEF ClosedMeansSettled
  <2>2. CASE disturbed = FALSE
    <3>1. IInv
      BY <1>1, <2>2 DEF DInv
    <3>2. ASSUME request.status \notin Active, NEW w \in Workers PROVE ~run[w].manual
      <4>1. refresh[w].stage = "none" /\ RunKnown(w)
        BY <3>1, <3>2 DEF IInv, BInv, OneServer, Active
      <4> QED
        BY <4>1 DEF RunKnown
    <3>3. request.status \notin Active => \A j \in Tasks : ~Open(request.tasks[j])
      BY <3>1 DEF IInv, TasksFitStatus
    <3> QED
      BY <3>2, <3>3, Zenon DEF ClosedMeansSettled, Open
  <2> QED
    BY <1>1, <2>1, <2>2 DEF DInv
<1> QED
  BY <1>1, Invariant, PTL

\* What a task of the request has reported stays as long as the request is the
\* current one, unless a session was lost: a resumed refresh repeats no task and
\* no late run overwrites it.
THEOREM ReportsStay == Spec => FinishedTaskStable
<1> DEFINE Kept1 == \A j \in Tasks :
                      ~disturbed /\ request.tasks[j].state \in Terminal /\ requests' = requests
                        => request'.tasks[j] = request.tasks[j]
<1>1. DInv /\ [Next]_vars => [Kept1]_vars
  BY NextStep DEF ReportsKept
<1> QED
  BY <1>1, Invariant, PTL DEF Spec, FinishedTaskStable

-----------------------------------------------------------------------------
(* What the locks keep: the times of a request.                            *)

\* A run that starts at b starts after everything that a run of the k-th
\* projection builds on: the sources, and the projections that were run before.
Respects(T, b, k) ==
  /\ \A j \in Inputs : ~Open(T[j]) /\ T[j].finishedAt <= b
  /\ \A i \in Ordinals : i < k =>
       /\ ~Open(T[ProjectionOrder[i]])
       /\ T[ProjectionOrder[i]].startedAt # NoTime => T[ProjectionOrder[i]].finishedAt <= b

\* A task is credited with a run when it ends, and with one that did not start
\* before the request was made, at a.
GoodTask(t, a, now) ==
  /\ {t.notBefore, t.finishedAt, t.startedAt} \subseteq NoTime .. now
  /\ t.startedAt # NoTime => t.state \in Terminal /\ a <= t.startedAt
  /\ t.state \in {"succeeded", "partial"} => t.startedAt # NoTime
  /\ t.state # "none" => a <= t.notBefore

GoodTasks(T, a, now) == \A j \in Tasks : GoodTask(T[j], a, now)

\* The credited projections respect the order.
InOrder(T) ==
  \A k \in Ordinals :
    T[ProjectionOrder[k]].startedAt # NoTime =>
      Respects(T, T[ProjectionOrder[k]].startedAt, k)

\* What a successful end says of the tasks.
Delivered(r) ==
  r.status \in {"succeeded", "partial"} =>
    /\ \E j \in Sources : r.tasks[j].state \in {"succeeded", "partial"}
    /\ r.tasks[Condition].state \in {"succeeded", "partial"}
    /\ r.status = "succeeded" => \A j \in Tasks : r.tasks[j].state \in {"none", "succeeded"}

GoodRequest(r, now) ==
  /\ r.requestedAt \in NoTime .. now
  /\ GoodTasks(r.tasks, r.requestedAt, now)
  /\ InOrder(r.tasks)
  /\ Delivered(r)

\* The boundary that a server carries from projection to projection.
GoodServer(f, r, now) ==
  /\ f.readyAt \in NoTime .. now
  /\ f.stage = "projections" =>
       r.requestedAt <= f.readyAt /\ Respects(r.tasks, f.readyAt, f.position)

\* A run for the request started after the boundary.
GoodRun(x, f, r, now) ==
  /\ x.startedAt \in NoTime .. now
  /\ x.manual = TRUE =>
       /\ x.startedAt # NoTime /\ r.requestedAt <= x.startedAt
       /\ x.job \in Projections =>
            /\ f.stage = "projections" /\ f.position \in Ordinals
            /\ x.job = ProjectionOrder[f.position]
            /\ f.readyAt <= x.startedAt

WInv ==
  /\ clock \in Nat
  /\ GoodRows(row, clock)
  /\ GoodRequest(request, clock)
  /\ \A w \in Workers : /\ GoodServer(refresh[w], request, clock)
                         /\ GoodRun(run[w], refresh[w], request, clock)

\* A step of an open task disturbs nothing that was respected.
LEMMA RespectsKept ==
  ASSUME NEW T, NEW U, NEW j \in Tasks, Open(T[j]),
         \A i \in Tasks : i # j => U[i] = T[i],
         NEW b, NEW k, Respects(T, b, k)
  PROVE  Respects(U, b, k)
<1>1. ASSUME NEW i \in Inputs PROVE U[i] = T[i]
  BY OrderFacts DEF Respects
<1>2. ASSUME NEW i \in Ordinals, i < k PROVE U[ProjectionOrder[i]] = T[ProjectionOrder[i]]
  BY <1>2, OrderFacts DEF Respects
<1> QED
  BY <1>1, <1>2 DEF Respects

LEMMA TasksKept ==
  ASSUME NEW T, NEW U, NEW a, NEW now, NEW j \in Tasks,
         \A i \in Tasks : i # j => U[i] = T[i],
         GoodTasks(T, a, now), GoodTask(U[j], a, now)
  PROVE  GoodTasks(U, a, now)
  BY DEF GoodTasks

LEMMA InOrderKept ==
  ASSUME NEW T, NEW U, NEW a, NEW now, NEW j \in Tasks, Open(T[j]),
         \A i \in Tasks : i # j => U[i] = T[i],
         GoodTasks(T, a, now), InOrder(T),
         \A k \in Ordinals : (j = ProjectionOrder[k] /\ U[j].startedAt # NoTime)
                              => Respects(T, U[j].startedAt, k)
  PROVE  InOrder(U)
<1> SUFFICES ASSUME NEW k \in Ordinals, U[ProjectionOrder[k]].startedAt # NoTime
             PROVE  Respects(U, U[ProjectionOrder[k]].startedAt, k)
  BY DEF InOrder
<1>1. ProjectionOrder[k] \in Tasks
  BY OrderFacts
<1>2. Respects(T, U[ProjectionOrder[k]].startedAt, k)
  <2>1. CASE ProjectionOrder[k] = j
    BY <2>1
  <2>2. CASE ProjectionOrder[k] # j
    BY <1>1, <2>2 DEF InOrder
  <2> QED
    BY <2>1, <2>2
<1> DEFINE b == U[ProjectionOrder[k]].startedAt
<1> HIDE DEF b
<1>3. Respects(T, b, k) => Respects(U, b, k)
  BY RespectsKept
<1> QED
  BY <1>2, <1>3 DEF b

\* Behind a projection that has ended, the boundary is not before its end.
LEMMA RespectsNext ==
  ASSUME NEW T, NEW a, NEW now \in Nat, GoodTasks(T, a, now),
         NEW b \in Int, NEW c \in Int, b <= c,
         NEW p \in Ordinals, Respects(T, b, p), ~Open(T[ProjectionOrder[p]]),
         T[ProjectionOrder[p]].startedAt # NoTime => T[ProjectionOrder[p]].finishedAt <= c
  PROVE  Respects(T, c, p + 1)
<1>1. \A j \in Tasks : T[j].finishedAt \in Int
  BY DEF GoodTasks, GoodTask, NoTime
<1>2. ASSUME NEW j \in Inputs PROVE ~Open(T[j]) /\ T[j].finishedAt <= c
  BY <1>1, OrderFacts DEF Respects
<1>3. ASSUME NEW i \in Ordinals, i < p + 1
      PROVE  /\ ~Open(T[ProjectionOrder[i]])
             /\ T[ProjectionOrder[i]].startedAt # NoTime => T[ProjectionOrder[i]].finishedAt <= c
  <2>1. i = p \/ i < p
    BY <1>3, OrderFacts
  <2> QED
    BY <1>1, <2>1, OrderFacts DEF Respects
<1> QED
  BY <1>2, <1>3 DEF Respects

\* A later instant respects as much.
LEMMA RespectsLater ==
  ASSUME NEW T, NEW a, NEW now \in Nat, GoodTasks(T, a, now),
         NEW b \in Int, NEW c \in Int, b <= c, NEW k, Respects(T, b, k)
  PROVE  Respects(T, c, k)
<1>1. \A j \in Tasks : T[j].finishedAt \in Int
  BY DEF GoodTasks, GoodTask, NoTime
<1>2. ASSUME NEW j \in Inputs PROVE ~Open(T[j]) /\ T[j].finishedAt <= c
  BY <1>1, OrderFacts DEF Respects
<1>3. ASSUME NEW i \in Ordinals, i < k
      PROVE  /\ ~Open(T[ProjectionOrder[i]])
             /\ T[ProjectionOrder[i]].startedAt # NoTime => T[ProjectionOrder[i]].finishedAt <= c
  BY <1>1, <1>3, OrderFacts DEF Respects
<1> QED
  BY <1>2, <1>3 DEF Respects

\* Task j of the running request changes, no other, and nothing that was
\* respected is disturbed.
RequestMoves(j) ==
  /\ GoodRequest(request', clock)
  /\ request'.requestedAt = request.requestedAt
  /\ \A i \in Tasks : i # j => request'.tasks[i] = request.tasks[i]
  /\ \A b, k : Respects(request.tasks, b, k) => Respects(request'.tasks, b, k)

LEMMA TaskMoves ==
  ASSUME IInv, WInv, NEW w \in Workers, Current(w), NEW j \in Tasks, Open(request.tasks[j]),
         request.status = "running",
         NEW t, ShapedTask(t), FinishTask(w, j, t), GoodTask(t, request.requestedAt, clock),
         \A k \in Ordinals : (j = ProjectionOrder[k] /\ t.startedAt # NoTime)
                              => Respects(request.tasks, t.startedAt, k)
  PROVE  RequestMoves(j) /\ request'.tasks[j] = t
<1> DEFINE T == request.tasks
           U == request'.tasks
<1>1. /\ request'.status = "running" /\ request'.requestedAt = request.requestedAt
      /\ U[j] = t /\ \A i \in Tasks : i # j => U[i] = T[i]
  <2>1. Shape
    BY DEF IInv, BInv
  <2>2. /\ request'.status = request.status /\ request'.requestedAt = request.requestedAt
        /\ request'.tasks[j] = t
        /\ \A i \in Tasks : i # j => request'.tasks[i] = request.tasks[i]
    BY <2>1, FinishTaskChange
  <2> QED
    BY <2>2
<1>2. GoodTasks(T, request.requestedAt, clock) /\ InOrder(T)
      /\ request.requestedAt \in NoTime .. clock
  BY DEF WInv, GoodRequest
<1> HIDE DEF T, U
<1>3. Open(T[j])
  BY DEF T
<1>4. GoodTasks(U, request.requestedAt, clock)
  BY <1>1, <1>2, TasksKept
<1>5. InOrder(U)
  <2>1. \A k \in Ordinals : (j = ProjectionOrder[k] /\ U[j].startedAt # NoTime)
                            => Respects(T, U[j].startedAt, k)
    BY <1>1 DEF T
  <2> QED
    BY <1>1, <1>2, <1>3, <2>1, InOrderKept
<1>6. ASSUME NEW b, NEW k, Respects(T, b, k) PROVE Respects(U, b, k)
  BY <1>1, <1>3, <1>6, RespectsKept
<1>7. Delivered(request')
  BY <1>1 DEF Delivered
<1>8. GoodRequest(request', clock)
  BY <1>1, <1>2, <1>4, <1>5, <1>7 DEF GoodRequest, U
<1> QED
  BY <1>1, <1>6, <1>8 DEF RequestMoves, T, U

\* The attempt of worker w at task j: the rows stay rows, and a run that begins
\* for the request begins now.
Served(w, j, boundary) ==
  /\ RequestMoves(j)
  /\ GoodRows(row', clock)
  /\ \A v \in Workers : v # w => run'[v] = run[v]
  /\ request'.tasks[j].startedAt # NoTime => boundary <= request'.tasks[j].startedAt

\* A task that has not been credited is as good with a later boundary.
LEMMA OpenTask ==
  ASSUME WInv, NEW j \in Tasks, Open(request.tasks[j]),
         NEW boundary \in NoTime .. clock
  PROVE  /\ request.tasks[j].startedAt = NoTime
         /\ request.tasks[j].finishedAt \in NoTime .. clock
         /\ request.tasks[j].notBefore \in NoTime .. clock
         /\ Max({request.tasks[j].notBefore, boundary}) \in NoTime .. clock
         /\ request.requestedAt <= request.tasks[j].notBefore
         /\ request.requestedAt <= Max({request.tasks[j].notBefore, boundary})
         /\ request.requestedAt \in NoTime .. clock
<1> DEFINE u == request.tasks[j]
<1>1. GoodTask(u, request.requestedAt, clock) /\ clock \in Nat
      /\ request.requestedAt \in NoTime .. clock
  BY DEF WInv, GoodRequest, GoodTasks
<1>2. Open(u)
  OBVIOUS
<1> HIDE DEF u
<1>3. u.startedAt = NoTime /\ request.requestedAt <= u.notBefore
  BY <1>1, <1>2 DEF GoodTask, Open, Terminal
<1>4. u.notBefore \in NoTime .. clock /\ u.finishedAt \in NoTime .. clock
  BY <1>1 DEF GoodTask
<1>5. u.notBefore \in Int /\ boundary \in Int /\ request.requestedAt \in Int
  BY <1>1, <1>4 DEF NoTime
<1>6. Max({u.notBefore, boundary}) = IF u.notBefore >= boundary THEN u.notBefore ELSE boundary
  BY <1>5, MaxOfPair
<1>7. /\ Max({u.notBefore, boundary}) \in NoTime .. clock
      /\ request.requestedAt <= Max({u.notBefore, boundary})
  BY <1>3, <1>4, <1>5, <1>6
<1> QED
  BY <1>1, <1>3, <1>4, <1>7 DEF u

LEMMA AttemptServed ==
  ASSUME IInv, WInv, NEW w \in Workers, Current(w), NEW j \in Jobs, Open(request.tasks[j]),
         request.status = "running",
         NEW boundary \in NoTime .. clock, request.requestedAt <= boundary,
         \A k \in Ordinals : j = ProjectionOrder[k] => Respects(request.tasks, boundary, k),
         \/ Unavailable(w, j)
         \/ Reuse(w, j, boundary)
         \/ Refuse(w, j, boundary)
         \/ RunNow(w, j, boundary)
         \/ Busy(w, j, boundary)
  PROVE  /\ Served(w, j, boundary)
         /\ ~Busy(w, j, boundary) /\ ~RunNow(w, j, boundary) =>
              ~Open(request'.tasks[j]) /\ run' = run
         /\ Unavailable(w, j) => request'.tasks[j].startedAt = NoTime
         /\ request'.tasks[j].finishedAt \in NoTime .. clock
         /\ \/ run' = run
            \/ /\ RunNow(w, j, boundary)
               /\ run'[w].manual = TRUE /\ run'[w].job = j /\ run'[w].startedAt = clock
<1> DEFINE u == request.tasks[j]
           v == Raised(j, boundary)
           r == Synchronized(w, j)
           a == request.requestedAt
           m == Max({u.notBefore, boundary})
<1>j. j \in Tasks
  BY JobsAreTasks
<1>s. ShapedTask(u)
  BY <1>j, RaisedShape DEF IInv, BInv
<1>o. /\ u.startedAt = NoTime /\ u.finishedAt \in NoTime .. clock
      /\ u.notBefore \in NoTime .. clock /\ m \in NoTime .. clock
      /\ a <= u.notBefore /\ a <= m /\ a \in NoTime .. clock
  BY <1>j, OpenTask
<1>b. BInv
  BY DEF IInv
<1>c. clock \in Nat /\ GoodRows(row, clock) /\ GoodRow(r, clock)
  BY <1>b, SynchronizedRow DEF WInv
<1>u. Open(u)
  OBVIOUS
<1>e. v = [u EXCEPT !.notBefore = m]
  BY DEF Raised
<1> HIDE DEF u, m, a, v, r
<1>v. v = [state |-> u.state, notBefore |-> m, finishedAt |-> u.finishedAt,
           startedAt |-> NoTime]
  BY <1>e, <1>s, <1>o, TaskValues
<1>w. ShapedTask(v) /\ GoodTask(v, a, clock) /\ v.startedAt = NoTime
      /\ v.finishedAt \in NoTime .. clock /\ v.state = u.state
  <2>1. ShapedTask(v)
    BY <1>v DEF ShapedTask
  <2> QED
    BY <2>1, <1>v, <1>o, <1>u, <1>c DEF GoodTask, Open, NoTime
<1>1. CASE Unavailable(w, j)
  <2> DEFINE t == [state |-> "failed", notBefore |-> u.notBefore, finishedAt |-> clock,
                   startedAt |-> NoTime]
  <2>1. FinishTask(w, j, t) /\ run' = run /\ row' = row
    <3>1. FinishTask(w, j, [u EXCEPT !.state = "failed", !.finishedAt = clock])
          /\ run' = run /\ row' = row
      BY <1>1 DEF Unavailable, u
    <3>2. [u EXCEPT !.state = "failed", !.finishedAt = clock] = t
      BY <1>s, <1>o, TaskValues
    <3> HIDE DEF t
    <3> QED
      BY <3>1, <3>2
  <2>2. ShapedTask(t) /\ GoodTask(t, a, clock) /\ t.startedAt = NoTime
        /\ t.finishedAt = clock /\ ~Open(t)
    BY <1>o, <1>c DEF ShapedTask, GoodTask, Terminal, Open, NoTime
  <2> HIDE DEF t
  <2>3. RequestMoves(j) /\ request'.tasks[j] = t
    BY <1>j, <1>u, <2>1, <2>2, TaskMoves DEF u, a
  <2>4. ~RunNow(w, j, boundary) /\ ~Busy(w, j, boundary)
    BY <1>1 DEF Unavailable, RunNow, Busy, Free
  <2> QED
    BY <1>c, <2>1, <2>2, <2>3, <2>4 DEF Served, NoTime
<1>2. CASE Reuse(w, j, boundary)
  <2> DEFINE t == [state |-> r.state, notBefore |-> m, finishedAt |-> r.finishedAt,
                   startedAt |-> r.startedAt]
  <2>1. /\ FinishTask(w, j, t) /\ run' = run /\ row' = [row EXCEPT ![j] = r]
        /\ Reusable(r, boundary) /\ Free(w, j)
    <3>1. /\ FinishTask(w, j, [v EXCEPT !.state = r.state, !.finishedAt = r.finishedAt,
                                     !.startedAt = r.startedAt])
          /\ run' = run /\ row' = [row EXCEPT ![j] = r]
          /\ Reusable(r, boundary) /\ Free(w, j)
      BY <1>2 DEF Reuse, r, v
    <3>2. CreditedTask(v, r.state, r.finishedAt, r.startedAt) =
          [state |-> r.state, notBefore |-> v.notBefore, finishedAt |-> r.finishedAt,
           startedAt |-> r.startedAt]
      BY <1>w, CreditedValue
    <3>3. v.notBefore = m
      BY <1>v
    <3> QED
      BY <3>1, <3>2, <3>3, Zenon DEF CreditedTask
  <2>2. /\ r.startedAt \in NoTime .. clock /\ r.finishedAt \in NoTime .. clock
        /\ r.state \in Terminal /\ boundary <= r.startedAt /\ r.startedAt # NoTime
    BY <1>c, <2>1 DEF GoodRow, Reusable, NoTime
  <2>3. a <= r.startedAt
    BY <1>c, <1>o, <2>2 DEF a, NoTime
  <2>4. ShapedTask(t) /\ GoodTask(t, a, clock) /\ ~Open(t)
    BY <1>o, <1>c, <2>2, <2>3 DEF ShapedTask, GoodTask, Terminal, Open, NoTime
  <2>5. ASSUME NEW k \in Ordinals, j = ProjectionOrder[k]
        PROVE  Respects(request.tasks, t.startedAt, k)
    <3>1. Respects(request.tasks, boundary, k) /\ t.startedAt = r.startedAt
      BY <2>5
    <3>2. GoodTasks(request.tasks, a, clock)
      BY DEF WInv, GoodRequest, a
    <3>3. r.startedAt \in Int /\ boundary \in Int
      BY <1>c, <2>2 DEF NoTime
    <3> HIDE DEF t
    <3> QED
      BY <1>c, <2>2, <3>1, <3>2, <3>3, RespectsLater
  <2>6. t.startedAt = r.startedAt /\ t.finishedAt = r.finishedAt
    OBVIOUS
  <2> HIDE DEF t
  <2>7. RequestMoves(j) /\ request'.tasks[j] = t
    BY <1>j, <1>u, <2>1, <2>4, <2>5, TaskMoves DEF u, a
  <2>8. GoodRows(row', clock)
    BY <1>b, <1>c, <2>1, RowsChange
  <2>9. ~RunNow(w, j, boundary) /\ ~Busy(w, j, boundary) /\ ~Unavailable(w, j)
    BY <2>1 DEF Unavailable, RunNow, Busy, Free, r
  <2> QED
    BY <2>1, <2>2, <2>4, <2>6, <2>7, <2>8, <2>9 DEF Served
<1>3. CASE Refuse(w, j, boundary)
  <2> DEFINE t == [state |-> "failed", notBefore |-> m, finishedAt |-> clock,
                   startedAt |-> NoTime]
  <2>1. /\ FinishTask(w, j, t) /\ run' = run /\ row' = [row EXCEPT ![j] = r]
        /\ BackingOff(r) /\ Free(w, j)
    <3>1. /\ FinishTask(w, j, [v EXCEPT !.state = "failed", !.finishedAt = clock])
          /\ run' = run /\ row' = [row EXCEPT ![j] = r]
          /\ BackingOff(r) /\ Free(w, j)
      BY <1>3 DEF Refuse, r, v
    <3>2. [v EXCEPT !.state = "failed", !.finishedAt = clock] =
          [state |-> "failed", notBefore |-> v.notBefore, finishedAt |-> clock,
           startedAt |-> v.startedAt]
      BY <1>w, TaskValues
    <3>3. v.notBefore = m /\ v.startedAt = NoTime
      BY <1>v
    <3> QED
      BY <3>1, <3>2, <3>3, Zenon
  <2>2. ShapedTask(t) /\ GoodTask(t, a, clock) /\ t.startedAt = NoTime
        /\ t.finishedAt = clock /\ ~Open(t)
    BY <1>o, <1>c DEF ShapedTask, GoodTask, Terminal, Open, NoTime
  <2> HIDE DEF t
  <2>3. RequestMoves(j) /\ request'.tasks[j] = t
    BY <1>j, <1>u, <2>1, <2>2, TaskMoves DEF u, a
  <2>4. GoodRows(row', clock)
    BY <1>b, <1>c, <2>1, RowsChange
  <2>5. ~RunNow(w, j, boundary) /\ ~Busy(w, j, boundary) /\ ~Unavailable(w, j)
    BY <2>1 DEF Unavailable, RunNow, Busy, Free, r
  <2> QED
    BY <1>c, <2>1, <2>2, <2>3, <2>4, <2>5 DEF Served, NoTime
<1>4. CASE Busy(w, j, boundary)
  <2>1. FinishTask(w, j, v) /\ run' = run /\ row' = [row EXCEPT ![j] = r]
        /\ j \in Enabled(w) /\ ~Free(w, j)
    BY <1>4 DEF Busy, v, r
  <2>2. RequestMoves(j) /\ request'.tasks[j] = v
    BY <1>j, <1>u, <1>w, <2>1, TaskMoves DEF u, a
  <2>3. GoodRows(row', clock)
    BY <1>b, <1>c, <2>1, RowsChange
  <2>4. ~Unavailable(w, j)
    BY <2>1 DEF Unavailable
  <2> QED
    BY <1>4, <1>w, <2>1, <2>2, <2>3, <2>4 DEF Served
<1>5. CASE RunNow(w, j, boundary)
  <2> DEFINE t == [state |-> "running", notBefore |-> m, finishedAt |-> u.finishedAt,
                   startedAt |-> NoTime]
  <2>1. FinishTask(w, j, t) /\ Begin(w, j, r, TRUE) /\ j \in Enabled(w)
    <3>1. FinishTask(w, j, [v EXCEPT !.state = "running"]) /\ Begin(w, j, r, TRUE)
          /\ j \in Enabled(w)
      BY <1>5 DEF RunNow, Free, r, v
    <3>2. [v EXCEPT !.state = "running"] = t
      BY <1>v
    <3> QED
      BY <3>1, <3>2, Zenon
  <2>2. ShapedTask(t) /\ GoodTask(t, a, clock) /\ t.startedAt = NoTime
        /\ t.finishedAt \in NoTime .. clock
    BY <1>o, <1>c DEF ShapedTask, GoodTask, Terminal, NoTime
  <2> HIDE DEF t
  <2>3. RequestMoves(j) /\ request'.tasks[j] = t
    BY <1>j, <1>u, <2>1, <2>2, TaskMoves DEF u, a
  <2>4. /\ GoodRows(row', clock)
        /\ run'[w].startedAt = clock /\ run'[w].job = j /\ run'[w].manual = TRUE
        /\ \A x \in Workers : x # w => run'[x] = run[x]
    BY <1>b, <1>c, <2>1, BeginChange
  <2>5. ~Unavailable(w, j)
    BY <2>1 DEF Unavailable
  <2> QED
    BY <1>5, <2>2, <2>3, <2>4, <2>5 DEF Served
<1> QED
  BY <1>1, <1>2, <1>3, <1>4, <1>5

\* Workers that do not serve the request are not concerned by what becomes of it.
LEMMA OthersKept ==
  ASSUME IInv, WInv, NEW w \in Workers, refresh[w].stage # "none",
         \A v \in Workers : v # w => refresh'[v] = refresh[v] /\ run'[v] = run[v]
  PROVE  \A v \in Workers : v # w =>
           /\ GoodServer(refresh'[v], request', clock)
           /\ GoodRun(run'[v], refresh'[v], request', clock)
<1> SUFFICES ASSUME NEW v \in Workers, v # w
             PROVE  /\ GoodServer(refresh'[v], request', clock)
                    /\ GoodRun(run'[v], refresh'[v], request', clock)
  OBVIOUS
<1>1. refresh[v].stage = "none" /\ run[v].manual # TRUE
  BY DEF IInv, OneServer, ManualRuns
<1>2. GoodServer(refresh[v], request, clock) /\ GoodRun(run[v], refresh[v], request, clock)
  BY DEF WInv
<1> QED
  BY <1>1, <1>2 DEF GoodServer, GoodRun

LEMMA ServedStep ==
  ASSUME IInv, WInv, NEW w \in Workers, refresh[w].stage # "none", clock' = clock,
         \A v \in Workers : v # w => refresh'[v] = refresh[v] /\ run'[v] = run[v],
         GoodRows(row', clock), GoodRequest(request', clock),
         GoodServer(refresh'[w], request', clock),
         GoodRun(run'[w], refresh'[w], request', clock)
  PROVE  WInv'
<1>1. \A v \in Workers : v # w =>
           /\ GoodServer(refresh'[v], request', clock)
           /\ GoodRun(run'[v], refresh'[v], request', clock)
  BY OthersKept
<1>2. \A v \in Workers : /\ GoodServer(refresh'[v], request', clock)
                         /\ GoodRun(run'[v], refresh'[v], request', clock)
  BY <1>1
<1> HIDE <1>1
<1> QED
  BY <1>2 DEF WInv

\* The server runs nothing: nothing is said of a run.
LEMMA IdleRun ==
  ASSUME NEW x, x = NoRun, NEW f, NEW r, NEW now \in Nat
  PROVE  GoodRun(x, f, r, now)
  BY DEF NoRun, GoodRun, NoTime

LEMMA SourceTaskTimes ==
  ASSUME IInv, WInv, NEW w \in Workers, SourceTask(w) PROVE WInv'
<1> DEFINE j == SourceOrder[refresh[w].position]
           task == request.tasks[j]
<1>1. /\ run[w] = NoRun /\ refresh[w].stage = "sources" /\ clock' = clock
      /\ refresh[w].position <= Len(SourceOrder) /\ Next1(w) /\ Current(w)
      /\ \/ request' = request /\ row' = row /\ run' = run
         \/ /\ Open(task)
            /\ \/ Unavailable(w, j)
               \/ Reuse(w, j, task.notBefore)
               \/ Refuse(w, j, task.notBefore)
               \/ RunNow(w, j, task.notBefore)
               \/ Busy(w, j, task.notBefore)
  BY SourceTaskFacts, Zenon DEF Idle
<1>2. j \in Sources
  BY <1>1, WorkerAssumption DEF IInv, BInv, Positions, Sources, WorkerAssumption
<1>3. Stands(w, refresh[w].position + 1, refresh[w].readyAt)
  BY <1>1, Next1Stands DEF IInv, BInv
<1> HIDE DEF j
<1>4. /\ clock \in Nat /\ GoodRows(row, clock) /\ GoodRequest(request, clock)
      /\ GoodServer(refresh[w], request, clock)
  BY DEF WInv
<1>5. j \in Jobs /\ j \in Tasks /\ j \notin Projections /\ request.status = "running"
  BY <1>1, <1>2, OrderFacts DEF Inputs, IInv, OneServer
<1>6. refresh'[w].readyAt = refresh[w].readyAt /\ refresh'[w].stage = "sources"
  BY <1>1, <1>3 DEF Stands
<1>7. GoodServer(refresh'[w], request', clock)
  BY <1>4, <1>6 DEF GoodServer
<1>8. CASE request' = request /\ row' = row /\ run' = run
  <2>1. GoodRun(run'[w], refresh'[w], request', clock)
    BY <1>1, <1>4, <1>8, IdleRun
  <2> QED
    BY <1>1, <1>3, <1>4, <1>7, <1>8, <2>1, ServedStep DEF Stands
<1>9. CASE /\ Open(task)
           /\ \/ Unavailable(w, j)
              \/ Reuse(w, j, task.notBefore)
              \/ Refuse(w, j, task.notBefore)
              \/ RunNow(w, j, task.notBefore)
              \/ Busy(w, j, task.notBefore)
  <2>1. NoTime \in NoTime .. clock
    BY <1>4 DEF NoTime
  <2>2. task.notBefore \in NoTime .. clock /\ request.requestedAt <= task.notBefore
        /\ request.requestedAt \in NoTime .. clock
    BY <1>5, <1>9, <2>1, OpenTask
  <2> DEFINE b == task.notBefore
  <2>b. /\ Open(request.tasks[j]) /\ b \in NoTime .. clock /\ request.requestedAt <= b
        /\ \/ Unavailable(w, j)
           \/ Reuse(w, j, b)
           \/ Refuse(w, j, b)
           \/ RunNow(w, j, b)
           \/ Busy(w, j, b)
    BY <1>9, <2>2
  <2> HIDE DEF b, task
  <2>3. \A k \in Ordinals : j = ProjectionOrder[k] => Respects(request.tasks, b, k)
    BY <1>5, OrderFacts
  <2>4. /\ Served(w, j, b)
        /\ \/ run' = run
           \/ run'[w].manual = TRUE /\ run'[w].job = j /\ run'[w].startedAt = clock
    BY <1>1, <1>5, <2>b, <2>3, AttemptServed
  <2>5. GoodRun(run'[w], refresh'[w], request', clock)
    <3>1. CASE run' = run
      BY <1>1, <1>4, <3>1, IdleRun
    <3>2. CASE run'[w].manual = TRUE /\ run'[w].job = j /\ run'[w].startedAt = clock
      <4>1. request'.requestedAt <= clock
        BY <1>4, <2>2, <2>4 DEF Served, RequestMoves, NoTime
      <4> QED
        BY <1>4, <1>5, <3>2, <4>1 DEF GoodRun, NoTime
    <3> QED
      BY <2>4, <3>1, <3>2
  <2> QED
    BY <1>1, <1>3, <1>7, <2>4, <2>5, ServedStep DEF Stands, Served, RequestMoves
<1> QED
  BY <1>1, <1>8, <1>9, Zenon

\* Behind the p-th projection the server carries a boundary that respects it too.
LEMMA PassedProjection ==
  ASSUME NEW r, NEW now \in Nat, GoodTasks(r.tasks, r.requestedAt, now),
         r.requestedAt \in NoTime .. now,
         NEW b \in NoTime .. now, r.requestedAt <= b,
         NEW c \in NoTime .. now, b <= c,
         NEW p \in Ordinals, Respects(r.tasks, b, p), ~Open(r.tasks[ProjectionOrder[p]]),
         r.tasks[ProjectionOrder[p]].startedAt # NoTime
           => r.tasks[ProjectionOrder[p]].finishedAt <= c,
         NEW f, f.readyAt = c, f.position = p + 1
  PROVE  GoodServer(f, r, now)
<1> DEFINE T == r.tasks
           a == r.requestedAt
<1>1. GoodTasks(T, a, now) /\ Respects(T, b, p) /\ ~Open(T[ProjectionOrder[p]])
      /\ (T[ProjectionOrder[p]].startedAt # NoTime => T[ProjectionOrder[p]].finishedAt <= c)
  OBVIOUS
<1>2. b \in Int /\ c \in Int /\ a \in Int
  BY DEF NoTime
<1> HIDE DEF T
<1>3. Respects(T, c, p + 1)
  BY <1>1, <1>2, RespectsNext
<1>4. r.requestedAt <= c
  BY <1>2
<1> QED
  BY <1>3, <1>4 DEF GoodServer, T

\* The later of two written times, and what a server goes on with.
LEMMA LaterOf ==
  ASSUME NEW now \in Nat, NEW b \in NoTime .. now, NEW e \in NoTime .. now
  PROVE  Max({b, e}) \in NoTime .. now /\ b <= Max({b, e}) /\ e <= Max({b, e})
<1>1. b \in Int /\ e \in Int
  BY DEF NoTime
<1>2. Max({b, e}) = IF b >= e THEN b ELSE e
  BY <1>1, MaxOfPair
<1> QED
  BY <1>1, <1>2

LEMMA ProjectionTaskTimes ==
  ASSUME IInv, WInv, NEW w \in Workers, ProjectionTask(w) PROVE WInv'
<1> DEFINE p == refresh[w].position
           j == ProjectionOrder[p]
           b == refresh[w].readyAt
<1>1. /\ run[w] = NoRun /\ refresh[w].stage = "projections" /\ clock' = clock
      /\ p <= Len(ProjectionOrder) /\ Current(w)
      /\ \/ ~Open(request.tasks[j]) /\ After(w, request.tasks[j])
            /\ request' = request /\ row' = row /\ run' = run
         \/ /\ Open(request.tasks[j])
            /\ \/ Unavailable(w, j) /\ Next1(w)
               \/ Reuse(w, j, b) /\ After(w, request'.tasks[j])
               \/ Refuse(w, j, b) /\ After(w, request'.tasks[j])
               \/ RunNow(w, j, b) /\ refresh' = refresh
               \/ Busy(w, j, b) /\ EndRefresh(w)
  BY ProjectionTaskFacts, Zenon DEF ProjectionTaskNow, ProjectionTried, Idle
<1>2. p \in Ordinals
  BY <1>1, OrderFacts DEF IInv, BInv, Positions
<1>3. /\ j \in Projections /\ j \in Jobs /\ j \in Tasks
      /\ \A k \in Ordinals : j = ProjectionOrder[k] => k = p
      /\ request.status = "running" /\ Shape
  BY <1>1, <1>2, OrderFacts DEF IInv, BInv, OneServer
<1>4. /\ clock \in Nat /\ GoodRows(row, clock) /\ GoodRequest(request, clock)
      /\ b \in NoTime .. clock
      /\ request.requestedAt <= b /\ Respects(request.tasks, b, p)
  BY <1>1 DEF WInv, GoodServer
<1>5. GoodTasks(request.tasks, request.requestedAt, clock)
      /\ request.requestedAt \in NoTime .. clock
  BY <1>4 DEF GoodRequest
<1>d. j = ProjectionOrder[p] /\ b = refresh[w].readyAt /\ p = refresh[w].position
  OBVIOUS
<1> HIDE DEF p, j, b
<1>6. CASE ~Open(request.tasks[j]) /\ After(w, request.tasks[j])
           /\ request' = request /\ row' = row /\ run' = run
  <2> DEFINE e == request.tasks[j].finishedAt
             c == Max({b, e})
  <2>1. Stands(w, p + 1, c)
    BY <1>3, <1>6, <1>d, AfterStands
  <2>2. e \in NoTime .. clock
    BY <1>3, <1>5 DEF GoodTasks, GoodTask
  <2> HIDE DEF e
  <2>3. c \in NoTime .. clock /\ b <= c /\ e <= c
    BY <1>4, <2>2, LaterOf
  <2> HIDE DEF c
  <2>4. GoodServer(refresh'[w], request', clock)
    <3> DEFINE f == refresh'[w]
    <3>1. f.readyAt = c /\ f.position = p + 1
      BY <2>1 DEF Stands
    <3>2. request.tasks[ProjectionOrder[p]].startedAt # NoTime
            => request.tasks[ProjectionOrder[p]].finishedAt <= c
      BY <1>d, <2>3 DEF e
    <3>3. Respects(request.tasks, b, p) /\ ~Open(request.tasks[ProjectionOrder[p]])
      BY <1>4, <1>6, <1>d
    <3> HIDE DEF f
    <3>4. GoodServer(f, request, clock)
      BY <1>2, <1>4, <1>5, <2>3, <3>1, <3>2, <3>3, PassedProjection
    <3> QED
      BY <1>6, <3>4 DEF f
  <2>5. GoodRun(run'[w], refresh'[w], request', clock)
    BY <1>1, <1>4, <1>6, IdleRun
  <2> QED
    BY <1>1, <1>4, <1>6, <2>1, <2>4, <2>5, ServedStep DEF Stands
<1>7. CASE /\ Open(request.tasks[j])
           /\ \/ Unavailable(w, j) /\ Next1(w)
              \/ Reuse(w, j, b) /\ After(w, request'.tasks[j])
              \/ Refuse(w, j, b) /\ After(w, request'.tasks[j])
              \/ RunNow(w, j, b) /\ refresh' = refresh
              \/ Busy(w, j, b) /\ EndRefresh(w)
  <2>1. \A k \in Ordinals : j = ProjectionOrder[k] => Respects(request.tasks, b, k)
    BY <1>3, <1>4
  <2>2. /\ Served(w, j, b)
        /\ ~Busy(w, j, b) /\ ~RunNow(w, j, b) => ~Open(request'.tasks[j]) /\ run' = run
        /\ Unavailable(w, j) => request'.tasks[j].startedAt = NoTime
        /\ request'.tasks[j].finishedAt \in NoTime .. clock
        /\ \/ run' = run
           \/ /\ RunNow(w, j, b)
              /\ run'[w].manual = TRUE /\ run'[w].job = j /\ run'[w].startedAt = clock
    BY <1>1, <1>3, <1>4, <1>7, <2>1, AttemptServed
  <2>3. /\ GoodRequest(request', clock) /\ request'.requestedAt = request.requestedAt
        /\ Respects(request'.tasks, b, p)
        /\ GoodTasks(request'.tasks, request'.requestedAt, clock)
        /\ GoodRows(row', clock)
        /\ \A v \in Workers : v # w => run'[v] = run[v]
    BY <1>4, <2>2 DEF Served, RequestMoves, GoodRequest
  <2> DEFINE e == request'.tasks[j].finishedAt
             c == Max({b, e})
             f == refresh'[w]
  <2>4. CASE \/ Unavailable(w, j) /\ Next1(w)
             \/ (Reuse(w, j, b) \/ Refuse(w, j, b)) /\ After(w, request'.tasks[j])
    <3>1. ~Busy(w, j, b) /\ ~RunNow(w, j, b)
      BY <2>4 DEF Unavailable, Reuse, Refuse, Free, Busy, RunNow
    <3>2. ~Open(request'.tasks[j]) /\ run' = run
      BY <2>2, <3>1
    <3>3. e \in NoTime .. clock
      BY <2>2
    <3> HIDE DEF e
    <3>4. c \in NoTime .. clock /\ b <= c /\ e <= c
      BY <1>4, <3>3, LaterOf
    <3>5. Respects(request'.tasks, b, p) /\ ~Open(request'.tasks[ProjectionOrder[p]])
          /\ b \in Int
      BY <1>4, <1>d, <2>3, <3>2 DEF NoTime
    <3>6. PICK d \in {b, c} : /\ Stands(w, p + 1, d)
                              /\ request'.tasks[j].startedAt # NoTime => e <= d
      <4>1. CASE Unavailable(w, j) /\ Next1(w)
        BY <1>3, <1>d, <2>2, <4>1, Next1Stands
      <4>2. CASE (Reuse(w, j, b) \/ Refuse(w, j, b)) /\ After(w, request'.tasks[j])
        <5>1. Stands(w, p + 1, c)
          BY <1>3, <1>d, <4>2, AfterStands DEF e
        <5> QED
          BY <3>4, <5>1
      <4> QED
        BY <2>4, <4>1, <4>2
    <3> HIDE DEF c
    <3>7. d \in NoTime .. clock /\ b <= d
      BY <1>4, <3>4, <3>5
    <3>8. f.readyAt = d /\ f.position = p + 1
      BY <3>6 DEF Stands
    <3>9. request'.tasks[ProjectionOrder[p]].startedAt # NoTime
            => request'.tasks[ProjectionOrder[p]].finishedAt <= d
      BY <1>d, <3>6 DEF e
    <3>10. GoodServer(f, request', clock)
      <4> DEFINE q == request'
      <4>1. /\ GoodTasks(q.tasks, q.requestedAt, clock) /\ q.requestedAt \in NoTime .. clock
            /\ q.requestedAt <= b
            /\ Respects(q.tasks, b, p) /\ ~Open(q.tasks[ProjectionOrder[p]])
            /\ q.tasks[ProjectionOrder[p]].startedAt # NoTime
                 => q.tasks[ProjectionOrder[p]].finishedAt <= d
        BY <1>4, <1>5, <2>3, <3>5, <3>9
      <4> HIDE DEF q, f
      <4>2. GoodServer(f, q, clock)
        BY <1>2, <1>4, <3>7, <3>8, <4>1, PassedProjection
      <4> QED
        BY <4>2 DEF q
    <3>11. GoodRun(run'[w], f, request', clock)
      BY <1>1, <1>4, <3>2, IdleRun
    <3> QED
      BY <1>1, <2>3, <3>6, <3>10, <3>11, ServedStep DEF Stands
  <2>5. CASE RunNow(w, j, b) /\ refresh' = refresh
    <3>1. GoodServer(f, request', clock)
      BY <1>4, <1>d, <2>3, <2>5 DEF GoodServer
    <3>2. \/ run' = run
          \/ run'[w].manual = TRUE /\ run'[w].job = j /\ run'[w].startedAt = clock
      BY <2>2, Zenon
    <3>3. /\ clock \in NoTime .. clock /\ clock # NoTime /\ request'.requestedAt <= clock /\ b <= clock
          /\ f.stage = "projections" /\ f.position \in Ordinals
          /\ j = ProjectionOrder[f.position] /\ f.readyAt = b
      BY <1>1, <1>2, <1>4, <1>5, <1>d, <2>3, <2>5 DEF NoTime
    <3>4. GoodRun(run'[w], f, request', clock)
      <4>1. CASE run' = run
        BY <1>1, <1>4, <4>1, IdleRun
      <4>2. CASE run'[w].manual = TRUE /\ run'[w].job = j /\ run'[w].startedAt = clock
        BY <3>3, <4>2 DEF GoodRun
      <4> QED
        BY <3>2, <4>1, <4>2
    <3> QED
      BY <1>1, <2>3, <2>5, <3>1, <3>4, ServedStep
  <2>6. CASE Busy(w, j, b) /\ EndRefresh(w)
    <3>1. run' = run
      BY <2>6 DEF Busy
    <3>2. /\ f = NoRefresh /\ \A v \in Workers : v # w => refresh'[v] = refresh[v]
      BY <1>3, <2>6, EndChange
    <3>3. GoodServer(f, request', clock)
      BY <1>4, <3>2 DEF GoodServer, NoRefresh, NoTime
    <3>4. GoodRun(run'[w], f, request', clock)
      BY <1>1, <1>4, <3>1, IdleRun
    <3> QED
      BY <1>1, <2>3, <3>2, <3>3, <3>4, ServedStep
  <2> QED
    BY <1>7, <2>4, <2>5, <2>6
<1> QED
  BY <1>1, <1>6, <1>7, Zenon DEF j

LEMMA FinishRunTimes ==
  ASSUME IInv, WInv, NEW w \in Workers, FinishRun(w) PROVE WInv'
<1> DEFINE j == run[w].job
           s == run[w].startedAt
<1>1. PICK o, n, x :
        /\ run[w] # NoRun /\ o \in Terminal
        /\ row' = [row EXCEPT ![j].state = o, ![j].finishedAt = clock,
                              ![j].nextRun = n, ![j].failures = x]
        /\ run' = [run EXCEPT ![w] = NoRun]
        /\ \/ run[w].manual = FALSE /\ UNCHANGED request
           \/ /\ run[w].manual = TRUE /\ Current(w)
              /\ FinishTask(w, j, CreditedTask(request.tasks[j], o, clock, s))
        /\ \/ run[w].manual = TRUE /\ j \in Projections /\ After(w, request'.tasks[j])
           \/ ~(run[w].manual = TRUE /\ j \in Projections) /\ UNCHANGED <<refresh, pass>>
        /\ UNCHANGED <<clock, config, requests, revocations, faults>>
  BY FinishRunFacts, Zenon
<1>b. BInv
  BY DEF IInv
<1>2. GoodRows(row', clock)
  BY <1>b, <1>1, EndedRow
<1>3. run'[w] = NoRun /\ \A v \in Workers : v # w => run'[v] = run[v]
  BY <1>1, RunOver DEF IInv, BInv
<1>4. /\ clock \in Nat /\ GoodRequest(request, clock)
      /\ \A v \in Workers : /\ GoodServer(refresh[v], request, clock)
                            /\ GoodRun(run[v], refresh[v], request, clock)
  BY DEF WInv
<1>6. CASE run[w].manual = FALSE
  <2>1. request' = request /\ refresh' = refresh
    BY <1>1, <1>6
  <2>2. ASSUME NEW v \in Workers
        PROVE  /\ GoodServer(refresh'[v], request', clock)
               /\ GoodRun(run'[v], refresh'[v], request', clock)
    <3>1. CASE v = w
      BY <1>3, <1>4, <2>1, <3>1, IdleRun
    <3>2. CASE v # w
      BY <1>3, <1>4, <2>1, <3>2
    <3> QED
      BY <3>1, <3>2
  <2> QED
    BY <1>1, <1>2, <1>4, <2>1, <2>2 DEF WInv
<1>7. CASE run[w].manual = TRUE
  <2>1. /\ refresh[w].stage # "none" /\ j \in Jobs /\ j \in Tasks
        /\ request.tasks[j].state = "running" /\ request.status = "running" /\ Shape
    BY <1>7, JobsAreTasks DEF IInv, BInv, ManualRuns, OneServer
  <2>2. /\ s \in NoTime .. clock /\ s # NoTime /\ request.requestedAt <= s
        /\ j \in Projections =>
             /\ refresh[w].stage = "projections" /\ refresh[w].position \in Ordinals
             /\ j = ProjectionOrder[refresh[w].position]
             /\ refresh[w].readyAt <= s
    BY <1>4, <1>7 DEF GoodRun
  <2>3. /\ refresh[w].readyAt \in NoTime .. clock
        /\ refresh[w].stage = "projections" =>
             /\ request.requestedAt <= refresh[w].readyAt
             /\ Respects(request.tasks, refresh[w].readyAt, refresh[w].position)
    BY <1>4 DEF GoodServer
  <2>4. GoodTasks(request.tasks, request.requestedAt, clock)
        /\ request.requestedAt \in NoTime .. clock
    BY <1>4 DEF GoodRequest
  <2> DEFINE u == request.tasks[j]
             b == refresh[w].readyAt
             p == refresh[w].position
             t == [state |-> o, notBefore |-> u.notBefore, finishedAt |-> clock,
                   startedAt |-> s]
  <2>5. FinishTask(w, j, t)
    <3>1. FinishTask(w, j, CreditedTask(u, o, clock, s))
      BY <1>1, <1>7, Zenon
    <3>2. ShapedTask(u)
      BY <2>1, RaisedShape
    <3> HIDE DEF u, s
    <3>3. CreditedTask(u, o, clock, s) = t
      BY <3>2, CreditedValue
    <3> QED
      BY <3>1, <3>3, Zenon
  <2>6. GoodTask(u, request.requestedAt, clock) /\ u.state = "running"
    BY <2>1, <2>4 DEF GoodTasks
  <2>7. /\ u.notBefore \in NoTime .. clock /\ request.requestedAt <= u.notBefore
        /\ clock \in NoTime .. clock
    BY <1>4, <2>6 DEF GoodTask, NoTime
  <2> HIDE DEF u, s
  <2>8. ShapedTask(t) /\ ~Open(t)
    BY <1>1 DEF ShapedTask, Terminal, Open
  <2>9. GoodTask(t, request.requestedAt, clock)
    BY <1>1, <2>2, <2>7 DEF GoodTask
  <2>10. t.startedAt = s /\ t.finishedAt = clock
    OBVIOUS
  <2> HIDE DEF t, j
  <2>11. b \in Int /\ s \in Int
    BY <2>2, <2>3 DEF NoTime
  <2>12. \A k \in Ordinals : (j = ProjectionOrder[k] /\ t.startedAt # NoTime)
                             => Respects(request.tasks, t.startedAt, k)
    <3> SUFFICES ASSUME NEW k \in Ordinals, j = ProjectionOrder[k]
                 PROVE  Respects(request.tasks, s, k)
      BY <2>10
    <3>1. k = p /\ Respects(request.tasks, b, k) /\ b <= s
      BY <2>2, <2>3, OrderFacts
    <3> HIDE DEF b, p
    <3> QED
      BY <1>4, <2>4, <2>11, <3>1, RespectsLater
  <2>13. RequestMoves(j) /\ request'.tasks[j] = t
    <3>1. Open(request.tasks[j])
      BY <2>1 DEF Open
    <3> QED
      BY <1>1, <1>7, <2>1, <2>5, <2>8, <2>9, <2>12, <3>1, TaskMoves
  <2>14. /\ GoodRequest(request', clock) /\ request'.requestedAt = request.requestedAt
         /\ GoodTasks(request'.tasks, request'.requestedAt, clock)
         /\ refresh[w].stage = "projections" => Respects(request'.tasks, b, p)
    BY <2>3, <2>13 DEF RequestMoves, GoodRequest
  <2>15. GoodRun(run'[w], refresh'[w], request', clock)
    BY <1>3, <1>4, IdleRun
  <2>16. CASE j \notin Projections
    <3>1. refresh' = refresh
      BY <1>1, <1>7, <2>16 DEF j
    <3>2. GoodServer(refresh'[w], request', clock)
      BY <2>3, <2>14, <3>1 DEF GoodServer
    <3> QED
      BY <1>1, <1>2, <1>3, <2>1, <2>14, <2>15, <3>1, <3>2, ServedStep
  <2>17. CASE j \in Projections
    <3> DEFINE e == request'.tasks[j].finishedAt
               c == Max({b, e})
               f == refresh'[w]
               q == request'
    <3>1. After(w, request'.tasks[j])
      BY <1>1, <1>7, <2>17 DEF j
    <3>2. Stands(w, p + 1, c)
      BY <2>1, <3>1, AfterStands
    <3>3. e \in NoTime .. clock /\ e = clock
      BY <2>7, <2>10, <2>13
    <3> HIDE DEF e
    <3>4. c \in NoTime .. clock /\ b <= c /\ e <= c
      BY <1>4, <2>3, <3>3, LaterOf
    <3> HIDE DEF c
    <3>5. /\ GoodTasks(q.tasks, q.requestedAt, clock) /\ q.requestedAt \in NoTime .. clock
          /\ q.requestedAt <= b /\ b \in NoTime .. clock
          /\ Respects(q.tasks, b, p) /\ ~Open(q.tasks[ProjectionOrder[p]])
          /\ q.tasks[ProjectionOrder[p]].startedAt # NoTime
               => q.tasks[ProjectionOrder[p]].finishedAt <= c
          /\ p \in Ordinals
      BY <2>2, <2>3, <2>4, <2>8, <2>13, <2>14, <2>17, <3>4 DEF e
    <3>6. f.readyAt = c /\ f.position = p + 1
      BY <3>2 DEF Stands
    <3> HIDE DEF f, q, b, p
    <3>7. GoodServer(f, q, clock)
      BY <1>4, <3>4, <3>5, <3>6, PassedProjection
    <3> QED
      BY <1>1, <1>2, <1>3, <2>1, <2>14, <2>15, <3>2, <3>7, ServedStep DEF Stands, f, q
  <2> QED
    BY <2>16, <2>17
<1> QED
  BY <1>6, <1>7 DEF IInv, BInv, RunKnown

\* The dependency boundary comes after the end of every source task.
LEMMA ReadyAtFacts ==
  ASSUME WInv
  PROVE  /\ ReadyAt \in NoTime .. clock /\ request.requestedAt <= ReadyAt
         /\ \A j \in Inputs : request.tasks[j].finishedAt <= ReadyAt
<1> DEFINE S == {request.requestedAt} \cup {t.finishedAt : t \in SourceTasks}
           M == {x + 1 : x \in S}
<1>1. /\ clock \in Nat /\ request.requestedAt \in NoTime .. clock
      /\ \A j \in Tasks : request.tasks[j].finishedAt \in NoTime .. clock
  BY DEF WInv, GoodRequest, GoodTasks, GoodTask
<1>2. S \subseteq NoTime .. clock /\ request.requestedAt \in S
  BY <1>1, OrderFacts DEF SourceTasks, Inputs
<1>3. ReadyAt = Max(S)
  BY DEF ReadyAt
<1>4. \A j \in Inputs : request.tasks[j].finishedAt \in S \cup {NoTime}
  <2> SUFFICES ASSUME NEW j \in Inputs, request.tasks[j] # NoTask
               PROVE  request.tasks[j].finishedAt \in S
    BY DEF NoTask
  <2>1. request.tasks[j] \in SourceTasks
    BY DEF SourceTasks, Inputs
  <2> QED
    BY <2>1
<1> HIDE DEF S
<1>5. M \in SUBSET (0 .. clock + 1) /\ M # {} /\ clock + 1 \in Nat
  BY <1>1, <1>2 DEF NoTime
<1> HIDE DEF M
<1>6. Max(M) \in M /\ \A y \in M : Max(M) >= y
  BY <1>5, MaxOfNaturals
<1>7. PICK x \in S : Max(M) = x + 1
  BY <1>6 DEF M
<1>8. x \in S /\ \A y \in S : x >= y
  <2> SUFFICES ASSUME NEW y \in S PROVE x >= y
    OBVIOUS
  <2>1. y + 1 \in M
    BY DEF M
  <2>2. x + 1 >= y + 1
    BY <1>6, <1>7, <2>1
  <2>3. x \in Int /\ y \in Int
    BY <1>2 DEF NoTime
  <2> QED
    BY <2>2, <2>3
<1>9. Max(S) \in S /\ \A y \in S : Max(S) >= y
  BY <1>8 DEF Max
<1>10. ReadyAt \in NoTime .. clock /\ request.requestedAt <= ReadyAt
  BY <1>2, <1>3, <1>9 DEF NoTime
<1>11. ASSUME NEW j \in Inputs PROVE request.tasks[j].finishedAt <= ReadyAt
  <2>1. CASE request.tasks[j].finishedAt \in S
    BY <1>2, <1>3, <1>9, <2>1 DEF NoTime
  <2>2. CASE request.tasks[j].finishedAt = NoTime
    BY <1>1, <1>10, <2>2 DEF NoTime
  <2> QED
    BY <1>4, <2>1, <2>2
<1> QED
  BY <1>10, <1>11

LEMMA SourcesDoneTimes ==
  ASSUME IInv, WInv, NEW w \in Workers, SourcesDone(w) PROVE WInv'
<1>1. /\ run[w] = NoRun /\ refresh[w].stage = "sources"
      /\ clock' = clock /\ row' = row /\ request' = request /\ run' = run
  BY Zenon DEF SourcesDone, Idle
<1>2. clock \in Nat /\ GoodRows(row, clock) /\ GoodRequest(request, clock) /\ Shape
  BY DEF WInv, IInv, BInv
<1>3. GoodRun(run'[w], refresh'[w], request', clock)
  BY <1>1, <1>2, IdleRun
<1>4. CASE EndRefresh(w)
  <2>1. refresh'[w] = NoRefresh /\ \A v \in Workers : v # w => refresh'[v] = refresh[v]
    BY <1>2, <1>4, EndChange
  <2>2. GoodServer(refresh'[w], request', clock)
    BY <1>2, <2>1 DEF GoodServer, NoRefresh, NoTime
  <2> QED
    BY <1>1, <1>2, <1>3, <2>1, <2>2, ServedStep
<1>5. CASE ~EndRefresh(w)
  <2>1. /\ \A t \in SourceTasks : ~Open(t)
        /\ refresh'[w].stage = "projections" /\ refresh'[w].position = 1
        /\ refresh'[w].readyAt = ReadyAt
        /\ \A v \in Workers : v # w => refresh'[v] = refresh[v]
    BY <1>2, <1>5, Projecting
  <2>2. ASSUME NEW j \in Inputs PROVE ~Open(request.tasks[j])
    <3>1. CASE request.tasks[j] = NoTask
      BY <3>1 DEF NoTask, Open
    <3>2. CASE request.tasks[j] # NoTask
      BY <2>1, <3>2 DEF SourceTasks, Inputs
    <3> QED
      BY <3>1, <3>2
  <2>3. /\ ReadyAt \in NoTime .. clock /\ request.requestedAt <= ReadyAt
        /\ \A j \in Inputs : request.tasks[j].finishedAt <= ReadyAt
    BY ReadyAtFacts
  <2>4. Respects(request.tasks, ReadyAt, 1)
    BY <2>2, <2>3, OrderFacts DEF Respects
  <2>5. GoodServer(refresh'[w], request', clock)
    BY <1>1, <2>1, <2>3, <2>4 DEF GoodServer
  <2> QED
    BY <1>1, <1>2, <1>3, <2>1, <2>5, ServedStep
<1> QED
  BY <1>4, <1>5

\* The status follows the tasks.
LEMMA FinalStatus ==
  ASSUME NEW states
  PROVE  /\ Final(states) \in {"succeeded", "partial"} =>
              /\ \E j \in Sources : states[j] \in {"succeeded", "partial"}
              /\ states[Condition] \in {"succeeded", "partial"}
         /\ Final(states) = "succeeded" => \A j \in Tasks : states[j] \in {"none", "succeeded"}
         /\ Final(states) \in {"failed", "partial", "succeeded"}
  BY DEF Final

LEMMA CompleteRequestTimes ==
  ASSUME IInv, WInv, NEW w \in Workers, CompleteRequest(w) PROVE WInv'
<1> DEFINE states == [j \in Tasks |-> request.tasks[j].state]
<1>1. clock \in Nat /\ GoodRows(row, clock) /\ GoodRequest(request, clock) /\ Shape
  BY DEF WInv, IInv, BInv
<1>2. /\ clock' = clock /\ row' = row /\ run' = run /\ run[w] = NoRun
      /\ refresh[w].stage = "projections" /\ refresh'[w] = NoRefresh
      /\ \A v \in Workers : v # w => refresh'[v] = refresh[v]
      /\ request'.requestedAt = request.requestedAt
      /\ \/ request' = request
         \/ request'.tasks = request.tasks /\ request'.status = Final(states)
  BY <1>1, Completed
<1>3. GoodRun(run'[w], refresh'[w], request', clock)
  BY <1>1, <1>2, IdleRun
<1>4. GoodServer(refresh'[w], request', clock)
  BY <1>1, <1>2 DEF GoodServer, NoRefresh, NoTime
<1>5. GoodRequest(request', clock)
  <2>1. CASE request' = request
    BY <1>1, <2>1
  <2>2. CASE request'.tasks = request.tasks /\ request'.status = Final(states)
    <3>1. /\ \A j \in Tasks : states[j] = request.tasks[j].state
          /\ \A j \in Sources : states[j] = request.tasks[j].state
          /\ states[Condition] = request.tasks[Condition].state
      BY OrderFacts DEF Inputs
    <3> HIDE DEF states
    <3>2. Delivered(request')
      BY <2>2, <3>1, FinalStatus DEF Delivered
    <3> QED
      BY <1>1, <1>2, <2>2, <3>2 DEF GoodRequest
  <2> QED
    BY <1>2, <2>1, <2>2
<1> QED
  BY <1>1, <1>2, <1>3, <1>4, <1>5, ServedStep

\* Runs for the request are not begun, and nobody changes its stage but to leave.
LEMMA QuietTimes ==
  ASSUME WInv, request' = request, clock' = clock, GoodRows(row', clock),
         \A v \in Workers :
           /\ refresh'[v] = refresh[v] \/ refresh'[v] = NoRefresh
           /\ \/ run'[v].manual = run[v].manual /\ run'[v].job = run[v].job
                 /\ run'[v].startedAt = run[v].startedAt /\ refresh'[v] = refresh[v]
              \/ run'[v].manual = FALSE /\ run'[v].startedAt \in NoTime .. clock
  PROVE  WInv'
<1>1. clock \in Nat /\ GoodRequest(request, clock)
  BY DEF WInv
<1>2. ASSUME NEW v \in Workers
      PROVE  /\ GoodServer(refresh'[v], request, clock)
             /\ GoodRun(run'[v], refresh'[v], request, clock)
  <2>1. GoodServer(refresh[v], request, clock) /\ GoodRun(run[v], refresh[v], request, clock)
    BY DEF WInv
  <2>2. GoodServer(refresh'[v], request, clock)
    BY <1>1, <2>1 DEF GoodServer, NoRefresh, NoTime
  <2>3. GoodRun(run'[v], refresh'[v], request, clock)
    BY <2>1 DEF GoodRun
  <2> QED
    BY <2>2, <2>3
<1> QED
  BY <1>1, <1>2 DEF WInv

\* Time passes.
LEMMA TickTimes == ASSUME IInv, WInv, Tick PROVE WInv'
<1>1. clock' = clock + 1 /\ UNCHANGED <<row, request, refresh, run>> /\ clock \in Nat
  BY DEF Tick, WInv
<1>2. NoTime .. clock \subseteq NoTime .. clock + 1
  BY <1>1 DEF NoTime
<1>3. GoodRows(row, clock + 1)
  BY <1>2 DEF WInv, GoodRows, GoodRow
<1>4. GoodRequest(request, clock + 1)
  <2>1. ASSUME NEW j \in Tasks
        PROVE  GoodTask(request.tasks[j], request.requestedAt, clock + 1)
    BY <1>2 DEF WInv, GoodRequest, GoodTasks, GoodTask
  <2> QED
    BY <1>2, <2>1 DEF WInv, GoodRequest, GoodTasks
<1>5. ASSUME NEW w \in Workers
      PROVE  /\ GoodServer(refresh[w], request, clock + 1)
             /\ GoodRun(run[w], refresh[w], request, clock + 1)
  BY <1>2 DEF WInv, GoodServer, GoodRun
<1> QED
  BY <1>1, <1>3, <1>4, <1>5 DEF WInv

\* A request that is made when nothing is left of what had lost its lock.
LEMMA EnqueueTimes == ASSUME BInv, Enqueue, disturbed' = FALSE PROVE WInv'
<1>1. UNCHANGED <<clock, row, refresh, run>>
  BY DEF Enqueue
<1>2. clock \in Nat /\ GoodRows(row, clock)
  BY DEF BInv
<1>3. /\ request'.requestedAt = clock /\ request'.status = "queued"
      /\ \A j \in Tasks : request'.tasks[j] = NoTask
  BY NewRequest
<1>4. GoodRequest(request', clock)
  <2>1. GoodTasks(request'.tasks, request'.requestedAt, clock)
    BY <1>2, <1>3 DEF GoodTasks, GoodTask, NoTask, NoTime
  <2>2. InOrder(request'.tasks)
    BY <1>3, OrderFacts DEF InOrder, NoTask
  <2> QED
    BY <1>2, <1>3, <2>1, <2>2 DEF GoodRequest, Delivered, NoTime
<1>5. ASSUME NEW w \in Workers
      PROVE  /\ GoodServer(refresh'[w], request', clock)
             /\ GoodRun(run'[w], refresh'[w], request', clock)
  <2>1. refresh[w] = NoRefresh /\ RunKnown(w)
    BY Zenon DEF Enqueue, BInv
  <2>n. refresh[w].stage = "none" /\ refresh[w].readyAt = NoTime
    BY <2>1 DEF NoRefresh
  <2>2. /\ refresh'[w].stage = "none" /\ refresh'[w].readyAt = NoTime
        /\ run'[w].manual # TRUE /\ run'[w].startedAt \in NoTime .. clock
    BY <1>1, <2>1, <2>n DEF RunKnown
  <2>3. NoTime \in NoTime .. clock
    BY <1>2 DEF NoTime
  <2> QED
    BY <2>2, <2>3 DEF GoodServer, GoodRun
<1> QED
  BY <1>1, <1>2, <1>4, <1>5 DEF WInv

\* A task of a request that is taken up.
LEMMA NewTask ==
  ASSUME NEW s, NEW b, NEW e
  PROVE  Task(s, b, e) = [state |-> s, notBefore |-> b, finishedAt |-> e, startedAt |-> NoTime]
<1> DEFINE x == [NoTask EXCEPT !.state = s]
           y == [x EXCEPT !.notBefore = b]
<1>1. x = [state |-> s, notBefore |-> NoTime, finishedAt |-> NoTime, startedAt |-> NoTime]
  BY DEF NoTask
<1>2. y = [state |-> s, notBefore |-> b, finishedAt |-> NoTime, startedAt |-> NoTime]
  <2> HIDE DEF x
  <2> QED BY <1>1
<1>3. Task(s, b, e) = [y EXCEPT !.finishedAt = e]
  BY Zenon DEF Task
<1> HIDE DEF y
<1> QED
  BY <1>2, <1>3

LEMMA BeginRefreshTimes ==
  ASSUME IInv, WInv, NEW w \in Workers, BeginRefresh(w) PROVE WInv'
<1>1. /\ UNCHANGED <<clock, row, run>> /\ run[w] = NoRun
      /\ \A v \in Workers : ~refresh[v].locked
      /\ request'.status = "running" /\ request'.requestedAt = request.requestedAt
      /\ \/ request.status = "queued" /\ request'.tasks = InitialTasks(w)
         \/ request.status # "queued" /\ request' = request
      /\ refresh'[w].stage = "sources" /\ refresh'[w].readyAt = NoTime
      /\ \A v \in Workers : v # w => refresh'[v] = refresh[v]
  BY BegunRefresh DEF IInv, BInv
<1>2. clock \in Nat /\ GoodRows(row, clock) /\ GoodRequest(request, clock)
  BY DEF WInv
<1>3. GoodRequest(request', clock)
  <2>1. CASE request.status = "queued"
    <3> DEFINE T == InitialTasks(w)
               a == request.requestedAt
    <3>1. a \in NoTime .. clock
      BY <1>2 DEF GoodRequest
    <3> HIDE DEF a
    <3>2. ASSUME NEW j \in Tasks
          PROVE  GoodTask(T[j], a, clock) /\ T[j].startedAt = NoTime
      <4>1. T[j] \in {Task("pending", a, NoTime), Task("failed", a, clock), NoTask}
        BY DEF InitialTasks, a
      <4>2. \A x \in {Task("pending", a, NoTime), Task("failed", a, clock), NoTask} :
              GoodTask(x, a, clock) /\ x.startedAt = NoTime
        <5>1. /\ a \in Int /\ a <= a /\ NoTime \in NoTime .. clock /\ clock \in NoTime .. clock
          BY <1>2, <3>1 DEF NoTime
        <5>2. /\ Task("pending", a, NoTime) = [state |-> "pending", notBefore |-> a,
                                               finishedAt |-> NoTime, startedAt |-> NoTime]
              /\ Task("failed", a, clock) = [state |-> "failed", notBefore |-> a,
                                             finishedAt |-> clock, startedAt |-> NoTime]
          BY NewTask
        <5>3. GoodTask(NoTask, a, clock) /\ NoTask.startedAt = NoTime
          BY <5>1 DEF NoTask, GoodTask
        <5>4. /\ GoodTask(Task("pending", a, NoTime), a, clock)
              /\ Task("pending", a, NoTime).startedAt = NoTime
          BY <3>1, <5>1, <5>2 DEF GoodTask
        <5>5. /\ GoodTask(Task("failed", a, clock), a, clock)
              /\ Task("failed", a, clock).startedAt = NoTime
          BY <3>1, <5>1, <5>2 DEF GoodTask
        <5> QED
          BY <5>3, <5>4, <5>5
      <4> HIDE DEF T
      <4> QED
        BY <4>1, <4>2
    <3> HIDE DEF T
    <3>3. request'.status = "running" /\ request'.requestedAt = a /\ request'.tasks = T
      BY <1>1, <2>1 DEF T, a
    <3>4. GoodTasks(T, a, clock) /\ InOrder(T)
      BY <3>2, OrderFacts DEF GoodTasks, InOrder
    <3> QED
      BY <3>1, <3>3, <3>4 DEF GoodRequest, Delivered
  <2>2. CASE request.status # "queued"
    BY <1>1, <1>2, <2>2
  <2> QED
    BY <2>1, <2>2
<1>4. ASSUME NEW v \in Workers
      PROVE  /\ GoodServer(refresh'[v], request', clock)
             /\ GoodRun(run'[v], refresh'[v], request', clock)
  <2>1. refresh[v].stage = "none"
    BY <1>1 DEF IInv, UpToDate
  <2>t. /\ refresh'[v].stage \in {"none", "sources"}
        /\ refresh'[v].readyAt \in {refresh[v].readyAt, NoTime}
    BY <1>1, <2>1
  <2>2. run'[v].manual # TRUE
    BY <1>1, <2>1 DEF IInv, BInv, RunKnown
  <2>3. refresh[v].readyAt \in NoTime .. clock /\ run'[v].startedAt \in NoTime .. clock
        /\ NoTime \in NoTime .. clock
    BY <1>1, <1>2 DEF WInv, GoodServer, GoodRun, NoTime
  <2> QED
    BY <2>t, <2>2, <2>3 DEF GoodServer, GoodRun
<1> QED
  BY <1>1, <1>2, <1>3, <1>4 DEF WInv

LEMMA RevokeTimes == ASSUME IInv, WInv, Revoke PROVE WInv'
<1>1. \A v \in Workers : /\ run'[v].manual = run[v].manual /\ run'[v].job = run[v].job
                         /\ run'[v].startedAt = run[v].startedAt
  BY OvertakenRuns DEF IInv, BInv
<1>2. UNCHANGED <<clock, row, request, refresh>> /\ GoodRows(row, clock)
  BY DEF Revoke, WInv
<1> QED
  BY <1>1, <1>2, QuietTimes

LEMMA StartPassTimes == ASSUME IInv, WInv, NEW w \in Workers, StartPass(w) PROVE WInv'
<1>1. UNCHANGED <<clock, request, refresh, run>>
  BY DEF StartPass
<1>2. GoodRows(row', clock)
  BY StartPassRows DEF IInv
<1> QED
  BY <1>1, <1>2, QuietTimes

LEMMA PassJobTimes == ASSUME IInv, WInv, NEW w \in Workers, PassJob(w) PROVE WInv'
<1>1. /\ UNCHANGED <<clock, request, refresh>> /\ GoodRows(row', clock)
      /\ \A v \in Workers : v # w => run'[v] = run[v]
      /\ \/ run' = run
         \/ run'[w].manual = FALSE /\ run'[w].startedAt = clock
  BY PassJobChange DEF IInv
<1>2. clock \in NoTime .. clock
  BY DEF WInv, NoTime
<1> QED
  BY <1>1, <1>2, QuietTimes

LEMMA CrashTimes == ASSUME IInv, WInv, NEW w \in Workers, Crash(w) PROVE WInv'
<1>1. /\ UNCHANGED <<clock, row, request>> /\ GoodRows(row, clock) /\ clock \in Nat
      /\ Abandon(w) /\ run' = [run EXCEPT ![w] = NoRun] /\ Shape
  BY DEF Crash, WInv, IInv, BInv
<1>2. /\ refresh'[w] = NoRefresh /\ run'[w] = NoRun
      /\ \A v \in Workers : v # w => refresh'[v] = refresh[v] /\ run'[v] = run[v]
  BY <1>1, EndChange, RunOver
<1>3. run'[w].manual = FALSE /\ run'[w].startedAt \in NoTime .. clock
  BY <1>1, <1>2 DEF NoRun, NoTime
<1> QED
  BY <1>1, <1>2, <1>3, QuietTimes

LEMMA InitTimes == Init => WInv
<1> SUFFICES ASSUME Init PROVE WInv
  OBVIOUS
<1>1. /\ clock = 0 /\ clock \in Nat
      /\ row = [j \in Jobs |-> [state |-> "new", interval |-> 0, startedAt |-> NoTime,
                                finishedAt |-> NoTime, nextRun |-> NoTime, failures |-> 0]]
      /\ request = [status |-> "none", requestedAt |-> NoTime,
                    tasks |-> [j \in Tasks |-> NoTask]]
      /\ refresh = [w \in Workers |-> NoRefresh]
      /\ run = [w \in Workers |-> NoRun]
  BY DEF Init, NoTasks
<1>2. NoTime \in NoTime .. clock
  BY <1>1 DEF NoTime
<1>3. GoodRows(row, clock)
  BY <1>1, <1>2 DEF GoodRows, GoodRow
<1>4. GoodRequest(request, clock)
  <2>1. GoodTasks(request.tasks, request.requestedAt, clock)
    BY <1>1, <1>2 DEF GoodTasks, GoodTask, NoTask
  <2>2. InOrder(request.tasks)
    BY <1>1, OrderFacts DEF InOrder, NoTask
  <2> QED
    BY <1>1, <1>2, <2>1, <2>2 DEF GoodRequest, Delivered
<1>5. \A w \in Workers : /\ GoodServer(refresh[w], request, clock)
                         /\ GoodRun(run[w], refresh[w], request, clock)
  BY <1>1, <1>2 DEF GoodServer, GoodRun, NoRefresh, NoRun
<1> QED
  BY <1>1, <1>3, <1>4, <1>5 DEF WInv

LEMMA WorkerTimes ==
  ASSUME IInv, WInv, UNCHANGED vars \/ Tick \/ Revoke \/ \E w \in Workers : WorkerStep(w) \/ Crash(w)
  PROVE  WInv'
<1>1. CASE UNCHANGED vars
  BY <1>1, QuietTimes DEF vars, WInv
<1>2. ASSUME NEW w \in Workers, WorkerStep(w) PROVE WInv'
  BY <1>2, StartPassTimes, PassJobTimes, BeginRefreshTimes, SourceTaskTimes, SourcesDoneTimes,
     ProjectionTaskTimes, CompleteRequestTimes, FinishRunTimes, Zenon DEF WorkerStep
<1> QED
  BY <1>1, <1>2, TickTimes, RevokeTimes, CrashTimes, Zenon

LEMMA NextTimes ==
  DInv /\ (disturbed = FALSE => WInv) /\ [Next]_vars => (disturbed = FALSE => WInv)'
<1> SUFFICES ASSUME DInv, disturbed = FALSE => WInv, [Next]_vars, disturbed' = FALSE
             PROVE  WInv'
  OBVIOUS
<1>1. CASE Enqueue
  BY <1>1, EnqueueTimes DEF DInv
<1>2. CASE ~Enqueue
  <2>1. /\ disturbed = FALSE
        /\ UNCHANGED vars \/ Tick \/ Revoke \/ \E w \in Workers : WorkerStep(w) \/ Crash(w)
    BY <1>2, Disturbances DEF DInv
  <2> QED
    BY <2>1, WorkerTimes DEF DInv
<1> QED
  BY <1>1, <1>2

\* Runs are begun and tasks credited in the order of the tasks.
LEMMA WorkedInOrder == Spec => [](disturbed = FALSE => WInv)
  BY InitTimes, NextTimes, Invariant, PTL DEF Spec

\* Success is earned: whichever workers served the request, crashed and took it
\* up again, and whichever runs were borrowed, some source was collected after
\* the request, the scores were projected after the last source had ended, and
\* the other projections after those before them; unless a session was lost.
THEOREM SuccessIsEarned == Spec => []SuccessMeansRefreshed
<1>1. ASSUME disturbed = FALSE => WInv, disturbed \in BOOLEAN PROVE SuccessMeansRefreshed
  <2> SUFFICES ASSUME disturbed = FALSE, request.status \in {"succeeded", "partial"}
               PROVE  /\ \E j \in Sources : /\ Successful(j)
                                            /\ request.tasks[j].startedAt >= request.requestedAt
                      /\ Successful(Condition)
                      /\ \A t \in SourceTasks : request.tasks[Condition].startedAt >= t.finishedAt
                      /\ \A i, k \in Ordinals :
                           (i < k /\ request.tasks[ProjectionOrder[i]].startedAt # NoTime
                                  /\ request.tasks[ProjectionOrder[k]].startedAt # NoTime)
                             => request.tasks[ProjectionOrder[k]].startedAt
                                  >= request.tasks[ProjectionOrder[i]].finishedAt
                      /\ request.status = "succeeded" =>
                           \A j \in Tasks : request.tasks[j].state \in {"none", "succeeded"}
    BY <1>1 DEF SuccessMeansRefreshed, Ordinals
  <2> DEFINE T == request.tasks
             a == request.requestedAt
  <2>1. /\ a \in Int
        /\ \A j \in Tasks : /\ GoodTask(T[j], a, clock)
                            /\ T[j].startedAt \in Int /\ T[j].finishedAt \in Int
        /\ InOrder(T) /\ Delivered(request)
    BY <1>1 DEF WInv, GoodRequest, GoodTasks, GoodTask, NoTime
  <2>2. /\ \E j \in Sources : T[j].state \in {"succeeded", "partial"}
        /\ T[Condition].state \in {"succeeded", "partial"}
        /\ request.status = "succeeded" => \A j \in Tasks : T[j].state \in {"none", "succeeded"}
    BY <2>1 DEF Delivered
  <2>3. \E j \in Sources : Successful(j) /\ T[j].startedAt >= a
    <3>1. PICK j \in Sources : T[j].state \in {"succeeded", "partial"}
      BY <2>2
    <3>2. j \in Tasks /\ GoodTask(T[j], a, clock) /\ T[j].startedAt \in Int
      BY <2>1, OrderFacts DEF Inputs
    <3>3. a <= T[j].startedAt
      BY <3>1, <3>2 DEF GoodTask
    <3> QED
      BY <2>1, <3>1, <3>2, <3>3 DEF Successful
  <2>4. T[Condition].startedAt # NoTime /\ Condition = ProjectionOrder[1] /\ 1 \in Ordinals
    <3>1. GoodTask(T[Condition], a, clock)
      BY <2>1, OrderFacts
    <3> QED
      BY <2>2, <3>1, OrderFacts DEF GoodTask
  <2>5. ASSUME NEW t \in SourceTasks PROVE T[Condition].startedAt >= t.finishedAt
    <3>1. PICK j \in Inputs : t = T[j]
      BY DEF SourceTasks, Inputs
    <3>2. Respects(T, T[Condition].startedAt, 1)
      BY <2>1, <2>4 DEF InOrder
    <3>3. T[j].finishedAt <= T[Condition].startedAt
      BY <3>2 DEF Respects
    <3>4. j \in Tasks /\ Condition \in Tasks
      BY OrderFacts
    <3> QED
      BY <2>1, <3>1, <3>3, <3>4
  <2>6. ASSUME NEW i \in Ordinals, NEW k \in Ordinals, i < k,
               T[ProjectionOrder[i]].startedAt # NoTime, T[ProjectionOrder[k]].startedAt # NoTime
        PROVE  T[ProjectionOrder[k]].startedAt >= T[ProjectionOrder[i]].finishedAt
    <3>1. Respects(T, T[ProjectionOrder[k]].startedAt, k)
      BY <2>1, <2>6 DEF InOrder
    <3>2. T[ProjectionOrder[i]].finishedAt <= T[ProjectionOrder[k]].startedAt
      BY <2>6, <3>1 DEF Respects
    <3>3. ProjectionOrder[i] \in Tasks /\ ProjectionOrder[k] \in Tasks
      BY OrderFacts
    <3> QED
      BY <2>1, <3>2, <3>3
  <2> QED
    BY <2>2, <2>3, <2>5, <2>6 DEF Successful
<1>2. DInv => disturbed \in BOOLEAN
  BY DEF DInv
<1> QED
  BY <1>1, <1>2, Invariant, WorkedInOrder, PTL

-----------------------------------------------------------------------------
(* What needs no lock: the pauses of the providers.                        *)

\* The pause that a provider is owed after a run, by its consecutive failures.
Pause(failures) == IF failures = 0 THEN ExternalFloor ELSE Backoff(ExternalFloor, failures)

\* The next run of a source comes no earlier, whatever its interval was and is.
GoodPause(r, now) ==
  /\ r.failures \in Nat
  /\ r.finishedAt \in NoTime .. now
  /\ r.nextRun \in NoTime .. Later
  /\ r.state = "new" => r.finishedAt = NoTime
  /\ r.finishedAt # NoTime => Bounded(r.finishedAt + Pause(r.failures)) <= r.nextRun

PInv ==
  /\ clock \in 0 .. MaxTime
  /\ config \in [Workers -> Configs]
  /\ \A w \in Workers : run[w].job \in Sources => run[w].failures \in Nat
  /\ \A j \in Sources : GoodPause(row[j], clock)

\* What ProviderPause says of a step.
Spared ==
  \A j \in Sources :
    Starts(j) /\ row[j].finishedAt # NoTime =>
      \/ clock >= row[j].finishedAt + Pause(row[j].failures)
      \/ row[j].failures = 0 /\ \E w \in Workers : run'[w].job = j /\ run'[w].manual

LEMMA BoundedFacts ==
  /\ Later \in Nat /\ MaxTime < Later
  /\ \A t \in Int : Bounded(t) = IF t <= Later THEN t ELSE Later
<1>1. Later \in Nat /\ MaxTime < Later
  BY WorkerAssumption DEF WorkerAssumption, Later
<1>2. ASSUME NEW t \in Int PROVE Min({t, Later}) = IF t <= Later THEN t ELSE Later
  BY <1>1, MinOfPair
<1> QED
  BY <1>1, <1>2 DEF Bounded

\* The powers of two that the backoff uses.
LEMMA Powers == \A k \in 0 .. 6 : 2 ^ k \in 1 .. 64
<1>1. /\ 2 ^ 0 = 1 /\ 2 ^ 1 = 2 /\ 2 ^ 2 = 4 /\ 2 ^ 3 = 8
      /\ 2 ^ 4 = 16 /\ 2 ^ 5 = 32 /\ 2 ^ 6 = 64
  OBVIOUS
<1> SUFFICES ASSUME NEW k \in 0 .. 6 PROVE 2 ^ k \in 1 .. 64
  OBVIOUS
<1>2. k = 0 \/ k = 1 \/ k = 2 \/ k = 3 \/ k = 4 \/ k = 5 \/ k = 6
  OBVIOUS
<1>3. CASE k = 0
  BY <1>1, <1>3
<1>4. CASE k = 1
  BY <1>1, <1>4
<1>5. CASE k = 2
  BY <1>1, <1>5
<1>6. CASE k = 3
  BY <1>1, <1>6
<1>7. CASE k = 4
  BY <1>1, <1>7
<1>8. CASE k = 5
  BY <1>1, <1>8
<1>9. CASE k = 6
  BY <1>1, <1>9
<1> QED
  BY <1>2, <1>3, <1>4, <1>5, <1>6, <1>7, <1>8, <1>9

\* A longer interval backs off for as long at least.
LEMMA BackoffGrows ==
  ASSUME NEW f \in Nat, NEW a \in Nat, NEW b \in Nat, a <= b
  PROVE  Backoff(a, f) \in Nat /\ Backoff(b, f) \in Nat /\ Backoff(a, f) <= Backoff(b, f)
<1>1. PICK k \in 0 .. 6 : k = Min({f, 6})
  BY MinOfPair
<1>2. PICK p \in 1 .. 64 : p = 2 ^ k
  BY Powers
<1>3. a * p \in Nat /\ b * p \in Nat /\ a * p <= b * p
  OBVIOUS
<1>4. PICK d \in Nat : d = LongestDelay
  BY ScheduleAssumption DEF ScheduleAssumption
<1>5. PICK x \in Nat, y \in Nat : x = a * p /\ y = b * p /\ x <= y
  BY <1>3
<1>6. Min({d, x}) = (IF d <= x THEN d ELSE x) /\ Min({d, y}) = (IF d <= y THEN d ELSE y)
  BY MinOfPair
<1>7. Backoff(a, f) = Min({d, x}) /\ Backoff(b, f) = Min({d, y})
  BY <1>1, <1>2, <1>4, <1>5, Zenon DEF Backoff
<1> QED
  BY <1>5, <1>6, <1>7

LEMMA PauseFacts ==
  ASSUME NEW f \in Nat PROVE Pause(f) \in Nat
<1>1. ExternalFloor \in Nat
  BY ScheduleAssumption DEF ScheduleAssumption
<1> QED
  BY <1>1, BackoffGrows DEF Pause

\* Every interval of a source spares the provider.
LEMMA SourceInterval ==
  ASSUME PInv, NEW w \in Workers, NEW j \in Sources
  PROVE  /\ JobOf(w, j).external
         /\ ScheduledInterval(JobOf(w, j)) \in Nat
         /\ ExternalFloor <= ScheduledInterval(JobOf(w, j))
<1>1. ExternalFloor \in Nat /\ ForecastCeiling \in Nat
  BY ScheduleAssumption DEF ScheduleAssumption
<1>2. PICK i \in Nat : i = config[w][j].interval
  <2>1. config[w] \in [Jobs -> [enabled : BOOLEAN, interval : Nat \ {0}]] /\ j \in Jobs
    BY WorkerAssumption, OrderFacts DEF WorkerAssumption, PInv
  <2> QED
    BY <2>1
<1>3. PICK x \in Nat : x = IF j \in ForecastJobs THEN Min({ForecastCeiling, i}) ELSE i
  BY <1>1, <1>2, MinOfPair
<1>4. Max({ExternalFloor, x}) = IF ExternalFloor >= x THEN ExternalFloor ELSE x
  BY <1>1, MaxOfPair
<1>5. /\ JobOf(w, j).external = (j \in Sources) /\ JobOf(w, j).forecast = (j \in ForecastJobs)
      /\ JobOf(w, j).interval = i
  BY <1>2 DEF JobOf
<1>6. JobOf(w, j).external
  BY <1>5
<1>7. ScheduledInterval(JobOf(w, j)) = Max({ExternalFloor, x})
  BY <1>3, <1>5, <1>6, Zenon DEF ScheduledInterval
<1> QED
  BY <1>1, <1>4, <1>6, <1>7

\* A schedule that follows a new interval still spares the provider.
LEMMA FollowFacts ==
  ASSUME NEW r, NEW now \in Nat, GoodPause(r, now), NEW i \in Nat, ExternalFloor <= i
  PROVE  /\ Bounded(FollowInterval(r, i)) \in NoTime .. Later
         /\ r.finishedAt # NoTime =>
              Bounded(r.finishedAt + Pause(r.failures)) <= Bounded(FollowInterval(r, i))
<1>1. ExternalFloor \in Nat /\ NoTime = -1
  BY ScheduleAssumption DEF ScheduleAssumption, NoTime
<1>2. PICK n \in Int, e \in Int : n = r.nextRun /\ e = r.finishedAt
  BY <1>1 DEF GoodPause
<1>3. /\ -1 <= n /\ n <= Later /\ -1 <= e /\ r.failures \in Nat
      /\ e # NoTime => Bounded(e + Pause(r.failures)) <= n
  BY <1>1, <1>2, BoundedFacts DEF GoodPause
<1>4. Bounded(n) = n
  BY <1>3, BoundedFacts
<1>5. CASE r.failures # 0 \/ e = NoTime
  <2>1. FollowInterval(r, i) = n
    BY <1>2, <1>5 DEF FollowInterval
  <2> QED
    BY <1>1, <1>2, <1>3, <1>4, <2>1
<1>6. CASE r.failures = 0 /\ e # NoTime
  <2>1. /\ Max({n, e + i}) = (IF n >= e + i THEN n ELSE e + i)
        /\ Min({n, e + i}) = (IF n <= e + i THEN n ELSE e + i)
    BY MinOfPair, MaxOfPair
  <2>2. \/ FollowInterval(r, i) = Max({n, e + i})
        \/ FollowInterval(r, i) = Min({n, e + i})
        \/ FollowInterval(r, i) = n
    BY <1>2, <1>6, Zenon DEF FollowInterval
  <2>3. PICK x \in Int : x = FollowInterval(r, i)
    BY <2>1, <2>2
  <2>4. x = n \/ x = e + i
    BY <2>1, <2>2, <2>3
  <2>5. Pause(r.failures) = ExternalFloor
    BY <1>6 DEF Pause
  <2>6. /\ Bounded(x) = (IF x <= Later THEN x ELSE Later)
        /\ Bounded(e + ExternalFloor) = IF e + ExternalFloor <= Later THEN e + ExternalFloor
                                        ELSE Later
    BY <1>1, BoundedFacts
  <2>7. Bounded(e + ExternalFloor) <= Bounded(x) /\ -1 <= Bounded(x) /\ Bounded(x) <= Later
    BY <1>1, <1>3, <1>4, <1>6, <2>4, <2>5, <2>6, BoundedFacts
  <2>8. Bounded(x) \in NoTime .. Later
    BY <1>1, <2>6, <2>7, BoundedFacts
  <2> QED
    BY <1>2, <2>3, <2>5, <2>7, <2>8
<1> QED
  BY <1>3, <1>5, <1>6

\* Synchronizing a source keeps its pause and what it is counted from.
LEMMA SynchronizedPause ==
  ASSUME BInv, PInv, NEW w \in Workers, NEW j \in Sources
  PROVE  /\ GoodPause(Synchronized(w, j), clock)
         /\ Synchronized(w, j).finishedAt = row[j].finishedAt
         /\ Synchronized(w, j).failures = row[j].failures
<1> DEFINE old == row[j]
           i == ScheduledInterval(JobOf(w, j))
           next == Bounded(FollowInterval(old, i))
           new == Synchronized(w, j)
<1>1. GoodRow(old, clock) /\ GoodPause(old, clock) /\ clock \in Nat /\ clock <= MaxTime
  <2>1. j \in Jobs
    BY OrderFacts
  <2>2. GoodRow(old, clock) /\ GoodPause(old, clock) /\ clock \in Nat /\ clock \in 0 .. MaxTime
    BY <2>1 DEF BInv, GoodRows, PInv
  <2> QED
    BY <2>2, BoundedFacts
<1>2. i \in Nat /\ ExternalFloor <= i
  BY SourceInterval
<1>3. \/ old.state = "new" /\ \E s : new = [old EXCEPT !.state = s, !.interval = i,
                                                       !.nextRun = clock]
      \/ old.state # "new" /\ \E s : /\ s # "new"
                                     /\ new = [old EXCEPT !.interval = i, !.nextRun = next,
                                                          !.state = s]
  <2>1. CASE old.state = "new"
    BY <2>1, Zenon DEF Synchronized
  <2>2. CASE old.state # "new"
    <3> DEFINE s == IF j \notin Enabled(w) THEN "disabled"
                    ELSE IF old.state = "disabled" THEN "pending" ELSE old.state
    <3>1. s # "new"
      BY <2>2
    <3>2. new = [old EXCEPT !.interval = i, !.nextRun = next, !.state = s]
      BY <2>2, Zenon DEF Synchronized
    <3> HIDE DEF s, new, old, next, i
    <3> QED
      BY <2>2, <3>1, <3>2
  <2> QED
    BY <2>1, <2>2
<1>4. /\ next \in NoTime .. Later
      /\ old.finishedAt # NoTime => Bounded(old.finishedAt + Pause(old.failures)) <= next
  <2> HIDE DEF i, old
  <2> QED
    BY <1>1, <1>2, FollowFacts
<1>5. clock \in NoTime .. Later
  BY <1>1, BoundedFacts, WorkerAssumption DEF NoTime, WorkerAssumption
<1> HIDE DEF new, old, next, i
<1>6. CASE old.state = "new"
  <2>1. PICK s : new = [old EXCEPT !.state = s, !.interval = i, !.nextRun = clock]
    BY <1>3, <1>6
  <2>2. new = [state |-> s, interval |-> i, startedAt |-> old.startedAt,
               finishedAt |-> old.finishedAt, nextRun |-> clock, failures |-> old.failures]
    BY <1>1, <2>1, RowFields
  <2>3. old.finishedAt = NoTime
    BY <1>1, <1>6 DEF GoodPause
  <2> QED
    BY <1>1, <1>5, <2>2, <2>3 DEF GoodPause, new, old
<1>7. CASE old.state # "new"
  <2>1. PICK s : s # "new" /\ new = [old EXCEPT !.interval = i, !.nextRun = next, !.state = s]
    BY <1>3, <1>7
  <2>2. new = [state |-> s, interval |-> i, startedAt |-> old.startedAt,
               finishedAt |-> old.finishedAt, nextRun |-> next, failures |-> old.failures]
    BY <1>1, <2>1, RowFields
  <2> QED
    BY <1>1, <1>4, <2>1, <2>2 DEF GoodPause, new, old
<1> QED
  BY <1>6, <1>7

LEMMA PauseLater ==
  ASSUME NEW r, NEW now \in Nat, NEW later \in Nat, now <= later, GoodPause(r, now)
  PROVE  GoodPause(r, later)
BY DEF GoodPause, NoTime

LEMMA NoSourceNone == NoRun.job \notin Sources
BY WorkerAssumption, OrderFacts DEF WorkerAssumption, NoRun

\* No run begins.
LEMMA QuietPause ==
  ASSUME BInv, PInv, clock' \in 0 .. MaxTime, config' \in [Workers -> Configs],
         \A v \in Workers : \/ run'[v].job = run[v].job /\ run'[v].failures = run[v].failures
                            \/ run'[v] = NoRun,
         \A j \in Sources : GoodPause(row'[j], clock')
  PROVE  PInv' /\ Spared
<1>1. \A v \in Workers : run'[v].job \in Sources =>
        run'[v].job = run[v].job /\ run'[v].failures = run[v].failures
  BY NoSourceNone
<1>2. \A v \in Workers : run'[v].job \in Sources => run'[v].failures \in Nat
  BY <1>1 DEF PInv
<1>3. \A j \in Sources : ~Starts(j)
  BY <1>1 DEF Starts
<1> QED
  BY <1>2, <1>3 DEF PInv, Spared

\* A run begins: of a source only when its pause is over, or on request when
\* it has not failed.
LEMMA BeginPause ==
  ASSUME BInv, PInv, NEW w \in Workers, NEW j, NEW r, NEW manual, Begin(w, j, r, manual),
         clock' = clock, config' = config,
         j \in Sources => /\ GoodRow(r, clock) /\ GoodPause(r, clock)
                          /\ r.finishedAt = row[j].finishedAt /\ r.failures = row[j].failures
                          /\ \/ r.nextRun <= clock
                             \/ r.failures = 0 /\ manual = TRUE
  PROVE  PInv' /\ Spared
<1> DEFINE q == [r EXCEPT !.state = "running", !.startedAt = clock]
           n == [job |-> j, startedAt |-> clock, manual |-> manual,
                 failures |-> r.failures, overtaken |-> FALSE, locked |-> TRUE]
<1>1. row' = [row EXCEPT ![j] = q] /\ run' = [run EXCEPT ![w] = n]
  BY DEF Begin
<1>2. run'[w] = n /\ \A v \in Workers : v # w => run'[v] = run[v]
  BY <1>1 DEF BInv, Shape, ShapedRun
<1>3. run'[w].job = j /\ run'[w].manual = manual /\ run'[w].failures = r.failures
  BY <1>2
<1> HIDE DEF n
<1>4. clock \in Nat /\ clock <= MaxTime /\ Sources \subseteq Jobs
  <2>1. clock \in Nat /\ clock \in 0 .. MaxTime
    BY DEF BInv, PInv
  <2> QED
    BY <2>1, BoundedFacts, OrderFacts
<1>5. \A i \in Jobs : row'[i] = IF i = j THEN q ELSE row[i]
  <2>1. PICK x : x = q
    OBVIOUS
  <2> HIDE DEF q
  <2>2. row' = [row EXCEPT ![j] = x]
    BY <1>1, <2>1
  <2>3. row = [i \in Jobs |-> row[i]]
    BY DEF BInv, GoodRows
  <2> QED
    BY <2>1, <2>2, <2>3
<1>6. ASSUME j \in Sources PROVE GoodPause(q, clock)
  <2>1. q = [state |-> "running", interval |-> r.interval, startedAt |-> clock,
             finishedAt |-> r.finishedAt, nextRun |-> r.nextRun, failures |-> r.failures]
    BY <1>4, <1>6, BegunRow
  <2> HIDE DEF q
  <2> QED
    BY <1>6, <2>1 DEF GoodPause
<1> HIDE DEF q
<1>7. \A i \in Sources : GoodPause(row'[i], clock)
  BY <1>4, <1>5, <1>6 DEF PInv
<1>8. \A v \in Workers : run'[v].job \in Sources => run'[v].failures \in Nat
  BY <1>2, <1>3 DEF PInv, GoodPause
<1>9. ASSUME NEW i \in Sources, Starts(i), row[i].finishedAt # NoTime
      PROVE  \/ clock >= row[i].finishedAt + Pause(row[i].failures)
             \/ row[i].failures = 0 /\ \E v \in Workers : run'[v].job = i /\ run'[v].manual
  <2>1. i = j
    BY <1>2, <1>3, <1>9 DEF Starts
  <2>2. CASE r.failures = 0 /\ manual = TRUE
    BY <1>3, <2>1, <2>2
  <2>3. CASE r.nextRun <= clock
    <3>1. PICK e \in Int, p \in Nat, m \in Int :
            e = r.finishedAt /\ p = Pause(r.failures) /\ m = r.nextRun
      BY <2>1, PauseFacts DEF GoodPause, NoTime
    <3>2. Bounded(e + p) <= m /\ e = row[i].finishedAt /\ p = Pause(row[i].failures)
      BY <1>9, <2>1, <3>1 DEF GoodPause
    <3>3. Bounded(e + p) = (IF e + p <= Later THEN e + p ELSE Later)
      BY <3>1, BoundedFacts
    <3>4. clock >= e + p
      BY <1>4, <2>3, <3>1, <3>2, <3>3, BoundedFacts, WorkerAssumption DEF WorkerAssumption, Later
    <3> QED
      BY <3>2, <3>4
  <2> QED
    BY <2>1, <2>2, <2>3
<1> QED
  BY <1>7, <1>8, <1>9 DEF PInv, Spared

\* The next run of a source is put off for its pause at least.
LEMMA DelayFacts ==
  ASSUME PInv, NEW w \in Workers, NEW j \in Sources, NEW o, NEW r \in Reports(j, o),
         NEW f \in Nat
  PROVE  /\ Delay(JobOf(w, j), r.outcome, f, r.continuation, r.changed) \in Nat
         /\ Pause(f) <= Delay(JobOf(w, j), r.outcome, f, r.continuation, r.changed)
<1> DEFINE job == JobOf(w, j)
<1>1. PICK i \in Nat : i = ScheduledInterval(job) /\ ExternalFloor <= i
  BY SourceInterval
<1>2. PICK a \in Nat : a = ExternalFloor
  BY ScheduleAssumption DEF ScheduleAssumption
<1>3. j # Condition /\ j # "water_index_evaluation"
  <2>1. "water_index_evaluation" \in Projections
    <3>1. ProjectionOrder[3] = "water_index_evaluation" /\ 3 \in Ordinals
      BY OrderFacts DEF ProjectionOrder
    <3> QED
      BY <3>1, OrderFacts
  <2> QED
    BY <2>1, OrderFacts DEF Inputs
<1>4. r.changed = FALSE /\ r.continuation = NoTime
  BY <1>3 DEF Reports
<1>5. job.external
  BY SourceInterval
<1> DEFINE d == IF f > 0 THEN Backoff(i, f) ELSE i
<1>6. Delay(job, r.outcome, f, r.continuation, r.changed) = Max({a, d})
  BY <1>1, <1>2, <1>4, <1>5, Zenon DEF Delay
<1>7. d \in Nat /\ Pause(f) <= d
  <2>1. Backoff(a, f) \in Nat /\ Backoff(i, f) \in Nat /\ Backoff(a, f) <= Backoff(i, f)
    BY <1>1, <1>2, BackoffGrows
  <2> QED
    BY <1>1, <1>2, <2>1 DEF Pause
<1>8. PICK e \in Nat : e = d
  BY <1>7
<1>9. Max({a, e}) = IF a >= e THEN a ELSE e
  BY MaxOfPair
<1> HIDE DEF d, job
<1>10. Max({a, d}) \in Nat /\ Pause(f) <= Max({a, d})
  <2>1. Pause(f) \in Nat
    BY PauseFacts
  <2> QED
    BY <1>7, <1>8, <1>9, <2>1
<1> QED
  BY <1>6, <1>10 DEF job

LEMMA FinishRunPause ==
  ASSUME BInv, PInv, NEW w \in Workers, FinishRun(w) PROVE PInv' /\ Spared
<1> DEFINE j == run[w].job
           Failures(r) == IF r.outcome = "failed" THEN run[w].failures + 1 ELSE 0
           At(r) == Bounded(clock + Delay(JobOf(w, j), r.outcome, Failures(r),
                                          r.continuation, r.changed))
<1>1. PICK r : /\ r \in Reports(j, run[w].overtaken)
               /\ row' = [row EXCEPT ![j].state = r.outcome, ![j].finishedAt = clock,
                                     ![j].nextRun = At(r), ![j].failures = Failures(r)]
               /\ run' = [run EXCEPT ![w] = NoRun]
               /\ clock' = clock /\ config' = config
  BY Zenon DEF FinishRun
<1>2. run'[w] = NoRun /\ \A v \in Workers : v # w => run'[v] = run[v]
  BY <1>1 DEF BInv, Shape, ShapedRun
<1>3. clock \in Nat /\ clock \in 0 .. MaxTime /\ config \in [Workers -> Configs]
      /\ Sources \subseteq Jobs
  BY OrderFacts DEF BInv, PInv
<1>4. PICK c, n, x, o : c = j /\ n = At(r) /\ x = Failures(r) /\ o = run[w].overtaken
  OBVIOUS
<1>5. row' = [row EXCEPT ![c].state = r.outcome, ![c].finishedAt = clock,
                         ![c].nextRun = n, ![c].failures = x]
  BY <1>1, <1>4, Zenon
<1>6. RowEnds(c, r.outcome, n, x)
  <2>1. PICK s : s = r.outcome
    OBVIOUS
  <2>2. row' = [row EXCEPT ![c].state = s, ![c].finishedAt = clock,
                           ![c].nextRun = n, ![c].failures = x]
    BY <1>5, <2>1, Zenon
  <2>3. RowEnds(c, s, n, x)
    BY <2>2, EndedRow
  <2> QED
    BY <2>1, <2>3
<1>7. ASSUME c \in Sources PROVE GoodPause(row'[c], clock)
  <2>1. r \in Reports(c, o) /\ r.outcome # "new"
    BY <1>1, <1>4 DEF Reports, OutcomesOf, Terminal
  <2>2. x \in Nat
    BY <1>4, <1>7 DEF PInv
  <2>3. PICK d \in Nat : d = Delay(JobOf(w, c), r.outcome, x, r.continuation, r.changed)
                         /\ Pause(x) <= d
    BY <1>7, <2>1, <2>2, DelayFacts
  <2>4. n = Bounded(clock + d)
    BY <1>4, <2>3
  <2>5. PICK p \in Nat : p = Pause(x) /\ p <= d
    BY <2>2, <2>3, PauseFacts
  <2>6. /\ n = (IF clock + d <= Later THEN clock + d ELSE Later)
        /\ Bounded(clock + p) = IF clock + p <= Later THEN clock + p ELSE Later
    BY <1>3, <2>4, BoundedFacts
  <2>7. n \in NoTime .. Later /\ Bounded(clock + p) <= n /\ clock \in NoTime .. clock
    BY <1>3, <2>5, <2>6, BoundedFacts DEF NoTime
  <2> QED
    BY <1>3, <1>6, <1>7, <2>1, <2>2, <2>5, <2>7 DEF GoodPause, RowEnds
<1> HIDE DEF j, At, Failures
<1>8. \A i \in Sources : GoodPause(row'[i], clock)
  BY <1>3, <1>6, <1>7 DEF PInv, RowEnds
<1> QED
  BY <1>1, <1>2, <1>3, <1>8, QuietPause

LEMMA AttemptPause ==
  ASSUME BInv, PInv, NEW w \in Workers, NEW j, Attempted(w, j),
         clock' = clock, config' = config
  PROVE  PInv' /\ Spared
<1>1. /\ clock \in 0 .. MaxTime /\ config \in [Workers -> Configs] /\ Sources \subseteq Jobs
      /\ \A i \in Sources : GoodPause(row[i], clock)
  BY OrderFacts DEF PInv
<1>2. PICK r : r = Synchronized(w, j)
  OBVIOUS
<1>3. j \in Sources => /\ GoodRow(r, clock) /\ GoodPause(r, clock)
                       /\ r.finishedAt = row[j].finishedAt /\ r.failures = row[j].failures
  BY <1>1, <1>2, SynchronizedRow, SynchronizedPause
<1>4. CASE row' = row /\ run' = run
  BY <1>1, <1>4, QuietPause
<1>5. CASE row' = [row EXCEPT ![j] = r] /\ run' = run
  <2>1. row = [i \in Jobs |-> row[i]]
    BY DEF BInv, GoodRows
  <2>2. \A i \in Jobs : row'[i] = IF i = j THEN r ELSE row[i]
    BY <1>5, <2>1
  <2>3. \A i \in Sources : GoodPause(row'[i], clock)
    BY <1>1, <1>3, <2>2
  <2> QED
    BY <1>1, <1>5, <2>3, QuietPause
<1>6. CASE Begin(w, j, r, TRUE) /\ ~BackingOff(r)
  <2>1. j \in Sources => r.nextRun <= clock \/ r.failures = 0
    <3> SUFFICES ASSUME j \in Sources PROVE r.nextRun <= clock \/ r.failures = 0
      OBVIOUS
    <3>1. r.nextRun \in Int /\ clock \in Int
      BY <1>1, <1>3, BoundedFacts DEF GoodPause, NoTime
    <3> QED
      BY <1>6, <3>1 DEF BackingOff
  <2> QED
    BY <1>3, <1>6, <2>1, BeginPause
<1> QED
  BY <1>2, <1>4, <1>5, <1>6, Zenon DEF Attempted

LEMMA TaskPause ==
  ASSUME BInv, PInv, NEW w \in Workers, SourceTask(w) \/ ProjectionTask(w)
  PROVE  PInv' /\ Spared
<1>1. clock' = clock /\ config' = config
  BY DEF SourceTask, ProjectionTask
<1>2. CASE SourceTask(w)
  <2> DEFINE j == SourceOrder[refresh[w].position]
             b == refresh[w].rows[j].notBefore
  <2>1. \/ UNCHANGED <<request, row, run>>
        \/ Unavailable(w, j) \/ Reuse(w, j, b) \/ Refuse(w, j, b)
        \/ RunNow(w, j, b) \/ Busy(w, j, b)
    BY <1>2, Zenon DEF SourceTask
  <2> HIDE DEF j, b
  <2>2. Attempted(w, j)
    BY <2>1, AttemptEffects, Zenon DEF Attempted
  <2>3. PICK c : c = j
    OBVIOUS
  <2> QED
    BY <1>1, <2>2, <2>3, AttemptPause
<1>3. CASE ProjectionTask(w)
  <2> DEFINE j == ProjectionOrder[refresh[w].position]
             b == refresh[w].readyAt
  <2>1. \/ UNCHANGED <<request, row, run>>
        \/ Unavailable(w, j) \/ Reuse(w, j, b) \/ Refuse(w, j, b)
        \/ RunNow(w, j, b) \/ Busy(w, j, b)
    BY <1>3, Zenon DEF ProjectionTask
  <2> HIDE DEF j, b
  <2>2. Attempted(w, j)
    BY <2>1, AttemptEffects, Zenon DEF Attempted
  <2>3. PICK c : c = j
    OBVIOUS
  <2> QED
    BY <1>1, <2>2, <2>3, AttemptPause
<1> QED
  BY <1>2, <1>3

LEMMA PassJobPause ==
  ASSUME BInv, PInv, NEW w \in Workers, PassJob(w) PROVE PInv' /\ Spared
<1>1. /\ clock' = clock /\ config' = config /\ clock \in 0 .. MaxTime
      /\ config \in [Workers -> Configs] /\ \A i \in Sources : GoodPause(row[i], clock)
  BY DEF PassJob, PInv
<1>2. \/ row' = row /\ run' = run
      \/ \E j : Due(j) /\ Begin(w, j, row[j], FALSE)
  BY Zenon DEF PassJob
<1>3. CASE row' = row /\ run' = run
  BY <1>1, <1>3, QuietPause
<1>4. CASE \E j : Due(j) /\ Begin(w, j, row[j], FALSE)
  <2>1. PICK j, r : Due(j) /\ Begin(w, j, r, FALSE) /\ r = row[j]
    BY <1>4
  <2>2. j \in Sources => GoodRow(r, clock) /\ GoodPause(r, clock)
    BY <1>1, <2>1, OrderFacts DEF BInv, GoodRows
  <2>3. j \in Sources => r.nextRun <= clock
    BY <2>1, OrderFacts DEF Due, Inputs
  <2> QED
    BY <1>1, <2>1, <2>2, <2>3, BeginPause
<1> QED
  BY <1>2, <1>3, <1>4

LEMMA InitPause == Init => PInv
<1> SUFFICES ASSUME Init PROVE PInv
  OBVIOUS
<1>1. /\ clock = 0 /\ config \in [Workers -> Configs]
      /\ row = [j \in Jobs |-> [state |-> "new", interval |-> 0, startedAt |-> NoTime,
                                finishedAt |-> NoTime, nextRun |-> NoTime, failures |-> 0]]
      /\ run = [w \in Workers |-> NoRun]
  BY DEF Init
<1>2. clock \in 0 .. MaxTime /\ NoTime \in NoTime .. clock /\ NoTime \in NoTime .. Later
  <2>1. MaxTime \in Nat
    BY WorkerAssumption DEF WorkerAssumption
  <2> QED
    BY <1>1, <2>1, BoundedFacts DEF NoTime
<1>3. \A j \in Sources : GoodPause(row[j], clock)
  BY <1>1, <1>2, OrderFacts DEF GoodPause
<1>4. \A w \in Workers : run[w].failures \in Nat
  BY <1>1 DEF NoRun
<1> QED
  BY <1>1, <1>2, <1>3, <1>4 DEF PInv

LEMMA NextPause == ASSUME BInv, PInv, [Next]_vars PROVE PInv' /\ Spared
<1>1. /\ clock \in 0 .. MaxTime /\ clock \in Nat /\ config \in [Workers -> Configs]
      /\ \A j \in Sources : GoodPause(row[j], clock)
  BY DEF PInv, BInv
<1>2. ASSUME UNCHANGED <<clock, config, row, run>> PROVE PInv' /\ Spared
  BY <1>1, <1>2, QuietPause
<1>3. CASE UNCHANGED vars
  BY <1>2, <1>3 DEF vars
<1>4. CASE Tick
  <2>1. clock' = clock + 1 /\ clock < MaxTime /\ UNCHANGED <<config, row, run>>
    BY <1>4 DEF Tick
  <2>2. clock' \in Nat /\ clock <= clock' /\ clock' \in 0 .. MaxTime
    BY <1>1, <2>1, WorkerAssumption DEF WorkerAssumption
  <2>3. PICK c, d : c = clock /\ d = clock'
    OBVIOUS
  <2>4. \A j \in Sources : GoodPause(row'[j], clock')
    <3> SUFFICES ASSUME NEW j \in Sources PROVE GoodPause(row'[j], clock')
      OBVIOUS
    <3>1. PICK r : r = row[j]
      OBVIOUS
    <3>2. GoodPause(r, d)
      BY <1>1, <2>2, <2>3, <3>1, PauseLater
    <3> QED
      BY <2>1, <2>3, <3>1, <3>2
  <2> QED
    BY <1>1, <2>1, <2>2, <2>4, QuietPause
<1>5. CASE Enqueue
  BY <1>2, <1>5 DEF Enqueue
<1>6. CASE Revoke
  <2>2. \A v \in Workers : run'[v].job = run[v].job /\ run'[v].failures = run[v].failures
    BY <1>6, OvertakenRuns DEF BInv
  <2>3. UNCHANGED <<clock, config, row>>
    BY <1>6 DEF Revoke
  <2> QED
    BY <1>1, <2>2, <2>3, QuietPause
<1>7. ASSUME NEW w \in Workers, StartPass(w) PROVE PInv' /\ Spared
  <2>1. /\ UNCHANGED <<clock, config, run>>
        /\ row' = [j \in Jobs |-> Synchronized(w, j)]
    BY <1>7 DEF StartPass
  <2>2. \A j \in Sources : GoodPause(Synchronized(w, j), clock)
    BY SynchronizedPause
  <2>3. \A j \in Sources : GoodPause(row'[j], clock)
    BY <2>1, <2>2, OrderFacts
  <2> QED
    BY <1>1, <2>1, <2>3, QuietPause
<1>8. ASSUME NEW w \in Workers, PassJob(w) PROVE PInv' /\ Spared
  BY <1>8, PassJobPause
<1>9. ASSUME NEW w \in Workers, BeginRefresh(w) PROVE PInv' /\ Spared
  BY <1>2, <1>9 DEF BeginRefresh
<1>10. ASSUME NEW w \in Workers, SourceTask(w) PROVE PInv' /\ Spared
  BY <1>10, TaskPause
<1>11. ASSUME NEW w \in Workers, SourcesDone(w) PROVE PInv' /\ Spared
  BY <1>2, <1>11 DEF SourcesDone
<1>12. ASSUME NEW w \in Workers, ProjectionTask(w) PROVE PInv' /\ Spared
  BY <1>12, TaskPause
<1>13. ASSUME NEW w \in Workers, CompleteRequest(w) PROVE PInv' /\ Spared
  BY <1>2, <1>13 DEF CompleteRequest
<1>14. ASSUME NEW w \in Workers, FinishRun(w) PROVE PInv' /\ Spared
  BY <1>14, FinishRunPause
<1>15. ASSUME NEW w \in Workers, Crash(w) PROVE PInv' /\ Spared
  <2>1. PICK k \in Configs : config' = [config EXCEPT ![w] = k]
    BY <1>15 DEF Crash
  <2>2. config' \in [Workers -> Configs]
    BY <1>1, <2>1
  <2>3. UNCHANGED <<clock, row>> /\ run' = [run EXCEPT ![w] = NoRun]
    BY <1>15 DEF Crash
  <2>4. run'[w] = NoRun /\ \A v \in Workers : v # w => run'[v] = run[v]
    BY <2>3, RunOver DEF BInv
  <2> QED
    BY <1>1, <2>2, <2>3, <2>4, QuietPause
<1>16. ASSUME NEW w \in Workers, LoseSession(w) PROVE PInv' /\ Spared
  <2>1. \A v \in Workers : run'[v].job = run[v].job /\ run'[v].failures = run[v].failures
    BY <1>16, LostSession DEF BInv
  <2>2. UNCHANGED <<clock, config, row>>
    BY <1>16 DEF LoseSession
  <2> QED
    BY <1>1, <2>1, <2>2, QuietPause
<1> QED
  BY <1>3, <1>4, <1>5, <1>6, <1>7, <1>8, <1>9, <1>10, <1>11, <1>12, <1>13, <1>14, <1>15, <1>16,
     Zenon DEF Next, WorkerStep

LEMMA SchedulesSpare == Spec => []PInv
<1>1. DInv /\ PInv /\ [Next]_vars => PInv'
  BY NextPause DEF DInv
<1> QED
  BY <1>1, InitPause, Invariant, PTL DEF Spec

\* A provider is left alone: no worker, with whatever configuration it was
\* started again and whatever locks were lost, contacts it before the pause of its
\* last run is over, unless it has not failed and a refresh was requested.
THEOREM ProvidersPaused == Spec => ProviderPause
<1>1. DInv /\ PInv /\ [Next]_vars => [Spared]_vars
  BY NextPause DEF DInv
<1>2. Spared => \A j \in Sources :
        Starts(j) /\ row[j].finishedAt # NoTime =>
          \/ clock >= row[j].finishedAt + IF row[j].failures = 0 THEN ExternalFloor
                                          ELSE Backoff(ExternalFloor, row[j].failures)
          \/ row[j].failures = 0 /\ \E w \in Workers : run'[w].job = j /\ run'[w].manual
  BY DEF Spared, Pause
<1> QED
  BY <1>1, <1>2, Invariant, SchedulesSpare, PTL DEF Spec, ProviderPause
=============================================================================
