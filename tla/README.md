# TLA+ models of Pongdang

Pongdang collects observations and forecasts of beaches and valleys from public
providers, projects them into scores ("conditions") that its HTTP API serves
without calculating anything, and does a number of things around that: refreshes
on request, notifications, travel plans with a companion for the trip, an AI
concierge, pages of places, and an archive mode of the whole site. This directory
holds TLA+ models of the parts where order, concurrency and failure matter, TLC
configurations that check them, and proofs, checked by TLAPS, of most of their
safety properties.

Paths below are relative to `src/backend/app/` unless they start with `src/`.

## The system and its parts

| Part | State it keeps | Operations | What is hard | Modules |
|---|---|---|---|---|
| Condition projection (`water_index/condition_*.py`) | `condition_source_revision` (one row), `condition_generation`, `condition_result` | source transactions stamp the revision in a trigger; the worker snapshots, calculates, publishes, prunes; readers select | inputs change while a publication is calculated; corrections revoke what is published; rows are intervals that are split, reused and cut; a crash in the middle | `ConditionPublication`, `ResultIntervals`, `ConditionBoard`; readers also `ConditionEvidence` |
| Collection worker (`ingestion/worker.py`, `jobs.py`, `feature_jobs.py`) | `collection_job`, session locks per job | synchronize the schedule, run due jobs, record outcome and backoff | several workers, restarts with another configuration, backoff, urgency | `CollectionWorker`, `JobSchedule` |
| Refresh requests (`refresh/service.py`) | `collection_refresh_request`, `_task`, a session lock | enqueue (coalescing), serve sources then projections, resume, close | borrowed runs, the boundary between sources and projections, crash and resumption, a lost lock | `CollectionWorker` |
| Notifications (`notifications/`) | subscriptions, events, outbox, attempts | evaluate, deliver, edit, cancel | intent before I/O, retries under one key, cancellation while sending | `NotificationDelivery` |
| AI budget and admission (`ai/budget.py`), concierge (`ai/chat.py`, `tools.py`, `reads.py`, `service.py`) | daily budget, attempts, leases, rates; the state of a conversation | acquire, reserve, call, record usage, read, answer, release | cancellation at every await, threads that outlive it, leases that expire, midnight | `AiBudget`, `Concierge` |
| Source storage (`ingestion/storage.py`), forecast projection (`forecast/storage.py`), assessments (`water_index/producer.py`, `storage.py`), retention (`ingestion/retention.py`, `water_index/retention.py`) | snapshots, forecast revisions, runs, read manifests, assessments | import, supersede, restore, project, assess, prune in batches | corrections that are taken back, references in JSON, run numbers, deleting between any two steps | `SourceHistory`, `AssessmentHistory`, `EvidenceRetention` |
| Archive mode (`src/ops/pongdang-mode`) and deployment watch (`src/ops/pongdang-deploy*`) | marker file, volume, containers, last-live file, timers, attempt file | archive, resume, roll back, return; watch, gate, deploy | a failure or a kill at any external command; a gate that waits while the mode changes | `LiveHost`, `ArchiveMode`, `Deployment` |
| Travel (`travel/`) | preferences, plans with routes, receipts, sessions, events | draft, save, star, promote; start, refresh, correct, acknowledge, end | stale reads, refreshes without locks, corrections after a confirmation | `TripPlans`, `TripCompanion` |
| Pages of a place (`twin/`, `water_index/recommendation.py`, `place_details/`, `attachments/`) | readings as readers see them; details, links, attachments, budgets | select, recommend, fetch, recheck | three readers of the same history; lookups that fail; two collectors and a provider that changes | `ConditionEvidence`, `ActivityChoice`, `PlaceDetails`, `PlacePictures` |
| Provider adapters, quality, livecams, translations, tides, HTTP layer and sign-on, frontend, operations scripts | various | parsing, arithmetic, I/O and presentation | | not modelled |

Interactions: a collection job (worker) writes readings (source storage) in a
transaction whose triggers stamp the revision of the condition projection; the
projection is itself a job of the worker; a refresh request makes the worker run
the source jobs and then the projections; retention and notifications are jobs
of the worker too; HTTP handlers read the projection, enqueue refreshes, change
subscriptions, plans and trips, and hold conversations whose reads are the same
as the pages'. The archive controller and the gate of the deployment watch start
and stop all of these processes under one lock.

`PROJECT.json` lists every part with its sources and status, under `hazards` what
is hard to test, at its line, with the properties that cover it, and under `map`
the lines each definition stands for.

## Modules

| Module | Models |
|---|---|
| `ResultIntervals` | the interval algebra of `condition_storage.py`: clip, split, fill history, reuse, truncate, prune; and the producer's intervals. Pure operators on sets of rows |
| `ConditionPublication` | the projection of one key (spot, activity, mode): writers, producer, readers, pruning |
| `ConditionBoard` | the abstract specification: what the projection promises, without rows, locks or transactions |
| `JobSchedule` | when a job runs next: intervals, floors, backoff, continuation, a changed interval |
| `CollectionWorker` | workers with their passes, and the refresh request |
| `NotificationDelivery` | one subscription with its readings, events, outbox, passes of the job and the mail provider |
| `AiBudget` | budget, attempts, leases and rates, one operator per transaction |
| `Concierge` | conversations and explanations, await by await, over `AiBudget` |
| `SourceHistory` | the readings of a station and the forecast revisions made of them |
| `AssessmentHistory` | assessments, the views readers choose from, and the choice |
| `EvidenceRetention` | composes the two with the condition projection's references and with retention |
| `LiveHost` | containers, volume, files and timers of the host, and what a command does to them when it completes, fails or is killed |
| `ArchiveMode` | the controller: each operation as a list of commands with its error and exit traps |
| `Deployment` | composes the controller with commits, CI, the deployment watch and its gate |
| `TripPlans` | preferences and one saved plan, with the requests that edit them |
| `TripCompanion` | extends it by the trip: session, refreshes, events, the world they tell of |
| `ConditionEvidence` | how records of several stations become the metric that is shown (no variables) |
| `ActivityChoice` | the recommendation of an activity with its lookups |
| `PlaceDetails`, `PlacePictures` | details and photo of a place, fetched by several collectors |
| `MC*` | instances for TLC; `MCResultIntervals` compares the algebra with its pointwise definition, `MCPlacePages` puts the parts of a page into one run |
| `NumberSets` | lemmas shared by the proofs: minima and maxima, induction on a set of naturals, folds and finite sums |
| `*Proofs` | theorems and proofs of the module they are named after |

Operators whose comment starts with "Mutant:" are deliberately wrong variants of
the definition that follows them. No specification uses them; they show that a
property would notice such a bug (`PROJECT.json`, `mutants`).

### ConditionPublication

- `source` is the committed row of `condition_source_revision` (revision,
  invalidated revision and instant); `writer[w]` is an open source transaction.
  `StartStatement` fixes the clock of the statement, `StampChange` and
  `StampRevocation` are the trigger `invalidate_condition_projection`, which
  holds the row lock until `CommitSource` or `RollBackSource`.
- `evidence` is what the source tables say for the key per target instant. A
  change names the revision that brought it (`basis`), which is how a property
  can tell whether a payload rests on withdrawn evidence. `revokedAt` and `shown`
  are history: when the evidence of a revision was withdrawn, and what the latest
  generation set out to show.
- `producer` is the `condition_projection` job. `TakeSnapshot` is the
  repeatable-read transaction of `produce_conditions`; `BeginPublication`,
  `MergeResults` and `CommitPublication` are one transaction of
  `publish_conditions`, cut where other transactions can interleave: after the
  first check of the revision, after the reconciliation and at the last check
  (`FOR SHARE`, so it waits for a stamped writer). What the transaction has
  written is in `producer` until it commits. `Crash` is a killed worker or an
  aborted transaction.
- `results` and `generations` are the committed tables. A row is a half-open
  interval with the generation and content it was written with.
- `Served(at, asOf)` is the selection of `read_condition_set`.

One key is enough because every statement of the publication joins on the key;
the other keys of the same revision counter appear as source changes that touch
no evidence of this key. A payload is a kind (a value, no value, a restriction),
its basis and whether it was retained; scores and wording are left out.
Calculation outside the transaction is a function of the snapshot.

The abstract specification `ConditionBoard` has one content per target instant.
A publication replaces the board from its calculation instant on and fills gaps
before it; a correction wipes it from some instant on; nothing else changes an
instant in the window. `KeepsPromise` says that `ConditionPublication`, seen
through `Readable`, implements it.

### CollectionWorker

- `row` is `collection_job`; `run[w]` is the job worker `w` is running, between
  the update to `running` and the final transaction of `run_due`; `pass[w]` is its
  position in the automatic pass and `refresh[w]` what it does for the request.
- A lock belongs to the idle guard session it was taken on (`worker.py:144`,
  `service.py:107`), and `locked` says whether run and refresh still have it. The
  job itself works over other connections. `LoseSession(w)` takes the lock of the
  run, of the refresh or of both and nothing else: the run goes on and `FinishRun`
  writes row and task, whoever has the lock by then (`finish_task`,
  `service.py:83-89`, looks at no state); only the unlock raises
  (`worker.py:341-345`, `service.py:238-241`), and the exception leaves refresh and
  pass (`Abandon`). Meanwhile another worker may take job and request up, finish and
  close them; hence a worker in the refresh keeps the request it serves (`of`) and
  the tasks it has read (`rows`). `Crash(w)` is the death of the process, or a write
  of its own that fails: it resets run and refresh and leaves the rows, then the
  worker starts again with any configuration.
- `request` is the last refresh request with its tasks; the partial unique index
  and the lock of `enqueue_refresh` allow one active request.
- `BeginRefresh` creates the tasks or resumes them; `SourceTask` and
  `ProjectionTask` are one `run_due` call for the task's job, with its four
  outcomes: borrow a run (`Reuse`), respect the backoff (`Refuse`), run
  (`RunNow`, ended by `FinishRun`) or find the job locked (`Busy`).
- A task's `startedAt` and `run[w].overtaken` are not in the database: the first
  is history for the properties, the second stands for the revision check that
  makes the projection fail with `CONDITION_INPUT_CHANGED` (the subject of
  `ConditionPublication`). `urgent` is `projection_urgent`: nothing published
  that may be served.
- Delays are constants, so that a clock of a few units shows a schedule; the
  clock stops at `MaxTime`, and a schedule beyond it is `Later`.

Abstractions: the row is read and updated in one step although two statements of
the code do it under the job's lock (only `synchronize_jobs` of another worker
could come between); the creation of tasks and the update of `not_before` are
merged with the step that follows them; a session is lost between two such steps,
not within one; the lock of a lost session is free at once, while the server may
hold it until it notices, which only delays others. Heartbeats, `--force`, `--once`
and `--job` are left out.

What a lost guard session does to a request is a difference to the docstring at
`ingestion/worker.py:136` ("Session advisory locks prevent concurrent workers from
duplicating a job"): the run that goes on and its successor run at once, the late
one overwrites the task the other has finished, perhaps after the request was
closed, and moves the end of a source past the start of the projection that was
credited. `SuccessMeansRefreshed`, `ClosedMeansSettled` and `FinishedTaskStable`
therefore make no claim about such a request: `disturbed` (history) is set by a
loss and by a request made while a worker is still in the refresh or runs without
its lock, and cleared by the next request made when none is. `ProviderPause`, `RequestCompletes` and
`RevocationAnswered` claim the same with and without lost sessions.

### NotificationDelivery

- `subscription`, `event`, `outbox` are the tables of one subscription
  (subscriptions do not interact); `reading` the observations of its station with
  the superseded ones; `mails` and `keyUntil` are the mail provider's: how often
  it has mailed a notice and until when it remembers the idempotency key.
- `sender[s]` is a pass of the notification job. `Evaluate` is
  `evaluate_subscriptions` with its corrections, `Read` takes a due row under the
  subscription's advisory lock, `Intend` commits the intent, `Send` is the call,
  `Record` its outcome. A `Crash` may come anywhere; `LoseSession` loses only the
  lock of a pass, which goes on without it.
- Users `Create`, `Edit` and `Cancel`; `Import` brings and corrects observations.

Left out: the `condition_state` column, the rows of the evaluation history,
validation of owner and place, and how a condition is computed from observations
(an input). The clock counts a unit longer than any pause between attempts. The
assumption `Window + PassLength <= KeyMemory` is the code's: 23 hours in which a
key is repeated (`delivery.py`) against 24 for which the provider keeps it.

Difference to the documentation: `src/docs/implementation/backend/notifications.md:174`
says at most eight attempts; the code compares the number only when an attempt
ends in an error (`delivery.py:184`, `:194`), so a row whose pass dies while it is
`sending` for the eighth time is tried again.

### AiBudget and Concierge

- `ledger` is `ai_daily_budget` per day, `attempts` the reservations with what was
  used, `leases` the expiry of each request's lease, `rate` the newest minute of a
  caller. Each operator is one transaction of `budget.py`.
- `req[r]` is a request with the await it is at, and what it has read (`facts`),
  how many calls it has made, what was decided. `Ask`, `Admit`, `Reserve`,
  `Respond`, `ReadMore`, `ReadDone`, `Release` follow `converse`; every one has
  its failure.
- `threads` are statements and calls nobody waits for any longer: a request that
  `TimesOut` or whose client `Disconnect`s leaves its await at once and the thread
  of `asyncio.to_thread` goes on, so the statement may take effect later
  (`ThreadEnds`) or never. A process that dies is a disconnect of its requests
  with threads that are lost and releases that fail.

Left out: the greeting shortcut, `check_scope=False` (command line), the fallback
`deterministic_reads`, the status of travel reads, wording. The event loop serves
its timers at once. `RequestTimeout < LeaseLife` is the code's: a lease lives five seconds longer than
the timeout of a request (`ai/budget.py:246`). Explanations have no timeout of the
request, so `CapHolds` counts conversations only.

Difference to a comment: `ai/tools.py:520` says "Atomic result sets prevent
partially read restrictions being hidden", but a timeout of the whole request
answers with what half a read had found so far (and says that time ran out, which
is what `AvailableMeansRead` states). For actions that read nothing the status may
be "available".

### SourceHistory, AssessmentHistory, EvidenceRetention

- `snapshots` are the rows of the observation table with what they supersede and
  when they were fetched; `StoreBatch` is `store_batch`: it inserts, supersedes
  and, when a provider takes a correction back, restores a row. `heard` is
  history: what the provider said last of each record. `revisions` are forecast
  revisions (`ProjectForecasts`), `KnownAsOf` the selection at an instant of
  knowledge.
- `runs`, `reads`, `assessments` are the production runs, the read manifests and
  the assessments; `ProduceAssessments` is one pass with its fingerprint, its
  order and its expiry; `ReadProjection` is what a reader gets; `RegisterMapping`
  corrects the stations of a group.
- `results` and `projector` stand for the condition projection as far as it names
  snapshots: `BeginProjection` reads them, `FinishProjection` publishes results
  that name them, `ProjectorDies` in between.
- `PruneAssessments` and `PruneSources` are one batch of a pass of retention.

Left out: places, details and warnings, identities of batches, KMA's issue rank,
the rules of annual temperatures and of 31 days, the presence of stations,
references from notification events and quality analyses, evidence of
authorities, batches of several readings, the historical read between the stamp
`available_at` and its commit. Manifests and targets are folded into the view
they belong to; there is one profile; the order of the jobs is free. A record's
target is fixed (the shifting slots of a tide table are content). The guard
`ObservedAt[r] < WindowEnd(clock)` is the adapters': providers forecast no farther
than the retained week. Records that share a source key share their target, and
the records of one product are all forecasts or all observations.

### LiveHost, ArchiveMode, Deployment

- `host` is what the controller changes: services that are up, which website is
  served, the volume, `active.json` (`marker`), `last-live.json`, whether the
  monitor leaves the live stack out, the timer of the watch. Ghost fields say who
  brought the live website up (`by`), who has served while data was written that
  the backup lacks (`unsaved`) and whose data was deleted (`lost`).
- `mode` is the controller: the operation, the list of commands that is left, what
  it found when it began, how many commands have failed. `Completed` is what a
  command does, `Interrupted` what it may have done when it fails or is killed:
  nothing, all or a part. `Fail` continues with what the `except` and `finally`
  of the operation do (roll back, restore, return to the archive), `Killed` with
  nothing.
- `watch` and `gate` are the deployment watch and `pongdang-deploy`, which compete
  with the controller for one file lock. `attempt` is `deploy-watch-state.json`,
  written before the gate is called; `handed` is history.
- `Prepare` is external (preparation and verification of a generation by the
  operator, only its result is modelled); so are `Push`, `Build` and `Write`.

Commits only move forward; the CI watch is folded into `watching`; images and the
contents of the static site are left out.

What the model shows beyond the properties (no document promises the contrary):
a kill between `marker.unlink()` and the restoration of the timers leaves the
timers disabled; `restore_state=restoring` survives `archive
--remove-database-volume`, after which `resume` refuses for ever; a deployment
between preparation and archive writes data the backup lacks; `resume` and the
rollback start the saved release although `current` may name a newer one; an
archive killed before its static site is up can only be resumed; two failures in
one operation may leave the archive website without a marker.

### TripPlans and TripCompanion

- `plan` and `profile` are rows with their revisions; `editor[e]` is a request that
  has read a plan and drafts a new one, `form[e]` a form of the preferences,
  `receipts` calculated routes that a client may hand back.
- Preferences are a set of tags, at most `MaxTags`, and fields that hold one value
  or none (`None` is `Unset`). `Promoted` is what `promote_mood` does: the tags of
  the mood are added, the two fields it may name (`MoodFields`: intensity and
  minutes of travel) replace those of the row when the mood names them, all others
  stay. More tags than allowed end the request with an error before it writes.
- `session` and `events` are the trip's rows, `device[d]` a refresh: `BeginRefresh`
  reads the session without a lock, `Ask` gathers records, `BeginWrite` and
  `FinishWrite` are the transaction of `_persist_refresh` around the places where
  another device can come between. `world` is what is published, corrected and
  expired meanwhile.

Left out: drafting, the search for an order of stops, ranking of places; the order
of tags, and that regions, avoidances and labels are lists (they are fields here).
Difference to the documentation: `src/docs/group-b-backend.md:231-232` says that a
correction of a source marks the former event superseded; a record that is
corrected twice between two refreshes, whose restriction is lifted, or that is
corrected while a refresh fails leaves the former event "confirmed".

### Pages of a place

`MCPlacePages` is one run of four parts that share no state; the frozen variable
`part` says which one a behaviour is about.

- merge: `MCResultIntervals` gives every disjoint table and stage to the
  reconciliation.
- evidence: `SourceHistory` makes histories of two stations; three readers look at
  them at every past instant: the map (`twin/api.py`), the condition readers and
  the recommendation.
- choice: `ActivityChoice` recommends an activity while lookups fail or time out.
- details: `PlaceDetails` and `PlacePictures` with two collectors, the provider's
  changes, the daily budget, retries, the recheck command.

Differences to comments and documents, seen while modelling: after a value A, its
correction B, A again and then C, a cutoff between the third and the fourth batch
shows B although A was in force (against
`src/docs/implementation/backend/activity_data_validation.md:71`); `twin/api.py:247` says "Latest
revision *known at cutoff* wins", but after A, B, A the map keeps showing the
withdrawn B, and a correction that omits the quantity makes it fall back to an
older record; of the rules shown to users
(`water_index/recommendation.py:184-235`) `wave_favours_surf` says that the wave
scores decide where the code ranks by the total score, `water_activity_preferred`
names swimming and surfing only where the code includes rafting and mudflats, and
`no_water_activity_today` promises alternatives whenever no water activity
remains, where the code gives its reason only when nothing at all is chosen; a
place whose link is removed
keeps its photo, although moved and renamed sources "cannot remain attached"
(`place_details/collector.py:61-62`); a recheck queued while a fetch
is under way is overwritten by its `record_attempt`; a recheck of a photo without
`photo_url` is answered from the stored attempt. An authority's word is assumed
not to depend on the mode. A place row that is missing is not told apart from
a failed lookup, and the separate failures of catalogue and valley lookups
are one; the date of the details is that of their listing. Empty answers,
unsupported categories, foreign languages, translations and livecams are not
modelled.

## Runs

All runs set `CHECK_DEADLOCK FALSE`: clocks and the numbers of revisions,
requests, commits and faults are bounded, and behaviours end when they are used
up. Every property is paired with a mutant of a mapped definition that TLC finds
violating it under the same bounds.

| Run | Question | Bounds |
|---|---|---|
| `condition_forecast` | forecast rows over a midnight: two source transactions race with each other and with a publication; restrictions, pruning and a crash | 2 revisions, 2 writers, 3 instants of clock, days of 2, window 3, 1 crash; 489 542 states |
| `condition_observation` | observation rows, which carry the last value forward: is a due projection caught up? | the same with 1 writer; 41 920 states, with fairness |
| `worker_projections` | does a served request deliver what its status says, with workers that borrow each other's runs, lose locks or restart with another configuration? | scenarios, see below; 1 411 850 states |
| `worker_liveness` | does every request end, and is a withdrawal answered without waiting for the interval? | 2 workers, 1 request or 2 withdrawals, 1 crash or lost session; 148 945 states, with fairness |
| `notifications` | is a notice mailed at most once, told once per revision, and never after a cancellation? | 2 passes, 2 readings, 2 notices, 2 revisions, 2 attempts, 1 fault, 3 instants; 2 006 844 states |
| `concierge` | caps, ledger, what an answer may claim, and that every conversation ends | 1 conversation and 1 explanation of one caller, cap 1, 3 calls and 5 tokens a day, 4 days of one instant; 659 538 states, with fairness |
| `evidence` | does anything published lose what it names; does deleting change what readers see or what was known? | 2 records, 2 contents, days of 2, 4 instants, 3 batches, 2 runs, 2 mappings, batches of 1, passes of 2; 549 834 states |
| `archive` | what any sequence of operations with failing or killed commands does to data, site and deployments | 2 commits, 1 attempt each; 751 712 states |
| `archive_rolled_back` | (expected violation) is data written after a rollback kept? | 1 commit |
| `trip` | are plans, preferences and trips safe from stale reads, is an ended trip quiet, are pauses kept? | scenarios, see below; 1 965 982 states |
| `trip_acknowledged` | (expected violation) does a confirmed notice stay confirmed? | the same |
| `place_pages` | the parts of a page | see below; 724 215 states |

The bounds are chosen so that the interesting things happen. In the projection two
revisions are evidence and its correction or two racing changes, and days of two
instants put a midnight inside the run with rows of several instants on both sides
of it. Two workers, passes, editors, devices or collectors are enough for every
race, because each shared thing has one lock. Retention needs two records (one that
ends with the day and one across midnight), two contents (a correction that is
taken back) and batches smaller than what is to be deleted. The archive model has
no bound on operations, failures and kills, only on commits.

Bounds of inputs that are not constants are actions of the MC modules:

- `worker_projections`: either both workers run under one configuration (source,
  scores, evaluation with a continuation) and one may die or lose a session at the
  start, or one worker is alone, restarts at instant 1 with another configuration
  and is asked for a refresh then or later; after a loss no automatic pass starts
  once there is a request. `worker_liveness`: a behaviour sees requests or
  withdrawals, not both, and a crash or a loss at instant 0, with a request while
  the worker serves it; no automatic run fails once there is a request.
- `notifications`: users and imports act before the last instant; an unconfigured
  provider is configured by the end of the first.
- `trip`: one behaviour edits a plan, changes preferences, or plans and makes a
  trip. Editing fixes only the first stop; preferences have two tags, of which a row
  holds one, a field a mood may name and one it may not; on a trip three records appear (an
  observation with its correction and a restriction, or the other way round).
- `place_pages`: 3 instants, 2 contents, 2 old generations for the merge; 3
  records of 2 stations, 4 batches and 4 instants of clock for the evidence; 8
  surroundings and at most 2 lookups that fail for the choice; 2 places, 2
  collectors, 4 calls a day, 2 revisions, 1 trouble and 2 days for the details.
- `evidence`: a behaviour has the assessments or the two projections at work, each
  with imports and both retentions.

What the properties mean:

- `NoWithdrawnEvidenceServed`, `WithdrawnEvidenceEndsAtCorrection`: after a
  correction has committed nothing that rests on what it withdrew is served for
  the present or the future, and of the past only what precedes it.
- `PublishesCurrentEvidence`: a generation appears only while its evidence is
  the committed evidence.
- `LatestGenerationComplete`: the rows are disjoint and are, from the instant of
  the last calculation, what that generation calculated. `RestrictionShown`:
  neither retention nor merging hides a restriction in force. `KeepsPromise`:
  refinement of `ConditionBoard`. `EventuallyCurrent`: a due projection is caught
  up.
- `SuccessMeansRefreshed`: a request that reports success had a source collected
  by a run started after it, and the scores projected by a run started after the
  last source ended, though runs may be borrowed and the refresh resumed.
  `ClosedMeansSettled`, `FinishedTaskStable`: a closed request has no open task and
  no run in its name; what a task reported stays. These three are claimed of requests
  at whose time no guard session was lost (see `CollectionWorker` above).
  `ProviderPause`: pauses and backoff of providers survive restarts and lost locks
  and are overridden only by a request, and then only the pause. `RequestCompletes`, `RevocationAnswered`: liveness.
- `AtMostOneMail`: at most one mail per notice, and "cancelled" and "accepted" tell
  the truth about it as long as no lock was lost. `OneNoticePerRevision`: the user
  is told once per revision of the settings, whatever is corrected.
  `CancellationHolds`: after a cancellation or edit has returned no mail of the
  former settings leaves.
- `CapHolds`, `LedgerAddsUp`, `AvailableMeansRead`, `EveryRequestEnds`: the cap
  across processes; the ledger of a day is the sum of its attempts and within its
  limits; a response presents as read only what was read; conversations end.
- `NothingDangles`, `CurrentIsLastHeard`, `ServedIsLive`, `PastStaysKnown`,
  `RetentionHidesNothing`: references in JSON are kept; one row per record counts,
  and it is what the provider said last; nothing served is over or rests on a
  corrected mapping; what was known at a past instant stays known; a step that only
  deletes changes nothing readers and producers are given for today or later.
- `LiveOnRealData`, `ResumedDataKept`: backend and collector never run on an empty
  or half restored database, and data written after a resume is never deleted.
  `OneFailureKeepsTheSite`: one failing command leaves a website served.
  `ArchiveEndsLive`: archive mode ends with the whole live stack on real data, and
  until then no deployment changes the host. `AttemptOnce`: no CI attempt is handed
  to the gate twice.
- `RouteFitsStops`, `EditsBuildOnThePlan`, `NothingUnseenLost`: a stored route is of
  the stored stops; an edit replaces the plan it was made from; preferences are
  replaced only by a request that was shown them, and a mood keeps every tag and
  every field it does not name. `EndedIsQuiet`, `NotifiedSparingly`: a trip that has
  ended gets no event and no position; notices of one kind keep the pause.
- `MergeIsPointwise`: the reconciliation equals its definition instant by instant.
  `ReadersTellTheNewest`, `OfficialWordIsFinal`, `DegradesOpenly`,
  `SettledPagesAreCurrent`: three readers agree on the newest evidence; a choice
  never goes against an official restriction; a failed lookup is named and can only
  have left out the tide; a page with nothing left to do shows the provider's word.

### Fairness

- `condition_observation`: the worker polls its jobs for ever (weak fairness of
  its steps), a database transaction ends, and a waiter for the row lock is served
  when its holder ends, which PostgreSQL's lock queue does (strong fairness of the
  commit). Source changes and crashes are not fair.
- `worker_liveness`: crashes and losses are not fair; every worker keeps stepping and a run ends (provider and
  database calls have timeouts), so each has weak fairness. The refresh is looked
  after before every job of a pass and in every turn of the main loop; hence a
  refresh that can be taken up again and again is taken up by some worker (strong
  fairness of `\E w : BeginRefresh(w)`, not of each worker). Nothing is assumed
  about which worker gets a job's lock.
- `concierge`: statements of the database end and the event loop serves its timers;
  nothing is assumed of the provider, the clients or the data.

### Findings

- `archive_rolled_back`: the rollback of a failed activation brings the live
  website back without writing `last-live.json` (`src/ops/pongdang-mode:437`). A
  resume that fails early and `archive --remove-database-volume` then delete what
  users wrote meanwhile, which the comment at lines 393-395 excludes.
- `trip_acknowledged`: `_persist_refresh` writes the payload of an event back that
  it had read without a lock (`travel/companion.py:496`); a confirmation in between
  is lost, against `src/docs/group-b-backend.md:67`.
- Without a run: `src/docs/ai/SCORE-REFRESH-BACKEND.md:6` says that a refresh
  handles the condition projection last; `PROJECTION_JOBS`
  (`refresh/service.py:47-52`) puts it first. It reads nothing the others write, so
  the document is out of date and nothing else is wrong.

## Proofs

Checked by TLAPS for every value of the constants that satisfies the modules'
named assumptions, which TLC evaluates in the runs. `PROJECT.json` lists the
theorems with the property each states. Every inductive invariant was checked by
TLC on small instances before it was proved.

- `ConditionPublicationProofs` begins with where the rows of each step of the
  reconciliation come from: every row of `ClipRevoked`, `SplitStage`,
  `MissingHistory`, `Truncate`, `PruneRows` and `Runs` lies within a row it was made
  of and keeps its content, put together in `MergeStageRows`.
- The same module, first invariant `IInv`. `NoWithdrawnEvidenceServed`
  says nothing about rows that are not served now, about transactions in progress
  or about the relation of revisions, all of which a later step may bring to light.
  `IInv` adds: types and clocks not in the future; the invalidated revision is known
  and its instant set with it; generations are not newer than the source; only
  evidence of older revisions was ever withdrawn, and committed evidence stands; at
  most one stamped writer; a snapshot of the current revision is the current
  evidence; every row rests on evidence its generation could know and is either
  unrevoked or cut, in the table and in the transaction.
- The same module, second invariant `SInv`: what rows say instant by instant. Stored
  and merged rows are disjoint (`Tidy`), generations were calculated one after the
  other (`Successive`), nothing is shown beyond the window, and from the instant of
  its calculation the latest generation's rows say exactly `shown` (`LatestShown`,
  `MergedShown`), restrictions included (`MergedRestricts`, `LatestRestricts`);
  while the revision stands what is merged rests on nothing withdrawn and leaves the
  readable past as it is (`MergedStands`, `MergedPast`). From `SInv` follow
  `LatestComplete`, `RestrictionsShown`, and the refinement `PromiseKept`, step by
  step: a commit of the publication is a publication of the board, a committed
  correction a correction, everything else a stutter or the board's own clock and
  pruning. `BoardNeverShowsWithdrawn` proves what the board promises and carries it
  over.
- The same module, the algebra by itself: `MergedPointwise` states `MergeIsPointwise`
  of `MergeSpec` (`MCResultIntervals`) for tables of every size, every horizon `End` and
  any start of the day. `MergeStageTidy` says of a reconciliation what
  it shows at an instant (`Reconciled`) and of which generation (`Chosen`): before
  the calculation the row that was there, else the stage; from it on a row whose
  every later instant is staged with its content, else the stage. Two lemmas carry
  this to the definition: the clipped rows at an instant are those that can be read
  (`ClippedIsReadable`), and those of them that are repeated are the confirmed ones
  (`RepeatedIsConfirmed`), for a row still there after the calculation is not stale
  and nothing was clipped of it. Pruning changes no instant of the window
  (`PruneShows`), so the invariant `MergeInv` also needs the rows to be disjoint.
- `CollectionWorkerProofs`: a closed request is settled (`RequestsSettle`) and what
  a task has reported stays (`ReportsStay`), unless a guard session was lost. Neither
  is inductive: a crash leaves a task running without a run, and a run can outlive the
  steps around it, also those of its lock. `BInv` holds always: types, where workers
  stand, and what a run knows of its row. `IInv` adds what holds while the request
  is undisturbed: one worker at a time serves it, and only a running one
  (`OneServer`); a run for the request belongs to that worker and its task is running
  (`ManualRuns`); a queued request has no tasks and a closed one no open task
  (`TasksFitStatus`); the tasks the worker has read are those of the request
  (`UpToDate`). `DInv` is `BInv`, and `IInv` unless `disturbed`: a request that clears
  the mark finds no worker left in the refresh and no run without its lock, so `IInv`
  holds again. `SuccessIsEarned` needs times: `WInv`, undisturbed too, says that a
  task is credited only with runs since the request (`GoodTask`), that credited
  projections started after all they build on had ended (`InOrder`), that the
  boundary a server carries lies after them too, also when it has resumed
  (`GoodServer`), and that a run in progress started after the boundary
  (`GoodRun`). `ProvidersPaused` is about the schedule, which is written whole by
  whoever ends a run, and needs only `BInv`: `PInv` says that the stored next
  run of a source lies behind the pause its last run is owed (`GoodPause`), which
  every rewriting of the schedule for another interval keeps (`FollowFacts`), for a
  source's interval is never below the floor and a longer interval never backs off
  for a shorter time (`BackoffGrows`; the powers of two are enumerated, as the code
  caps the exponent).
- `NotificationDeliveryProofs`: a row's attempts are numbered without a gap and the
  first is dated (`Numbered`), the provider remembers a key for `KeyMemory` after it
  (`KeyRemembered`), and a pass about to send is still in the window of the row,
  whoever else has tried it, because its attempt's number would be taken otherwise
  (`Pass`): hence one mail. While no lock is lost, a pass that works on a row holds
  the lock and does what subscription and row ask for (`Licensed`), terminal states
  tell the truth, and of one revision at most one notice may still be told
  (`OneLive`): hence `OneNotice` and `CancellationProtects`.
- `VisitorProofs`, on what a visitor asks for. `Concierge`: a conversation's awaits end within its timeout and its lease
  goes beyond it (`Timely`), so the leases count the conversations (`Capped`). The
  ledger of a day is the sums of its attempts (`Books`), which needs that an
  identity still to be used is not used yet, also by a thread nobody waits for
  (`Numbered`), and lemmas on finite sums (`NumberSets`). `Sound` says where a
  request may stand for what it has read; `Balanced`, `ClaimsWhatWasRead` follow.
- The same module, `ActivityChoice` (`ChoiceSpec`, one request from first lookup to
  answer): `ChoiceInv` says that what is not known has not been looked up yet, is not
  asked of a place of this kind or is named as missing, and that the decision is made
  once, from what is known then. `OfficialWordHolds` rests on what `Best` chooses:
  nothing ineligible, and a word that is the same in observation and forecast
  (`ChoiceAssumption`: the authority's word is stored for place and activity, and
  scores are 0 to 100). `DegradationIsOpen` needs that the evidence itself
  tells the kind of the place (`KindIsKnown`), so a lost place changes no choice, and
  that the tide only orders what is eligible.
- The same module, `PlaceDetails` and `PlacePictures` (`PageSpec`): `PageInv` follows
  the date of the record through the collectors: whoever carries the present date
  carries the present content, and once fresh details are stored no collector can
  bring older ones (`DetailsInv`); one row of the record is in force, what is shown
  is there, and a place that was tried with fresh details shows what is allowed
  (`PicturesInv`). From both follows `SettledPagesHold`. `PicturesAssumption` keeps
  photos apart from the words that stand for their absence.
- `EvidenceRetentionProofs`: rows are numbered in the order they were fetched and
  each content of a record has one row (`NumberedInOrder`, `OneRowPerContent`); the
  row that counts holds what was heard last and is kept until its target is past
  (`CurrentHeard`, `HeardKept`); revisions belong to their record's source and
  appear in order; references are held, also what the projection at work has read
  (`ReferencesHeld`); views are ordered by day although run numbers are used again
  (`ViewsOrdered`), and end before their rows do. That deleting goes unnoticed rests
  on two lemmas: of a family what is deleted is older than all that is kept, and
  what a condition is calculated from lies within what retention keeps.
- The same module, the readers (`EvidenceSpec` of `ConditionEvidence`, where nothing is
  deleted yet): `EvidenceInv` adds that a record that was heard has a row that counts
  (`FamiliesHeard`) and that it has one row per instant (`OneRowPerInstant`: a record
  is fetched once at an instant). `NewestIsTold` then follows reader by reader: what
  is read of a record is what was heard last or withheld, the groups are ordered by
  target, and the choice among stations keeps that order and the distance, which is a
  minimum over a finite set.
- `TripCompanionProofs`: requests rest on the revision they have read (`Reads`,
  `FormsShow`), so the revision check at saving is enough. For the trip: a refresh
  that writes holds the session, alone, and what it corrects is still there
  (`Writes`, `OneWrites`). `NoticesKeepThePause` is an induction along the list of
  subjects that one refresh writes, since its notices see each other.
- `DeploymentProofs`: what holds of the host depends on how far the controller has
  come. Since no command occurs twice in a list, the command that is next says how
  far: `ArchiveHolds`, `RollbackHolds`, `ResumeHolds` and `ReturnHolds` state for each
  list what holds before which commands, `EndOf` that the commands left are the end
  of the list, and the lemmas `...Ordered` which command follows which. `InOrder`
  says that the marker tells the truth: without it the data are real, and a volume
  that is not is marked as being restored or failed; and that while live operation is
  not recorded nothing was written after a resume. Each command is shown to keep
  `InOrder` given what is asked of the host before it (`Safe`), completed
  (`CommandKeeps`) or cut off with a part of its effect (`FailureKeeps`); each list
  to hold on from one command to the next (`...GoesOn`, `CompleteKeeps`); each
  failure to lead to a list that may begin (`FailKeeps`). Kills need no more than
  `InOrder`, which is why the next operation may start from wherever they left the
  host. The gate changes the host only while it excludes the controller and no
  marker exists (`GateInv`). For the watch, `AttemptInv` orders the attempts by
  commit and number: what is recorded next is later than all that was handed over.
- `NumberSets`: facts about minima and maxima, and the induction theorem of the
  library turned into one about a set of numbers (`InductionOnSet`), which the
  provers can use: with it the folds and sums of the models are proved by induction.

Only model-checked, and why (every invariant and action property of the runs is
stated by a theorem):

- all liveness (`EventuallyCurrent`, `RequestCompletes`, `RevocationAnswered`,
  `EveryRequestEnds`): fairness and ENABLED are out of the prover's reach;
- the wiring of `MCPlacePages`: it plays `MergeSpec`, `EvidenceSpec`, `ChoiceSpec` and
  `PageSpec`, each of which is proved for itself, as parts of one run.

## Not modelled, and the plan

- Provider adapters and the score engine (parsing and arithmetic without shared
  state), sign-on, the HTTP layer, the frontend, one-shot operations scripts.
- Water quality comparison (statistics over observations behind a cursor) and
  livecams (reachability checks and an image cache): the next components to model.
- Drafting of travel plans and ranking of places: pure functions of catalogue and
  evidence, worth checking against a reference definition like
  `MCResultIntervals`.
- Translations and foreign languages of place details.

Next: livecams and the quality comparison as modules of their own; drafting and
ranking against reference definitions.
