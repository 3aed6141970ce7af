------------------------- MODULE ConditionPublication -------------------------
(***************************************************************************)
(* The condition projection: source transactions change the collected      *)
(* evidence and bump condition_source_revision in a trigger; the worker's  *)
(* condition_projection job reads a snapshot of the evidence, calculates   *)
(* outside any transaction and publishes a complete generation atomically; *)
(* HTTP readers serve rows of condition_result without calculating.        *)
(*                                                                         *)
(* The model follows the rows of ONE key (spot, activity, mode): the code  *)
(* treats keys independently, and everything else in the database that the *)
(* same revision counter stands for is the source change that touches no   *)
(* evidence of the key.  Instants are integers; a day has DayLength of     *)
(* them and the projection covers Window instants from the start of today. *)
(***************************************************************************)
EXTENDS ResultIntervals, Sequences

CONSTANTS
  Mode,          \* "forecast" or "observation", the mode of the key
  DayLength,     \* instants per KST day
  Window,        \* instants published from the start of today on
  MaxTime,       \* bound: the clock stops here
  MaxRevision,   \* bound on condition_source_revision.revision
  MaxCrashes,    \* bound on worker crashes
  Segments,      \* sets of target instants that one source change may touch
  Kinds,         \* what a source change may leave: "fresh", "missing", ...
  Writers        \* source transactions that may be open at once

Slots == 0..(MaxTime + Window)

ASSUME ConstantsAssumption ==
  /\ Mode \in {"forecast", "observation"}
  /\ DayLength \in Nat \ {0}
  /\ Window \in Nat \ {0}
  /\ MaxTime \in Nat
  /\ MaxRevision \in Nat
  /\ MaxCrashes \in Nat
  /\ Segments \subseteq SUBSET Slots
  /\ Kinds \subseteq {"fresh", "missing", "blocked", "absent"}

VARIABLES
  clock,        \* the database clock
  source,       \* the committed row of condition_source_revision
  evidence,     \* committed evidence of the key, per target instant
  writer,       \* open source transactions
  generations,  \* published generations, in the order of their ids
  results,      \* committed rows of condition_result
  producer,     \* the condition_projection job of the worker
  crashes,      \* number of worker crashes so far
  revokedAt,    \* history: when the evidence of a revision was withdrawn
  shown         \* history: what the latest generation set out to show

vars == <<clock, source, evidence, writer, generations, results, producer,
          crashes, revokedAt, shown>>

sourceVars == <<source, evidence, writer, revokedAt>>
publicationVars == <<generations, results, shown>>

-----------------------------------------------------------------------------
(* Values.                                                                 *)

NoTime == -1

\* A payload: what kind it is, the revision that brought its evidence, and
\* whether it was carried over from an earlier publication.
Payload == [kind : {"fresh", "missing", "blocked", "absent"},
            basis : 0..MaxRevision, kept : BOOLEAN]

Plain(kind, basis) == [kind |-> kind, basis |-> basis, kept |-> FALSE]
Absent  == Plain("absent", 0)
Missing == Plain("missing", 0)
Evidence(kind, revision) ==
  IF kind \in {"fresh", "blocked"} THEN Plain(kind, revision) ELSE Plain(kind, 0)

Source == [revision : 0..MaxRevision, invalidatedRevision : 0..MaxRevision,
           invalidatedAt : {NoTime} \cup Nat]

Row == [start : Slots, finish : Slots, generation : Nat, content : Payload]

Generation == [revision : 0..MaxRevision, computedAt : Nat]

NoWriter == [phase |-> "idle", stmtAt |-> 0, source |-> [revision |-> 0,
             invalidatedRevision |-> 0, invalidatedAt |-> NoTime],
             evidence |-> [t \in Slots |-> Absent], withdrawn |-> {}]

NoProducer == [phase |-> "idle", now |-> 0, revision |-> 0,
               evidence |-> [t \in Slots |-> Absent], previous |-> FALSE,
               results |-> {}, shown |-> [t \in Slots |-> Absent]]

DayStart(t)  == (t \div DayLength) * DayLength
WindowEnd(t) == DayStart(t) + Window

Latest == generations[Len(generations)]

\* Generations revoked by an invalidation of revision inval.
StaleGenerations(inval) ==
  {g \in 1..Len(generations) : generations[g].revision < inval}

\* Mutant: a generation calculated at midnight does not count for its day.
CurrentAfterMidnight(revision, dayStart) ==
  \E g \in 1..Len(generations) :
     generations[g].revision = revision /\ generations[g].computedAt > dayStart

ProjectionIsCurrent(revision, dayStart) ==
  \E g \in 1..Len(generations) :
     generations[g].revision = revision /\ generations[g].computedAt >= dayStart

ProjectionDue == ~ProjectionIsCurrent(source.revision, DayStart(clock))

-----------------------------------------------------------------------------
Init ==
  /\ clock = 0
  /\ source = [revision |-> 0, invalidatedRevision |-> 0, invalidatedAt |-> NoTime]
  /\ evidence = [t \in Slots |-> Absent]
  /\ writer = [w \in Writers |-> NoWriter]
  /\ generations = <<>>
  /\ results = {}
  /\ producer = NoProducer
  /\ crashes = 0
  /\ revokedAt = [b \in 1..MaxRevision |-> NoTime]
  /\ shown = [t \in Slots |-> Absent]

Tick ==
  /\ clock < MaxTime
  /\ clock' = clock + 1
  /\ UNCHANGED <<sourceVars, publicationVars, producer, crashes>>

-----------------------------------------------------------------------------
(* Source transactions.  A statement starts, its AFTER STATEMENT trigger   *)
(* takes the lock of the revision row and stamps the revision, the         *)
(* transaction commits or rolls back.                                      *)

RowLocked == \E w \in Writers : writer[w].phase = "stamped"

StartStatement(w) ==
  /\ writer[w].phase = "idle"
  /\ source.revision < MaxRevision
  /\ writer' = [writer EXCEPT ![w].phase = "started", ![w].stmtAt = clock]
  /\ UNCHANGED <<clock, source, evidence, revokedAt, publicationVars, producer, crashes>>

\* stamp_condition_invalidation: keep the first boundary of a series of
\* revocations that no publication has answered yet.
InvalidationClock(stmtAt) ==
  IF \/ source.invalidatedRevision = 0
     \/ source.invalidatedAt = NoTime
     \/ \E g \in 1..Len(generations) :
           generations[g].revision >= source.invalidatedRevision
  THEN stmtAt
  ELSE source.invalidatedAt

\* Mutant: a revocation is stamped like any change.
StampedAsChange(revoke, stmtAt) ==
  [source EXCEPT !.revision = source.revision + 1]

\* invalidate_condition_projection: every changed statement is a revision,
\* a revoking one is also the new invalidated revision.
Stamped(revoke, stmtAt) ==
  LET next == source.revision + 1 IN
  [revision |-> next,
   invalidatedRevision |-> IF revoke THEN next ELSE source.invalidatedRevision,
   invalidatedAt |-> IF revoke THEN InvalidationClock(stmtAt) ELSE source.invalidatedAt]

\* Mutant: the revision row is read without its lock.
StampUnlocked(w, revoke, newEvidence, withdrawn) ==
  /\ writer[w].phase = "started"
  /\ source.revision < MaxRevision
  /\ writer' = [writer EXCEPT ![w] =
                  [phase |-> "stamped", stmtAt |-> writer[w].stmtAt,
                   source |-> Stamped(revoke, writer[w].stmtAt),
                   evidence |-> newEvidence, withdrawn |-> withdrawn]]
  /\ UNCHANGED <<clock, source, evidence, revokedAt, publicationVars, producer, crashes>>

Stamp(w, revoke, newEvidence, withdrawn) ==
  /\ writer[w].phase = "started"
  /\ ~RowLocked
  /\ source.revision < MaxRevision
  /\ writer' = [writer EXCEPT ![w] =
                  [phase |-> "stamped", stmtAt |-> writer[w].stmtAt,
                   source |-> Stamped(revoke, writer[w].stmtAt),
                   evidence |-> newEvidence, withdrawn |-> withdrawn]]
  /\ UNCHANGED <<clock, source, evidence, revokedAt, publicationVars, producer, crashes>>

\* A new observation, forecast or expiry for some target instants.
StampChange(w) ==
  \E segment \in Segments, kind \in Kinds :
     Stamp(w, FALSE,
           [t \in Slots |-> IF t \in segment THEN Evidence(kind, source.revision + 1)
                                             ELSE evidence[t]], {})

\* A correction withdraws the evidence some revisions brought (none of this
\* key's when it concerns another place) and leaves nothing in its place.
StampRevocation(w) ==
  \E withdrawn \in SUBSET (1..source.revision), kind \in Kinds \ {"fresh"} :
     Stamp(w, TRUE,
           [t \in Slots |-> IF evidence[t].basis \in withdrawn
                            THEN Evidence(kind, source.revision + 1)
                            ELSE evidence[t]], withdrawn)

CommitSource(w) ==
  /\ writer[w].phase = "stamped"
  /\ source' = writer[w].source
  /\ evidence' = writer[w].evidence
  /\ revokedAt' = [b \in 1..MaxRevision |->
                     IF b \in writer[w].withdrawn /\ revokedAt[b] = NoTime
                     THEN clock ELSE revokedAt[b]]
  /\ writer' = [writer EXCEPT ![w] = NoWriter]
  /\ UNCHANGED <<clock, publicationVars, producer, crashes>>

RollBackSource(w) ==
  /\ writer[w].phase # "idle"
  /\ writer' = [writer EXCEPT ![w] = NoWriter]
  /\ UNCHANGED <<clock, source, evidence, revokedAt, publicationVars, producer, crashes>>

-----------------------------------------------------------------------------
(* The producer.                                                           *)

\* produce_conditions: one repeatable-read snapshot of clock, revision and
\* evidence; nothing to do when today already has this revision.
TakeSnapshot ==
  /\ producer.phase = "idle"
  /\ ProjectionDue
  /\ producer' = [producer EXCEPT !.phase = "calculated", !.now = clock,
                     !.revision = source.revision, !.evidence = evidence]
  /\ UNCHANGED <<clock, sourceVars, publicationVars, crashes>>

GiveUp == producer' = NoProducer

\* publish_conditions up to the insert of the generation: the inputs must be
\* the ones read; a previous generation lends its content only if no later
\* invalidation revoked it; a repeated generation is a no-op.
BeginPublication ==
  /\ producer.phase = "calculated"
  /\ \/ /\ \/ source.revision # producer.revision
           \/ \E g \in 1..Len(generations) :
                 generations[g] = [revision |-> producer.revision, computedAt |-> producer.now]
        /\ GiveUp
     \/ /\ source.revision = producer.revision
        /\ \A g \in 1..Len(generations) :
              generations[g] # [revision |-> producer.revision, computedAt |-> producer.now]
        /\ producer' = [producer EXCEPT !.phase = "opened",
             !.previous = \E g \in 1..Len(generations) :
                             generations[g].revision >= source.invalidatedRevision]
  /\ UNCHANGED <<clock, sourceVars, publicationVars, crashes>>

\* Mutant: a restriction is taken for a missing value.
RetainOverRestriction(previous, current) ==
  IF previous.kind = "fresh" /\ current.kind \in {"missing", "blocked"}
  THEN [previous EXCEPT !.kept = TRUE]
  ELSE current

\* retain_payload for a payload with one group of inputs: a value that is
\* missing now keeps the previous one; a restriction is never replaced and
\* never lent.
Retain(previous, current) ==
  IF previous.kind = "fresh" /\ current.kind = "missing"
  THEN [previous EXCEPT !.kept = TRUE]
  ELSE current

\* Mutant: every stored row lends.
LendersOfAnyGeneration == results

\* Stored rows that may lend their content: their own generation was not
\* revoked.
Lenders ==
  IF producer.previous
  THEN {r \in results : r.generation \notin StaleGenerations(source.invalidatedRevision)}
  ELSE {}

LentAt(rows) ==
  IF rows = {} THEN Absent
  ELSE (CHOOSE r \in rows : \A q \in rows : q.start <= r.start).content

\* iter_records and intervals: the records of the snapshot.  Without any
\* evidence there are none; forecasts end with the last evidence; what is
\* not covered in between is a payload without values.
Calculated ==
  LET from == IF Mode = "observation" THEN producer.now ELSE DayStart(producer.now)
      known == {t \in Slots : producer.evidence[t] # Absent}
      InScope(t) == /\ from <= t /\ t < WindowEnd(producer.now)
                    /\ IF Mode = "observation" THEN known # {}
                       ELSE \E u \in known : t <= u
  IN [t \in Slots |-> IF ~InScope(t) THEN Absent
                      ELSE IF t \in known THEN producer.evidence[t] ELSE Missing]

\* RetainedPublication.records, per target instant: a forecast borrows only
\* from the same instant, an observation from the last row that says
\* something, staged since the calculation instant or else stored before it.
Retained ==
  LET current  == Calculated
      lastSeen == LentAt({r \in Lenders : r.start <= producer.now})
      LastSaid(t) ==
        LET said == {u \in producer.now..t : current[u].kind # "missing"}
        IN IF said = {} THEN lastSeen ELSE current[Max(said)]
  IN [t \in Slots |->
        IF current[t] = Absent THEN Absent
        ELSE Retain(IF Mode = "observation" THEN LastSaid(t)
                    ELSE LentAt(RowsAt(Lenders, t)), current[t])]

\* Stage the complete result, reconcile it with the stored rows, prune.
MergeResults ==
  /\ producer.phase = "opened"
  /\ LET id     == Len(generations) + 1
         staged == Runs(Retained, 0, MaxTime + Window, Absent, id)
         merged == MergeStage(results, staged, producer.now, DayStart(clock),
                              StaleGenerations(source.invalidatedRevision),
                              source.invalidatedAt)
     IN producer' = [producer EXCEPT !.phase = "merged",
          !.results = PruneRows(merged, DayStart(clock), WindowEnd(clock)),
          !.shown = Retained]
  /\ UNCHANGED <<clock, sourceVars, publicationVars, crashes>>

\* The last check reads the revision FOR SHARE, so it waits for a stamped
\* source transaction; a changed revision rolls the publication back.
CommitPublication ==
  /\ producer.phase = "merged"
  /\ ~RowLocked
  /\ IF source.revision = producer.revision
     THEN /\ generations' = Append(generations, [revision |-> producer.revision,
                                                 computedAt |-> producer.now])
          /\ results' = producer.results
          /\ shown' = producer.shown
     ELSE UNCHANGED publicationVars
  /\ GiveUp
  /\ UNCHANGED <<clock, sourceVars, crashes>>

Crash ==
  /\ producer.phase # "idle"
  /\ crashes < MaxCrashes
  /\ crashes' = crashes + 1
  /\ GiveUp
  /\ UNCHANGED <<clock, sourceVars, publicationVars>>

\* The condition_result_retention job: skipped while the projection job runs
\* or a publication holds the result lock.
PruneResults ==
  /\ producer.phase = "idle"
  /\ results' \in PruneOutcomes(results, DayStart(clock), WindowEnd(clock))
  /\ results' # results
  /\ UNCHANGED <<clock, sourceVars, generations, shown, producer, crashes>>

-----------------------------------------------------------------------------
(* Readers: the one SELECT of read_condition_set, for a target instant at  *)
(* and a knowledge cutoff asOf, both not after the clock for observations. *)

Revoked(r) == generations[r.generation].revision < source.invalidatedRevision

Eligible(at, asOf) ==
  {r \in results :
     /\ r.start <= at
     /\ \/ r.finish > at
        \/ Mode = "observation" /\ at >= clock /\ ~Revoked(r)
     /\ \/ at < clock /\ (~Revoked(r) \/ at < source.invalidatedAt)
        \/ at >= clock /\ Latest.revision >= source.invalidatedRevision
     /\ generations[r.generation].computedAt <= asOf
     /\ at < clock \/ Latest.computedAt <= asOf}

\* The content served, or Absent (condition_projection_pending or unavailable).
Served(at, asOf) ==
  LET rows == Eligible(at, asOf) IN
  IF rows = {} THEN Absent
  ELSE (CHOOSE r \in rows : \A q \in rows : q.start <= r.start).content

ReadableInstants ==
  {t \in Slots : DayStart(clock) <= t /\ t < WindowEnd(clock)
                 /\ (Mode = "observation" => t <= clock)}

-----------------------------------------------------------------------------
Next ==
  \/ Tick
  \/ \E w \in Writers : \/ StartStatement(w)
                        \/ StampChange(w)
                        \/ StampRevocation(w)
                        \/ CommitSource(w)
                        \/ RollBackSource(w)
  \/ TakeSnapshot
  \/ BeginPublication
  \/ MergeResults
  \/ CommitPublication
  \/ Crash
  \/ PruneResults

Spec == Init /\ [][Next]_vars

\* The worker polls its jobs for ever, a source transaction ends, and a waiter
\* for the row lock of the revision is served when its holder ends.
Fairness ==
  /\ WF_vars(TakeSnapshot)
  /\ WF_vars(BeginPublication)
  /\ WF_vars(MergeResults)
  /\ SF_vars(CommitPublication)
  /\ \A w \in Writers : WF_vars(CommitSource(w) \/ RollBackSource(w))

FairSpec == Spec /\ Fairness

-----------------------------------------------------------------------------
(* Properties.                                                             *)

WriterState == [phase : {"idle", "started", "stamped"}, stmtAt : Nat,
                source : Source, evidence : [Slots -> Payload],
                withdrawn : SUBSET (1..MaxRevision)]

ProducerState == [phase : {"idle", "calculated", "opened", "merged"}, now : Nat,
                  revision : 0..MaxRevision, evidence : [Slots -> Payload],
                  previous : BOOLEAN, results : SUBSET Row, shown : [Slots -> Payload]]

\* The types of the variables.
TypeOK ==
  /\ clock \in 0..MaxTime
  /\ source \in Source
  /\ evidence \in [Slots -> Payload]
  /\ writer \in [Writers -> WriterState]
  /\ generations \in Seq(Generation)
  /\ results \subseteq Row
  /\ producer \in ProducerState
  /\ crashes \in 0..MaxCrashes
  /\ revokedAt \in [1..MaxRevision -> {NoTime} \cup Nat]
  /\ shown \in [Slots -> Payload]

Withdrawn(content) == content.basis # 0 /\ revokedAt[content.basis] # NoTime

\* A reader never gets, for the present or the future, content that rests on
\* evidence a committed correction has withdrawn, whatever publication,
\* reuse or retention happened before or meanwhile.
NoWithdrawnEvidenceServed ==
  \A at \in {t \in ReadableInstants : t >= clock} : ~Withdrawn(Served(at, clock))

\* Of the past, a correction leaves only what precedes it: no instant after
\* the withdrawal is answered from withdrawn evidence.
WithdrawnEvidenceEndsAtCorrection ==
  \A at \in ReadableInstants :
     LET content == Served(at, clock) IN
     Withdrawn(content) => at < revokedAt[content.basis]

\* Through any sequence of merges and prunes no instant has two rows, in the
\* table and in a publication under way, and from its calculation instant on the
\* table shows exactly what the latest generation calculated: reused rows, split
\* rows and inserted rows together are complete, and nothing older shines through.
LatestGenerationComplete ==
  /\ NoOverlap(results) /\ NoOverlap(producer.results)
  /\ generations # <<>> =>
    \A t \in {s \in Slots : Latest.computedAt <= s /\ DayStart(clock) <= s} :
       LET rows == RowsAt(results, t) IN
       IF shown[t] = Absent THEN rows = {}
       ELSE {r.content : r \in rows} = {shown[t]}

\* A generation becomes visible only while the evidence it was calculated
\* from is still the committed evidence.
PublishesCurrentEvidence ==
  [][generations' # generations =>
       /\ Latest'.revision = source.revision
       /\ producer.evidence = evidence]_vars

\* A restriction that is in force at publication is what readers see.
RestrictionShown ==
  generations # <<>> =>
    \A at \in ReadableInstants :
       (at >= clock /\ ~ProjectionDue /\ Latest.revision = source.revision
        /\ evidence[at].kind = "blocked")
       => Served(at, clock).kind = "blocked"

\* What readers can get per target instant, the row-level checks applied.
Readable ==
  [t \in Slots |->
     LET rows == {r \in RowsAt(results, t) : ~Revoked(r) \/ t < source.invalidatedAt}
     IN IF rows = {} THEN Absent ELSE (CHOOSE r \in rows : TRUE).content]

Board == INSTANCE ConditionBoard
  WITH Contents <- Payload, Basis <- 1..MaxRevision, withdrawnAt <- revokedAt,
       board <- Readable,
       computedAt <- IF generations = <<>> THEN NoTime ELSE Latest.computedAt

\* Rows, revisions, locks and transactions together keep the promise of
\* ConditionBoard: history frozen, gaps filled, corrections cut off.
KeepsPromise == Board!Spec

\* Once the inputs rest, the projection catches up with them: also after
\* crashes, rolled back publications and at the start of a new day.
EventuallyCurrent == ProjectionDue ~> ~ProjectionDue
=============================================================================
