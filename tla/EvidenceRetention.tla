------------------------- MODULE EvidenceRetention -------------------------
(***************************************************************************)
(* Retention of assessments and of their sources (water_index/retention.py,*)
(* ingestion/retention.py), among everything that writes what is retained  *)
(* or refers to it: imports, forecast projection, the assessment producer, *)
(* and the condition projection, which reads its evidence in one           *)
(* transaction and publishes references to it in a later one.              *)
(*                                                                         *)
(* The job evidence_retention prunes assessments and sources in            *)
(* transactions that delete a bounded number of rows; here in any order,   *)
(* though it leaves the sources alone while assessments are to be pruned.  *)
(* It has the locks of the producers for the length of each transaction,   *)
(* so a producer that is at work makes it skip its turn.                   *)
(***************************************************************************)
EXTENDS AssessmentHistory

CONSTANTS
  BatchSize,   \* source identities and snapshots deleted at a time
  MaxPasses,   \* batches of one transaction
  Workloads    \* bound: sets of jobs, those of one set run in a behaviour

ASSUME RetentionAssumption == {BatchSize, MaxPasses} \subseteq Nat \ {0}

VARIABLES
  results,    \* condition_result: the end of its target and a snapshot it names
  projector,  \* condition projection: the snapshots it has read, and when
  workload    \* the jobs that run in this behaviour

vars == <<sourceVars, assessmentVars, results, projector, workload>>

Idle == [on |-> FALSE, ids |-> {}, at |-> 0]

----------------------------------------------------------------------------
(* Condition results, as far as they refer to snapshots.                   *)

\* Of a record its newest row, also when it was superseded by an older one
\* that counts again: the evaluation then takes its value for ambiguous.
Newest ==
  {s \in snapshots : \A t \in Family(s.record) : ~Newer(t, s)}

Ambiguous(s) == \E t \in Current \cap Family(s.record) : t.fetched < s.fetched

SameProduct(r, t) == Product[r] = Product[t]

\* _load_inputs: the latest target of a product until now or, of a forecast,
\* until this morning, and every later target of a forecast.
ConditionRows(now) ==
  LET morning == DayStart(now)
      heardOf == {s \in Newest : /\ ObservedAt[s.record] < WindowEnd(now)
                                 /\ s.record \in Forecasts \/ ObservedAt[s.record] <= now}
      last(s, until) ==
        /\ ObservedAt[s.record] <= until
        /\ \A t \in heardOf : SameProduct(t.record, s.record) /\ ObservedAt[t.record] <= until
             => ObservedAt[t.record] <= ObservedAt[s.record]
  IN  {s \in heardOf : IF s.record \in Forecasts
                       THEN ObservedAt[s.record] >= morning \/ last(s, morning)
                       ELSE last(s, now)}

BeginProjection ==
  /\ ~projector.on
  /\ ConditionRows(clock) # {}
  /\ projector' = [on |-> TRUE, ids |-> {s.id : s \in ConditionRows(clock)},
                   at |-> clock]
  /\ UNCHANGED <<sourceVars, assessmentVars, results>>

\* It replaces the results of the days it has calculated.
FinishProjection ==
  /\ projector.on
  /\ LET ends == {DayStart(projector.at) + d * DayLength : d \in 1 .. WindowDays}
     IN  results' = {x \in results : x.end \notin ends}
                    \cup [end : ends, snapshot : projector.ids]
  /\ projector' = Idle
  /\ UNCHANGED <<sourceVars, assessmentVars>>

ProjectorDies ==
  /\ projector.on
  /\ projector' = Idle
  /\ UNCHANGED <<sourceVars, assessmentVars, results>>

\* prune_condition_results, any part of what a budget allows.
Ended == {x \in results : x.end <= DayStart(clock)}

PruneResults ==
  /\ \E gone \in (SUBSET Ended) \ {{}} : results' = results \ gone
  /\ UNCHANGED <<sourceVars, assessmentVars, projector>>

----------------------------------------------------------------------------
(* prune_water_index_history.                                              *)

\* _keep_dependencies: the latest manifest of each group that overlaps the
\* window, expired or not, and all it leads to.
\* Mutant: a manifest that has expired is not kept.
KeptUnexpired ==
  {m \in reads : /\ m.until > clock
                 /\ m \in Chosen(m.group, DayStart(clock), WindowEnd(clock), clock)}

KeptReads ==
  {m \in reads :
     m \in Chosen(m.group, DayStart(clock), WindowEnd(clock), clock)}

RunsOf(kept)        == {n \in runs : \E m \in kept : m.id = n.id}
AssessmentsOf(kept) == assessments \cap UNION {Selections(m) : m \in kept}

\* What may be left of a table the pass is cut off in.
Partly(table, kept) == {kept \cup rest : rest \in SUBSET (table \ kept)}

\* One table after the other, children first; the budget of a transaction
\* cuts it off anywhere.
ChildrenFirst(kept) ==
  \/ /\ runs' \in Partly(runs, RunsOf(kept))
     /\ UNCHANGED <<reads, assessments>>
  \/ /\ runs' = RunsOf(kept)
     /\ reads' \in Partly(reads, kept)
     /\ UNCHANGED assessments
  \/ /\ runs' = RunsOf(kept)
     /\ reads' = kept
     /\ assessments' \in Partly(assessments, AssessmentsOf(kept))

PruneAssessments ==
  /\ LET kept == KeptReads IN ChildrenFirst(kept)
  /\ UNCHANGED <<sourceVars, mapping, results, projector>>

----------------------------------------------------------------------------
(* prune_source_history.                                                   *)

\* Mutant: a source loses its newest revision.
NewestOf(keys) == {v \in revisions : v.key \in keys /\ v.id = LastRevision(v.key)}

\* _prune_forecasts: a source goes with all its revisions or stays.
RevisionsOf(keys) == {v \in revisions : v.key \in keys}

ObsoleteKeys ==
  {k \in {v.key : v \in revisions} :
     \A v \in Revisions(k) : /\ v.available <= clock
                             /\ ~InWindow(v.record, clock)}

\* _keep_references: whatever a published payload names, as the forecasts are
\* after their pruning.
References(history) ==
  {x.snapshot : x \in results} \cup {a.snapshot : a \in assessments}
    \cup {v.snapshot : v \in history}

InCurrentWindow == {s \in snapshots : InWindow(s.record, clock)}

\* The latest targets of a product, with their ties: an observation's until
\* now, a forecast's until this morning.
Elapsed(r) == ObservedAt[r] <= (IF r \in Forecasts THEN DayStart(clock) ELSE clock)
LatestTargets ==
  {s \in snapshots : /\ Elapsed(s.record)
     /\ \A t \in snapshots : Elapsed(t.record) /\ SameProduct(t.record, s.record)
          => ObservedAt[t.record] <= ObservedAt[s.record]}

\* A product of which nothing is kept keeps its newest row: it is on offer.
Presence(kept) ==
  {s \in snapshots : \A t \in snapshots : SameProduct(t.record, s.record)
     => t \notin kept /\ ~Newer(t, s)}

\* Every row of a record one row of which is kept.
Families(kept) == {s \in snapshots : \E t \in kept : t.record = s.record}

Kept(history) ==
  LET named == {s \in snapshots : s.id \in References(history)}
      due   == named \cup InCurrentWindow \cup LatestTargets
  IN  Families(due \cup Presence(due))

\* The rows with the lowest ids, batch by batch, until no batch is full or the
\* time is over.
Victims(obsolete) ==
  {{s \in obsolete : Cardinality({t \in obsolete : t.id < s.id}) < n * BatchSize} :
     n \in 1 .. MaxPasses}

\* Mutant: a condition projection at work does not hold the pass back.
AlwaysFree == Ended = {}

\* All job locks are taken and no result of a day before today is left.
Free == ~projector.on /\ Ended = {}

PruneSources ==
  /\ Free
  /\ \E keys \in SUBSET ObsoleteKeys :
       /\ Cardinality(keys) = Min({BatchSize, Cardinality(ObsoleteKeys)})
       /\ revisions' = revisions \ RevisionsOf(keys)
  /\ \E gone \in Victims(snapshots \ Kept(revisions')) : snapshots' = snapshots \ gone
  /\ UNCHANGED <<clock, batches, heard, assessmentVars, results, projector>>

----------------------------------------------------------------------------
Init ==
  /\ SourceInit
  /\ AssessmentInit
  /\ results = {}
  /\ projector = Idle
  /\ workload \in Workloads

others == <<results, projector>>

Next ==
  /\ \/ Tick /\ UNCHANGED <<assessmentVars, others>>
     \/ \E r \in Records, c \in Contents :
          StoreBatch(r, c) /\ UNCHANGED <<assessmentVars, others>>
     \/ /\ "forecast_projection" \in workload
        /\ ProjectForecasts /\ UNCHANGED <<assessmentVars, others>>
     \/ /\ "water_index_evaluation" \in workload
        /\ RegisterMapping \/ ProduceAssessments
        /\ UNCHANGED others
     \/ /\ "condition_projection" \in workload
        /\ BeginProjection \/ FinishProjection \/ ProjectorDies \/ PruneResults
     \/ PruneAssessments
     \/ PruneSources
  /\ UNCHANGED workload

Spec == Init /\ [][Next]_vars

----------------------------------------------------------------------------
(* Properties.                                                             *)

\* Nothing that is published names what is gone: snapshots of results,
\* forecast revisions and assessments, and the assessments of the views readers
\* choose from, all in JSON no foreign key watches; and the view of a run.
NothingDangles ==
  /\ References(revisions) \subseteq Ids
  /\ \A m \in reads : Selections(m) \subseteq assessments
  /\ \A n \in runs : \E m \in reads : m.id = n.id

\* Of each record at most one row counts, and it is what the provider said
\* last, whatever was corrected, taken back and deleted before.  While its
\* target is of today or later, there is one.
CurrentIsLastHeard ==
  \A r \in Records :
    /\ \A s \in Current \cap Family(r) :
         s.content = heard[r] /\ Cardinality(Current \cap Family(r)) = 1
    /\ heard[r] # None /\ InWindow(r, clock) => Current \cap Family(r) # {}

\* What was known of a source's forecast at an instant that has passed stays
\* what it was, until the source is forgotten as a whole: no correction becomes
\* known earlier than it was, none is lost so that an older revision counts.
PastStaysKnown ==
  [][revisions' # revisions =>
       \A k \in {SourceKey[r] : r \in Records}, cutoff \in 0 .. clock - 1 :
         Revisions(k)' # {} => KnownAsOf(k, cutoff)' = KnownAsOf(k, cutoff)]_vars

\* A step that only deletes changes nothing of what readers and producers are
\* given for today and the days to come.
Stored == <<snapshots, revisions, reads, assessments>>
Deletes ==
  /\ Stored' # Stored
  /\ reads' \subseteq reads /\ snapshots' \subseteq snapshots
  /\ revisions' \subseteq revisions
RetentionHidesNothing ==
  [][Deletes =>
       /\ \A g \in Groups :
            ReadProjection(g, DayStart(clock), WindowEnd(clock))'
              = ReadProjection(g, DayStart(clock), WindowEnd(clock))
       /\ snapshots' # snapshots =>
            /\ Effective(clock)' = Effective(clock)
            /\ ConditionRows(clock)' = ConditionRows(clock)
            /\ \A s \in ConditionRows(clock) : Ambiguous(s)' = Ambiguous(s)
       /\ revisions' # revisions =>
            \A r \in Forecasts : InWindow(r, clock) =>
              LastRevision(SourceKey[r])' = LastRevision(SourceKey[r])]_vars

\* What readers are given as current at this instant rests on no target that
\* is over, and on no mapping that has been corrected.
ServedIsLive ==
  \A g \in Groups : \A row \in ReadProjection(g, DayStart(clock), WindowEnd(clock)) :
    /\ ValidUntil[row.record] > clock
    /\ \A a \in row.assessment : a.mapping \in {None, mapping.version}
=============================================================================
