------------------------- MODULE AssessmentHistory -------------------------
(***************************************************************************)
(* The assessments of the water index: what a pass of the job              *)
(* water_index_evaluation publishes (water_index/producer.py), the         *)
(* append-only tables it publishes into and the projection readers are     *)
(* given (water_index/storage.py).  An evaluation is a function of its     *)
(* request, so an assessment is named by what the request contains.        *)
(*                                                                         *)
(* A group (place, activity, mode) has the station's own place or a place  *)
(* a reviewed mapping ties to the station; the mapping may be corrected.   *)
(* A pass is one transaction under 'pongdang-water-index' and              *)
(* 'pongdang-ingestion'; it knows what was stored when it began, and may   *)
(* be at work while the clock moves on.                                    *)
(***************************************************************************)
EXTENDS SourceHistory

CONSTANTS
  Groups,        \* numbered: groups never published go in the order of numbers
  GroupRecords,  \* the records of a group's mode and products
  Mapped,        \* the groups that need the mapping
  MaxMappings,   \* bound on the versions of the mapping
  MaxRuns        \* bound on the numbers of publications

ASSUME GroupAssumption ==
  /\ Groups \subseteq Nat /\ IsFiniteSet(Groups)
  /\ Mapped \subseteq Groups
  /\ {MaxMappings, MaxRuns} \subseteq Nat
  /\ \A g \in Groups : GroupRecords[g] \subseteq Records

VARIABLES
  mapping,      \* the version in force and whether it covers the mapped groups
  runs,         \* water_index_production_run
  reads,        \* water_index_read_manifest
  assessments   \* water_index_assessment, with the input manifest and the
                \* target foreign keys tie it to

assessmentVars == <<mapping, runs, reads, assessments>>

\* An assessment for each item of a read manifest.
Selections(m) ==
  {[group |-> m.group, record |-> s.record, snapshot |-> s.id,
    mapping |-> m.mapping, asOf |-> m.asOf] : s \in m.items}

----------------------------------------------------------------------------
(* register_evidence, for a correction of the mapping.                     *)

RegisterMapping ==
  /\ mapping.version < MaxMappings
  /\ \E covers \in BOOLEAN :
       mapping' = [version |-> mapping.version + 1, covers |-> covers]
  /\ UNCHANGED <<sourceVars, runs, reads, assessments>>

----------------------------------------------------------------------------
(* _produce_assessments.                                                   *)

LastRun(g) ==
  LET own == {n.id : n \in {n \in runs : n.group = g}}
  IN  IF own = {} THEN None ELSE Max(own)

MappingOf(g) == IF g \in Mapped THEN mapping.version ELSE None

\* What a group is evaluated from: the effective rows at the start of the pass
\* that are still valid when the group's turn comes.
Items(g, now, publishing) ==
  IF g \in Mapped /\ ~mapping.covers THEN {}
  ELSE {s \in Effective(now) : /\ s.record \in GroupRecords[g]
                               /\ ValidUntil[s.record] > publishing}

\* _assessment_fingerprint: the rows, the mapping and the day of publication.
Fingerprint(g, now, publishing) ==
  [items |-> Items(g, now, publishing), mapping |-> MappingOf(g),
   day |-> DayStart(now)]

Unchanged(g, now, publishing) ==
  \E n \in runs : /\ n.id = LastRun(g) /\ n.group = g
                  /\ n.digest = Fingerprint(g, now, publishing)

Due(now, publishing) ==
  {g \in Groups : /\ Items(g, now, publishing) # {}
                  /\ ~Unchanged(g, now, publishing)}

\* Groups wait since their last run.
Before(g, h) ==
  LastRun(g) < LastRun(h) \/ (LastRun(g) = LastRun(h) /\ g < h)

\* Mutant: the view lives as long as one of its rows.
LatestEnd(items) == Max({ValidUntil[s.record] : s \in items})

Expiry(items) == Min({ValidUntil[s.record] : s \in items})

NextRun == IF runs = {} THEN 1 ELSE Max({n.id : n \in runs}) + 1

Manifest(g, id, now, publishing) ==
  [id |-> id, group |-> g, items |-> Items(g, now, publishing),
   mapping |-> MappingOf(g), asOf |-> now, available |-> publishing,
   start |-> DayStart(now), until |-> Expiry(Items(g, now, publishing))]

\* Publication of the groups `done`, in the order of their waiting.
Publish(done, now, publishing) ==
  LET id(g) == NextRun + Cardinality({h \in done : Before(h, g)})
      new   == {Manifest(g, id(g), now, publishing) : g \in done}
      all   == UNION {Selections(m) : m \in new}
  IN  /\ reads' = reads \cup new
      /\ runs' = runs \cup
           {[id |-> id(g), group |-> g,
             digest |-> Fingerprint(g, now, publishing)] : g \in done}
      /\ assessments' = assessments \cup all

\* A pass stops after any number of groups but the first, when a minute is
\* over; a group is never passed by.  Its groups are published at one instant,
\* which may be later than that of its knowledge.
ProduceAssessments ==
  \E publishing \in clock .. clock + 1 : LET due == Due(clock, publishing) IN
  \E done \in (SUBSET due) \ {{}} :
    /\ publishing <= MaxClock /\ NextRun + Cardinality(done) - 1 <= MaxRuns
    /\ \A g \in done, h \in due \ done : Before(g, h)
    /\ Publish(done, clock, publishing)
    /\ clock' = publishing
    /\ UNCHANGED <<snapshots, batches, heard, revisions, mapping>>

----------------------------------------------------------------------------
(* read_projection.                                                        *)

\* The latest manifest that overlaps the interval from..until, as known then.
Candidates(g, from, until, cutoff) ==
  {m \in reads : /\ m.group = g /\ m.available <= cutoff
                 /\ m.start < until
                 /\ m.start + WindowDays * DayLength > from}

Chosen(g, from, until, cutoff) ==
  LET all == Candidates(g, from, until, cutoff)
  IN  {m \in all : \A other \in all : other.id <= m.id}

\* It is of use only when it has not expired and covers the interval, and no
\* mapping it rests on has been corrected.
MappingChanged(m) ==
  \E a \in Selections(m) \cap assessments :
    a.mapping # None /\ a.mapping < mapping.version

Usable(m, from, until, cutoff) ==
  /\ m.until > cutoff
  /\ m.start <= from
  /\ m.start + WindowDays * DayLength >= until

Overlaps(r, from, until) == ObservedAt[r] < until /\ ValidUntil[r] > from

\* Rows of the answer: each target with its assessment, or without one.
ReadProjection(g, from, until) ==
  UNION {
    {[record |-> a.record, assessment |-> {a} \cap assessments] :
       a \in {a \in Selections(m) : Overlaps(a.record, from, until)}} :
    m \in {m \in Chosen(g, from, until, clock) :
             Usable(m, from, until, clock) /\ ~MappingChanged(m)}}

AssessmentInit ==
  /\ mapping = [version |-> 1, covers |-> TRUE]
  /\ runs = {}
  /\ reads = {}
  /\ assessments = {}
=============================================================================
