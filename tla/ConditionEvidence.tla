-------------------------- MODULE ConditionEvidence --------------------------
(***************************************************************************)
(* What readers make of the stored records of one quantity, from several   *)
(* stations of one place: the conditions of a place (condition_api.py,     *)
(* activity_score.py), the criteria of a user (conditions.py) and the map  *)
(* (twin/api.py).  They read; the history they read is SourceHistory's.    *)
(*                                                                         *)
(* Left out: units, the mode, issue times, providers of other activities   *)
(* and inland places, which withhold a record whatever the others say.     *)
(***************************************************************************)
EXTENDS SourceHistory

CONSTANTS
  Stations,   \* numbered: of equals the lowest one is named as the source
  StationOf,  \* the station of each record
  Missing,    \* content of a record that does not contain the quantity
  Surroundings  \* how a place may be related to the stations: relation "mapped",
                \* "nearby", "grid" or "none" and the distance of each, and
                \* whether the quantity is one the weather grid is best for

ASSUME EvidenceAssumption ==
  /\ Stations \subseteq Nat
  /\ StationOf \in [Records -> Stations]
  /\ Missing \in Contents
  /\ IsFiniteSet(Stations)
  /\ \A around \in Surroundings : around.distance \in [Stations -> Nat]

Withheld == 0
Nobody == [station |-> 0, rows |-> {}, status |-> "none"]

----------------------------------------------------------------------------
(* The rows of read_conditions.                                            *)

\* Of a record the revision fetched last, whatever it contains.
Revised(known) ==
  {s \in known : \A t \in known : t.record = s.record => ~Newer(t, s)}

\* Mutant: a row that was fetched last is in force.
NeverAmbiguous(s, known) == FALSE

\* The source has returned to an earlier row, nobody knows when.
RevisionAmbiguous(s, known) ==
  \E t \in known : /\ t.record = s.record
                    /\ t.state # "superseded"
                    /\ t.fetched < s.fetched

LatestTarget(rows) ==
  {s \in rows : \A t \in rows : ObservedAt[t.record] <= ObservedAt[s.record]}

\* The records of a station that have ever contained the quantity, as last
\* revised.
CandidateRows(st, at, known) ==
  LET slots == {s.record : s \in {s \in known : s.content # Missing}}
  IN  LatestTarget({s \in Revised(known) : /\ StationOf[s.record] = st
                                           /\ s.record \in slots
                                           /\ ObservedAt[s.record] <= at})

----------------------------------------------------------------------------
(* group_metric and assemble_conditions.                                   *)

RowStatus(s, at) ==
  IF s.content = Missing THEN "missing"
  ELSE IF ValidUntil[s.record] <= at THEN "stale" ELSE "available"

GroupMetric(st, at, known) ==
  LET rows == CandidateRows(st, at, known)
  IN  [station |-> st, rows |-> rows,
       status |-> IF \E s \in rows : RevisionAmbiguous(s, known) THEN "unknown"
                  ELSE IF Cardinality(rows) # 1 THEN "conflict"
                  ELSE RowStatus(CHOOSE s \in rows : TRUE, at)]

\* What every station has, known at some instant.
MetricGroups(at, asOf) ==
  LET known == {s \in snapshots : s.fetched <= asOf}
  IN  {m \in {GroupMetric(st, at, known) : st \in Stations} : m.rows # {}}

Related(around, groups, relations) ==
  {m \in groups : around.relation[m.station] \in relations}

\* Others fill in only where no mapped station has ever said anything.
AssembledMetrics(around, groups) ==
  LET mapped == Related(around, groups, {"mapped"})
  IN  IF mapped # {} THEN mapped ELSE Related(around, groups, {"nearby", "grid"})

----------------------------------------------------------------------------
(* select_metric.                                                          *)

\* Rows of one target that say the same count as one.
ProvisionalValue(m, at) ==
  IF /\ m.status \in {"available", "conflict"}
     /\ \A s \in m.rows : RowStatus(s, at) = "available"
     /\ \A s, t \in m.rows : s.content = t.content
                             /\ ValidUntil[s.record] = ValidUntil[t.record]
  THEN (CHOOSE s \in m.rows : TRUE).content
  ELSE Withheld

\* The weather grid and the stations describe different products.
SourceClass(around, metrics) ==
  LET grids == {m \in metrics : around.relation[m.station] = "grid"}
  IN  IF around.weather /\ grids # {} THEN grids ELSE metrics

TargetOf(m) == Max({ObservedAt[s.record] : s \in m.rows})

Freshest(metrics) ==
  {m \in metrics : \A n \in metrics : TargetOf(n) <= TargetOf(m)}

Nearest(around, metrics) ==
  IF \E m \in metrics : around.relation[m.station] # "nearby" THEN metrics
  ELSE {m \in metrics : \A n \in metrics :
          around.distance[m.station] <= around.distance[n.station]}

\* The metric that is named and the value that is shown and scored.
SelectMetric(around, groups, at) ==
  LET metrics == AssembledMetrics(around, groups)
      deciding == Nearest(around, Freshest(SourceClass(around, metrics)))
      values == {ProvisionalValue(m, at) : m \in deciding}
  IN  IF Cardinality(values) # 1 THEN [metric |-> Nobody, value |-> Withheld]
      ELSE [metric |-> CHOOSE m \in deciding :
                         \A n \in deciding : m.station <= n.station,
            value |-> CHOOSE v \in values : TRUE]

\* calculate_conditions: a criterion names one of the mapped stations.
CriterionValue(around, groups, st) ==
  LET own == {m \in Related(around, groups, {"mapped"}) :
                m.station = st /\ m.status = "available"}
  IN  IF own = {} THEN Withheld
      ELSE (CHOOSE s \in (CHOOSE m \in own : TRUE).rows : TRUE).content

----------------------------------------------------------------------------
(* The map: evidence of twin/api.py.                                       *)

\* Of the revisions that contain the quantity the one with the latest target,
\* of these the one stored last.
TwinRows(st, at, asOf) ==
  LET rows == LatestTarget(
        {s \in Revised({s \in snapshots : s.fetched <= asOf}) :
           StationOf[s.record] = st /\ s.content # Missing /\ ObservedAt[s.record] <= at})
  IN  {s \in rows : \A t \in rows : t.id <= s.id}

TwinValue(st, at, asOf) ==
  LET current == {s \in TwinRows(st, at, asOf) : ValidUntil[s.record] > at}
  IN  IF current = {} THEN Withheld ELSE (CHOOSE s \in current : TRUE).content

----------------------------------------------------------------------------

\* A provider is asked for a record once per instant.
ReadingArrives ==
  \E r \in Records, c \in Contents :
    /\ \A s \in Family(r) : s.fetched < clock
    /\ StoreBatch(r, c)

EvidenceNext == Tick \/ ReadingArrives

EvidenceSpec == SourceInit /\ [][EvidenceNext]_sourceVars

----------------------------------------------------------------------------
(* Properties.                                                             *)

Heard == {r \in Records : heard[r] # None}

\* Records that have a say in what the place shows: those of mapped stations,
\* else those of the grid for weather, else those of any station around.
Voices(around, at) ==
  LET told == {r \in Heard : /\ \E s \in Family(r) : s.content # Missing
                             /\ ObservedAt[r] <= at}
      ofRelation(R) == {r \in told : around.relation[StationOf[r]] \in R}
  IN  IF ofRelation({"mapped"}) # {} THEN ofRelation({"mapped"})
      ELSE IF around.weather /\ ofRelation({"grid"}) # {} THEN ofRelation({"grid"})
      ELSE ofRelation({"nearby", "grid"})

\* Newest evidence decides.  A value that is shown is what the provider says now
\* of a record that is valid; no record with a say has a later target, and one
\* with the same target says the same or belongs to a station further away.  An
\* older reading never comes back for a newer one that is missing, expired, in
\* conflict or taken back.
NewestEvidenceDecides ==
  \A at \in 0 .. clock : LET groups == MetricGroups(at, clock) IN
  groups # {} => \A around \in Surroundings :
    LET shown == SelectMetric(around, groups, at)
        latest == LET voices == Voices(around, at)
                  IN {r \in voices : \A q \in voices : ObservedAt[q] <= ObservedAt[r]}
        agrees(r) == heard[r] = shown.value /\ at < ValidUntil[r]
        further(q) == /\ around.relation[StationOf[q]] = "nearby"
                      /\ around.distance[StationOf[q]]
                           > around.distance[shown.metric.station]
    IN  shown.value # Withheld =>
          /\ \E r \in latest : StationOf[r] = shown.metric.station /\ agrees(r)
          /\ \A q \in latest : agrees(q) \/ further(q)

\* Two ways to read one station never give two numbers: what the conditions
\* evaluate of a station, also of the past, is what a criterion and the map
\* show of it.
ReadersAgree ==
  \A asOf \in 0 .. clock : LET groups == MetricGroups(asOf, asOf) IN
  groups # {} => \A around \in Surroundings :
    LET shown == SelectMetric(around, groups, asOf)
        st == shown.metric.station
    IN  shown.value # Withheld =>
          /\ TwinValue(st, asOf, asOf) = shown.value
          /\ CriterionValue(around, groups, st) \in {Withheld, shown.value}

\* What is shown as a condition is the newest evidence there is, whoever reads it.
ReadersTellTheNewest == NewestEvidenceDecides /\ ReadersAgree
=============================================================================
