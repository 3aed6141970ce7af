--------------------------- MODULE SourceHistory ---------------------------
(***************************************************************************)
(* The observations and forecasts of one station as they are stored        *)
(* (ingestion/storage.py), and the immutable revisions the forecasts are   *)
(* projected into (forecast/storage.py).  A provider may send a record     *)
(* again, correct it, and take the correction back.  Every operation is    *)
(* one transaction under the advisory lock 'pongdang-ingestion', so a      *)
(* process that dies in one leaves nothing of it.                          *)
(***************************************************************************)
EXTENDS Integers, FiniteSets, FiniteSetsExt

CONSTANTS
  Records,      \* natural identities: (provider, source_record_id, station)
  Forecasts,    \* the records with a forecast in them; the others are observations
  Contents,     \* what a provider may say of a record
  ObservedAt,   \* start of a record's target, its valid_from
  ValidUntil,   \* end of it
  SourceKey,    \* KMA issue cycles of one target share a source_key
  Product,      \* (provider, metric, mode)
  DayLength,    \* clock units of a KST day
  WindowDays,   \* retention_window: 8 days from today's midnight
  MaxClock,     \* bound: the clock stops here
  MaxBatches    \* bound on the batches that change anything

ASSUME HistoryAssumption ==
  /\ Forecasts \subseteq Records
  /\ {DayLength, WindowDays} \subseteq Nat \ {0}
  /\ {MaxClock, MaxBatches} \subseteq Nat
  /\ 0 \notin Contents
  /\ \A r \in Records : /\ {ObservedAt[r], ValidUntil[r]} \subseteq Nat
                        /\ ObservedAt[r] < ValidUntil[r]
  /\ \A r, t \in Records :
       /\ SourceKey[r] = SourceKey[t] =>
            ObservedAt[r] = ObservedAt[t] /\ ValidUntil[r] = ValidUntil[t]
       /\ Product[r] = Product[t] => (r \in Forecasts <=> t \in Forecasts)

VARIABLES
  clock,
  snapshots,   \* conditions_observationsnapshot with its metrics
  batches,     \* batches stored so far, the newest snapshot id given out
  heard,       \* history: what the provider said last of each record
  revisions    \* forecast_revision

sourceVars == <<clock, snapshots, batches, heard, revisions>>

None == 0

DayStart(now)  == (now \div DayLength) * DayLength
WindowEnd(now) == DayStart(now) + WindowDays * DayLength
InWindow(r, now) == ObservedAt[r] < WindowEnd(now) /\ ValidUntil[r] > DayStart(now)

Family(r) == {s \in snapshots : s.record = r}
Current   == {s \in snapshots : s.state # "superseded"}
Ids       == {s.id : s \in snapshots}

----------------------------------------------------------------------------
(* store_batch, for a batch with one reading: an observation of the past,  *)
(* or a forecast no farther ahead than adapters ask for, which is less     *)
(* than what is retained (a week, _timeseries of marine_extra.py).         *)

State(r) == IF ValidUntil[r] <= clock THEN "stale" ELSE "recorded"

Superseded(rows) == {[s EXCEPT !.state = "superseded"] : s \in rows}

\* Mutant: content that is known is skipped, also when it was superseded.
RestoreNothing(r, s) == snapshots

\* A source that returns to what it said: the old row counts again, with the
\* fetch time it had.
Restore(r, s) ==
  (snapshots \ Family(r)) \cup Superseded(Family(r) \ {s})
    \cup {[s EXCEPT !.state = State(r)]}

Insert(r, c) ==
  (snapshots \ Family(r)) \cup Superseded(Family(r))
    \cup {[id |-> batches + 1, record |-> r, content |-> c,
           state |-> State(r), fetched |-> clock]}

StoreBatch(r, c) ==
  /\ batches < MaxBatches
  /\ ObservedAt[r] < WindowEnd(clock)
  /\ r \in Forecasts \/ ObservedAt[r] <= clock
  /\ LET known == {s \in Family(r) : s.content = c}
     IN  \/ /\ known = {}
            /\ snapshots' = Insert(r, c)
         \/ \E s \in known : /\ s.state = "superseded"
                             /\ snapshots' = Restore(r, s)
  /\ heard' = [heard EXCEPT ![r] = c]
  /\ batches' = batches + 1
  /\ UNCHANGED <<clock, revisions>>

----------------------------------------------------------------------------
(* The forecasts that apply, and their revisions.                          *)

Newer(s, t) == s.fetched > t.fetched \/ (s.fetched = t.fetched /\ s.id > t.id)

\* read_normalized with current_only: of the rows that share a source key the
\* one fetched last.
Applicable(now) ==
  {s \in Current : /\ ValidUntil[s.record] > now
                   /\ ObservedAt[s.record] < WindowEnd(now)}

Effective(now) ==
  {s \in Applicable(now) : \A t \in Applicable(now) :
     SourceKey[t.record] = SourceKey[s.record] => ~Newer(t, s)}

Revisions(k)  == {v \in revisions : v.key = k}
RevisionIds   == {v.id : v \in revisions}
LastRevision(k) ==
  IF Revisions(k) = {} THEN None ELSE Max({v.id : v \in Revisions(k)})

\* What select_forecasts shows of a source to one who asks what was known then.
KnownAsOf(k, cutoff) ==
  LET known == {v.id : v \in {v \in Revisions(k) : v.available <= cutoff}}
  IN  IF known = {} THEN None ELSE Max(known)

\* The digest of a payload: two revisions with it are of the same snapshot.
Published(s) ==
  \E v \in Revisions(SourceKey[s.record]) :
    v.id = LastRevision(v.key) /\ v.snapshot = s.id

Unpublished == {s \in Effective(clock) : s.record \in Forecasts /\ ~Published(s)}

\* project_forecasts.  Revisions of one pass have different source keys, so
\* the order of their ids is of no account: they share one.
ProjectForecasts ==
  /\ Unpublished # {}
  /\ LET next == IF revisions = {} THEN 1 ELSE Max(RevisionIds) + 1
     IN  revisions' = revisions \cup
           {[id |-> next, key |-> SourceKey[s.record], record |-> s.record,
             snapshot |-> s.id, available |-> clock] : s \in Unpublished}
  /\ UNCHANGED <<clock, snapshots, batches, heard>>

Tick ==
  /\ clock < MaxClock
  /\ clock' = clock + 1
  /\ UNCHANGED <<snapshots, batches, heard, revisions>>

SourceInit ==
  /\ clock = 0
  /\ snapshots = {}
  /\ batches = 0
  /\ heard = [r \in Records |-> None]
  /\ revisions = {}
=============================================================================
