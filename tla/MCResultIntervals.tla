-------------------------- MODULE MCResultIntervals --------------------------
(***************************************************************************)
(* Every bounded input of the reconciliation: a disjoint table of old rows *)
(* of a stale generation (1) and of a valid one (2), a disjoint stage of   *)
(* generation 3, a calculation instant, a day start and an invalidation.   *)
(* The result is compared with a definition of one instant at a time.      *)
(***************************************************************************)
EXTENDS ResultIntervals

CONSTANTS
  End,             \* instants 0..End-1
  Digests,         \* of contents
  OldGenerations,  \* that rows are stored of, 1 among them or not
  DayStarts        \* instants at which the day of the calculation may begin

ASSUME IntervalsAssumption == End \in Nat /\ DayStarts \subseteq Nat

VARIABLES storedRows, stagedRows, calculatedAt, dayStart, invalidatedAt, result, done

mergeVars == <<storedRows, stagedRows, calculatedAt, dayStart, invalidatedAt, result, done>>

\* All tables of disjoint rows: of as many rows as there are instants at most.
Rows(gens) ==
  {r \in [start : 0..End, finish : 0..End, generation : gens, content : Digests] :
     r.start < r.finish}

Tables(gens) ==
  {table \in {{}} \cup {{f[n] : n \in 1..End} : f \in [1..End -> Rows(gens)]} :
     NoOverlap(table)}

MergeInit ==
  /\ storedRows \in Tables(OldGenerations)
  /\ stagedRows \in Tables({3})
  /\ calculatedAt \in 0..End
  /\ dayStart \in DayStarts
  /\ invalidatedAt \in 0..calculatedAt
  /\ result = {}
  /\ done = FALSE

\* Nothing to merge.
MergeRests ==
  /\ storedRows = {} /\ stagedRows = {} /\ result = {}
  /\ calculatedAt = 0 /\ dayStart = 0 /\ invalidatedAt = 0
  /\ done = FALSE

Stale == {1}

Merge ==
  /\ ~done
  /\ result' = MergeStage(storedRows, stagedRows, calculatedAt, dayStart, Stale, invalidatedAt)
  /\ done' = TRUE
  /\ UNCHANGED <<storedRows, stagedRows, calculatedAt, dayStart, invalidatedAt>>

Prune ==
  /\ done
  /\ result' = PruneRows(result, dayStart, End - 1)
  /\ UNCHANGED <<storedRows, stagedRows, calculatedAt, dayStart, invalidatedAt, done>>

MergeNext == Merge \/ Prune

MergeSpec == MergeInit /\ [][MergeNext]_mergeVars

-----------------------------------------------------------------------------
ReadableOld(t) ==
  {r \in RowsAt(storedRows, t) : r.generation \notin Stale \/ t < invalidatedAt}

\* An old row survives from calculatedAt on exactly when every later instant of
\* it is staged with the same content.
Confirmed(r) ==
  /\ r.generation \notin Stale
  /\ \A u \in r.start..(r.finish - 1) :
        u >= calculatedAt => \E s \in RowsAt(stagedRows, u) : s.content = r.content

Shown(rows) == {<<r.generation, r.content>> : r \in rows}

Expected(t) ==
  IF t < calculatedAt
  THEN IF ReadableOld(t) # {} THEN Shown(ReadableOld(t)) ELSE Shown(RowsAt(stagedRows, t))
  ELSE LET kept == {r \in ReadableOld(t) : Confirmed(r)}
       IN IF kept # {} THEN Shown(kept) ELSE Shown(RowsAt(stagedRows, t))

\* Reconciling intervals amounts to the definition instant by instant: the
\* past keeps what it had, gaps of the past and the whole live part come from
\* the stage, unchanged live rows keep their generation.
MergeIsPointwise ==
  done => \A t \in dayStart..(End - 2) : Shown(RowsAt(result, t)) = Expected(t)
=============================================================================
