--------------------------- MODULE ResultIntervals ---------------------------
(***************************************************************************)
(* The interval algebra of the published condition results: what           *)
(* publish_conditions does to the rows of condition_result that belong to  *)
(* one key (spot, activity, mode).  No variable: the state machine         *)
(* ConditionPublication applies these operators, and                       *)
(* MCResultIntervals checks them against a definition instant by instant.  *)
(*                                                                         *)
(* A row stands for the half-open interval [start, finish) of target       *)
(* instants.  "stale" is the set of generations whose source revision is   *)
(* older than the last hard invalidation and "boundary" the instant of     *)
(* that invalidation (invalidated_revision, invalidated_at in the code).   *)
(***************************************************************************)
EXTENDS Integers, FiniteSets, FiniteSetsExt

\* The rows of a table that contain the target instant t.
RowsAt(rows, t) == {r \in rows : r.start <= t /\ t < r.finish}

\* range_agg(rows) @> [from, to): every instant of the range is in some row.
CoversRange(rows, from, to) == \A t \in from..(to - 1) : RowsAt(rows, t) # {}

\* The rows that share an instant with [from, to).
Overlapping(rows, from, to) == {r \in rows : r.start < to /\ r.finish > from}

ShareInstant(r, s) == r.start < s.finish /\ s.start < r.finish

NoOverlap(rows) == \A r, s \in rows : ShareInstant(r, s) => r = s

-----------------------------------------------------------------------------
(* A hard correction preserves only what precedes it.                      *)
ClipRevoked(rows, stale, boundary) ==
  {[r EXCEPT !.finish = IF r.generation \in stale THEN Min({@, boundary}) ELSE @] :
     r \in {q \in rows : q.generation \in stale => q.start < boundary}}

\* The still readable old intervals that reach into the day begun at today.
OldCompare(rows, stale, boundary, today) ==
  ClipRevoked({r \in rows : r.finish > today}, stale, boundary)

\* Mutant: staged rows are reconciled as they were calculated.
StageAsCalculated(stage, old) == stage

(* Split the staged rows at every readable boundary already stored.        *)
Boundaries(s, old) ==
  {s.start, s.finish} \cup
  {b \in UNION {{r.start, r.finish} : r \in old} : s.start < b /\ b < s.finish}

SplitStage(stage, old) ==
  UNION {LET cuts == Boundaries(s, old) IN
         {[s EXCEPT !.start = b, !.finish = Min({e \in cuts : e > b})] :
            b \in cuts \ {s.finish}} : s \in stage}

\* Mutant: history is filled in beside what is already stored.
HistoryOverStored(stage, old, today, computedAt, stale, boundary) ==
  {[s EXCEPT !.start = Max({@, today}), !.finish = Min({@, computedAt})] :
     s \in {q \in stage : q.start < computedAt /\ q.finish > today}}

(* Fill only what is absent between today and the calculation instant.     *)
MissingHistory(stage, old, today, computedAt, stale, boundary) ==
  LET Candidate(s) ==
        [s EXCEPT !.start  = Max({@, today}),
                  !.finish = Min({@, computedAt} \cup
                                 (IF s.generation \in stale THEN {boundary} ELSE {}))]
  IN {h \in {Candidate(s) : s \in stage} :
        h.start < h.finish /\ Overlapping(old, h.start, h.finish) = {}}

\* What is left of the stage from the calculation instant on.
LiveStage(stage, computedAt) ==
  {[s EXCEPT !.start = Max({@, computedAt})] : s \in {q \in stage : q.finish > computedAt}}

\* Mutant: a row is reused when the stage covers it, whatever its content.
ReusableByCover(old, live, computedAt) ==
  {r \in old : /\ r.finish > computedAt
               /\ CoversRange(live, Max({r.start, computedAt}), r.finish)}

\* Old rows whose whole live part the stage repeats with equal content.
Reusable(old, live, computedAt) ==
  {r \in old : /\ r.finish > computedAt
               /\ CoversRange({s \in live : s.content = r.content},
                              Max({r.start, computedAt}), r.finish)}

\* Staged rows that no reused row of equal content covers.
Uncovered(live, reused) ==
  {s \in live : ~CoversRange({r \in reused : r.content = s.content}, s.start, s.finish)}

\* Rows are matched by their start: (spot, activity, mode, start) is the key.
Starts(rows) == {r.start : r \in rows}

(* Everything else stops at the calculation instant or disappears.         *)
Truncate(rows, reused, computedAt) ==
  {[r EXCEPT !.finish = IF r.start \in Starts(reused) THEN @ ELSE Min({@, computedAt})] :
     r \in {q \in rows : q.start < computedAt \/ q.start \in Starts(reused)}}

MergeStage(rows, stage, computedAt, today, stale, boundary) ==
  LET clipped == ClipRevoked(rows, stale, boundary)
      old     == OldCompare(clipped, stale, boundary, today)
      split   == SplitStage(stage, old)
      history == MissingHistory(split, old, today, computedAt, stale, boundary)
      live    == LiveStage(split, computedAt)
      reused  == Reusable(old, live, computedAt)
  IN Truncate(clipped \cup history, reused, computedAt) \cup Uncovered(live, reused)

-----------------------------------------------------------------------------
(* Retention of the window [today, windowEnd).                             *)
PruneRows(rows, today, windowEnd) ==
  {[r EXCEPT !.start = Max({@, today}), !.finish = Min({@, windowEnd})] :
     r \in Overlapping(rows, today, windowEnd)}

(* A bounded batch may stop early: after some of the deletions, or after   *)
(* all of them and some of the clips.                                      *)
PruneOutcomes(rows, today, windowEnd) ==
  LET inside   == Overlapping(rows, today, windowEnd)
      straddle == {r \in inside : r.start < today \/ r.finish > windowEnd}
  IN {rows \ gone : gone \in SUBSET (rows \ inside)} \cup
     {(inside \ cut) \cup PruneRows(cut, today, windowEnd) : cut \in SUBSET straddle}

-----------------------------------------------------------------------------
(* The staged rows of a calculation: the maximal runs of equal content of  *)
(* f on [from, to), where f[t] = none says that no row is produced.        *)
Runs(f, from, to, none, id) ==
  LET Same(a, b)  == \A t \in a..(b - 1) : f[t] = f[a]
      IsRun(a, b) == /\ a < b /\ f[a] # none /\ Same(a, b)
                     /\ a > from => f[a - 1] # f[a]
                     /\ b < to => f[b] # f[a]
  IN {[start |-> ab[1], finish |-> ab[2], generation |-> id, content |-> f[ab[1]]] :
        ab \in {p \in (from..(to - 1)) \X ((from + 1)..to) : IsRun(p[1], p[2])}}
=============================================================================
