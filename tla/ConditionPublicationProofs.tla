---------------------- MODULE ConditionPublicationProofs ----------------------
(***************************************************************************)
(* Two inductive invariants of ConditionPublication and what follows from  *)
(* them.  From the first: only current evidence is published, and evidence *)
(* that a correction withdrew is never served for the present or the       *)
(* future, and of the past only for what precedes the withdrawal.  From    *)
(* the second, on the shape of the rows: the latest generation is shown    *)
(* completely, restrictions are, and ConditionBoard is implemented.        *)
(***************************************************************************)
EXTENDS ConditionPublication, MCResultIntervals, NumberSets, SequenceTheorems

-----------------------------------------------------------------------------
(* Where the rows of a reconciliation come from, and that they are rows      *)
(* again.                                                                    *)

\* Well-formed rows with instants up to N.
RowSet(N, G, C) == [start : 0..N, finish : 0..N, generation : G, content : C]

-----------------------------------------------------------------------------
\* A row made from row q: the same content of the same generation, no later end.
From(r, q) == r.generation = q.generation /\ r.content = q.content

Part(r, q) == From(r, q) /\ r.finish <= q.finish

LEMMA ClipRevokedRows ==
  ASSUME NEW N \in Nat, NEW G, NEW C, NEW rows \in SUBSET RowSet(N, G, C),
         NEW stale, NEW boundary \in Int,
         NEW r \in ClipRevoked(rows, stale, boundary)
  PROVE  /\ r \in RowSet(N, G, C)
         /\ \E q \in rows : Part(r, q)
         /\ r.generation \in stale => r.finish <= boundary
<1>1. PICK q \in rows :
         /\ q.generation \in stale => q.start < boundary
         /\ r = [q EXCEPT !.finish = IF q.generation \in stale
                                    THEN Min({@, boundary}) ELSE @]
  BY DEF ClipRevoked
<1>2. q.start \in 0..N /\ q.finish \in 0..N
  BY DEF RowSet
<1>3. Min({q.finish, boundary}) = IF q.finish <= boundary THEN q.finish ELSE boundary
  BY <1>2, MinOfPair
<1> QED
  BY <1>1, <1>2, <1>3 DEF RowSet, Part, From

LEMMA SplitStageRows ==
  ASSUME NEW N \in Nat, NEW G, NEW C, NEW stage \in SUBSET RowSet(N, G, C),
         \A s \in stage : s.start < s.finish,
         NEW old \in SUBSET RowSet(N, G, C), NEW r \in SplitStage(stage, old)
  PROVE  /\ r \in RowSet(N, G, C)
         /\ \E s \in stage : From(r, s)
<1> DEFINE Cut(s, b) ==
      [s EXCEPT !.start = b, !.finish = Min({e \in Boundaries(s, old) : e > b})]
           Pieces(s) == {Cut(s, b) : b \in Boundaries(s, old) \ {s.finish}}
<1>0. r \in UNION {Pieces(s) : s \in stage}
  BY DEF SplitStage
<1>1. PICK s \in stage : r \in Pieces(s)
  <2> HIDE DEF Pieces
  <2> QED
    BY <1>0
<1>2. PICK b \in Boundaries(s, old) \ {s.finish} :
         r = [s EXCEPT !.start = b, !.finish = Min({e \in Boundaries(s, old) : e > b})]
  BY <1>1
<1> DEFINE later == {e \in Boundaries(s, old) : e > b}
<1>3. s \in RowSet(N, G, C) /\ s.start \in 0..N /\ s.finish \in 0..N /\ s.start < s.finish
  BY DEF RowSet
<1>4. Boundaries(s, old) \subseteq 0..N
  BY <1>3 DEF Boundaries, RowSet
<1>5. s.finish \in later
  BY <1>3 DEF Boundaries
<1>6. Min(later) \in 0..N
  BY <1>4, <1>5, MinOfNaturals
<1> HIDE DEF later
<1>7. r = [s EXCEPT !.start = b, !.finish = Min(later)]
  BY <1>2 DEF later
<1> QED
  BY <1>3, <1>4, <1>6, <1>7 DEF RowSet, From

LEMMA MissingHistoryRows ==
  ASSUME NEW N \in Nat, NEW G, NEW C, NEW stage \in SUBSET RowSet(N, G, C),
         NEW old, NEW today \in Nat, NEW computedAt \in Nat, NEW stale,
         NEW boundary \in Int,
         NEW r \in MissingHistory(stage, old, today, computedAt, stale, boundary)
  PROVE  /\ r \in RowSet(N, G, C)
         /\ \E s \in stage : From(r, s)
<1>1. PICK s \in stage :
        /\ r = [s EXCEPT !.start = Max({@, today}),
                         !.finish = Min({@, computedAt} \cup
                                 (IF s.generation \in stale THEN {boundary} ELSE {}))]
        /\ r.start < r.finish
  BY DEF MissingHistory
<1>2. s \in RowSet(N, G, C) /\ s.start \in 0..N /\ s.finish \in 0..N
  BY DEF RowSet
<1>3. Max({s.start, today}) \in Nat
  BY <1>2, MaxOfPair
<1> DEFINE end == Min({s.finish, computedAt} \cup
                      (IF s.generation \in stale THEN {boundary} ELSE {}))
<1>4. end \in Int /\ end <= s.finish
  <2>1. CASE s.generation \in stale
    <3>1. end = Min({s.finish, computedAt, boundary})
      BY <2>1
    <3> HIDE DEF end
    <3>0. s.finish \in Int /\ computedAt \in Int /\ boundary \in Int
      BY <1>2
    <3>2. /\ Min({s.finish, computedAt, boundary}) \in {s.finish, computedAt, boundary}
          /\ Min({s.finish, computedAt, boundary}) <= s.finish
      BY ONLY <3>0, MinOfTriple
    <3> QED
      BY <1>2, <3>1, <3>2
  <2>2. CASE s.generation \notin stale
    <3>1. end = Min({s.finish, computedAt})
      BY <2>2
    <3> QED
      BY <1>2, <3>1, MinOfPair
  <2> QED
    BY <2>1, <2>2
<1> HIDE DEF end
<1>5. r = [s EXCEPT !.start = Max({s.start, today}), !.finish = end]
  BY <1>1 DEF end
<1>6. r.start = Max({s.start, today}) /\ r.finish = end
  BY <1>2, <1>5 DEF RowSet
<1>7. Max({s.start, today}) \in 0..N /\ end \in 0..N
  BY <1>1, <1>2, <1>3, <1>4, <1>6
<1> QED
  BY <1>2, <1>5, <1>7 DEF RowSet, From

LEMMA LiveStageRows ==
  ASSUME NEW N \in Nat, NEW G, NEW C, NEW stage \in SUBSET RowSet(N, G, C),
         NEW computedAt \in Nat, NEW r \in LiveStage(stage, computedAt)
  PROVE  /\ r \in RowSet(N, G, C)
         /\ \E s \in stage : From(r, s)
<1>1. PICK s \in stage : s.finish > computedAt /\ r = [s EXCEPT !.start = Max({@, computedAt})]
  BY DEF LiveStage
<1>2. s \in RowSet(N, G, C) /\ s.start \in 0..N /\ s.finish \in 0..N
  BY DEF RowSet
<1>3. Max({s.start, computedAt}) \in 0..N
  <2>1. Max({s.start, computedAt}) = IF s.start >= computedAt THEN s.start ELSE computedAt
    BY <1>2, MaxOfPair
  <2>2. computedAt \in 0..N
    BY <1>1, <1>2
  <2> QED
    BY <1>2, <2>1, <2>2
<1> QED
  BY <1>1, <1>2, <1>3 DEF RowSet, From

LEMMA TruncateRows ==
  ASSUME NEW N \in Nat, NEW G, NEW C, NEW rows \in SUBSET RowSet(N, G, C),
         NEW reused, NEW computedAt \in Nat, NEW r \in Truncate(rows, reused, computedAt)
  PROVE  /\ r \in RowSet(N, G, C)
         /\ \E q \in rows : Part(r, q)
<1>1. PICK q \in rows :
         r = [q EXCEPT !.finish = IF q.start \in Starts(reused) THEN @
                                 ELSE Min({@, computedAt})]
  BY DEF Truncate
<1>2. q \in RowSet(N, G, C) /\ q.start \in 0..N /\ q.finish \in 0..N
  BY DEF RowSet
<1>3. Min({q.finish, computedAt}) \in 0..N /\ Min({q.finish, computedAt}) <= q.finish
  BY <1>2, MinOfPair
<1> QED
  BY <1>1, <1>2, <1>3 DEF RowSet, Part, From

LEMMA RunsRows ==
  ASSUME NEW N \in Nat, NEW C, NEW f, \A t \in 0..(N - 1) : f[t] \in C,
         NEW none, NEW id \in Nat, NEW r \in Runs(f, 0, N, none, id)
  PROVE  /\ r \in RowSet(N, Nat, C) /\ r.start < r.finish /\ r.generation = id
         /\ \E t \in 0..(N - 1) : r.content = f[t]
<1>1. PICK a \in 0..(N - 1), b \in 1..N :
         a < b /\ r = [start |-> a, finish |-> b, generation |-> id, content |-> f[a]]
  BY DEF Runs
<1> QED
  BY <1>1 DEF RowSet

LEMMA PruneRowsRows ==
  ASSUME NEW N \in Nat, NEW G, NEW C, NEW rows \in SUBSET RowSet(N, G, C),
         NEW today \in Nat, NEW windowEnd \in Nat, NEW r \in PruneRows(rows, today, windowEnd)
  PROVE  r \in RowSet(N, G, C) /\ \E q \in rows : Part(r, q)
<1>1. PICK q \in rows :
         /\ q.start < windowEnd /\ q.finish > today
         /\ r = [q EXCEPT !.start = Max({@, today}), !.finish = Min({@, windowEnd})]
  BY DEF PruneRows, Overlapping
<1>2. q \in RowSet(N, G, C) /\ q.start \in 0..N /\ q.finish \in 0..N
  BY DEF RowSet
<1>3. Max({q.start, today}) \in 0..N
  <2>1. Max({q.start, today}) = IF q.start >= today THEN q.start ELSE today
    BY <1>2, MaxOfPair
  <2>2. today \in 0..N
    BY <1>1, <1>2
  <2> QED
    BY <1>2, <2>1, <2>2
<1>4. Min({q.finish, windowEnd}) \in 0..N /\ Min({q.finish, windowEnd}) <= q.finish
  BY <1>2, MinOfPair
<1> QED
  BY <1>1, <1>2, <1>3, <1>4 DEF RowSet, Part, From

LEMMA PruneOutcomesRows ==
  ASSUME NEW N \in Nat, NEW G, NEW C, NEW rows \in SUBSET RowSet(N, G, C),
         NEW today \in Nat, NEW windowEnd \in Nat,
         NEW left \in PruneOutcomes(rows, today, windowEnd), NEW r \in left
  PROVE  r \in RowSet(N, G, C) /\ \E q \in rows : Part(r, q)
<1>1. CASE r \in rows
  BY <1>1 DEF Part, From, RowSet
<1>2. CASE r \notin rows
  <2>1. PICK cut \in SUBSET rows : r \in PruneRows(cut, today, windowEnd)
    BY <1>2 DEF PruneOutcomes, Overlapping
  <2> QED
    BY <2>1, PruneRowsRows
<1> QED
  BY <1>1, <1>2

\* A reconciliation leaves only rows of the stage and parts of stored rows,
\* and of a revoked generation only what ends by the invalidation.
LEMMA MergeStageRows ==
  ASSUME NEW N \in Nat, NEW G, NEW C, NEW rows \in SUBSET RowSet(N, G, C),
         NEW stage \in SUBSET RowSet(N, G, C), \A s \in stage : s.start < s.finish,
         NEW computedAt \in Nat, NEW today \in Nat, NEW stale, NEW boundary \in Int,
         NEW r \in MergeStage(rows, stage, computedAt, today, stale, boundary)
  PROVE  /\ r \in RowSet(N, G, C)
         /\ \/ \E s \in stage : From(r, s)
            \/ /\ \E q \in rows : Part(r, q)
               /\ r.generation \in stale => r.finish <= boundary
<1> DEFINE clipped == ClipRevoked(rows, stale, boundary)
           old     == OldCompare(clipped, stale, boundary, today)
           split   == SplitStage(stage, old)
           history == MissingHistory(split, old, today, computedAt, stale, boundary)
           live    == LiveStage(split, computedAt)
           reused  == Reusable(old, live, computedAt)
<1>1. clipped \in SUBSET RowSet(N, G, C)
  BY ClipRevokedRows
<1>2. old \in SUBSET RowSet(N, G, C)
  <2>1. {q \in clipped : q.finish > today} \in SUBSET RowSet(N, G, C)
    BY <1>1
  <2> HIDE DEF clipped
  <2> QED
    BY <2>1, ClipRevokedRows DEF OldCompare
<1>3. ASSUME NEW s \in split
      PROVE  s \in RowSet(N, G, C) /\ \E q \in stage : From(s, q)
  <2> HIDE DEF old
  <2> QED
    BY <1>2, <1>3, SplitStageRows
<1>4. split \in SUBSET RowSet(N, G, C)
  BY <1>3
<1>5. ASSUME NEW s \in history
      PROVE  s \in RowSet(N, G, C) /\ \E q \in stage : From(s, q)
  <2> HIDE DEF split, old
  <2>1. s \in RowSet(N, G, C) /\ \E q \in split : From(s, q)
    BY <1>4, <1>5, MissingHistoryRows
  <2> QED
    BY <1>3, <2>1 DEF From
<1>6. ASSUME NEW s \in live
      PROVE  s \in RowSet(N, G, C) /\ \E q \in stage : From(s, q)
  <2> HIDE DEF split
  <2>1. s \in RowSet(N, G, C) /\ \E q \in split : From(s, q)
    BY <1>4, <1>6, LiveStageRows
  <2> QED
    BY <1>3, <2>1 DEF From
<1>7. r \in Truncate(clipped \cup history, reused, computedAt) \cup Uncovered(live, reused)
  BY DEF MergeStage
<1> HIDE DEF clipped, old, split, live, reused
<1>8. CASE r \in Uncovered(live, reused)
  BY <1>6, <1>8 DEF Uncovered
<1>9. CASE r \in Truncate(clipped \cup history, reused, computedAt)
  <2>1. clipped \cup history \in SUBSET RowSet(N, G, C)
    BY <1>1, <1>5
  <2>2. PICK q \in clipped \cup history : Part(r, q)
    <3> HIDE DEF history
    <3> QED
      BY <1>9, <2>1, TruncateRows
  <2>3. r \in RowSet(N, G, C)
    <3> HIDE DEF history
    <3> QED
      BY <1>9, <2>1, TruncateRows
  <2>4. CASE q \in history
    BY <1>5, <2>2, <2>3, <2>4 DEF Part, From
  <2>5. CASE q \in clipped
    <3>1. /\ q \in RowSet(N, G, C)
          /\ \E p \in rows : Part(q, p)
          /\ q.generation \in stale => q.finish <= boundary
      BY <2>5, ClipRevokedRows DEF clipped
    <3>2. q.finish \in Int /\ r.finish \in Int /\ \A p \in rows : p.finish \in Int
      BY <2>3, <3>1 DEF RowSet
    <3> QED
      BY <2>2, <2>3, <3>1, <3>2 DEF Part, From
  <2> QED
    BY <2>2, <2>4, <2>5
<1> QED
  BY <1>7, <1>8, <1>9
-----------------------------------------------------------------------------
(* Instant by instant: a reconciliation of disjoint rows is disjoint, shows *)
(* the stage from the calculation instant on, and keeps the readable past.  *)

\* No row is empty and no two rows share an instant.
Tidy(rows) == (\A r \in rows : r.start < r.finish) /\ NoOverlap(rows)

\* A row cut out of row q.
Piece(r, q) == From(r, q) /\ q.start <= r.start /\ r.start < r.finish /\ r.finish <= q.finish

Images(f, S) == {f[q] : q \in S}

\* Disjoint rows, each cut down, are disjoint.
LEMMA ImagesTidy ==
  ASSUME NEW N \in Nat, NEW G, NEW C, NEW rows \in SUBSET RowSet(N, G, C), NoOverlap(rows),
         NEW S \in SUBSET rows, NEW f,
         \A q \in S : f[q] \in RowSet(N, G, C) /\ Piece(f[q], q)
  PROVE  /\ Tidy(Images(f, S))
         /\ \A p, q \in S : ShareInstant(f[p], f[q]) => p = q
<1>1. ASSUME NEW p \in S, NEW q \in S, ShareInstant(f[p], f[q])
      PROVE  p = q
  <2>1. /\ {p.start, p.finish, q.start, q.finish} \subseteq Int
        /\ {f[p].start, f[p].finish, f[q].start, f[q].finish} \subseteq Int
    BY DEF RowSet
  <2>2. /\ p.start <= f[p].start /\ f[p].finish <= p.finish
        /\ q.start <= f[q].start /\ f[q].finish <= q.finish
    BY DEF Piece
  <2>3. ShareInstant(p, q)
    BY <1>1, <2>1, <2>2 DEF ShareInstant
  <2> QED
    BY <2>3 DEF NoOverlap
<1>2. \A q \in S : f[q].start < f[q].finish
  BY DEF Piece
<1> QED
  BY <1>1, <1>2 DEF Tidy, NoOverlap, Images

LEMMA SubsetTidy ==
  ASSUME NEW rows, Tidy(rows), NEW S \in SUBSET rows
  PROVE  Tidy(S)
BY DEF Tidy, NoOverlap

LEMMA ClipRevokedTidy ==
  ASSUME NEW N \in Nat, NEW G, NEW C, NEW rows \in SUBSET RowSet(N, G, C), Tidy(rows),
         NEW stale, NEW boundary \in Int
  PROVE  /\ Tidy(ClipRevoked(rows, stale, boundary))
         /\ \A r \in ClipRevoked(rows, stale, boundary) : \E q \in rows : Piece(r, q)
         /\ \A q \in rows, t \in Int :
              (q.start <= t /\ t < q.finish /\ (q.generation \in stale => t < boundary)) =>
                 \E r \in ClipRevoked(rows, stale, boundary) :
                    From(r, q) /\ r.start <= t /\ t < r.finish
<1> DEFINE S == {q \in rows : q.generation \in stale => q.start < boundary}
           f == [q \in S |-> [q EXCEPT !.finish = IF q.generation \in stale
                                                  THEN Min({@, boundary}) ELSE @]]
<1>1. ClipRevoked(rows, stale, boundary) = Images(f, S)
  BY DEF ClipRevoked, Images
<1>2. ASSUME NEW q \in S
      PROVE  /\ f[q] \in RowSet(N, G, C) /\ Piece(f[q], q)
             /\ \A t \in Int : (t < q.finish /\ (q.generation \in stale => t < boundary))
                                 => t < f[q].finish
  <2>1. /\ q \in RowSet(N, G, C) /\ q.start \in 0..N /\ q.finish \in 0..N
        /\ q.start < q.finish /\ q.generation \in G /\ q.content \in C
    BY DEF RowSet, Tidy
  <2>2. Min({q.finish, boundary}) = IF q.finish <= boundary THEN q.finish ELSE boundary
    BY <2>1, MinOfPair
  <2>3. f[q] = [q EXCEPT !.finish = IF q.generation \in stale
                                    THEN Min({q.finish, boundary}) ELSE q.finish]
    BY <2>1 DEF RowSet
  <2> HIDE DEF f
  <2>4. /\ f[q].finish = IF q.generation \in stale THEN Min({q.finish, boundary}) ELSE q.finish
        /\ f[q].start = q.start /\ f[q].generation = q.generation /\ f[q].content = q.content
    BY <2>1, <2>3 DEF RowSet
  <2>5. f[q].finish \in 0..N /\ q.start < f[q].finish /\ f[q].finish <= q.finish
    BY <2>1, <2>2, <2>4
  <2>6. f[q] \in RowSet(N, G, C)
    BY <2>1, <2>3, <2>4, <2>5 DEF RowSet
  <2>7. Piece(f[q], q)
    BY <2>1, <2>4, <2>5 DEF Piece, From
  <2>8. \A t \in Int : (t < q.finish /\ (q.generation \in stale => t < boundary))
                                 => t < f[q].finish
    BY <2>1, <2>2, <2>4
  <2> QED
    BY <2>6, <2>7, <2>8
<1>3. S \in SUBSET rows /\ NoOverlap(rows)
  BY DEF Tidy
<1>4. ASSUME NEW q \in rows, NEW t \in Int, q.start <= t, t < q.finish,
             q.generation \in stale => t < boundary
      PROVE  q \in S /\ From(f[q], q) /\ f[q].start <= t /\ t < f[q].finish
  <2>1. q.start \in Int
    BY DEF RowSet
  <2>2. q \in S
    BY <1>4, <2>1
  <2>3. q.start = f[q].start
    BY <2>2 DEF RowSet
  <2> QED
    BY <1>2, <1>4, <2>2, <2>3 DEF Piece
<1> HIDE DEF S, f
<1>5. \A q \in S : f[q] \in RowSet(N, G, C) /\ Piece(f[q], q)
  BY <1>2
<1>6. Tidy(Images(f, S))
  BY <1>3, <1>5, ImagesTidy
<1>7. \A r \in Images(f, S) : \E q \in rows : Piece(r, q)
  BY <1>3, <1>5 DEF Images
<1>8. \A q \in rows, t \in Int :
         (q.start <= t /\ t < q.finish /\ (q.generation \in stale => t < boundary)) =>
            \E r \in Images(f, S) : From(r, q) /\ r.start <= t /\ t < r.finish
  BY <1>4 DEF Images
<1> QED
  BY <1>1, <1>6, <1>7, <1>8

At(r, t) == r.start <= t /\ t < r.finish

\* Reused rows stay whole; every other row ends by the calculation instant.
LEMMA TruncateTidy ==
  ASSUME NEW N \in Nat, NEW G, NEW C, NEW rows \in SUBSET RowSet(N, G, C), Tidy(rows),
         NEW reused \in SUBSET rows, NEW computedAt \in Nat
  PROVE  /\ Tidy(Truncate(rows, reused, computedAt))
         /\ \A r \in Truncate(rows, reused, computedAt) : \E q \in rows :
              Piece(r, q) /\ ((r = q /\ q \in reused) \/ r.finish <= computedAt)
         /\ reused \subseteq Truncate(rows, reused, computedAt)
         /\ \A q \in rows, t \in Int : At(q, t) /\ t < computedAt =>
              \E r \in Truncate(rows, reused, computedAt) : From(r, q) /\ At(r, t)
<1> DEFINE S == {q \in rows : q.start < computedAt \/ q.start \in Starts(reused)}
           f == [q \in S |-> [q EXCEPT !.finish = IF q.start \in Starts(reused) THEN @
                                                  ELSE Min({@, computedAt})]]
<1>1. Truncate(rows, reused, computedAt) = Images(f, S)
  BY DEF Truncate, Images
<1>2. \A q \in rows : /\ q \in RowSet(N, G, C) /\ q.start \in 0..N /\ q.finish \in 0..N
                      /\ q.start < q.finish /\ q.generation \in G /\ q.content \in C
  BY DEF RowSet, Tidy
<1>3. ASSUME NEW q \in rows PROVE q.start \in Starts(reused) <=> q \in reused
  <2>1. ASSUME NEW p \in reused, p.start = q.start PROVE p = q
    <3>1. ShareInstant(p, q)
      BY <1>2, <2>1 DEF ShareInstant
    <3> QED
      BY <3>1 DEF Tidy, NoOverlap
  <2> QED
    BY <2>1 DEF Starts
<1>4. ASSUME NEW q \in S
      PROVE  /\ f[q] \in RowSet(N, G, C) /\ Piece(f[q], q)
             /\ (f[q] = q /\ q \in reused) \/ f[q].finish <= computedAt
             /\ \A t \in Int : At(q, t) /\ t < computedAt => At(f[q], t)
  <2>1. CASE q \in reused
    <3>1. f[q] = q
      BY <1>2, <1>3, <2>1 DEF RowSet
    <3> HIDE DEF f
    <3> QED
      BY <1>2, <2>1, <3>1 DEF Piece, From
  <2>2. CASE q \notin reused
    <3>1. Min({q.finish, computedAt}) = IF q.finish <= computedAt THEN q.finish ELSE computedAt
      BY <1>2, MinOfPair
    <3>2. f[q] = [q EXCEPT !.finish = Min({q.finish, computedAt})] /\ q.start < computedAt
      BY <1>2, <1>3, <2>2 DEF RowSet
    <3> HIDE DEF f
    <3>3. /\ f[q].finish = Min({q.finish, computedAt})
          /\ f[q].start = q.start /\ f[q].generation = q.generation /\ f[q].content = q.content
      BY <1>2, <3>2 DEF RowSet
    <3>4. /\ f[q].finish \in 0..N /\ q.start < f[q].finish /\ f[q].finish <= q.finish
          /\ f[q].finish <= computedAt
      BY <1>2, <3>1, <3>2, <3>3
    <3>5. f[q] \in RowSet(N, G, C)
      BY <1>2, <3>2, <3>3, <3>4 DEF RowSet
    <3>6. Piece(f[q], q)
      BY <1>2, <3>3, <3>4 DEF Piece, From
    <3>7. \A t \in Int : At(q, t) /\ t < computedAt => At(f[q], t)
      BY <1>2, <3>1, <3>3 DEF At
    <3> QED
      BY <3>4, <3>5, <3>6, <3>7
  <2> QED
    BY <2>1, <2>2
<1>5. ASSUME NEW q \in rows, NEW t \in Int, At(q, t), t < computedAt PROVE q \in S
  BY <1>2, <1>5 DEF At
<1>6. reused \subseteq S /\ S \in SUBSET rows /\ NoOverlap(rows)
  BY DEF Starts, Tidy
<1> HIDE DEF S, f
<1>7. \A q \in reused : f[q] = q
  <2>1. ASSUME NEW q \in reused PROVE f[q] = q
    BY <1>2, <1>3, <1>6 DEF S, f, RowSet
  <2> QED
    BY <2>1
<1>8. \A q \in S : f[q] \in RowSet(N, G, C) /\ Piece(f[q], q)
  BY <1>4
<1>9. Tidy(Images(f, S))
  BY <1>6, <1>8, ImagesTidy
<1>10. \A r \in Images(f, S) : \E q \in rows :
          Piece(r, q) /\ ((r = q /\ q \in reused) \/ r.finish <= computedAt)
  BY <1>4, <1>6 DEF Images
<1>11. reused \subseteq Images(f, S)
  BY <1>6, <1>7 DEF Images
<1>12. \A q \in rows, t \in Int : At(q, t) /\ t < computedAt =>
          \E r \in Images(f, S) : From(r, q) /\ At(r, t)
  BY <1>4, <1>5 DEF Images, Piece
<1> QED
  BY <1>1, <1>9, <1>10, <1>11, <1>12

LEMMA LiveStageTidy ==
  ASSUME NEW N \in Nat, NEW G, NEW C, NEW stage \in SUBSET RowSet(N, G, C), Tidy(stage),
         NEW computedAt \in Nat
  PROVE  /\ Tidy(LiveStage(stage, computedAt))
         /\ \A r \in LiveStage(stage, computedAt) :
              \E s \in stage : Piece(r, s) /\ r.start >= computedAt
         /\ \A s \in stage, t \in Int : At(s, t) /\ t >= computedAt =>
              \E r \in LiveStage(stage, computedAt) : From(r, s) /\ At(r, t)
<1> DEFINE S == {q \in stage : q.finish > computedAt}
           f == [q \in S |-> [q EXCEPT !.start = Max({@, computedAt})]]
<1>1. LiveStage(stage, computedAt) = Images(f, S)
  BY DEF LiveStage, Images
<1>2. \A q \in stage : /\ q \in RowSet(N, G, C) /\ q.start \in 0..N /\ q.finish \in 0..N
                       /\ q.start < q.finish /\ q.generation \in G /\ q.content \in C
  BY DEF RowSet, Tidy
<1>3. ASSUME NEW q \in S
      PROVE  /\ f[q] \in RowSet(N, G, C) /\ Piece(f[q], q) /\ f[q].start >= computedAt
             /\ \A t \in Int : At(q, t) /\ t >= computedAt => At(f[q], t)
  <2>1. Max({q.start, computedAt}) = IF q.start >= computedAt THEN q.start ELSE computedAt
    BY <1>2, MaxOfPair
  <2>2. f[q] = [q EXCEPT !.start = Max({q.start, computedAt})] /\ q.finish > computedAt
    BY <1>2 DEF RowSet
  <2> HIDE DEF f
  <2>3. /\ f[q].start = Max({q.start, computedAt})
        /\ f[q].finish = q.finish /\ f[q].generation = q.generation /\ f[q].content = q.content
    BY <1>2, <2>2 DEF RowSet
  <2>4. /\ f[q].start \in 0..N /\ f[q].start < q.finish /\ q.start <= f[q].start
        /\ computedAt <= f[q].start
    BY <1>2, <2>1, <2>2, <2>3
  <2>5. f[q] \in RowSet(N, G, C)
    BY <1>2, <2>2, <2>3, <2>4 DEF RowSet
  <2>6. Piece(f[q], q)
    BY <1>2, <2>3, <2>4 DEF Piece, From
  <2>7. \A t \in Int : At(q, t) /\ t >= computedAt => At(f[q], t)
    BY <1>2, <2>1, <2>3 DEF At
  <2> QED
    BY <2>4, <2>5, <2>6, <2>7
<1>4. ASSUME NEW q \in stage, NEW t \in Int, At(q, t), t >= computedAt PROVE q \in S
  BY <1>2, <1>4 DEF At
<1>5. S \in SUBSET stage /\ NoOverlap(stage)
  BY DEF Tidy
<1> HIDE DEF S, f
<1>6. \A q \in S : f[q] \in RowSet(N, G, C) /\ Piece(f[q], q)
  BY <1>3
<1>7. Tidy(Images(f, S))
  BY <1>5, <1>6, ImagesTidy
<1>8. \A r \in Images(f, S) : \E s \in stage : Piece(r, s) /\ r.start >= computedAt
  BY <1>3, <1>5 DEF Images
<1>9. \A s \in stage, t \in Int : At(s, t) /\ t >= computedAt =>
         \E r \in Images(f, S) : From(r, s) /\ At(r, t)
  BY <1>3, <1>4 DEF Images, Piece
<1> QED
  BY <1>1, <1>7, <1>8, <1>9

\* A gap of the past is filled with what the stage says of it.
LEMMA MissingHistoryFills ==
  ASSUME NEW N \in Nat, NEW G, NEW C, NEW stage \in SUBSET RowSet(N, G, C),
         NEW old \in SUBSET RowSet(N, G, C),
         NEW today \in Nat, NEW computedAt \in Nat, NEW stale, NEW boundary,
         NEW s \in stage, s.generation \notin stale,
         NEW t \in Int, At(s, t), today <= t, t < computedAt,
         \A r \in old : ~ShareInstant(r, s)
  PROVE  \E h \in MissingHistory(stage, old, today, computedAt, stale, boundary) :
            From(h, s) /\ At(h, t)
<1> DEFINE history == MissingHistory(stage, old, today, computedAt, stale, boundary)
           Candidate(q) ==
             [q EXCEPT !.start  = Max({@, today}),
                       !.finish = Min({@, computedAt} \cup
                                      (IF q.generation \in stale THEN {boundary} ELSE {}))]
           h == [s EXCEPT !.start  = IF s.start >= today THEN s.start ELSE today,
                          !.finish = IF s.finish <= computedAt THEN s.finish ELSE computedAt]
<1>1. s \in RowSet(N, G, C) /\ s.start \in 0..N /\ s.finish \in 0..N
  BY DEF RowSet
<1>2. Candidate(s) = h
  <2>1. {s.finish, computedAt} \cup (IF s.generation \in stale THEN {boundary} ELSE {})
          = {s.finish, computedAt}
    OBVIOUS
  <2>2. /\ Max({s.start, today}) = IF s.start >= today THEN s.start ELSE today
        /\ Min({s.finish, computedAt}) = IF s.finish <= computedAt THEN s.finish ELSE computedAt
    BY <1>1, MaxOfPair, MinOfPair
  <2> QED
    BY <2>1, <2>2
<1>3. /\ h.start = IF s.start >= today THEN s.start ELSE today
      /\ h.finish = IF s.finish <= computedAt THEN s.finish ELSE computedAt
      /\ From(h, s)
  BY <1>1 DEF RowSet, From
<1>4. history = {q \in {Candidate(q) : q \in stage} :
                   q.start < q.finish /\ Overlapping(old, q.start, q.finish) = {}}
  BY DEF MissingHistory
<1> HIDE DEF h, Candidate, history
<1>5. At(h, t) /\ h.start < h.finish
  BY <1>1, <1>3 DEF At
<1>6. Overlapping(old, h.start, h.finish) = {}
  <2> SUFFICES ASSUME NEW r \in old, r.start < h.finish, r.finish > h.start PROVE FALSE
    BY DEF Overlapping
  <2>1. r.start \in 0..N /\ r.finish \in 0..N
    BY DEF RowSet
  <2> QED
    BY <1>1, <1>3, <2>1 DEF ShareInstant
<1> QED
  BY <1>2, <1>3, <1>4, <1>5, <1>6 DEF history

LEMMA MissingHistoryTidy ==
  ASSUME NEW N \in Nat, NEW G, NEW C, NEW stage \in SUBSET RowSet(N, G, C), Tidy(stage),
         NEW old, NEW today \in Nat, NEW computedAt \in Nat, NEW stale, NEW boundary \in Int
  PROVE  LET history == MissingHistory(stage, old, today, computedAt, stale, boundary) IN
         /\ Tidy(history)
         /\ \A h \in history : /\ \E s \in stage : Piece(h, s)
                               /\ today <= h.start /\ h.finish <= computedAt
                               /\ \A r \in old : ~(r.start < h.finish /\ r.finish > h.start)
<1> DEFINE end(s) == Min({s.finish, computedAt} \cup
                         (IF s.generation \in stale THEN {boundary} ELSE {}))
           cand == [s \in stage |-> [s EXCEPT !.start = Max({@, today}), !.finish = end(s)]]
           history == MissingHistory(stage, old, today, computedAt, stale, boundary)
           S == {s \in stage : cand[s] \in history}
<1>1. history = {h \in {cand[s] : s \in stage} :
                   h.start < h.finish /\ Overlapping(old, h.start, h.finish) = {}}
  <2> DEFINE Candidate(s) ==
        [s EXCEPT !.start  = Max({@, today}),
                  !.finish = Min({@, computedAt} \cup
                                 (IF s.generation \in stale THEN {boundary} ELSE {}))]
  <2>1. \A s \in stage : Candidate(s) = cand[s]
    BY DEF RowSet
  <2>2. history = {h \in {Candidate(s) : s \in stage} :
                     h.start < h.finish /\ Overlapping(old, h.start, h.finish) = {}}
    BY DEF MissingHistory
  <2> HIDE DEF cand, history, Candidate
  <2> QED
    BY <2>1, <2>2
<1>2. \A q \in stage : /\ q \in RowSet(N, G, C) /\ q.start \in 0..N /\ q.finish \in 0..N
                       /\ q.start < q.finish /\ q.generation \in G /\ q.content \in C
  BY DEF RowSet, Tidy
<1>3. ASSUME NEW s \in stage
      PROVE  end(s) \in Int /\ end(s) <= s.finish /\ end(s) <= computedAt
  <2>1. CASE s.generation \in stale
    <3>1. end(s) = Min({s.finish, computedAt, boundary})
      <4>1. {s.finish, computedAt} \cup {boundary} = {s.finish, computedAt, boundary}
        OBVIOUS
      <4> QED
        BY <2>1, <4>1
    <3>2. s.finish \in Int /\ computedAt \in Int
      BY <1>2
    <3>3. /\ Min({s.finish, computedAt, boundary}) \in {s.finish, computedAt, boundary}
          /\ Min({s.finish, computedAt, boundary}) <= s.finish
          /\ Min({s.finish, computedAt, boundary}) <= computedAt
      BY ONLY <3>2, boundary \in Int, MinOfTriple
    <3> HIDE DEF end
    <3> QED
      BY <3>1, <3>2, <3>3
  <2>2. CASE s.generation \notin stale
    <3>1. end(s) = Min({s.finish, computedAt})
      BY <2>2
    <3>2. s.finish \in Int
      BY <1>2
    <3> HIDE DEF end
    <3> QED
      BY <3>1, <3>2, MinOfPair
  <2> QED
    BY <2>1, <2>2
<1> HIDE DEF end
<1>4. ASSUME NEW s \in stage
      PROVE  /\ cand[s].start = IF s.start >= today THEN s.start ELSE today
             /\ cand[s].finish = end(s)
             /\ cand[s].generation = s.generation /\ cand[s].content = s.content
             /\ cand[s] = [s EXCEPT !.start = cand[s].start, !.finish = cand[s].finish]
  <2>1. Max({s.start, today}) = IF s.start >= today THEN s.start ELSE today
    BY <1>2, MaxOfPair
  <2> QED
    BY <1>2, <2>1 DEF RowSet
<1> HIDE DEF cand
<1>5. ASSUME NEW s \in S
      PROVE  cand[s] \in RowSet(N, G, C) /\ Piece(cand[s], s)
  <2>1. cand[s].start < cand[s].finish
    BY <1>1
  <2>2. cand[s].start \in 0..N /\ cand[s].finish \in 0..N /\ s.start <= cand[s].start
        /\ cand[s].finish <= s.finish
    <3>1. s \in stage /\ cand[s].start = (IF s.start >= today THEN s.start ELSE today)
          /\ cand[s].finish = end(s)
      BY <1>4
    <3>2. end(s) \in Int /\ end(s) <= s.finish /\ s.start \in 0..N /\ s.finish \in 0..N
      BY <1>2, <1>3
    <3> QED
      BY <2>1, <3>1, <3>2
  <2>3. cand[s] \in RowSet(N, G, C)
    BY <1>2, <1>4, <2>2 DEF RowSet
  <2> QED
    BY <1>4, <2>1, <2>2, <2>3 DEF Piece, From
<1>6. history = Images(cand, S)
  BY <1>1 DEF Images
<1>7. \A h \in history : /\ \E s \in stage : Piece(h, s)
                         /\ today <= h.start /\ h.finish <= computedAt
                         /\ \A r \in old : ~(r.start < h.finish /\ r.finish > h.start)
  <2> SUFFICES ASSUME NEW h \in history
               PROVE  /\ \E s \in stage : Piece(h, s)
                      /\ today <= h.start /\ h.finish <= computedAt
                      /\ \A r \in old : ~(r.start < h.finish /\ r.finish > h.start)
    OBVIOUS
  <2>1. PICK s \in S : h = cand[s]
    BY <1>6 DEF Images
  <2>2. Overlapping(old, h.start, h.finish) = {}
    BY <1>1
  <2>3. Piece(h, s) /\ s \in stage
    BY <1>5, <2>1
  <2>4. today <= h.start /\ h.finish <= computedAt
    <3>1. /\ h.start = (IF s.start >= today THEN s.start ELSE today) /\ h.finish = end(s)
          /\ end(s) <= computedAt /\ s.start \in 0..N
      BY <1>2, <1>3, <1>4, <2>1, <2>3
    <3> QED
      BY <3>1
  <2> QED
    BY <2>2, <2>3, <2>4 DEF Overlapping
<1>8. Tidy(history)
  <2>1. S \in SUBSET stage /\ NoOverlap(stage)
    BY DEF Tidy
  <2>2. \A q \in S : cand[q] \in RowSet(N, G, C) /\ Piece(cand[q], q)
    BY <1>5
  <2> HIDE DEF S, history
  <2> QED
    BY <1>6, <2>1, <2>2, ImagesTidy
<1> QED
  BY <1>7, <1>8

LEMMA PruneRowsTidy ==
  ASSUME NEW N \in Nat, NEW G, NEW C, NEW rows \in SUBSET RowSet(N, G, C), Tidy(rows),
         NEW today \in Nat, NEW windowEnd \in Nat, today < windowEnd, NEW cut \in SUBSET rows
  PROVE  LET inside == Overlapping(rows, today, windowEnd)
             left   == (inside \ cut) \cup PruneRows(cut, today, windowEnd) IN
         /\ Tidy(left)
         /\ \A r \in left : \E q \in rows : Piece(r, q)
         /\ \A q \in rows, t \in today..(windowEnd - 1) :
              At(q, t) => \E r \in left : From(r, q) /\ At(r, t)
<1> DEFINE S == Overlapping(rows, today, windowEnd)
           g(q) == [q EXCEPT !.start = Max({@, today}), !.finish = Min({@, windowEnd})]
           f == [q \in S |-> IF q \in cut THEN g(q) ELSE q]
<1>1. (S \ cut) \cup PruneRows(cut, today, windowEnd) = Images(f, S)
  <2>1. PruneRows(cut, today, windowEnd) = {g(q) : q \in S \cap cut}
    <3>1. Overlapping(cut, today, windowEnd) = S \cap cut
      BY DEF Overlapping
    <3> QED
      BY <3>1 DEF PruneRows
  <2> HIDE DEF S, g
  <2> QED
    BY <2>1 DEF Images
<1>2. \A q \in rows : /\ q \in RowSet(N, G, C) /\ q.start \in 0..N /\ q.finish \in 0..N
                      /\ q.start < q.finish /\ q.generation \in G /\ q.content \in C
  BY DEF RowSet, Tidy
<1>3. ASSUME NEW q \in S
      PROVE  /\ f[q] \in RowSet(N, G, C) /\ Piece(f[q], q)
             /\ \A t \in today..(windowEnd - 1) : At(q, t) => At(f[q], t)
  <2>1. CASE q \notin cut
    <3>1. f[q] = q /\ q \in rows
      BY <2>1 DEF Overlapping
    <3> HIDE DEF f
    <3> QED
      BY <1>2, <3>1 DEF Piece, From
  <2>2. CASE q \in cut
    <3>1. /\ Max({q.start, today}) = IF q.start >= today THEN q.start ELSE today
          /\ Min({q.finish, windowEnd}) = IF q.finish <= windowEnd THEN q.finish ELSE windowEnd
      BY <1>2, MinOfPair, MaxOfPair DEF Overlapping
    <3>2. /\ f[q] = [q EXCEPT !.start = Max({q.start, today}),
                              !.finish = Min({q.finish, windowEnd})]
          /\ q \in rows /\ q.start < windowEnd /\ q.finish > today
      BY <1>2, <2>2 DEF RowSet, Overlapping
    <3> HIDE DEF f
    <3>3. /\ f[q].start = Max({q.start, today}) /\ f[q].finish = Min({q.finish, windowEnd})
          /\ f[q].generation = q.generation /\ f[q].content = q.content
      BY <1>2, <3>2 DEF RowSet
    <3>4. /\ f[q].start \in 0..N /\ f[q].finish \in 0..N /\ f[q].start < f[q].finish
          /\ q.start <= f[q].start /\ f[q].finish <= q.finish
      BY <1>2, <3>1, <3>2, <3>3
    <3>5. f[q] \in RowSet(N, G, C)
      BY <1>2, <3>2, <3>3, <3>4 DEF RowSet
    <3>6. Piece(f[q], q)
      BY <3>3, <3>4 DEF Piece, From
    <3>7. \A t \in today..(windowEnd - 1) : At(q, t) => At(f[q], t)
      BY <1>2, <3>1, <3>2, <3>3 DEF At
    <3> QED
      BY <3>5, <3>6, <3>7
  <2> QED
    BY <2>1, <2>2
<1>4. ASSUME NEW q \in rows, NEW t \in today..(windowEnd - 1), At(q, t) PROVE q \in S
  BY <1>2, <1>4 DEF At, Overlapping
<1>5. S \in SUBSET rows /\ NoOverlap(rows)
  BY DEF Tidy, Overlapping
<1> HIDE DEF S, f
<1>6. \A q \in S : f[q] \in RowSet(N, G, C) /\ Piece(f[q], q)
  BY <1>3
<1>7. Tidy(Images(f, S))
  BY <1>5, <1>6, ImagesTidy, SMTT(60)
<1>8. \A r \in Images(f, S) : \E q \in rows : Piece(r, q)
  BY <1>5, <1>6 DEF Images
<1>9. \A q \in rows, t \in today..(windowEnd - 1) :
        At(q, t) => \E r \in Images(f, S) : From(r, q) /\ At(r, t)
  BY <1>3, <1>4 DEF Images, Piece
<1> QED
  BY <1>1, <1>7, <1>8, <1>9 DEF S

\* Splitting leaves the stage as it is, instant by instant, and no stored row
\* begins or ends inside a piece.
LEMMA SplitStageTidy ==
  ASSUME NEW N \in Nat, NEW G, NEW C, NEW stage \in SUBSET RowSet(N, G, C), Tidy(stage),
         NEW old \in SUBSET RowSet(N, G, C)
  PROVE  /\ SplitStage(stage, old) \in SUBSET RowSet(N, G, C)
         /\ Tidy(SplitStage(stage, old))
         /\ \A p \in SplitStage(stage, old) :
              /\ \E s \in stage : Piece(p, s)
              /\ \A r \in old : /\ ~(p.start < r.start /\ r.start < p.finish)
                                /\ ~(p.start < r.finish /\ r.finish < p.finish)
         /\ \A s \in stage, t \in Int :
              At(s, t) => \E p \in SplitStage(stage, old) : From(p, s) /\ At(p, t)
<1> DEFINE later(s, b) == {e \in Boundaries(s, old) : e > b}
           Cut(s, b) == [s EXCEPT !.start = b, !.finish = Min(later(s, b))]
           split == SplitStage(stage, old)
<1>1. /\ \A p \in split : \E s \in stage : \E b \in Boundaries(s, old) \ {s.finish} : p = Cut(s, b)
      /\ \A s \in stage : \A b \in Boundaries(s, old) \ {s.finish} : Cut(s, b) \in split
  <2> DEFINE Pieces(s) == {Cut(s, b) : b \in Boundaries(s, old) \ {s.finish}}
  <2>1. split = UNION {Pieces(s) : s \in stage}
    BY DEF SplitStage
  <2>2. /\ \A p \in split : \E s \in stage : p \in Pieces(s)
        /\ \A s \in stage : \A p \in Pieces(s) : p \in split
    <3> HIDE DEF Pieces
    <3> QED
      BY <2>1
  <2> HIDE DEF Cut, split
  <2> QED
    BY <2>2
<1>2. \A s \in stage : /\ s \in RowSet(N, G, C) /\ s.start \in 0..N /\ s.finish \in 0..N
                       /\ s.start < s.finish /\ s.generation \in G /\ s.content \in C
  BY DEF RowSet, Tidy
<1>3. ASSUME NEW s \in stage
      PROVE  /\ Boundaries(s, old) \subseteq 0..N
             /\ s.start \in Boundaries(s, old) /\ s.finish \in Boundaries(s, old)
             /\ \A b \in Boundaries(s, old) : s.start <= b /\ b <= s.finish
             /\ \A r \in old : /\ s.start < r.start /\ r.start < s.finish
                                    => r.start \in Boundaries(s, old)
                               /\ s.start < r.finish /\ r.finish < s.finish
                                    => r.finish \in Boundaries(s, old)
  BY <1>2 DEF Boundaries, RowSet
<1>4. ASSUME NEW s \in stage, NEW b \in Boundaries(s, old) \ {s.finish}
      PROVE  /\ Min(later(s, b)) \in later(s, b)
             /\ \A e \in later(s, b) : Min(later(s, b)) <= e
             /\ b \in 0..N /\ s.start <= b /\ b < s.finish
  <2>1. later(s, b) \in SUBSET Nat
    BY <1>3
  <2>2. b \in 0..N /\ s.start <= b /\ b < s.finish
    BY <1>2, <1>3
  <2>3. s.finish \in later(s, b)
    BY <1>3, <2>2
  <2> HIDE DEF later
  <2> QED
    BY <2>1, <2>2, <2>3, MinOfNaturals
<1>5. ASSUME NEW s \in stage, NEW b \in Boundaries(s, old) \ {s.finish}
      PROVE  /\ Cut(s, b).start = b /\ Cut(s, b).finish \in Boundaries(s, old)
             /\ b < Cut(s, b).finish /\ b \in 0..N /\ Cut(s, b).finish \in 0..N
             /\ \A e \in Boundaries(s, old) : e > b => Cut(s, b).finish <= e
             /\ Cut(s, b) \in RowSet(N, G, C) /\ Piece(Cut(s, b), s)
  <2> DEFINE p == Cut(s, b)
  <2>1. p.start = b /\ p.finish = Min(later(s, b))
        /\ p.generation = s.generation /\ p.content = s.content
    BY <1>2 DEF RowSet
  <2>2. /\ p.finish \in Boundaries(s, old) /\ b < p.finish
        /\ \A e \in Boundaries(s, old) : e > b => p.finish <= e
    BY <1>4, <2>1
  <2>3. b \in 0..N /\ s.start <= b /\ p.finish \in 0..N /\ p.finish <= s.finish
    BY <1>3, <1>4, <2>2
  <2>4. p = [s EXCEPT !.start = p.start, !.finish = p.finish]
    BY <2>1
  <2> HIDE DEF p
  <2>5. p \in RowSet(N, G, C)
    BY <1>2, <2>1, <2>3, <2>4 DEF RowSet
  <2>6. Piece(p, s)
    BY <2>1, <2>2, <2>3 DEF Piece, From
  <2> QED
    BY <2>1, <2>2, <2>3, <2>5, <2>6 DEF p
<1> HIDE DEF Cut, split
<1>6. split \in SUBSET RowSet(N, G, C)
  BY <1>1, <1>5
<1>7. ASSUME NEW p \in split
      PROVE  /\ \E s \in stage : Piece(p, s)
             /\ p.start < p.finish
             /\ \A r \in old : /\ ~(p.start < r.start /\ r.start < p.finish)
                               /\ ~(p.start < r.finish /\ r.finish < p.finish)
  <2>1. PICK s \in stage : \E b \in Boundaries(s, old) \ {s.finish} : p = Cut(s, b)
    BY <1>1
  <2>0. PICK b \in Boundaries(s, old) \ {s.finish} : p = Cut(s, b)
    BY <2>1
  <2>2. /\ p.start = b /\ p.finish \in Boundaries(s, old) /\ b < p.finish
        /\ b \in 0..N /\ p.finish \in 0..N /\ s.start <= b
        /\ \A e \in Boundaries(s, old) : e > b => p.finish <= e
        /\ Piece(p, s)
    BY <1>4, <1>5, <2>0
  <2>3. \A r \in old : r.start \in 0..N /\ r.finish \in 0..N
    BY DEF RowSet
  <2>4. s.start \in 0..N /\ s.finish \in 0..N /\ p.finish <= s.finish
    BY <1>2, <2>2 DEF Piece
  <2>5. ASSUME NEW e \in 0..N, p.start < e, e < p.finish PROVE e \notin Boundaries(s, old)
    BY <2>2, <2>5
  <2>6. ASSUME NEW r \in old PROVE /\ ~(p.start < r.start /\ r.start < p.finish)
                                   /\ ~(p.start < r.finish /\ r.finish < p.finish)
    <3>1. /\ s.start < r.start /\ r.start < s.finish => r.start \in Boundaries(s, old)
          /\ s.start < r.finish /\ r.finish < s.finish => r.finish \in Boundaries(s, old)
      BY <1>3
    <3> QED
      BY <2>2, <2>3, <2>4, <2>5, <3>1
  <2> QED
    BY <2>2, <2>6
<1>8. ASSUME NEW p \in split, NEW q \in split, ShareInstant(p, q) PROVE p = q
  <2>1. PICK s \in stage : \E b \in Boundaries(s, old) \ {s.finish} : p = Cut(s, b)
    BY <1>1
  <2>0. PICK b \in Boundaries(s, old) \ {s.finish} : p = Cut(s, b)
    BY <2>1
  <2>2. PICK u \in stage : \E c \in Boundaries(u, old) \ {u.finish} : q = Cut(u, c)
    BY <1>1
  <2>10. PICK c \in Boundaries(u, old) \ {u.finish} : q = Cut(u, c)
    BY <2>2
  <2>3. /\ p.start = b /\ b < p.finish /\ b \in 0..N /\ p.finish \in 0..N
        /\ \A e \in Boundaries(s, old) : e > b => p.finish <= e
        /\ Piece(p, s)
    BY <1>5, <2>0
  <2>4. /\ q.start = c /\ c < q.finish /\ c \in 0..N /\ q.finish \in 0..N
        /\ \A e \in Boundaries(u, old) : e > c => q.finish <= e
        /\ Piece(q, u)
    BY <1>5, <2>10
  <2>5. s.start \in 0..N /\ s.finish \in 0..N /\ u.start \in 0..N /\ u.finish \in 0..N
    BY <1>2
  <2>6. b < q.finish /\ c < p.finish
    BY <1>8, <2>3, <2>4 DEF ShareInstant
  <2>7. ShareInstant(s, u)
    BY <2>3, <2>4, <2>5, <2>6 DEF ShareInstant, Piece
  <2>8. s = u
    BY <2>7 DEF Tidy, NoOverlap
  <2>9. b = c
    <3>1. ~(c > b) /\ ~(b > c)
      BY <2>3, <2>4, <2>6, <2>8
    <3> QED
      BY <2>3, <2>4, <3>1
  <2> QED
    BY <2>0, <2>10, <2>8, <2>9
<1>9. Tidy(split)
  BY <1>7, <1>8 DEF Tidy, NoOverlap
<1>10. ASSUME NEW s \in stage, NEW t \in Int, At(s, t)
       PROVE  \E p \in split : From(p, s) /\ At(p, t)
  <2> DEFINE before == {b \in Boundaries(s, old) : b <= t}
  <2>1. s.start <= t /\ t < s.finish /\ s.start \in 0..N /\ s.finish \in 0..N
    BY <1>2, <1>10 DEF At
  <2>2. before \in SUBSET (0..N) /\ before # {}
    BY <1>3, <2>1
  <2>3. Max(before) \in before /\ \A y \in before : Max(before) >= y
    <3> HIDE DEF before
    <3> QED
      BY <2>2, MaxOfNaturals
  <2>4. PICK b \in before : \A y \in before : b >= y
    BY <2>3
  <2>5. b \in Boundaries(s, old) \ {s.finish} /\ b <= t /\ b \in 0..N
    BY <2>1, <2>2, <2>4
  <2> DEFINE p == Cut(s, b)
  <2>6. /\ p.start = b /\ p.finish \in Boundaries(s, old) /\ b < p.finish
        /\ p.finish \in 0..N /\ Piece(p, s) /\ p \in split
    BY <1>1, <1>5, <2>5
  <2> HIDE DEF p
  <2>7. t < p.finish
    BY <2>1, <2>4, <2>5, <2>6
  <2> QED
    BY <2>5, <2>6, <2>7 DEF At, Piece
<1> QED
  BY <1>6, <1>7, <1>9, <1>10 DEF split

\* Rows that are clipped already stay as they are.
LEMMA OldCompareRows ==
  ASSUME NEW N \in Nat, NEW G, NEW C, NEW rows \in SUBSET RowSet(N, G, C), Tidy(rows),
         NEW stale, NEW boundary \in Int, NEW today \in Nat,
         \A r \in rows : r.generation \in stale => r.finish <= boundary
  PROVE  OldCompare(rows, stale, boundary, today) = {r \in rows : r.finish > today}
<1> DEFINE kept == {r \in rows : r.finish > today}
           clip(r) == [r EXCEPT !.finish = IF r.generation \in stale THEN Min({@, boundary}) ELSE @]
<1>1. ASSUME NEW r \in rows
      PROVE  clip(r) = r /\ (r.generation \in stale => r.start < boundary)
  <2>1. r \in RowSet(N, G, C) /\ r.start \in 0..N /\ r.finish \in 0..N /\ r.start < r.finish
    BY DEF RowSet, Tidy
  <2>2. r.generation \in stale => Min({r.finish, boundary}) = r.finish
    BY <2>1, MinOfPair
  <2>3. clip(r) = r
    BY <2>1, <2>2 DEF RowSet
  <2> QED
    BY <2>1, <2>3
<1>2. OldCompare(rows, stale, boundary, today) =
        {clip(r) : r \in {q \in kept : q.generation \in stale => q.start < boundary}}
  BY DEF OldCompare, ClipRevoked
<1> HIDE DEF clip
<1> QED
  BY <1>1, <1>2

\* A reused row that shares an instant with a live row has its content and
\* contains it.
LEMMA ReusedCovers ==
  ASSUME NEW N \in Nat, NEW G, NEW C, NEW old \in SUBSET RowSet(N, G, C),
         NEW live \in SUBSET RowSet(N, G, C), Tidy(live), NEW computedAt \in Nat,
         NEW r \in Reusable(old, live, computedAt), NEW s \in live, s.start >= computedAt,
         NEW p \in RowSet(N, G, C), p.start <= s.start, s.finish <= p.finish,
         ~(p.start < r.start /\ r.start < p.finish),
         ~(p.start < r.finish /\ r.finish < p.finish),
         ShareInstant(r, s)
  PROVE  s.content = r.content /\ r.start <= s.start /\ s.finish <= r.finish
<1>1. /\ {r.start, r.finish, s.start, s.finish, p.start, p.finish} \subseteq 0..N
      /\ s.start < s.finish /\ r.finish > computedAt
  BY DEF RowSet, Reusable, Tidy
<1>2. r.start <= s.start /\ s.finish <= r.finish
  BY <1>1 DEF ShareInstant
<1>3. Max({r.start, computedAt}) = IF r.start >= computedAt THEN r.start ELSE computedAt
  BY <1>1, MaxOfPair
<1>4. s.start \in Max({r.start, computedAt})..(r.finish - 1)
  BY <1>1, <1>2, <1>3
<1>5. PICK q \in live : q.content = r.content /\ At(q, s.start)
  BY <1>4 DEF Reusable, CoversRange, RowsAt, At
<1>6. ShareInstant(q, s)
  <2>1. q.start \in 0..N /\ q.finish \in 0..N
    BY DEF RowSet
  <2> QED
    BY <1>1, <1>5, <2>1 DEF ShareInstant, At
<1>7. q = s
  BY <1>6 DEF Tidy, NoOverlap
<1> QED
  BY <1>2, <1>5, <1>7

\* What a reconciliation shows at an instant.
Reconciled(out, clipped, stage, computedAt) ==
  /\ \A t \in Int : t >= computedAt =>
       /\ \A r \in out : At(r, t) => \E s \in stage : At(s, t) /\ s.content = r.content
       /\ \A s \in stage : At(s, t) => \E r \in out : At(r, t) /\ s.content = r.content
  /\ \A t \in Int : t < computedAt =>
       /\ \A q \in clipped : At(q, t) => \E r \in out : From(r, q) /\ At(r, t)
       /\ \A r \in out : At(r, t) => \E q \in clipped \cup stage : From(r, q) /\ At(q, t)

\* Every instant that is left of a row is staged with its content.
Repeated(r, stage, computedAt) ==
  \A u \in Int : At(r, u) /\ u >= computedAt => \E s \in stage : At(s, u) /\ s.content = r.content

\* Of which generation: from the calculation on rows that are repeated stay, and
\* the stage has the rest; gaps of the past are filled from the stage.
Chosen(out, clipped, stage, computedAt, today, stale) ==
  /\ \A t \in Int : today <= t /\ t < computedAt =>
       \A s \in stage : At(s, t) /\ s.generation \notin stale =>
         (\E q \in clipped : At(q, t)) \/ (\E r \in out : From(r, s) /\ At(r, t))
  /\ \A t \in Int : today <= t /\ t >= computedAt =>
       /\ \A q \in clipped : At(q, t) /\ Repeated(q, stage, computedAt) =>
            \E r \in out : From(r, q) /\ At(r, t)
       /\ \A r \in out : At(r, t) =>
            \/ \E q \in clipped : From(r, q) /\ At(q, t) /\ Repeated(q, stage, computedAt)
            \/ \E s \in stage : From(r, s) /\ At(s, t)
       /\ \A s \in stage : At(s, t) =>
            \/ \E q \in clipped : At(q, t) /\ Repeated(q, stage, computedAt)
            \/ \E r \in out : From(r, s) /\ At(r, t)

LEMMA MergeStageTidy ==
  ASSUME NEW N \in Nat, NEW G, NEW C, NEW rows \in SUBSET RowSet(N, G, C), Tidy(rows),
         NEW stage \in SUBSET RowSet(N, G, C), Tidy(stage),
         NEW computedAt \in Nat, NEW today \in Nat, NEW stale, NEW boundary \in Int
  PROVE  LET out == MergeStage(rows, stage, computedAt, today, stale, boundary) IN
         /\ Tidy(out)
         /\ Reconciled(out, ClipRevoked(rows, stale, boundary), stage, computedAt)
         /\ Chosen(out, ClipRevoked(rows, stale, boundary), stage, computedAt, today, stale)
<1> DEFINE clipped == ClipRevoked(rows, stale, boundary)
           old     == OldCompare(clipped, stale, boundary, today)
           split   == SplitStage(stage, old)
           history == MissingHistory(split, old, today, computedAt, stale, boundary)
           live    == LiveStage(split, computedAt)
           reused  == Reusable(old, live, computedAt)
           base    == clipped \cup history
           trunc   == Truncate(base, reused, computedAt)
           fresh   == Uncovered(live, reused)
           out     == MergeStage(rows, stage, computedAt, today, stale, boundary)
<1>0. out = trunc \cup fresh
  BY DEF MergeStage
<1>1. /\ clipped \in SUBSET RowSet(N, G, C) /\ Tidy(clipped)
      /\ \A r \in clipped : r.generation \in stale => r.finish <= boundary
  BY ClipRevokedRows, ClipRevokedTidy
<1> HIDE DEF clipped
<1>2. old = {r \in clipped : r.finish > today} /\ old \in SUBSET RowSet(N, G, C)
  BY <1>1, OldCompareRows
<1> HIDE DEF old
<1>3. /\ split \in SUBSET RowSet(N, G, C) /\ Tidy(split)
      /\ \A p \in split :
              /\ \E s \in stage : Piece(p, s)
              /\ \A r \in old : /\ ~(p.start < r.start /\ r.start < p.finish)
                                /\ ~(p.start < r.finish /\ r.finish < p.finish)
      /\ \A s \in stage, t \in Int : At(s, t) => \E p \in split : From(p, s) /\ At(p, t)
  <2>1. old \in SUBSET RowSet(N, G, C)
    BY <1>2
  <2> QED
    BY <2>1, SplitStageTidy
<1> HIDE DEF split
<1>4. /\ Tidy(history)
      /\ \A h \in history : /\ \E s \in split : Piece(h, s)
                            /\ today <= h.start /\ h.finish <= computedAt
                            /\ \A r \in old : ~(r.start < h.finish /\ r.finish > h.start)
  BY <1>3, MissingHistoryTidy
<1>5. history \in SUBSET RowSet(N, G, C)
  BY <1>3, MissingHistoryRows
<1>6. /\ Tidy(live)
      /\ \A r \in live : \E s \in split : Piece(r, s) /\ r.start >= computedAt
      /\ \A s \in split, t \in Int : At(s, t) /\ t >= computedAt =>
           \E r \in live : From(r, s) /\ At(r, t)
      /\ live \in SUBSET RowSet(N, G, C)
  BY <1>3, LiveStageTidy, LiveStageRows
<1> HIDE DEF history, live
<1>7. Tidy(base) /\ base \in SUBSET RowSet(N, G, C)
  <2>1. ASSUME NEW q \in clipped, NEW h \in history PROVE ~ShareInstant(q, h) /\ ~ShareInstant(h, q)
    <3>1. /\ {q.start, q.finish, h.start, h.finish} \subseteq 0..N
          /\ today <= h.start
      BY <1>1, <1>4, <1>5 DEF RowSet
    <3>2. q \in old => ~(q.start < h.finish /\ q.finish > h.start)
      BY <1>4
    <3>3. q \notin old => q.finish <= today
      BY <1>2, <3>1
    <3> QED
      BY <3>1, <3>2, <3>3 DEF ShareInstant
  <2> QED
    BY <1>1, <1>4, <1>5, <2>1 DEF Tidy, NoOverlap
<1>8. reused \in SUBSET base /\ reused \subseteq old
  BY <1>2 DEF Reusable
<1> HIDE DEF reused, base
<1>9. /\ Tidy(trunc)
      /\ \A r \in trunc : \E q \in base :
              Piece(r, q) /\ ((r = q /\ q \in reused) \/ r.finish <= computedAt)
      /\ reused \subseteq trunc
      /\ \A q \in base, t \in Int : At(q, t) /\ t < computedAt =>
              \E r \in trunc : From(r, q) /\ At(r, t)
      /\ trunc \in SUBSET RowSet(N, G, C)
  BY <1>7, <1>8, TruncateTidy, TruncateRows
<1>10. /\ fresh \subseteq live
       /\ \A s \in fresh : ~CoversRange({r \in reused : r.content = s.content}, s.start, s.finish)
       /\ \A s \in live \ fresh :
             CoversRange({r \in reused : r.content = s.content}, s.start, s.finish)
  BY DEF Uncovered
<1> HIDE DEF trunc, fresh
<1>11. \A r \in live \cup trunc : r.start \in 0..N /\ r.finish \in 0..N
  BY <1>6, <1>9 DEF RowSet
<1>12. ASSUME NEW r \in reused, NEW s \in fresh PROVE ~ShareInstant(r, s)
  <2> SUFFICES ASSUME ShareInstant(r, s) PROVE FALSE
    OBVIOUS
  <2>1. s \in live
    BY <1>10
  <2>2. PICK p \in split : Piece(s, p) /\ s.start >= computedAt
    BY <1>6, <2>1
  <2>3. r \in old
    BY <1>8
  <2>4. /\ p \in RowSet(N, G, C) /\ p.start <= s.start /\ s.finish <= p.finish
        /\ ~(p.start < r.start /\ r.start < p.finish)
        /\ ~(p.start < r.finish /\ r.finish < p.finish)
    BY <1>3, <2>2, <2>3 DEF Piece
  <2>5. s.content = r.content /\ r.start <= s.start /\ s.finish <= r.finish
    BY <1>2, <1>6, <2>1, <2>2, <2>4, ReusedCovers DEF reused
  <2>6. r.start \in 0..N /\ r.finish \in 0..N /\ s.start \in 0..N /\ s.finish \in 0..N
    BY <1>8, <1>9, <1>11, <2>1
  <2>7. ASSUME NEW t \in s.start..(s.finish - 1) PROVE r.start <= t /\ t < r.finish
    BY <2>5, <2>6
  <2>8. CoversRange({q \in reused : q.content = s.content}, s.start, s.finish)
    BY <2>5, <2>7 DEF CoversRange, RowsAt
  <2> QED
    BY <1>10, <2>8
<1>13. ASSUME NEW r \in trunc, NEW s \in fresh PROVE ~ShareInstant(r, s) /\ ~ShareInstant(s, r)
  <2>1. r \in reused \/ r.finish <= computedAt
    BY <1>9
  <2>2. s \in live /\ s.start >= computedAt
    BY <1>6, <1>10
  <2> QED
    BY <1>11, <1>12, <2>1, <2>2 DEF ShareInstant
<1>14. Tidy(out)
  <2>1. Tidy(fresh)
    BY <1>6, <1>10, SubsetTidy
  <2> QED
    BY <1>0, <1>9, <1>13, <2>1 DEF Tidy, NoOverlap
<1>15. ASSUME NEW s \in live, NEW t \in Int, At(s, t)
       PROVE  \E q \in stage : At(q, t) /\ q.content = s.content
  <2>1. PICK p \in split : Piece(s, p)
    BY <1>6
  <2>2. PICK q \in stage : Piece(p, q)
    BY <1>3
  <2>3. /\ {s.start, s.finish, p.start, p.finish, q.start, q.finish} \subseteq 0..N
    BY <1>3, <1>6 DEF RowSet
  <2> QED
    BY <1>15, <2>1, <2>2, <2>3 DEF Piece, From, At
<1>16. ASSUME NEW t \in Int, t >= computedAt
       PROVE  /\ \A r \in out : At(r, t) => \E s \in stage : At(s, t) /\ s.content = r.content
              /\ \A s \in stage : At(s, t) => \E r \in out : At(r, t) /\ s.content = r.content
  <2>1. ASSUME NEW r \in out, At(r, t) PROVE \E s \in stage : At(s, t) /\ s.content = r.content
    <3>1. CASE r \in fresh
      BY <1>10, <1>15, <2>1, <3>1
    <3>2. CASE r \in trunc
      <4>1. r \in reused
        BY <1>9, <1>11, <1>16, <2>1, <3>2 DEF At
      <4>2. Max({r.start, computedAt}) = IF r.start >= computedAt THEN r.start ELSE computedAt
        BY <1>11, <3>2, MaxOfPair
      <4>3. t \in Max({r.start, computedAt})..(r.finish - 1)
        BY <1>11, <1>16, <2>1, <3>2, <4>2 DEF At
      <4>4. PICK s \in live : s.content = r.content /\ At(s, t)
        BY <4>1, <4>3 DEF reused, Reusable, CoversRange, RowsAt, At
      <4> QED
        BY <1>15, <4>4
    <3> QED
      BY <1>0, <3>1, <3>2
  <2>2. ASSUME NEW q \in stage, At(q, t) PROVE \E r \in out : At(r, t) /\ q.content = r.content
    <3>1. PICK p \in split : From(p, q) /\ At(p, t)
      BY <1>3, <2>2
    <3>2. PICK s \in live : From(s, p) /\ At(s, t)
      BY <1>6, <1>16, <3>1
    <3>3. s.content = q.content
      BY <3>1, <3>2 DEF From
    <3>4. CASE s \in fresh
      BY <1>0, <3>2, <3>3, <3>4
    <3>5. CASE s \notin fresh
      <4>1. CoversRange({r \in reused : r.content = s.content}, s.start, s.finish)
        BY <1>10, <3>5
      <4>2. t \in s.start..(s.finish - 1)
        BY <1>11, <3>2 DEF At
      <4>3. PICK r \in reused : r.content = s.content /\ At(r, t)
        BY <4>1, <4>2 DEF CoversRange, RowsAt, At
      <4> QED
        BY <1>0, <1>9, <3>3, <4>3
    <3> QED
      BY <3>4, <3>5
  <2> QED
    BY <2>1, <2>2
<1>17. ASSUME NEW t \in Int, t < computedAt
       PROVE  /\ \A q \in clipped : At(q, t) => \E r \in out : From(r, q) /\ At(r, t)
              /\ \A r \in out : At(r, t) => \E q \in clipped \cup stage : From(r, q) /\ At(q, t)
  <2>1. ASSUME NEW q \in clipped, At(q, t) PROVE \E r \in out : From(r, q) /\ At(r, t)
    <3>1. q \in base
      BY DEF base
    <3> QED
      BY <1>0, <1>9, <1>17, <2>1, <3>1
  <2>2. ASSUME NEW r \in out, At(r, t) PROVE \E q \in clipped \cup stage : From(r, q) /\ At(q, t)
    <3>1. r \in trunc
      <4>1. ASSUME r \in fresh PROVE FALSE
        <5>1. r.start >= computedAt /\ r.start \in 0..N
          BY <1>6, <1>10, <1>11, <4>1
        <5> QED
          BY <1>17, <2>2, <5>1 DEF At
      <4> QED
        BY <1>0, <4>1
    <3>2. PICK q \in base : Piece(r, q)
      BY <1>9, <3>1
    <3>3. {r.start, r.finish, q.start, q.finish} \subseteq 0..N
      BY <1>7, <1>9, <3>1 DEF RowSet
    <3>4. From(r, q) /\ At(q, t)
      BY <2>2, <3>2, <3>3 DEF Piece, At
    <3>5. CASE q \in clipped
      BY <3>4, <3>5
    <3>6. CASE q \in history
      <4>1. PICK p \in split : Piece(q, p)
        BY <1>4, <3>6
      <4>2. PICK s \in stage : Piece(p, s)
        BY <1>3
      <4>3. {p.start, p.finish, s.start, s.finish} \subseteq 0..N
        BY <1>3 DEF RowSet
      <4> QED
        BY <3>3, <3>4, <4>1, <4>2, <4>3 DEF Piece, From, At
    <3> QED
      BY <3>5, <3>6 DEF base
  <2> QED
    BY <2>1, <2>2
<1>18. Reconciled(out, clipped, stage, computedAt)
  <2> HIDE DEF out
  <2> QED
    BY <1>16, <1>17 DEF Reconciled
<1>19. ASSUME NEW t \in Int, today <= t, t < computedAt, NEW s \in stage, At(s, t),
               s.generation \notin stale, \A q \in clipped : ~At(q, t)
       PROVE  \E r \in out : From(r, s) /\ At(r, t)
  <2>1. PICK p \in split : From(p, s) /\ At(p, t)
    BY <1>3, <1>19
  <2>2. ASSUME NEW r \in old PROVE ~ShareInstant(r, p)
    <3>1. /\ ~At(r, t)
          /\ ~(p.start < r.start /\ r.start < p.finish)
          /\ ~(p.start < r.finish /\ r.finish < p.finish)
      BY <1>2, <1>3, <1>19
    <3>2. /\ {r.start, r.finish, p.start, p.finish} \subseteq 0..N
          /\ r.start < r.finish
      BY <1>1, <1>2, <1>3 DEF RowSet, Tidy
    <3> QED
      BY <2>1, <3>1, <3>2 DEF ShareInstant, At
  <2>3. p.generation \notin stale
    BY <1>19, <2>1 DEF From
  <2>4. PICK h \in history : From(h, p) /\ At(h, t)
    BY <1>2, <1>3, <1>19, <2>1, <2>2, <2>3, MissingHistoryFills DEF history
  <2>5. h \in base
    BY DEF base
  <2>6. PICK r \in trunc : From(r, h) /\ At(r, t)
    BY <1>9, <1>19, <2>4, <2>5
  <2> QED
    BY <1>0, <2>1, <2>4, <2>6 DEF From
\* What is reused is what the stage repeats.
<1>20. ASSUME NEW r \in reused PROVE r \in clipped /\ Repeated(r, stage, computedAt)
  <2>1. r \in clipped
    BY <1>2, <1>8
  <2>2. r.start \in 0..N /\ r.finish \in 0..N
    BY <1>1, <2>1 DEF RowSet
  <2>3. Max({r.start, computedAt}) = IF r.start >= computedAt THEN r.start ELSE computedAt
    BY <2>2, MaxOfPair
  <2>4. ASSUME NEW u \in Int, At(r, u), u >= computedAt
        PROVE  \E s \in stage : At(s, u) /\ s.content = r.content
    <3>1. u \in Max({r.start, computedAt})..(r.finish - 1)
      BY <2>2, <2>3, <2>4 DEF At
    <3>2. PICK s \in live : s.content = r.content /\ At(s, u)
      BY <3>1 DEF reused, Reusable, CoversRange, RowsAt, At
    <3> QED
      BY <1>15, <3>2
  <2> QED
    BY <2>1, <2>4 DEF Repeated
<1>21. ASSUME NEW t \in Int, today <= t, t >= computedAt
       PROVE  /\ \A q \in clipped : At(q, t) /\ Repeated(q, stage, computedAt) => q \in reused
              /\ \A r \in out : At(r, t) => r \in reused \/ r \in fresh
              /\ \A s \in stage : At(s, t) =>
                   \/ \E q \in reused : At(q, t)
                   \/ \E r \in fresh : From(r, s) /\ At(r, t)
  <2>1. ASSUME NEW q \in clipped, At(q, t), Repeated(q, stage, computedAt) PROVE q \in reused
    <3>1. q.start \in 0..N /\ q.finish \in 0..N
      BY <1>1 DEF RowSet
    <3>2. q \in old /\ q.finish > computedAt
      BY <1>2, <1>21, <2>1, <3>1 DEF At
    <3>3. Max({q.start, computedAt}) = IF q.start >= computedAt THEN q.start ELSE computedAt
      BY <3>1, MaxOfPair
    <3>4. ASSUME NEW u \in Max({q.start, computedAt})..(q.finish - 1)
          PROVE  \E s \in live : s.content = q.content /\ At(s, u)
      <4>1. u \in Int /\ At(q, u) /\ u >= computedAt
        BY <3>1, <3>3 DEF At
      <4>2. PICK s \in stage : At(s, u) /\ s.content = q.content
        BY <2>1, <4>1 DEF Repeated
      <4>3. PICK p \in split : From(p, s) /\ At(p, u)
        BY <1>3, <4>1, <4>2
      <4>4. PICK l \in live : From(l, p) /\ At(l, u)
        BY <1>6, <4>1, <4>3
      <4> QED
        BY <4>2, <4>3, <4>4 DEF From
    <3> QED
      BY <3>2, <3>4 DEF reused, Reusable, CoversRange, RowsAt, At
  <2>2. ASSUME NEW r \in out, At(r, t) PROVE r \in reused \/ r \in fresh
    BY <1>0, <1>9, <1>11, <1>21, <2>2 DEF At
  <2>3. ASSUME NEW s \in stage, At(s, t)
        PROVE  \/ \E q \in reused : At(q, t)
               \/ \E r \in fresh : From(r, s) /\ At(r, t)
    <3>1. PICK p \in split : From(p, s) /\ At(p, t)
      BY <1>3, <2>3
    <3>2. PICK l \in live : From(l, p) /\ At(l, t)
      BY <1>6, <1>21, <3>1
    <3>3. CASE l \in fresh
      BY <3>1, <3>2, <3>3 DEF From
    <3>4. CASE l \notin fresh
      <4>1. CoversRange({r \in reused : r.content = l.content}, l.start, l.finish)
        BY <1>10, <3>4
      <4>2. t \in l.start..(l.finish - 1)
        BY <1>11, <3>2 DEF At
      <4> QED
        BY <4>1, <4>2 DEF CoversRange, RowsAt, At
    <3> QED
      BY <3>3, <3>4
  <2> QED
    BY <2>1, <2>2, <2>3
\* A fresh row is of the stage, with its generation.
<1>22. ASSUME NEW r \in fresh, NEW t \in Int, At(r, t) PROVE \E s \in stage : From(r, s) /\ At(s, t)
  <2>1. PICK p \in split : Piece(r, p)
    BY <1>6, <1>10
  <2>2. PICK s \in stage : Piece(p, s)
    BY <1>3
  <2>3. {r.start, r.finish, p.start, p.finish, s.start, s.finish} \subseteq 0..N
    BY <1>3, <1>10, <1>11 DEF RowSet
  <2> QED
    BY <1>22, <2>1, <2>2, <2>3 DEF Piece, From, At
<1>23. Chosen(out, clipped, stage, computedAt, today, stale)
  <2>1. ASSUME NEW t \in Int, today <= t, t >= computedAt
        PROVE  /\ \A q \in clipped : At(q, t) /\ Repeated(q, stage, computedAt) =>
                    \E r \in out : From(r, q) /\ At(r, t)
               /\ \A r \in out : At(r, t) =>
                    \/ \E q \in clipped : From(r, q) /\ At(q, t) /\ Repeated(q, stage, computedAt)
                    \/ \E s \in stage : From(r, s) /\ At(s, t)
               /\ \A s \in stage : At(s, t) =>
                    \/ \E q \in clipped : At(q, t) /\ Repeated(q, stage, computedAt)
                    \/ \E r \in out : From(r, s) /\ At(r, t)
    <3>1. \A q : From(q, q)
      BY DEF From
    <3>2. reused \subseteq out /\ fresh \subseteq out
      BY <1>0, <1>9
    <3> HIDE DEF out
    <3> QED
      BY <1>20, <1>21, <1>22, <2>1, <3>1, <3>2
  <2> HIDE DEF out
  <2> QED
    BY <1>19, <2>1 DEF Chosen
<1> QED
  BY <1>14, <1>18, <1>23 DEF clipped

\* The rows of a calculation say what it says, instant by instant.
LEMMA RunsTidy ==
  ASSUME NEW N \in Nat, NEW f, NEW none, NEW id
  PROVE  LET rows == Runs(f, 0, N, none, id) IN
         /\ Tidy(rows)
         /\ \A r \in rows, t \in Int :
              At(r, t) => t \in 0..(N - 1) /\ f[t] = r.content /\ f[t] # none
         /\ \A t \in 0..(N - 1) : f[t] # none => \E r \in rows : At(r, t) /\ r.content = f[t]
<1> DEFINE Same(a, b) == \A t \in a..(b - 1) : f[t] = f[a]
           IsRun(a, b) == /\ a < b /\ f[a] # none /\ Same(a, b)
                          /\ a > 0 => f[a - 1] # f[a]
                          /\ b < N => f[b] # f[a]
           Run(a, b) == [start |-> a, finish |-> b, generation |-> id, content |-> f[a]]
           rows == Runs(f, 0, N, none, id)
<1>1. /\ \A r \in rows : \E a \in 0..(N - 1), b \in 1..N : IsRun(a, b) /\ r = Run(a, b)
      /\ \A a \in 0..(N - 1), b \in 1..N : IsRun(a, b) => Run(a, b) \in rows
  <2>1. rows = {Run(ab[1], ab[2]) : ab \in {p \in (0..(N - 1)) \X ((0 + 1)..N) : IsRun(p[1], p[2])}}
    BY DEF Runs
  <2>2. (0 + 1)..N = 1..N
    OBVIOUS
  <2> HIDE DEF rows, Run, IsRun
  <2>3. \A r \in rows : \E a \in 0..(N - 1), b \in 1..N : IsRun(a, b) /\ r = Run(a, b)
    BY <2>1, <2>2
  <2>4. ASSUME NEW a \in 0..(N - 1), NEW b \in 1..N, IsRun(a, b) PROVE Run(a, b) \in rows
    <3>1. <<a, b>> \in (0..(N - 1)) \X (1..N) /\ <<a, b>>[1] = a /\ <<a, b>>[2] = b
      OBVIOUS
    <3> QED
      BY <2>1, <2>2, <2>4, <3>1
  <2> QED
    BY <2>3, <2>4
<1> HIDE DEF rows
<1>2. ASSUME NEW a \in 0..(N - 1), NEW b \in 1..N, NEW c \in 0..(N - 1), NEW d \in 1..N,
             IsRun(a, b), IsRun(c, d), a < d, c < b
      PROVE  ~(a < c) /\ ~(b < d /\ a = c)
  <2>1. ASSUME a < c PROVE FALSE
    <3>1. c - 1 \in a..(b - 1) /\ c \in a..(b - 1) /\ c > 0
      BY <1>2, <2>1
    <3>2. f[c - 1] = f[a] /\ f[c] = f[a] /\ f[c - 1] # f[c]
      BY <1>2, <3>1
    <3> QED
      BY <3>2
  <2>2. ASSUME b < d, a = c PROVE FALSE
    <3>1. b \in c..(d - 1) /\ b < N
      BY <1>2, <2>2
    <3>2. f[b] = f[c] /\ f[b] # f[a]
      BY <1>2, <3>1
    <3> QED
      BY <2>2, <3>2
  <2> QED
    BY <2>1, <2>2
<1>3. ASSUME NEW r \in rows, NEW s \in rows, ShareInstant(r, s) PROVE r = s
  <2>1. PICK a \in 0..(N - 1), b \in 1..N : IsRun(a, b) /\ r = Run(a, b)
    BY <1>1
  <2>2. PICK c \in 0..(N - 1), d \in 1..N : IsRun(c, d) /\ s = Run(c, d)
    BY <1>1
  <2>3. a < d /\ c < b
    BY <1>3, <2>1, <2>2 DEF ShareInstant
  <2> HIDE DEF IsRun, Run
  <2>4. ~(a < c) /\ ~(c < a)
    BY <1>2, <2>1, <2>2, <2>3
  <2>5. a = c
    BY <2>4
  <2>6. ~(b < d) /\ ~(d < b)
    BY <1>2, <2>1, <2>2, <2>3, <2>5
  <2>7. b = d
    BY <2>6
  <2> QED
    BY <2>1, <2>2, <2>5, <2>7
<1>4. Tidy(rows)
  <2>1. \A r \in rows : r.start < r.finish
    BY <1>1
  <2> QED
    BY <1>3, <2>1 DEF Tidy, NoOverlap
<1>5. ASSUME NEW r \in rows, NEW t \in Int, At(r, t)
      PROVE  t \in 0..(N - 1) /\ f[t] = r.content /\ f[t] # none
  <2>1. PICK a \in 0..(N - 1), b \in 1..N : IsRun(a, b) /\ r = Run(a, b)
    BY <1>1
  <2>2. t \in a..(b - 1)
    BY <1>5, <2>1 DEF At
  <2> QED
    BY <2>1, <2>2
<1>6. ASSUME NEW t \in 0..(N - 1), f[t] # none
      PROVE  \E r \in rows : At(r, t) /\ r.content = f[t]
  <2> DEFINE before == {a \in 0..t : \A u \in a..t : f[u] = f[t]}
             after  == {b \in (t + 1)..N : \A u \in t..(b - 1) : f[u] = f[t]}
  <2>1. before \in SUBSET Nat /\ t \in before
    OBVIOUS
  <2>2. Min(before) \in before /\ \A y \in before : Min(before) <= y
    <3> HIDE DEF before
    <3> QED
      BY <2>1, MinOfNaturals
  <2>3. PICK a \in before : \A y \in before : a <= y
    BY <2>2
  <2>4. after \in SUBSET (0..N) /\ t + 1 \in after
    OBVIOUS
  <2>5. Max(after) \in after /\ \A y \in after : Max(after) >= y
    <3> HIDE DEF after
    <3> QED
      BY <2>4, MaxOfNaturals
  <2>6. PICK b \in after : \A y \in after : b >= y
    BY <2>5
  <2>7. a \in 0..t /\ b \in (t + 1)..N /\ f[a] = f[t]
    BY <2>3
  <2>8. Same(a, b)
    <3> SUFFICES ASSUME NEW u \in a..(b - 1) PROVE f[u] = f[a]
      OBVIOUS
    <3>1. CASE u <= t
      BY <2>3, <2>7, <3>1
    <3>2. CASE u >= t
      BY <2>6, <2>7, <3>2
    <3> QED
      BY <2>7, <3>1, <3>2
  <2>9. ASSUME a > 0 PROVE f[a - 1] # f[a]
    <3> SUFFICES ASSUME f[a - 1] = f[a] PROVE FALSE
      OBVIOUS
    <3>1. a - 1 \in 0..t
      BY <2>7, <2>9
    <3>2. ASSUME NEW u \in (a - 1)..t PROVE f[u] = f[t]
      <4>1. u = a - 1 \/ u \in a..t
        BY <2>7, <3>2
      <4> QED
        BY <2>3, <2>7, <4>1
    <3>3. a - 1 \in before
      BY <3>1, <3>2
    <3> HIDE DEF before
    <3>4. a <= a - 1
      BY <2>3, <3>3
    <3> QED
      BY <2>7, <3>4
  <2>10. ASSUME b < N PROVE f[b] # f[a]
    <3> SUFFICES ASSUME f[b] = f[a] PROVE FALSE
      OBVIOUS
    <3>1. b + 1 \in (t + 1)..N
      BY <2>7, <2>10
    <3>2. ASSUME NEW u \in t..((b + 1) - 1) PROVE f[u] = f[t]
      <4>1. u = b \/ u \in t..(b - 1)
        BY <2>7, <3>2
      <4> QED
        BY <2>6, <2>7, <4>1
    <3>3. b + 1 \in after
      BY <3>1, <3>2
    <3> HIDE DEF after
    <3>4. b >= b + 1
      BY <2>6, <3>3
    <3> QED
      BY <2>7, <3>4
  <2>11. a \in 0..(N - 1) /\ b \in 1..N /\ a < b /\ f[a] # none
    BY <1>6, <2>7
  <2>12. Run(a, b) \in rows
    BY <1>1, <2>8, <2>9, <2>10, <2>11
  <2> QED
    BY <2>7, <2>12 DEF At
<1> QED
  BY <1>4, <1>5, <1>6 DEF rows

LEMMA PruneOutcomesTidy ==
  ASSUME NEW N \in Nat, NEW G, NEW C, NEW rows \in SUBSET RowSet(N, G, C), Tidy(rows),
         NEW today \in Nat, NEW windowEnd \in Nat, today < windowEnd,
         NEW left \in PruneOutcomes(rows, today, windowEnd)
  PROVE  /\ Tidy(left)
         /\ \A r \in left : \E q \in rows : Piece(r, q)
         /\ \A q \in rows, t \in today..(windowEnd - 1) :
              At(q, t) => \E r \in left : From(r, q) /\ At(r, t)
<1> DEFINE inside == Overlapping(rows, today, windowEnd)
           straddle == {r \in inside : r.start < today \/ r.finish > windowEnd}
<1>1. CASE \E gone \in SUBSET (rows \ inside) : left = rows \ gone
  <2>1. PICK gone \in SUBSET (rows \ inside) : left = rows \ gone
    BY <1>1
  <2>2. \A q \in rows : q.start \in Int /\ q.finish \in Int /\ q.start < q.finish
    BY DEF RowSet, Tidy
  <2>3. left \in SUBSET rows /\ \A r \in left : Piece(r, r)
    BY <2>1, <2>2 DEF Piece, From
  <2>4. ASSUME NEW q \in rows, NEW t \in today..(windowEnd - 1), At(q, t)
        PROVE  q \in left /\ From(q, q)
    BY <2>1, <2>2, <2>4 DEF At, Overlapping, From
  <2> QED
    BY <2>3, <2>4, SubsetTidy
<1>2. CASE \E cut \in SUBSET straddle :
              left = (inside \ cut) \cup PruneRows(cut, today, windowEnd)
  <2>1. PICK cut \in SUBSET rows :
              left = (inside \ cut) \cup PruneRows(cut, today, windowEnd)
    BY <1>2 DEF Overlapping
  <2> QED
    BY <2>1, PruneRowsTidy
<1> QED
  BY <1>1, <1>2 DEF PruneOutcomes


Generations == 1..Len(generations)

\* Clock values lie in the past.
ClocksPast ==
  /\ source.invalidatedAt <= clock
  /\ \A w \in Writers : writer[w].stmtAt <= clock
  /\ producer.now <= clock

\* The revision is invalidated exactly when there is a boundary.
InvalidationKnown ==
  /\ source.invalidatedRevision <= source.revision
  /\ source.invalidatedRevision = 0 <=> source.invalidatedAt = NoTime

\* Published knowledge is not newer than the source.
GenerationsPast == \A g \in Generations : generations[g].revision <= source.revision

\* Only what earlier revisions brought is withdrawn.
OnlyOldWithdrawn ==
  \A b \in 1..MaxRevision :
     revokedAt[b] # NoTime => b <= source.revision /\ revokedAt[b] <= clock

\* The committed evidence stands.
EvidenceStands == \A t \in Slots : ~Withdrawn(evidence[t])

\* A writer that holds the revision row has stamped the committed row.
StampedWriter(w) ==
  /\ \E revoke \in BOOLEAN :
        /\ writer[w].source = Stamped(revoke, writer[w].stmtAt)
        /\ ~revoke => writer[w].withdrawn = {}
  /\ \A b \in writer[w].withdrawn : b <= source.revision
  /\ \A t \in Slots : /\ ~Withdrawn(writer[w].evidence[t])
                      /\ writer[w].evidence[t].basis \notin writer[w].withdrawn

WritersSerial ==
  /\ \A v, w \in Writers : writer[v].phase = "stamped" /\ writer[w].phase = "stamped" => v = w
  /\ \A w \in Writers : writer[w].phase = "stamped" => StampedWriter(w)

\* As long as the revision stands, so does the snapshot.
SnapshotFaithful ==
  producer.phase # "idle" =>
    /\ producer.revision <= source.revision
    /\ producer.revision = source.revision => producer.evidence = evidence

\* Rows with withdrawn content are revoked; they end by the withdrawal or are
\* read only up to an invalidation that precedes it.
RowsAnswerable(rows) ==
  \A r \in rows :
     /\ r.generation \in Generations
     /\ Withdrawn(r.content) =>
          /\ Revoked(r)
          /\ \/ r.finish <= revokedAt[r.content.basis]
             \/ source.invalidatedAt <= revokedAt[r.content.basis]

InvalidationAnswered ==
  \E g \in Generations : generations[g].revision >= source.invalidatedRevision

\* Once a publication has answered an invalidation, revoked rows end there.
RowsClipped(rows) == \A r \in rows : Revoked(r) => r.finish <= source.invalidatedAt

\* What is about to be published while the revision stands.
MergedAnswerable ==
  (producer.phase = "merged" /\ producer.revision = source.revision) =>
    LET Old == {r \in producer.results : r.generation # Len(generations) + 1} IN
    /\ RowsAnswerable(Old)
    /\ RowsClipped(Old)
    /\ \A r \in producer.results \ Old : ~Withdrawn(r.content)

IInv ==
  /\ TypeOK
  /\ ClocksPast
  /\ InvalidationKnown
  /\ GenerationsPast
  /\ OnlyOldWithdrawn
  /\ EvidenceStands
  /\ WritersSerial
  /\ SnapshotFaithful
  /\ RowsAnswerable(results)
  /\ InvalidationAnswered => RowsClipped(results)
  /\ MergedAnswerable

-----------------------------------------------------------------------------
(* Values.                                                                 *)

N == MaxTime + Window

LEMMA SlotsType == N \in Nat /\ Slots = 0..N
BY ConstantsAssumption DEF N, Slots

LEMMA RowType == Row = RowSet(N, Nat, Payload)
BY DEF Row, RowSet, Slots, N

LEMMA DayType ==
  ASSUME NEW t \in Nat
  PROVE  DayStart(t) \in Nat /\ WindowEnd(t) \in Nat
<1>1. t \div DayLength \in Nat
  BY ConstantsAssumption
<1>2. \A x, y \in Nat : x * y \in Nat
  OBVIOUS
<1>3. DayStart(t) \in Nat
  BY <1>1, <1>2, ConstantsAssumption DEF DayStart
<1> QED
  BY <1>3, ConstantsAssumption DEF WindowEnd

LEMMA PayloadType ==
  /\ Absent \in Payload /\ Missing \in Payload
  /\ Absent.basis = 0 /\ Missing.basis = 0
  /\ \A kind \in Kinds, revision \in 0..MaxRevision :
        /\ Evidence(kind, revision) \in Payload
        /\ Evidence(kind, revision).basis \in {0, revision}
  /\ \A previous, current \in Payload :
        /\ Retain(previous, current) \in Payload
        /\ Retain(previous, current).basis \in {previous.basis, current.basis}
<1>1. 0 \in 0..MaxRevision
  BY ConstantsAssumption
<1>2. \A kind \in {"fresh", "missing", "blocked", "absent"}, basis \in 0..MaxRevision :
         Plain(kind, basis) \in Payload /\ Plain(kind, basis).basis = basis
  BY DEF Plain, Payload
<1>3. /\ Absent \in Payload /\ Missing \in Payload
      /\ Absent.basis = 0 /\ Missing.basis = 0
  BY <1>1, <1>2 DEF Absent, Missing
<1>4. ASSUME NEW kind \in Kinds, NEW revision \in 0..MaxRevision
      PROVE  /\ Evidence(kind, revision) \in Payload
             /\ Evidence(kind, revision).basis \in {0, revision}
  BY <1>1, <1>2, ConstantsAssumption DEF Evidence
<1>5. ASSUME NEW previous \in Payload, NEW current \in Payload
      PROVE  /\ Retain(previous, current) \in Payload
             /\ Retain(previous, current).basis \in {previous.basis, current.basis}
  <2>1. /\ [previous EXCEPT !.kept = TRUE] \in Payload
        /\ [previous EXCEPT !.kept = TRUE].basis = previous.basis
    BY DEF Payload
  <2> QED
    BY <2>1 DEF Retain
<1> QED
  BY <1>3, <1>4, <1>5

LEMMA LentRow ==
  ASSUME NEW rows \in SUBSET Row, rows # {}
  PROVE  \E r \in rows : LentAt(rows) = r.content
<1> DEFINE starts == {r.start : r \in rows}
<1>1. starts \in SUBSET (0..N) /\ starts # {}
  BY SlotsType DEF Row
<1>2. Max(starts) \in starts /\ \A y \in starts : Max(starts) >= y
  BY <1>1, SlotsType, MaxOfNaturals
<1>3. PICK r \in rows : r.start = Max(starts)
  BY <1>2
<1>4. \A q \in rows : q.start <= r.start
  BY <1>1, <1>2, <1>3
<1> QED
  BY <1>4 DEF LentAt

LEMMA CalculatedType ==
  ASSUME producer \in ProducerState
  PROVE  /\ Calculated \in [Slots -> Payload]
         /\ \A t \in Slots : Calculated[t] \in {Absent, Missing, producer.evidence[t]}
BY PayloadType DEF Calculated, ProducerState

\* What is published rests on the snapshot, on a lender or on nothing.
LEMMA RetainedType ==
  ASSUME producer \in ProducerState, results \in SUBSET Row
  PROVE  /\ Retained \in [Slots -> Payload]
         /\ \A t \in Slots :
               \/ Retained[t].basis = 0
               \/ \E u \in Slots : Retained[t].basis = producer.evidence[u].basis
               \/ \E r \in Lenders : Retained[t].basis = r.content.basis
<1> DEFINE current == Calculated
           lastSeen == LentAt({r \in Lenders : r.start <= producer.now})
           said(t) == {u \in producer.now..t : current[u].kind # "missing"}
           lastSaid(t) == IF said(t) = {} THEN lastSeen ELSE current[Max(said(t))]
           previous(t) == IF Mode = "observation" THEN lastSaid(t)
                          ELSE LentAt(RowsAt(Lenders, t))
           Known(c) == \/ c.basis = 0
                       \/ \E u \in Slots : c.basis = producer.evidence[u].basis
                       \/ \E r \in Lenders : c.basis = r.content.basis
<1>1. current \in [Slots -> Payload] /\ \A t \in Slots : Known(current[t])
  BY CalculatedType, PayloadType
<1>2. ASSUME NEW rows \in SUBSET Lenders
      PROVE  LentAt(rows) \in Payload /\ Known(LentAt(rows))
  <2>1. rows \in SUBSET Row
    BY <1>2 DEF Lenders
  <2>2. CASE rows = {}
    BY <2>2, PayloadType DEF LentAt
  <2>3. CASE rows # {}
    BY <2>1, <2>3, LentRow DEF Row
  <2> QED
    BY <2>2, <2>3
<1>3. lastSeen \in Payload /\ Known(lastSeen)
  BY <1>2
<1>4. ASSUME NEW t \in Slots
      PROVE  previous(t) \in Payload /\ Known(previous(t))
  <2>1. CASE said(t) # {}
    <3>1. said(t) \in SUBSET (0..t) /\ t \in Nat
      BY SlotsType DEF ProducerState
    <3>2. Max(said(t)) \in said(t)
      <4> HIDE DEF said
      <4> QED
        BY <2>1, <3>1, MaxOfNaturals
    <3>3. Max(said(t)) \in Slots
      BY <3>1, <3>2, SlotsType
    <3>4. lastSaid(t) \in Payload /\ Known(lastSaid(t))
      <4> HIDE DEF said, current, lastSeen
      <4> QED
        BY <1>1, <2>1, <3>3
    <3> HIDE DEF lastSaid
    <3>5. RowsAt(Lenders, t) \in SUBSET Lenders
      BY DEF RowsAt
    <3> QED
      BY <1>2, <3>4, <3>5
  <2>2. CASE said(t) = {}
    <3>1. RowsAt(Lenders, t) \in SUBSET Lenders
      BY DEF RowsAt
    <3> HIDE DEF said, lastSeen
    <3> QED
      BY <1>2, <1>3, <2>2, <3>1
  <2> QED
    BY <2>1, <2>2
<1>5. Retained = [t \in Slots |-> IF current[t] = Absent THEN Absent
                                 ELSE Retain(previous(t), current[t])]
  BY DEF Retained
<1> HIDE DEF current, previous
<1>6. ASSUME NEW t \in Slots
      PROVE  Retained[t] \in Payload /\ Known(Retained[t])
  <2>1. CASE current[t] = Absent
    BY <1>5, <2>1, PayloadType
  <2>2. CASE current[t] # Absent
    <3>1. Retained[t] = Retain(previous(t), current[t])
      BY <1>5, <2>2
    <3>2. /\ Retained[t] \in Payload
          /\ Retained[t].basis \in {previous(t).basis, current[t].basis}
      BY <1>1, <1>4, <3>1, PayloadType
    <3> QED
      BY <1>1, <1>4, <3>2
  <2> QED
    BY <2>1, <2>2
<1>7. Retained \in [Slots -> Payload]
  BY <1>5, <1>6
<1> QED
  BY <1>6, <1>7

-----------------------------------------------------------------------------
(* Types.                                                                  *)

LEMMA GenerationType ==
  TypeOK => \A g \in Generations : /\ generations[g].revision \in Nat
                                   /\ generations[g].computedAt \in Nat
<1> SUFFICES ASSUME TypeOK, NEW g \in Generations PROVE generations[g] \in Generation
  BY DEF Generation
<1> QED
  BY ElementOfSeq DEF TypeOK, Generations

LEMMA NoWriterType == NoWriter \in WriterState
BY ConstantsAssumption, PayloadType DEF NoWriter, WriterState, Source, NoTime

LEMMA NoProducerType == NoProducer \in ProducerState
BY ConstantsAssumption, PayloadType DEF NoProducer, ProducerState

LEMMA TypeInit == Init => TypeOK
<1> SUFFICES ASSUME Init PROVE TypeOK
  OBVIOUS
<1>1. 0 \in 0..MaxRevision /\ 0 \in 0..MaxTime /\ 0 \in 0..MaxCrashes
  BY ConstantsAssumption
<1>2. generations \in Seq(Generation)
  BY DEF Init
<1>3. source \in Source
  BY <1>1 DEF Init, Source
<1> QED
  BY <1>1, <1>2, <1>3, NoWriterType, NoProducerType, PayloadType DEF Init, TypeOK

LEMMA StampType ==
  ASSUME TypeOK, NEW w \in Writers, NEW revoke \in BOOLEAN,
         NEW newEvidence \in [Slots -> Payload], NEW withdrawn \in SUBSET (1..MaxRevision),
         Stamp(w, revoke, newEvidence, withdrawn)
  PROVE  TypeOK'
<1>1. source.revision + 1 \in 0..MaxRevision /\ writer[w].stmtAt \in Nat
  BY ConstantsAssumption DEF Stamp, TypeOK, Source, WriterState
<1>2. InvalidationClock(writer[w].stmtAt) \in {NoTime} \cup Nat
  BY <1>1 DEF InvalidationClock, TypeOK, Source
<1>3. Stamped(revoke, writer[w].stmtAt) \in Source
  BY <1>1, <1>2 DEF Stamped, TypeOK, Source
<1>4. writer' \in [Writers -> WriterState]
  BY <1>1, <1>3 DEF Stamp, TypeOK, WriterState
<1> QED
  BY <1>4 DEF Stamp, TypeOK, publicationVars

LEMMA StagedRows ==
  ASSUME NEW f \in [Slots -> Payload], NEW id \in Nat,
         NEW s \in Runs(f, 0, MaxTime + Window, Absent, id)
  PROVE  /\ s \in Row /\ s.start < s.finish /\ s.generation = id
         /\ \E t \in Slots : s.content = f[t]
<1>1. N \in Nat /\ s \in Runs(f, 0, N, Absent, id)
  BY SlotsType DEF N
<1>2. \A t \in 0..(N - 1) : t \in Slots /\ f[t] \in Payload
  BY SlotsType
<1>3. /\ s \in RowSet(N, Nat, Payload) /\ s.start < s.finish /\ s.generation = id
      /\ \E t \in 0..(N - 1) : s.content = f[t]
  BY <1>1, <1>2, RunsRows
<1> QED
  BY <1>2, <1>3, RowType

LEMMA MergeType ==
  ASSUME TypeOK, MergeResults
  PROVE  /\ producer'.results \in SUBSET Row
         /\ Retained \in [Slots -> Payload]
<1> DEFINE id     == Len(generations) + 1
           staged == Runs(Retained, 0, MaxTime + Window, Absent, id)
           merged == MergeStage(results, staged, producer.now, DayStart(clock),
                                StaleGenerations(source.invalidatedRevision),
                                source.invalidatedAt)
<1>1. /\ id \in Nat /\ clock \in Nat /\ producer.now \in Nat
      /\ source.invalidatedAt \in Int
  BY ConstantsAssumption, LenProperties DEF TypeOK, ProducerState, Source, NoTime
<1>2. DayStart(clock) \in Nat /\ WindowEnd(clock) \in Nat
  BY <1>1, DayType
<1>3. Retained \in [Slots -> Payload]
  BY RetainedType DEF TypeOK
<1>4. ASSUME NEW s \in staged PROVE s \in Row /\ s.start < s.finish
  <2> HIDE DEF id
  <2> QED
    BY <1>1, <1>3, StagedRows
<1>5. merged \in SUBSET Row
  <2> HIDE DEF staged
  <2> QED
    BY <1>1, <1>2, <1>4, SlotsType, RowType, MergeStageRows DEF TypeOK
<1>6. PruneRows(merged, DayStart(clock), WindowEnd(clock)) \in SUBSET Row
  <2> HIDE DEF merged
  <2> QED
    BY <1>2, <1>5, SlotsType, RowType, PruneRowsRows
<1>7. producer'.results = PruneRows(merged, DayStart(clock), WindowEnd(clock))
  BY DEF MergeResults, TypeOK, ProducerState
<1> QED
  BY <1>3, <1>6, <1>7

LEMMA TypeNext ==
  ASSUME TypeOK, [Next]_vars
  PROVE  TypeOK'
<1> USE DEF TypeOK
<1>1. CASE Tick
  BY <1>1, ConstantsAssumption DEF Tick, sourceVars, publicationVars
<1>2. ASSUME NEW w \in Writers, StartStatement(w) PROVE TypeOK'
  <2>1. writer' \in [Writers -> WriterState]
    <3>1. clock \in Nat
      BY ConstantsAssumption
    <3>2. [writer[w] EXCEPT !.phase = "started", !.stmtAt = clock] \in WriterState
      BY <3>1 DEF WriterState
    <3> QED
      BY <1>2, <3>2 DEF StartStatement
  <2> QED
    BY <1>2, <2>1 DEF StartStatement, publicationVars
<1>3. ASSUME NEW w \in Writers, StampChange(w) PROVE TypeOK'
  <2>1. PICK segment \in Segments, kind \in Kinds :
          Stamp(w, FALSE,
                [t \in Slots |-> IF t \in segment THEN Evidence(kind, source.revision + 1)
                                 ELSE evidence[t]], {})
    BY <1>3 DEF StampChange
  <2>2. source.revision + 1 \in 0..MaxRevision
    BY <2>1, ConstantsAssumption DEF Stamp, Source
  <2>3. [t \in Slots |-> IF t \in segment THEN Evidence(kind, source.revision + 1)
                         ELSE evidence[t]] \in [Slots -> Payload]
    BY <2>2, PayloadType
  <2> QED
    BY <2>1, <2>3, StampType
<1>4. ASSUME NEW w \in Writers, StampRevocation(w) PROVE TypeOK'
  <2>1. PICK withdrawn \in SUBSET (1..source.revision), kind \in Kinds \ {"fresh"} :
          Stamp(w, TRUE,
                [t \in Slots |-> IF evidence[t].basis \in withdrawn
                                 THEN Evidence(kind, source.revision + 1)
                                 ELSE evidence[t]], withdrawn)
    BY <1>4 DEF StampRevocation
  <2>2. source.revision + 1 \in 0..MaxRevision /\ withdrawn \in SUBSET (1..MaxRevision)
    BY <2>1, ConstantsAssumption DEF Stamp, Source
  <2>3. [t \in Slots |-> IF evidence[t].basis \in withdrawn
                         THEN Evidence(kind, source.revision + 1)
                         ELSE evidence[t]] \in [Slots -> Payload]
    BY <2>2, PayloadType
  <2> QED
    BY <2>1, <2>2, <2>3, StampType
<1>5. ASSUME NEW w \in Writers, CommitSource(w) PROVE TypeOK'
  <2>1. writer' \in [Writers -> WriterState]
    BY <1>5, NoWriterType DEF CommitSource
  <2>2. source' \in Source /\ evidence' \in [Slots -> Payload]
    BY <1>5 DEF CommitSource, WriterState
  <2>3. revokedAt' \in [1..MaxRevision -> {NoTime} \cup Nat]
    BY <1>5 DEF CommitSource
  <2> QED
    BY <1>5, <2>1, <2>2, <2>3 DEF CommitSource, publicationVars
<1>6. ASSUME NEW w \in Writers, RollBackSource(w) PROVE TypeOK'
  <2>1. writer' \in [Writers -> WriterState]
    BY <1>6, NoWriterType DEF RollBackSource
  <2> QED
    BY <1>6, <2>1 DEF RollBackSource, publicationVars
<1>7. CASE TakeSnapshot
  <2>1. producer' \in ProducerState
    <3>1. clock \in Nat /\ source.revision \in 0..MaxRevision
      BY ConstantsAssumption DEF Source
    <3>2. [producer EXCEPT !.phase = "calculated", !.now = clock,
                          !.revision = source.revision, !.evidence = evidence] \in ProducerState
      BY <3>1 DEF ProducerState
    <3> QED
      BY <1>7, <3>2 DEF TakeSnapshot
  <2> QED
    BY <1>7, <2>1 DEF TakeSnapshot, sourceVars, publicationVars
<1>8. CASE BeginPublication
  <2>1. producer' \in ProducerState
    <3>1. \A b \in BOOLEAN :
             [producer EXCEPT !.phase = "opened", !.previous = b] \in ProducerState
      BY DEF ProducerState
    <3>2. \/ producer' = NoProducer
          \/ \E b \in BOOLEAN : producer' = [producer EXCEPT !.phase = "opened", !.previous = b]
      BY <1>8 DEF BeginPublication, GiveUp
    <3> QED
      BY <3>1, <3>2, NoProducerType
  <2> QED
    BY <1>8, <2>1 DEF BeginPublication, sourceVars, publicationVars
<1>9. CASE MergeResults
  <2>1. producer' \in ProducerState
    BY <1>9, MergeType DEF MergeResults, ProducerState
  <2> QED
    BY <1>9, <2>1 DEF MergeResults, sourceVars, publicationVars
<1>10. CASE CommitPublication
  <2>1. producer' \in ProducerState
    BY <1>10, NoProducerType DEF CommitPublication, GiveUp
  <2>2. generations' \in Seq(Generation)
    <3>1. [revision |-> producer.revision, computedAt |-> producer.now] \in Generation
      BY DEF ProducerState, Generation
    <3>2. Append(generations, [revision |-> producer.revision,
                              computedAt |-> producer.now]) \in Seq(Generation)
      BY <3>1, AppendProperties
    <3>3. \/ generations' = Append(generations, [revision |-> producer.revision,
                                               computedAt |-> producer.now])
          \/ generations' = generations
      BY <1>10 DEF CommitPublication, publicationVars
    <3> QED
      BY <3>2, <3>3
  <2>3. results' \in SUBSET Row /\ shown' \in [Slots -> Payload]
    BY <1>10 DEF CommitPublication, publicationVars, ProducerState
  <2> QED
    BY <1>10, <2>1, <2>2, <2>3 DEF CommitPublication, sourceVars
<1>11. CASE Crash
  BY <1>11, NoProducerType, ConstantsAssumption DEF Crash, GiveUp, sourceVars, publicationVars
<1>12. CASE PruneResults
  <2>1. DayStart(clock) \in Nat /\ WindowEnd(clock) \in Nat
    BY DayType
  <2>2. results' \in SUBSET Row
    BY <1>12, <2>1, SlotsType, RowType, PruneOutcomesRows DEF PruneResults
  <2> QED
    BY <1>12, <2>2 DEF PruneResults, sourceVars
<1>13. CASE UNCHANGED vars
  BY <1>13 DEF vars
<1> QED
  BY <1>1, <1>2, <1>3, <1>4, <1>5, <1>6, <1>7, <1>8, <1>9, <1>10, <1>11, <1>12, <1>13 DEF Next

-----------------------------------------------------------------------------
(* The invariant, action by action.                                        *)

LEMMA InvInit == Init => IInv
<1> SUFFICES ASSUME Init PROVE IInv
  OBVIOUS
<1>1. TypeOK
  BY TypeInit
<1>2. ClocksPast /\ InvalidationKnown
  BY DEF Init, ClocksPast, InvalidationKnown, NoTime, NoWriter, NoProducer
<1>3. GenerationsPast /\ OnlyOldWithdrawn
  BY DEF Init, GenerationsPast, Generations, OnlyOldWithdrawn
<1>4. EvidenceStands
  BY PayloadType DEF Init, EvidenceStands, Withdrawn
<1>5. WritersSerial /\ SnapshotFaithful /\ MergedAnswerable
  BY DEF Init, WritersSerial, SnapshotFaithful, MergedAnswerable, NoWriter, NoProducer
<1>6. RowsAnswerable(results) /\ RowsClipped(results)
  BY DEF Init, RowsAnswerable, RowsClipped
<1> QED
  BY <1>1, <1>2, <1>3, <1>4, <1>5, <1>6 DEF IInv

\* A step of an open source transaction touches nothing else.
LEMMA WriterFrame ==
  ASSUME IInv, TypeOK', WritersSerial', \A w \in Writers : writer'[w].stmtAt <= clock,
         UNCHANGED <<clock, source, evidence, revokedAt, publicationVars, producer>>
  PROVE  IInv'
<1>1. ClocksPast' /\ InvalidationKnown' /\ GenerationsPast' /\ OnlyOldWithdrawn'
  BY DEF IInv, ClocksPast, InvalidationKnown, GenerationsPast, OnlyOldWithdrawn,
         Generations, publicationVars
<1>2. EvidenceStands' /\ SnapshotFaithful'
  BY DEF IInv, EvidenceStands, SnapshotFaithful, Withdrawn
<1>3. RowsAnswerable(results)' /\ (InvalidationAnswered => RowsClipped(results))'
  BY DEF IInv, RowsAnswerable, RowsClipped, InvalidationAnswered, Generations, Revoked,
         Withdrawn, publicationVars
<1>4. MergedAnswerable'
  BY DEF IInv, MergedAnswerable, RowsAnswerable, RowsClipped, Generations, Revoked,
         Withdrawn, publicationVars
<1> QED
  BY <1>1, <1>2, <1>3, <1>4 DEF IInv

\* A step of the producer before the commit touches nothing else.
LEMMA ProducerFrame ==
  ASSUME IInv, TypeOK', producer'.now <= clock, SnapshotFaithful', MergedAnswerable',
         UNCHANGED <<clock, sourceVars, publicationVars>>
  PROVE  IInv'
<1>1. ClocksPast' /\ InvalidationKnown' /\ GenerationsPast' /\ OnlyOldWithdrawn'
  BY DEF IInv, ClocksPast, InvalidationKnown, GenerationsPast, OnlyOldWithdrawn,
         Generations, publicationVars, sourceVars
<1>2. EvidenceStands'
  BY DEF IInv, EvidenceStands, Withdrawn, sourceVars
<1>3. WritersSerial'
  BY DEF IInv, WritersSerial, StampedWriter, Stamped, InvalidationClock, Withdrawn,
         publicationVars, sourceVars
<1>4. RowsAnswerable(results)' /\ (InvalidationAnswered => RowsClipped(results))'
  BY DEF IInv, RowsAnswerable, RowsClipped, InvalidationAnswered, Generations, Revoked,
         Withdrawn, publicationVars, sourceVars
<1> QED
  BY <1>1, <1>2, <1>3, <1>4 DEF IInv

LEMMA TickInv == IInv /\ Tick => IInv'
<1> SUFFICES ASSUME IInv, Tick PROVE IInv'
  OBVIOUS
<1>1. TypeOK'
  BY TypeNext DEF IInv, Next
<1>2. clock \in Int /\ clock' = clock + 1
  BY ConstantsAssumption DEF IInv, TypeOK, Tick
<1>3. ClocksPast'
  <2>1. source.invalidatedAt \in Int /\ producer.now \in Int
        /\ \A w \in Writers : writer[w].stmtAt \in Int
    BY DEF IInv, TypeOK, Source, NoTime, ProducerState, WriterState
  <2> QED
    BY <1>2, <2>1 DEF IInv, ClocksPast, Tick, sourceVars
<1>4. OnlyOldWithdrawn'
  <2>1. \A b \in 1..MaxRevision : revokedAt[b] \in Int
    BY DEF IInv, TypeOK, NoTime
  <2> QED
    BY <1>2, <2>1 DEF IInv, OnlyOldWithdrawn, Tick, sourceVars
<1>5. InvalidationKnown' /\ GenerationsPast' /\ EvidenceStands' /\ SnapshotFaithful'
  BY DEF IInv, Tick, sourceVars, publicationVars, InvalidationKnown, GenerationsPast,
         Generations, EvidenceStands, SnapshotFaithful, Withdrawn
<1>6. WritersSerial'
  BY DEF IInv, Tick, WritersSerial, StampedWriter, Stamped, InvalidationClock, Withdrawn,
         publicationVars, sourceVars
<1>7. /\ RowsAnswerable(results)' /\ (InvalidationAnswered => RowsClipped(results))'
      /\ MergedAnswerable'
  BY DEF IInv, Tick, RowsAnswerable, RowsClipped, InvalidationAnswered, Generations, Revoked,
         Withdrawn, MergedAnswerable, publicationVars, sourceVars
<1> QED
  BY <1>1, <1>3, <1>4, <1>5, <1>6, <1>7 DEF IInv

LEMMA StartStatementInv ==
  ASSUME IInv, NEW w \in Writers, StartStatement(w)
  PROVE  IInv'
<1>1. TypeOK'
  BY TypeNext DEF IInv, Next
<1>2. /\ writer'[w].phase = "started" /\ writer'[w].stmtAt = clock
      /\ \A v \in Writers \ {w} : writer'[v] = writer[v]
  BY DEF IInv, TypeOK, WriterState, StartStatement
<1>3. WritersSerial'
  <2>1. ASSUME NEW v \in Writers, writer'[v].phase = "stamped"
        PROVE  v # w /\ writer[v].phase = "stamped" /\ StampedWriter(v)
    BY <1>2, <2>1 DEF IInv, WritersSerial
  <2>2. ASSUME NEW v \in Writers \ {w}, StampedWriter(v)
        PROVE  StampedWriter(v)'
    BY <1>2, <2>2 DEF StampedWriter, Stamped, InvalidationClock, Withdrawn,
                      StartStatement, publicationVars
  <2> QED
    BY <2>1, <2>2 DEF IInv, WritersSerial
<1>4. \A v \in Writers : writer'[v].stmtAt <= clock
  <2>1. clock \in Int
    BY ConstantsAssumption DEF IInv, TypeOK
  <2> QED
    BY <1>2, <2>1 DEF IInv, ClocksPast
<1> QED
  BY <1>1, <1>3, <1>4, WriterFrame DEF StartStatement

LEMMA RollBackSourceInv ==
  ASSUME IInv, NEW w \in Writers, RollBackSource(w)
  PROVE  IInv'
<1>1. TypeOK'
  BY TypeNext DEF IInv, Next
<1>2. /\ writer'[w].phase = "idle" /\ writer'[w].stmtAt = 0
      /\ \A v \in Writers \ {w} : writer'[v] = writer[v]
  BY DEF IInv, TypeOK, RollBackSource, NoWriter
<1>3. WritersSerial'
  BY <1>2 DEF IInv, WritersSerial, StampedWriter, Stamped, InvalidationClock, Withdrawn,
              RollBackSource, publicationVars
<1>4. \A v \in Writers : writer'[v].stmtAt <= clock
  <2>1. 0 <= clock
    BY ConstantsAssumption DEF IInv, TypeOK
  <2> QED
    BY <1>2, <2>1 DEF IInv, ClocksPast
<1> QED
  BY <1>1, <1>3, <1>4, WriterFrame DEF RollBackSource

\* Whoever stamps holds the revision row alone and stamps what is committed.
LEMMA StampInv ==
  ASSUME IInv, TypeOK', NEW w \in Writers, NEW revoke \in BOOLEAN,
         NEW newEvidence \in [Slots -> Payload], NEW withdrawn \in SUBSET (1..MaxRevision),
         ~revoke => withdrawn = {}, \A b \in withdrawn : b <= source.revision,
         \A t \in Slots : /\ newEvidence[t].basis \in {0, evidence[t].basis, source.revision + 1}
                          /\ newEvidence[t].basis \notin withdrawn,
         Stamp(w, revoke, newEvidence, withdrawn)
  PROVE  IInv'
<1>1. /\ writer'[w].phase = "stamped" /\ writer'[w].stmtAt = writer[w].stmtAt
      /\ writer'[w].source = Stamped(revoke, writer[w].stmtAt)
      /\ writer'[w].evidence = newEvidence /\ writer'[w].withdrawn = withdrawn
      /\ \A v \in Writers \ {w} : writer'[v] = writer[v] /\ writer[v].phase # "stamped"
  BY DEF IInv, TypeOK, Stamp, RowLocked
<1>2. ASSUME NEW t \in Slots PROVE ~Withdrawn(newEvidence[t])
  <2>1. CASE newEvidence[t].basis = source.revision + 1
    <3>1. source.revision \in Int /\ ~(source.revision + 1 <= source.revision)
      BY DEF IInv, TypeOK, Source
    <3>2. newEvidence[t].basis \in 0..MaxRevision
      BY DEF Payload
    <3> QED
      BY <2>1, <3>1, <3>2 DEF IInv, OnlyOldWithdrawn, Withdrawn
  <2>2. CASE newEvidence[t].basis = evidence[t].basis
    BY <2>2 DEF IInv, EvidenceStands, Withdrawn
  <2>3. CASE newEvidence[t].basis = 0
    BY <2>3 DEF Withdrawn
  <2> QED
    BY <2>1, <2>2, <2>3
<1>4. StampedWriter(w)'
  BY <1>1, <1>2 DEF StampedWriter, Stamped, InvalidationClock, Withdrawn, Stamp, publicationVars
<1>5. WritersSerial'
  BY <1>1, <1>4 DEF WritersSerial
<1>6. \A v \in Writers : writer'[v].stmtAt <= clock
  BY <1>1 DEF IInv, ClocksPast
<1> QED
  BY <1>5, <1>6, WriterFrame DEF Stamp

LEMMA StampChangeInv ==
  ASSUME IInv, NEW w \in Writers, StampChange(w)
  PROVE  IInv'
<1>1. TypeOK'
  BY TypeNext DEF IInv, Next
<1>2. PICK segment \in Segments, kind \in Kinds :
        Stamp(w, FALSE,
              [t \in Slots |-> IF t \in segment THEN Evidence(kind, source.revision + 1)
                               ELSE evidence[t]], {})
  BY DEF StampChange
<1> DEFINE new == [t \in Slots |-> IF t \in segment THEN Evidence(kind, source.revision + 1)
                                   ELSE evidence[t]]
<1>3. source.revision + 1 \in 0..MaxRevision
  BY <1>2, ConstantsAssumption DEF Stamp, IInv, TypeOK, Source
<1>4. /\ Evidence(kind, source.revision + 1) \in Payload
      /\ Evidence(kind, source.revision + 1).basis \in {0, source.revision + 1}
  BY <1>3, PayloadType
<1>5. new \in [Slots -> Payload]
  BY <1>4 DEF IInv, TypeOK
<1>6. \A t \in Slots : new[t].basis \in {0, evidence[t].basis, source.revision + 1}
  BY <1>4
<1>7. Stamp(w, FALSE, new, {})
  BY <1>2
<1> HIDE DEF new
<1>8. FALSE \in BOOLEAN /\ {} \in SUBSET (1..MaxRevision)
  OBVIOUS
<1>9. /\ \A t \in Slots : /\ new[t].basis \in {0, evidence[t].basis, source.revision + 1}
                          /\ new[t].basis \notin {}
      /\ \A b \in {} : b <= source.revision
  BY <1>6
<1> QED
  BY <1>1, <1>5, <1>7, <1>8, <1>9, StampInv

LEMMA StampRevocationInv ==
  ASSUME IInv, NEW w \in Writers, StampRevocation(w)
  PROVE  IInv'
<1>1. TypeOK'
  BY TypeNext DEF IInv, Next
<1>2. PICK withdrawn \in SUBSET (1..source.revision), kind \in Kinds \ {"fresh"} :
        Stamp(w, TRUE,
              [t \in Slots |-> IF evidence[t].basis \in withdrawn
                               THEN Evidence(kind, source.revision + 1)
                               ELSE evidence[t]], withdrawn)
  BY DEF StampRevocation
<1> DEFINE new == [t \in Slots |-> IF evidence[t].basis \in withdrawn
                                   THEN Evidence(kind, source.revision + 1)
                                   ELSE evidence[t]]
<1>3. source.revision + 1 \in 0..MaxRevision
  BY <1>2, ConstantsAssumption DEF Stamp, IInv, TypeOK, Source
<1>4. /\ Evidence(kind, source.revision + 1) \in Payload
      /\ Evidence(kind, source.revision + 1).basis \in {0, source.revision + 1}
  BY <1>3, PayloadType
<1>5. new \in [Slots -> Payload]
  BY <1>4 DEF IInv, TypeOK
<1>9. withdrawn \in SUBSET (1..MaxRevision) /\ \A b \in withdrawn : b <= source.revision
  <2>1. source.revision \in 0..MaxRevision /\ MaxRevision \in Nat
    BY ConstantsAssumption DEF IInv, TypeOK, Source
  <2> QED
    BY <2>1
<1>6. 0 \notin withdrawn /\ source.revision + 1 \notin withdrawn
  BY DEF IInv, TypeOK, Source
<1>7. \A t \in Slots : /\ new[t].basis \in {0, evidence[t].basis, source.revision + 1}
                       /\ new[t].basis \notin withdrawn
  BY <1>4, <1>6
<1>8. Stamp(w, TRUE, new, withdrawn)
  BY <1>2
<1> HIDE DEF new
<1> QED
  BY <1>1, <1>5, <1>7, <1>8, <1>9, StampInv

\* The commit of a source transaction: rows of withdrawn evidence become
\* revoked, and no boundary moves behind a withdrawal.
LEMMA CommitSourceInv ==
  ASSUME IInv, NEW w \in Writers, CommitSource(w)
  PROVE  IInv'
<1>1. TypeOK'
  BY TypeNext DEF IInv, Next
<1> DEFINE stmtAt == writer[w].stmtAt
<1>2. PICK revoke \in BOOLEAN :
         source' = Stamped(revoke, stmtAt) /\ (~revoke => writer[w].withdrawn = {})
  BY DEF CommitSource, IInv, WritersSerial, StampedWriter
<1>3. /\ source'.revision = source.revision + 1
      /\ revoke => /\ source'.invalidatedRevision = source.revision + 1
                   /\ source'.invalidatedAt = InvalidationClock(stmtAt)
      /\ ~revoke => /\ source'.invalidatedRevision = source.invalidatedRevision
                    /\ source'.invalidatedAt = source.invalidatedAt
  BY <1>2 DEF Stamped
<1>4. /\ source.revision \in Nat /\ source.invalidatedRevision \in Nat
      /\ source.invalidatedAt \in Int /\ stmtAt \in Nat /\ clock \in Nat
      /\ stmtAt <= clock /\ source.invalidatedAt <= clock
  BY ConstantsAssumption DEF IInv, TypeOK, Source, NoTime, WriterState, ClocksPast
<1>5. revoke => InvalidationClock(stmtAt) \in Nat /\ InvalidationClock(stmtAt) <= clock
  BY <1>4 DEF InvalidationClock, IInv, TypeOK, Source
<1>6. UNCHANGED <<clock, generations, results, shown, producer>> /\ Generations' = Generations
  BY DEF CommitSource, publicationVars, Generations
<1>7. /\ writer'[w] = NoWriter /\ \A v \in Writers \ {w} : writer'[v] = writer[v]
  BY DEF CommitSource, IInv, TypeOK
<1>8. \A b \in 1..MaxRevision :
         /\ b \in writer[w].withdrawn /\ revokedAt[b] = NoTime => revokedAt'[b] = clock
         /\ ~(b \in writer[w].withdrawn /\ revokedAt[b] = NoTime) => revokedAt'[b] = revokedAt[b]
  BY DEF CommitSource
<1>9. ClocksPast'
  BY <1>3, <1>4, <1>5, <1>6, <1>7 DEF IInv, ClocksPast, NoWriter
<1>10. InvalidationKnown'
  BY <1>3, <1>4, <1>5 DEF IInv, InvalidationKnown, NoTime
<1>11. GenerationsPast'
  <2>1. \A g \in Generations : generations[g].revision \in Nat
    BY GenerationType DEF IInv
  <2> QED
    BY <1>3, <1>4, <1>6, <2>1 DEF IInv, GenerationsPast
<1>12. OnlyOldWithdrawn'
  <2> SUFFICES ASSUME NEW b \in 1..MaxRevision, revokedAt'[b] # NoTime
               PROVE  b <= source'.revision /\ revokedAt'[b] <= clock'
    BY DEF OnlyOldWithdrawn
  <2>1. CASE revokedAt[b] # NoTime
    BY <1>3, <1>4, <1>6, <1>8, <2>1 DEF IInv, OnlyOldWithdrawn
  <2>2. CASE revokedAt[b] = NoTime
    <3>1. b \in writer[w].withdrawn /\ revokedAt'[b] = clock
      BY <1>8, <2>2
    <3>2. b <= source.revision
      BY <3>1 DEF CommitSource, IInv, WritersSerial, StampedWriter
    <3>3. revokedAt'[b] <= clock'
      BY <1>4, <1>6, <3>1
    <3> QED
      BY <1>3, <1>4, <3>2, <3>3
  <2> QED
    BY <2>1, <2>2
<1>13. EvidenceStands'
  <2> SUFFICES ASSUME NEW t \in Slots, Withdrawn(evidence[t])' PROVE FALSE
    BY DEF EvidenceStands
  <2>1. /\ evidence'[t] = writer[w].evidence[t]
        /\ ~Withdrawn(writer[w].evidence[t])
        /\ writer[w].evidence[t].basis \notin writer[w].withdrawn
        /\ writer[w].evidence[t].basis \in 0..MaxRevision
    BY DEF CommitSource, IInv, WritersSerial, StampedWriter, TypeOK, WriterState, Payload
  <2> QED
    BY <1>8, <2>1 DEF Withdrawn
<1>14. WritersSerial'
  <2>1. \A v \in Writers : writer'[v].phase # "stamped"
    BY <1>7 DEF CommitSource, IInv, WritersSerial, NoWriter
  <2> QED
    BY <2>1 DEF WritersSerial
<1>15. SnapshotFaithful' /\ MergedAnswerable'
  <2>1. producer'.phase # "idle" => /\ producer'.revision <= source'.revision
                                    /\ producer'.revision # source'.revision
    BY <1>3, <1>4, <1>6 DEF IInv, SnapshotFaithful, TypeOK, ProducerState
  <2> QED
    BY <2>1 DEF SnapshotFaithful, MergedAnswerable
<1>16. RowsAnswerable(results)'
  <2> SUFFICES ASSUME NEW r \in results
               PROVE  /\ r.generation \in Generations
                      /\ Withdrawn(r.content)' =>
                           /\ Revoked(r)'
                           /\ \/ r.finish <= revokedAt'[r.content.basis]
                              \/ source'.invalidatedAt <= revokedAt'[r.content.basis]
    BY <1>6 DEF RowsAnswerable
  <2>1. r.generation \in Generations
    BY DEF IInv, RowsAnswerable
  <2> DEFINE b == r.content.basis
  <2>2. /\ generations[r.generation].revision \in Nat
        /\ generations[r.generation].revision <= source.revision
        /\ b \in 0..MaxRevision /\ r.finish \in Nat
    <3>1. /\ generations[r.generation].revision \in Nat
          /\ generations[r.generation].revision <= source.revision
      BY <2>1, GenerationType DEF IInv, GenerationsPast
    <3>2. r \in Row
      BY DEF IInv, TypeOK
    <3>3. b \in 0..MaxRevision /\ r.finish \in Nat
      BY <3>2, SlotsType DEF Row, Payload
    <3> QED
      BY <3>1, <3>3
  <2>3. Revoked(r) => Revoked(r)'
    BY <1>3, <1>4, <1>6, <2>2 DEF Revoked, IInv, InvalidationKnown
  <2>4. CASE ~Withdrawn(r.content) /\ Withdrawn(r.content)'
    <3>1. b \in writer[w].withdrawn /\ revokedAt'[b] = clock
      BY <1>8, <2>2, <2>4 DEF Withdrawn
    <3>2. revoke
      BY <1>2, <3>1
    <3>3. Revoked(r)'
      BY <1>3, <1>4, <1>6, <2>2, <3>2 DEF Revoked
    <3>4. source'.invalidatedAt <= revokedAt'[b]
      BY <1>3, <1>5, <3>1, <3>2
    <3> QED
      BY <2>1, <3>3, <3>4
  <2>5. CASE Withdrawn(r.content)
    <3>1. /\ Revoked(r)
          /\ \/ r.finish <= revokedAt[b] \/ source.invalidatedAt <= revokedAt[b]
          /\ revokedAt'[b] = revokedAt[b] /\ revokedAt[b] \in Int
      BY <1>8, <2>2, <2>5 DEF IInv, RowsAnswerable, Withdrawn, TypeOK, NoTime
    <3>2. CASE source'.invalidatedAt = source.invalidatedAt
      BY <2>1, <2>3, <3>1, <3>2
    <3>3. CASE source'.invalidatedAt # source.invalidatedAt
      <4>1. source.invalidatedRevision # 0 /\ source.invalidatedAt # NoTime
        BY <1>4, <2>2, <3>1 DEF Revoked, IInv, InvalidationKnown
      <4>2. InvalidationAnswered
        BY <1>3, <3>3, <4>1 DEF InvalidationClock, InvalidationAnswered, Generations
      <4>3. r.finish <= source.invalidatedAt
        BY <3>1, <4>2 DEF IInv, RowsClipped
      <4>4. r.finish <= revokedAt[b]
        BY <1>4, <2>2, <3>1, <4>3
      <4> QED
        BY <2>1, <2>3, <3>1, <4>4
    <3> QED
      BY <3>2, <3>3
  <2> QED
    BY <2>1, <2>4, <2>5
<1>17. (InvalidationAnswered => RowsClipped(results))'
  <2>1. CASE revoke
    <3>1. \A g \in Generations : generations[g].revision \in Nat
                                /\ generations[g].revision <= source.revision
      BY GenerationType DEF IInv, GenerationsPast
    <3>2. ~InvalidationAnswered'
      BY <1>3, <1>4, <1>6, <2>1, <3>1 DEF InvalidationAnswered
    <3> QED
      BY <3>2
  <2>2. CASE ~revoke
    BY <1>3, <1>6, <2>2 DEF IInv, InvalidationAnswered, RowsClipped, Revoked
  <2> QED
    BY <2>1, <2>2
<1> QED
  BY <1>1, <1>9, <1>10, <1>11, <1>12, <1>13, <1>14, <1>15, <1>16, <1>17 DEF IInv

\* The steps of the producer other than reconciliation and commit.
LEMMA ProducerInv ==
  ASSUME IInv, TakeSnapshot \/ BeginPublication \/ Crash
  PROVE  IInv'
<1>1. TypeOK'
  BY TypeNext DEF IInv, Next
<1>2. /\ UNCHANGED <<clock, sourceVars, publicationVars>> /\ clock \in Nat
      /\ source.revision \in Nat
  BY ConstantsAssumption
  DEF TakeSnapshot, BeginPublication, Crash, IInv, TypeOK, Source
<1>3. /\ producer'.now <= clock /\ producer'.phase # "merged"
      /\ producer'.phase # "idle" =>
           \/ producer'.revision = source.revision /\ producer'.evidence = evidence
           \/ /\ producer.phase # "idle"
              /\ producer'.revision = producer.revision
              /\ producer'.evidence = producer.evidence
  <2>1. CASE TakeSnapshot
    BY <1>2, <2>1 DEF TakeSnapshot, IInv, TypeOK, ProducerState
  <2>2. CASE GiveUp
    BY <1>2, <2>2 DEF GiveUp, NoProducer
  <2>3. CASE BeginPublication /\ ~GiveUp
    BY <2>3 DEF BeginPublication, IInv, TypeOK, ProducerState, ClocksPast
  <2> QED
    BY <2>1, <2>2, <2>3 DEF Crash
<1>4. SnapshotFaithful'
  BY <1>2, <1>3 DEF IInv, SnapshotFaithful, sourceVars
<1>5. MergedAnswerable'
  BY <1>3 DEF MergedAnswerable
<1> QED
  BY <1>1, <1>2, <1>3, <1>4, <1>5, ProducerFrame

\* Reconciliation: new rows rest on the snapshot or on a lender, old rows are
\* parts of stored ones and revoked ones end at the invalidation.
LEMMA MergeResultsInv ==
  ASSUME IInv, MergeResults
  PROVE  IInv'
<1>1. TypeOK'
  BY TypeNext DEF IInv, Next
<1> DEFINE id     == Len(generations) + 1
           stale  == StaleGenerations(source.invalidatedRevision)
           staged == Runs(Retained, 0, MaxTime + Window, Absent, id)
           merged == MergeStage(results, staged, producer.now, DayStart(clock), stale,
                                source.invalidatedAt)
           pruned == PruneRows(merged, DayStart(clock), WindowEnd(clock))
<1>2. UNCHANGED <<clock, sourceVars, publicationVars>>
  BY DEF MergeResults
<1>3. /\ producer'.now = producer.now /\ producer'.phase = "merged"
      /\ producer'.revision = producer.revision /\ producer'.evidence = producer.evidence
      /\ producer'.results = pruned /\ producer.phase = "opened"
  BY DEF MergeResults, IInv, TypeOK, ProducerState
<1>4. /\ id \in Nat /\ clock \in Nat /\ producer.now \in Nat
      /\ source.invalidatedAt \in Int
      /\ DayStart(clock) \in Nat /\ WindowEnd(clock) \in Nat
  <2>1. id \in Nat /\ clock \in Nat
    BY ConstantsAssumption, LenProperties DEF IInv, TypeOK
  <2>2. producer.now \in Nat /\ source.invalidatedAt \in Int
    BY DEF IInv, TypeOK, ProducerState, Source, NoTime
  <2> QED
    BY <2>1, <2>2, DayType
<1>5. /\ Retained \in [Slots -> Payload]
      /\ \A t \in Slots :
            \/ Retained[t].basis = 0
            \/ \E u \in Slots : Retained[t].basis = producer.evidence[u].basis
            \/ \E r \in Lenders : Retained[t].basis = r.content.basis
  BY RetainedType DEF IInv, TypeOK
<1>6. ASSUME NEW s \in staged
      PROVE  /\ s \in Row /\ s.start < s.finish /\ s.generation = id
             /\ \E t \in Slots : s.content = Retained[t]
  <2> HIDE DEF id
  <2> QED
    BY <1>4, <1>5, StagedRows
<1>7. ASSUME NEW r \in merged
      PROVE  /\ r \in Row
             /\ \/ \E s \in staged : From(r, s)
                \/ /\ \E q \in results : Part(r, q)
                   /\ r.generation \in stale => r.finish <= source.invalidatedAt
  <2>1. /\ staged \in SUBSET RowSet(N, Nat, Payload)
        /\ \A s \in staged : s.start < s.finish
        /\ results \in SUBSET RowSet(N, Nat, Payload)
    BY <1>6, RowType DEF IInv, TypeOK
  <2> HIDE DEF staged, stale
  <2>2. /\ r \in RowSet(N, Nat, Payload)
        /\ \/ \E s \in staged : From(r, s)
           \/ /\ \E q \in results : Part(r, q)
              /\ r.generation \in stale => r.finish <= source.invalidatedAt
    BY <1>4, <1>7, <2>1, SlotsType, MergeStageRows
  <2> QED
    BY <2>2, RowType
<1>8. ASSUME NEW r \in pruned
      PROVE  \E q \in merged : Part(r, q) /\ q \in Row /\ r \in Row
  <2>1. merged \in SUBSET Row
    BY <1>7
  <2> HIDE DEF merged
  <2> QED
    BY <1>4, <1>8, <2>1, SlotsType, RowType, PruneRowsRows
<1> HIDE DEF merged, pruned, staged
<1>9. MergedAnswerable'
  <2> SUFFICES ASSUME producer.revision = source.revision, NEW r \in pruned
               PROVE  /\ r.generation = id => ~Withdrawn(r.content)
                      /\ r.generation # id =>
                           /\ r.generation \in Generations
                           /\ Withdrawn(r.content) =>
                                 /\ Revoked(r)
                                 /\ \/ r.finish <= revokedAt[r.content.basis]
                                    \/ source.invalidatedAt <= revokedAt[r.content.basis]
                           /\ Revoked(r) => r.finish <= source.invalidatedAt
    BY <1>2, <1>3 DEF MergedAnswerable, RowsAnswerable, RowsClipped, Generations, Revoked,
                      Withdrawn, sourceVars, publicationVars
  <2>1. PICK q \in merged : Part(r, q) /\ q \in Row /\ r \in Row
    BY <1>8
  <2>2. CASE \E s \in staged : From(q, s)
    <3>1. PICK t \in Slots : r.content = Retained[t] /\ r.generation = id
      BY <1>6, <2>1, <2>2 DEF Part, From
    <3>2. CASE Retained[t].basis = 0
      BY <3>1, <3>2 DEF Withdrawn
    <3>3. CASE \E u \in Slots : Retained[t].basis = producer.evidence[u].basis
      <4>1. producer.evidence = evidence
        BY <1>3 DEF IInv, SnapshotFaithful
      <4> QED
        BY <3>1, <3>3, <4>1 DEF IInv, EvidenceStands, Withdrawn
    <3>4. CASE \E l \in Lenders : Retained[t].basis = l.content.basis
      <4>1. PICK l \in Lenders : Retained[t].basis = l.content.basis
        BY <3>4
      <4>2. l \in results /\ l.generation \in Generations /\ ~Revoked(l)
        BY DEF Lenders, StaleGenerations, Revoked, IInv, RowsAnswerable, Generations
      <4> QED
        BY <3>1, <4>1, <4>2 DEF IInv, RowsAnswerable, Withdrawn
    <3> QED
      BY <1>5, <3>1, <3>2, <3>3, <3>4
  <2>3. CASE /\ \E p \in results : Part(q, p)
             /\ q.generation \in stale => q.finish <= source.invalidatedAt
    <3>1. PICK p \in results : Part(q, p)
      BY <2>3
    <3>2. p \in Row /\ p.generation \in Generations
      BY DEF IInv, TypeOK, RowsAnswerable
    <3>3. /\ r.generation = p.generation /\ r.content = p.content
          /\ r.finish <= p.finish /\ r.finish <= q.finish
          /\ r.finish \in Int /\ q.finish \in Int /\ p.finish \in Int
      BY <2>1, <3>1, <3>2, SlotsType DEF Part, From, Row
    <3>4. r.generation # id
      BY <3>2, <3>3, LenProperties DEF Generations, IInv, TypeOK
    <3>5. Withdrawn(r.content) =>
            /\ Revoked(r)
            /\ \/ r.finish <= revokedAt[r.content.basis]
               \/ source.invalidatedAt <= revokedAt[r.content.basis]
      <4> SUFFICES ASSUME Withdrawn(p.content)
                   PROVE  /\ Revoked(p)
                          /\ \/ r.finish <= revokedAt[p.content.basis]
                             \/ source.invalidatedAt <= revokedAt[p.content.basis]
        BY <3>3 DEF Revoked
      <4>1. revokedAt[p.content.basis] \in Int
        <5>1. p.content.basis \in 1..MaxRevision
          BY <3>2 DEF Row, Payload, Withdrawn
        <5> QED
          BY <5>1 DEF IInv, TypeOK, NoTime
      <4>2. /\ Revoked(p)
            /\ \/ p.finish <= revokedAt[p.content.basis]
               \/ source.invalidatedAt <= revokedAt[p.content.basis]
        BY DEF IInv, RowsAnswerable
      <4> QED
        BY <3>3, <4>1, <4>2
    <3>6. Revoked(r) => r.finish <= source.invalidatedAt
      <4>1. Revoked(r) => q.generation \in stale
        BY <2>1, <3>2, <3>3 DEF Revoked, StaleGenerations, Generations, Part, From
      <4> QED
        BY <1>4, <2>3, <3>3, <4>1
    <3> QED
      BY <3>2, <3>3, <3>4, <3>5, <3>6
  <2> QED
    BY <1>7, <2>1, <2>2, <2>3
<1>10. SnapshotFaithful' /\ producer'.now <= clock
  BY <1>2, <1>3 DEF IInv, SnapshotFaithful, ClocksPast, sourceVars
<1> QED
  BY <1>1, <1>2, <1>9, <1>10, ProducerFrame

\* The commit: the invalidation is answered, the rows are the merged ones.
LEMMA CommitPublicationInv ==
  ASSUME IInv, CommitPublication
  PROVE  IInv'
<1>1. TypeOK'
  BY TypeNext DEF IInv, Next
<1>2. /\ UNCHANGED <<clock, sourceVars>> /\ producer' = NoProducer
      /\ producer.phase = "merged" /\ ~RowLocked /\ clock \in Nat
  BY ConstantsAssumption DEF CommitPublication, GiveUp, IInv, TypeOK
<1>3. SnapshotFaithful' /\ MergedAnswerable' /\ producer'.now <= clock
  BY <1>2 DEF SnapshotFaithful, MergedAnswerable, NoProducer
<1>4. CASE source.revision # producer.revision
  BY <1>1, <1>2, <1>3, <1>4, ProducerFrame DEF CommitPublication
<1>5. CASE source.revision = producer.revision
  <2> DEFINE new == [revision |-> producer.revision, computedAt |-> producer.now]
             id  == Len(generations) + 1
  <2>1. /\ generations' = Append(generations, new) /\ results' = producer.results
        /\ new \in Generation
    BY <1>5 DEF CommitPublication, IInv, TypeOK, ProducerState, Generation
  <2>2. /\ Len(generations) \in Nat /\ Generations' = 1..id
        /\ generations'[id].revision = producer.revision
        /\ \A g \in Generations : generations'[g] = generations[g]
    BY <2>1, AppendProperties, LenProperties DEF Generations, IInv, TypeOK
  <2>3. ClocksPast' /\ InvalidationKnown' /\ OnlyOldWithdrawn' /\ EvidenceStands'
    BY <1>2, <1>3 DEF IInv, ClocksPast, InvalidationKnown, OnlyOldWithdrawn, EvidenceStands,
                      Withdrawn, sourceVars
  <2>4. GenerationsPast'
    <3> SUFFICES ASSUME NEW g \in 1..id PROVE generations'[g].revision <= source.revision
      BY <1>2, <2>2 DEF GenerationsPast, sourceVars
    <3>1. CASE g = id
      BY <1>5, <2>2, <3>1 DEF IInv, TypeOK, Source
    <3>2. CASE g # id
      <4>1. g \in Generations
        BY <2>2, <3>2 DEF Generations
      <4> QED
        BY <2>2, <4>1 DEF IInv, GenerationsPast
    <3> QED
      BY <3>1, <3>2
  <2>5. WritersSerial'
    BY <1>2 DEF WritersSerial, RowLocked, sourceVars
  <2>6. ASSUME NEW r \in results'
        PROVE  /\ r.generation \in Generations'
               /\ Withdrawn(r.content)' =>
                    /\ Revoked(r)'
                    /\ \/ r.finish <= revokedAt[r.content.basis]
                       \/ source.invalidatedAt <= revokedAt[r.content.basis]
               /\ Revoked(r)' => r.finish <= source.invalidatedAt
    <3>1. r \in producer.results
      BY <2>1
    <3>2. CASE r.generation = id
      <4>1. ~Withdrawn(r.content)'
        BY <1>2, <1>5, <3>1, <3>2 DEF IInv, MergedAnswerable, Withdrawn, sourceVars
      <4>2. ~Revoked(r)'
        <5>1. source.invalidatedRevision <= source.revision
              /\ source.invalidatedRevision \in Nat /\ source.revision \in Nat
          BY DEF IInv, InvalidationKnown, TypeOK, Source
        <5> QED
          BY <1>2, <1>5, <2>2, <3>2, <5>1 DEF Revoked, sourceVars
      <4> QED
        BY <2>2, <3>2, <4>1, <4>2
    <3>3. CASE r.generation # id
      <4>1. /\ r.generation \in Generations
            /\ Withdrawn(r.content) =>
                 /\ Revoked(r)
                 /\ \/ r.finish <= revokedAt[r.content.basis]
                    \/ source.invalidatedAt <= revokedAt[r.content.basis]
            /\ Revoked(r) => r.finish <= source.invalidatedAt
        BY <1>2, <1>5, <3>1, <3>3 DEF IInv, MergedAnswerable, RowsAnswerable, RowsClipped
      <4>2. /\ Revoked(r)' <=> Revoked(r)
            /\ Withdrawn(r.content)' <=> Withdrawn(r.content)
        BY <1>2, <2>2, <4>1 DEF Revoked, Withdrawn, sourceVars
      <4>3. r.generation \in Generations'
        BY <2>2, <4>1 DEF Generations
      <4> QED
        BY <4>1, <4>2, <4>3
    <3> QED
      BY <3>2, <3>3
  <2>7. RowsAnswerable(results)' /\ RowsClipped(results)'
    BY <1>2, <2>6 DEF RowsAnswerable, RowsClipped, sourceVars
  <2> QED
    BY <1>1, <1>3, <2>3, <2>4, <2>5, <2>7 DEF IInv
<1> QED
  BY <1>4, <1>5

\* Retention leaves parts of rows.
LEMMA PruneResultsInv ==
  ASSUME IInv, PruneResults
  PROVE  IInv'
<1>1. TypeOK'
  BY TypeNext DEF IInv, Next
<1>2. UNCHANGED <<clock, sourceVars, generations, producer>> /\ producer.phase = "idle"
  BY DEF PruneResults
<1>3. ASSUME NEW r \in results'
      PROVE  \E q \in results : Part(r, q) /\ q \in Row /\ r \in Row
  <2>1. clock \in Nat
    BY ConstantsAssumption DEF IInv, TypeOK
  <2>2. results \in SUBSET RowSet(N, Nat, Payload)
        /\ results' \in PruneOutcomes(results, DayStart(clock), WindowEnd(clock))
        /\ DayStart(clock) \in Nat /\ WindowEnd(clock) \in Nat
    BY <2>1, DayType, RowType DEF PruneResults, IInv, TypeOK
  <2>3. \E q \in results : Part(r, q)
    BY <1>3, <2>2, SlotsType, PruneOutcomesRows
  <2> QED
    BY <1>1, <2>3 DEF IInv, TypeOK
<1>4. ClocksPast' /\ InvalidationKnown' /\ GenerationsPast' /\ OnlyOldWithdrawn'
  BY <1>2 DEF IInv, ClocksPast, InvalidationKnown, GenerationsPast, OnlyOldWithdrawn,
              Generations, sourceVars
<1>5. EvidenceStands' /\ SnapshotFaithful' /\ MergedAnswerable'
  BY <1>2 DEF IInv, EvidenceStands, SnapshotFaithful, MergedAnswerable, Withdrawn, sourceVars
<1>6. WritersSerial'
  BY <1>2 DEF IInv, WritersSerial, StampedWriter, Stamped, InvalidationClock, Withdrawn,
              sourceVars
<1>7. ASSUME NEW r \in results'
      PROVE  /\ r.generation \in Generations
             /\ Withdrawn(r.content) =>
                  /\ Revoked(r)
                  /\ \/ r.finish <= revokedAt[r.content.basis]
                     \/ source.invalidatedAt <= revokedAt[r.content.basis]
             /\ InvalidationAnswered /\ Revoked(r) => r.finish <= source.invalidatedAt
  <2>1. PICK q \in results : Part(r, q) /\ q \in Row /\ r \in Row
    BY <1>3
  <2>2. /\ r.generation = q.generation /\ r.content = q.content /\ r.finish <= q.finish
        /\ r.finish \in Int /\ q.finish \in Int /\ source.invalidatedAt \in Int
    BY <2>1, SlotsType DEF Part, From, Row, IInv, TypeOK, Source, NoTime
  <2>3. Withdrawn(q.content) => revokedAt[q.content.basis] \in Int
    BY <2>1 DEF Withdrawn, Row, Payload, IInv, TypeOK, NoTime
  <2>4. q.generation \in Generations
    BY DEF IInv, RowsAnswerable
  <2>5. ASSUME Withdrawn(r.content)
        PROVE  /\ Revoked(r)
               /\ \/ r.finish <= revokedAt[r.content.basis]
                  \/ source.invalidatedAt <= revokedAt[r.content.basis]
    <3>1. /\ Revoked(q)
          /\ \/ q.finish <= revokedAt[q.content.basis]
             \/ source.invalidatedAt <= revokedAt[q.content.basis]
      BY <2>2, <2>5 DEF IInv, RowsAnswerable
    <3>2. Revoked(r)
      BY <2>2, <3>1 DEF Revoked
    <3> QED
      BY <2>2, <2>3, <2>5, <3>1, <3>2
  <2>6. ASSUME InvalidationAnswered, Revoked(r) PROVE r.finish <= source.invalidatedAt
    <3>1. q.finish <= source.invalidatedAt
      BY <2>2, <2>6 DEF IInv, RowsClipped, Revoked
    <3> QED
      BY <2>2, <3>1
  <2> QED
    BY <2>2, <2>4, <2>5, <2>6
<1>8. RowsAnswerable(results)' /\ (InvalidationAnswered => RowsClipped(results))'
  BY <1>2, <1>7 DEF RowsAnswerable, RowsClipped, InvalidationAnswered, Generations, Revoked,
                    Withdrawn, sourceVars
<1> QED
  BY <1>1, <1>4, <1>5, <1>6, <1>8 DEF IInv

LEMMA InvNext == IInv /\ [Next]_vars => IInv'
<1> SUFFICES ASSUME IInv, [Next]_vars PROVE IInv'
  OBVIOUS
<1>1. CASE UNCHANGED vars
  BY <1>1, TypeNext, ProducerFrame
  DEF vars, sourceVars, publicationVars, IInv, ClocksPast, SnapshotFaithful, MergedAnswerable,
      RowsAnswerable, RowsClipped, Generations, Revoked, Withdrawn
<1> QED
  BY <1>1, TickInv, StartStatementInv, StampChangeInv, StampRevocationInv, CommitSourceInv,
     RollBackSourceInv, ProducerInv, MergeResultsInv, CommitPublicationInv, PruneResultsInv
  DEF Next

THEOREM Invariance == Spec => []IInv
BY InvInit, InvNext, PTL DEF Spec

-----------------------------------------------------------------------------
(* What readers and the producer can rely on.                              *)

\* The variables keep their types: rows stay well-formed through every merge,
\* split, reuse and prune, and revisions stay within their bound.
THEOREM TypeCorrect == Spec => []TypeOK
<1>1. IInv => TypeOK
  BY DEF IInv
<1> QED
  BY Invariance, <1>1, PTL

\* read_condition_set picks an eligible row.
LEMMA ServedRow ==
  ASSUME IInv, NEW at, Served(at, clock).basis # 0
  PROVE  \E r \in Eligible(at, clock) : Served(at, clock) = r.content
<1>1. Eligible(at, clock) \in SUBSET Row
  BY DEF Eligible, IInv, TypeOK
<1>2. Served(at, clock) = LentAt(Eligible(at, clock))
  BY DEF Served, LentAt
<1>3. Eligible(at, clock) # {}
  BY <1>2, PayloadType DEF LentAt
<1> QED
  BY <1>1, <1>2, <1>3, LentRow

LEMMA PresentIsSound == IInv => NoWithdrawnEvidenceServed
<1> SUFFICES ASSUME IInv, NEW at \in ReadableInstants, at >= clock,
                    Withdrawn(Served(at, clock))
             PROVE  FALSE
  BY DEF NoWithdrawnEvidenceServed
<1>1. PICK r \in Eligible(at, clock) : Served(at, clock) = r.content
  BY ServedRow DEF Withdrawn
<1>2. r \in results /\ r \in Row /\ r.generation \in Generations /\ Revoked(r)
  BY <1>1 DEF Eligible, IInv, TypeOK, RowsAnswerable
<1>3. at \in Int /\ clock \in Int /\ r.finish \in Int /\ source.invalidatedAt \in Int
  BY <1>2, SlotsType, ConstantsAssumption
  DEF ReadableInstants, IInv, TypeOK, Row, Source, NoTime
<1>4. /\ r.finish > at
      /\ Latest.revision >= source.invalidatedRevision
  BY <1>2, <1>3 DEF Eligible
<1>5. InvalidationAnswered
  <2>1. Len(generations) \in Generations
    BY <1>2, LenProperties DEF Generations, IInv, TypeOK
  <2> QED
    BY <1>4, <2>1 DEF InvalidationAnswered, Latest
<1>6. r.finish <= source.invalidatedAt /\ source.invalidatedAt <= clock
  BY <1>2, <1>5 DEF IInv, RowsClipped, ClocksPast
<1> QED
  BY <1>3, <1>4, <1>6

LEMMA PastIsSound == IInv => WithdrawnEvidenceEndsAtCorrection
<1> SUFFICES ASSUME IInv, NEW at \in ReadableInstants, Withdrawn(Served(at, clock))
             PROVE  at < revokedAt[Served(at, clock).basis]
  BY DEF WithdrawnEvidenceEndsAtCorrection
<1>1. PICK r \in Eligible(at, clock) : Served(at, clock) = r.content
  BY ServedRow DEF Withdrawn
<1>2. /\ r \in results /\ r \in Row /\ Revoked(r)
      /\ \/ r.finish <= revokedAt[r.content.basis]
         \/ source.invalidatedAt <= revokedAt[r.content.basis]
  BY <1>1 DEF Eligible, IInv, TypeOK, RowsAnswerable
<1>3. /\ at \in Int /\ clock \in Int /\ r.finish \in Int /\ source.invalidatedAt \in Int
      /\ revokedAt[r.content.basis] \in Int
  <2>1. r.content.basis \in 1..MaxRevision
    BY <1>1, <1>2 DEF Withdrawn, Row, Payload
  <2> QED
    BY <1>2, <2>1, SlotsType, ConstantsAssumption
    DEF ReadableInstants, IInv, TypeOK, Row, Source, NoTime
<1>4. at < clock
  BY <1>3, PresentIsSound DEF NoWithdrawnEvidenceServed
<1>5. r.finish > at /\ at < source.invalidatedAt
  BY <1>2, <1>3, <1>4 DEF Eligible
<1> QED
  BY <1>1, <1>2, <1>3, <1>5

\* A reader never gets, for the present or the future, content that rests on
\* withdrawn evidence: for every number of instants, source changes, writers
\* and crashes, in both modes.
THEOREM NoWithdrawnEvidence == Spec => []NoWithdrawnEvidenceServed
BY Invariance, PresentIsSound, PTL

\* Of the past, withdrawn evidence answers only for what precedes its withdrawal.
THEOREM WithdrawnEvidenceEnds == Spec => []WithdrawnEvidenceEndsAtCorrection
BY Invariance, PastIsSound, PTL

\* A generation becomes visible only while the revision it read is the committed
\* one, and then the evidence it read is the committed evidence too.
THEOREM CurrentEvidencePublished == Spec => PublishesCurrentEvidence
<1>1. IInv /\ [Next]_vars =>
        [generations' # generations => /\ Latest'.revision = source.revision
                                       /\ producer.evidence = evidence]_vars
  <2> SUFFICES ASSUME IInv, Next, generations' # generations
               PROVE  Latest'.revision = source.revision /\ producer.evidence = evidence
    BY DEF vars
  <2>1. CommitPublication /\ source.revision = producer.revision
    BY DEF Next, Tick, StartStatement, StampChange, StampRevocation, Stamp, CommitSource,
           RollBackSource, TakeSnapshot, BeginPublication, MergeResults, CommitPublication,
           Crash, PruneResults, publicationVars
  <2>2. generations' = Append(generations, [revision |-> producer.revision,
                                            computedAt |-> producer.now])
    BY <2>1 DEF CommitPublication
  <2>3. Latest'.revision = producer.revision
    <3>1. [revision |-> producer.revision, computedAt |-> producer.now] \in Generation
      BY DEF IInv, TypeOK, ProducerState, Generation
    <3> QED
      BY <2>2, <3>1, AppendProperties DEF IInv, TypeOK, Latest
  <2>4. producer.evidence = evidence
    BY <2>1 DEF CommitPublication, IInv, SnapshotFaithful
  <2> QED
    BY <2>1, <2>3, <2>4
<1> QED
  BY Invariance, <1>1, PTL DEF Spec, PublishesCurrentEvidence
-----------------------------------------------------------------------------
(* What the rows show, instant by instant: a second invariant on top of the *)
(* first, for the completeness of a generation and the promise to readers.  *)

\* The rows say content at instant t.
Said(rows, t, content) ==
  /\ \A r \in rows : At(r, t) => content # Absent /\ r.content = content
  /\ content # Absent => \E r \in rows : At(r, t)

\* Generations were calculated one after the other.
Successive ==
  \A g \in Generations :
     /\ generations[g].computedAt <= Latest.computedAt
     /\ generations[g].computedAt <= clock
     /\ producer.phase # "idle" => generations[g].computedAt <= producer.now

\* Nothing is shown beyond the window.
ShownInWindow ==
  \A t \in Slots : /\ shown[t] # Absent => t < WindowEnd(clock)
                   /\ producer.shown[t] # Absent => t < WindowEnd(clock)

LatestShown ==
  generations # <<>> =>
    \A t \in Slots : (Latest.computedAt <= t /\ DayStart(clock) <= t) => Said(results, t, shown[t])

MergedShown ==
  producer.phase = "merged" =>
    \A t \in Slots : producer.now <= t =>
      /\ \A r \in producer.results : At(r, t) => /\ producer.shown[t] # Absent
                                                 /\ r.content = producer.shown[t]
      /\ DayStart(clock) <= t => Said(producer.results, t, producer.shown[t])

\* A restriction in the evidence is shown.
Restricts(content, known, from) ==
  \A t \in Slots : (from <= t /\ t < WindowEnd(from) /\ known[t].kind = "blocked")
                     => content[t].kind = "blocked"

MergedRestricts ==
  producer.phase = "merged" => Restricts(producer.shown, producer.evidence, producer.now)

LatestRestricts ==
  (generations # <<>> /\ Latest.revision = source.revision) =>
    Restricts(shown, evidence, Latest.computedAt)

\* While the revision stands, what is about to be published rests on nothing
\* withdrawn and leaves the readable past as it is, but for gaps and what is
\* out of the window.
MergedStands ==
  (producer.phase = "merged" /\ producer.revision = source.revision) =>
    \A t \in Slots : ~Withdrawn(producer.shown[t])

MergedPast ==
  (producer.phase = "merged" /\ producer.revision = source.revision) =>
    \A t \in Slots : t < producer.now =>
      /\ \A r \in producer.results : At(r, t) =>
           \/ r.content = Readable[t]
           \/ Readable[t] = Absent /\ r.generation = Len(generations) + 1
      /\ (DayStart(clock) <= t /\ t < WindowEnd(clock) /\ Readable[t] # Absent) =>
           \E r \in producer.results : At(r, t)

SInv ==
  /\ Tidy(results) /\ Tidy(producer.results)
  /\ Successive
  /\ ShownInWindow
  /\ LatestShown
  /\ MergedShown
  /\ MergedRestricts
  /\ LatestRestricts
  /\ MergedStands
  /\ MergedPast

\* A day that begins by x begins by the start of x's day.
LEMMA DayFacts ==
  ASSUME NEW c \in Nat, NEW x \in Nat
  PROVE  /\ DayStart(c) \in Nat /\ DayStart(c) <= c
         /\ WindowEnd(c) = DayStart(c) + Window
         /\ DayStart(c) <= x => DayStart(c) <= DayStart(x)
<1> DEFINE q == c \div DayLength
           p == x \div DayLength
<1>1. \A a, b \in Nat : a * b \in Nat
  OBVIOUS
<1>2. DayLength \in Nat \ {0} /\ DayLength > 0
  BY ConstantsAssumption
<1>3. q \in Nat /\ q * DayLength <= c
  BY <1>2
<1>4. p \in Nat /\ x < (p + 1) * DayLength
  BY <1>2
<1>5. DayStart(c) = q * DayLength /\ DayStart(x) = p * DayLength
  BY DEF DayStart
<1> HIDE DEF p, q
<1>6. \A a, b \in Nat : a <= b => a * DayLength <= b * DayLength
  BY <1>2
<1>7. ASSUME q * DayLength <= x PROVE q <= p
  <2> SUFFICES ASSUME p + 1 <= q PROVE FALSE
    BY <1>3, <1>4
  <2>1. (p + 1) * DayLength <= q * DayLength
    BY <1>3, <1>4, <1>6
  <2>2. (p + 1) * DayLength \in Nat /\ q * DayLength \in Nat
    BY <1>1, <1>2, <1>3, <1>4
  <2> QED
    BY <1>4, <1>7, <2>1, <2>2
<1> QED
  BY <1>1, <1>2, <1>3, <1>4, <1>5, <1>6, <1>7 DEF WindowEnd

\* What readers get at an instant is the content of a stored row.
LEMMA ReadableIs ==
  ASSUME TypeOK, Tidy(results), NEW t \in Slots
  PROVE  /\ \A r \in results : (At(r, t) /\ (Revoked(r) => t < source.invalidatedAt))
                                 => Readable[t] = r.content
         /\ Readable[t] = Absent \/
              \E r \in results : /\ At(r, t) /\ (Revoked(r) => t < source.invalidatedAt)
                                 /\ Readable[t] = r.content
         /\ Readable[t] \in Payload
<1> DEFINE rows == {r \in RowsAt(results, t) : ~Revoked(r) \/ t < source.invalidatedAt}
<1>1. Readable[t] = IF rows = {} THEN Absent ELSE (CHOOSE r \in rows : TRUE).content
  BY DEF Readable
<1>2. ASSUME NEW r \in rows, NEW q \in rows PROVE r = q
  <2>1. r \in Row /\ q \in Row /\ r \in results /\ q \in results
        /\ r.start <= t /\ t < r.finish /\ q.start <= t /\ t < q.finish
    BY DEF TypeOK, RowsAt
  <2>2. ShareInstant(r, q)
    BY <2>1, SlotsType DEF Row, ShareInstant
  <2> QED
    BY <2>1, <2>2 DEF Tidy, NoOverlap
<1>3. /\ \A r \in results : (At(r, t) /\ (Revoked(r) => t < source.invalidatedAt)) <=> r \in rows
      /\ rows \subseteq results
  BY DEF At, RowsAt
<1>4. \A r \in results : r.content \in Payload
  BY DEF TypeOK, Row
<1> HIDE DEF rows
<1>5. CASE rows = {}
  BY <1>1, <1>3, <1>5, PayloadType
<1>6. CASE rows # {}
  <2>1. PICK r \in rows : r = CHOOSE q \in rows : TRUE
    BY <1>6
  <2>2. Readable[t] = r.content
    BY <1>1, <1>6, <2>1
  <2> QED
    BY <1>2, <1>3, <1>4, <2>1, <2>2
<1> QED
  BY <1>5, <1>6

\* What a calculation shows lies in the window of its instant, and a
\* restriction that it read is shown.
LEMMA RetainedShows ==
  ASSUME TypeOK
  PROVE  /\ \A t \in Slots : Retained[t] # Absent => t < WindowEnd(producer.now)
         /\ Restricts(Retained, producer.evidence, producer.now)
<1> DEFINE known == {u \in Slots : producer.evidence[u] # Absent}
           from == IF Mode = "observation" THEN producer.now ELSE DayStart(producer.now)
           InScope(t) == /\ from <= t /\ t < WindowEnd(producer.now)
                         /\ IF Mode = "observation" THEN known # {}
                            ELSE \E u \in known : t <= u
           lastSaid(t) ==
             LET said == {u \in producer.now..t : Calculated[u].kind # "missing"}
             IN IF said = {} THEN LentAt({r \in Lenders : r.start <= producer.now})
                ELSE Calculated[Max(said)]
           previous(t) == IF Mode = "observation" THEN lastSaid(t)
                          ELSE LentAt(RowsAt(Lenders, t))
<1>1. \A t \in Slots : Calculated[t] = IF ~InScope(t) THEN Absent
                                       ELSE IF t \in known THEN producer.evidence[t] ELSE Missing
  BY DEF Calculated
<1>2. \A t \in Slots : Retained[t] = IF Calculated[t] = Absent THEN Absent
                                     ELSE Retain(previous(t), Calculated[t])
  BY DEF Retained
<1> HIDE DEF previous
<1>3. ASSUME NEW t \in Slots, Retained[t] # Absent PROVE t < WindowEnd(producer.now)
  BY <1>1, <1>2, <1>3
<1>4. ASSUME NEW t \in Slots, producer.now <= t, t < WindowEnd(producer.now),
             producer.evidence[t].kind = "blocked"
      PROVE  Retained[t].kind = "blocked"
  <2>1. t \in known
    BY <1>4 DEF Absent, Plain
  <2>2. t \in Nat /\ producer.now \in Nat /\ DayStart(producer.now) <= producer.now
        /\ DayStart(producer.now) \in Nat
    BY SlotsType, DayFacts DEF TypeOK, ProducerState
  <2>3. InScope(t)
    BY <1>4, <2>1, <2>2
  <2>4. Calculated[t] = producer.evidence[t]
    BY <1>1, <2>1, <2>3
  <2>5. Retain(previous(t), Calculated[t]) = Calculated[t]
    BY <1>4, <2>4 DEF Retain
  <2>6. Calculated[t] # Absent
    BY <1>4, <2>4 DEF Absent, Plain
  <2> QED
    BY <1>2, <1>4, <2>4, <2>5, <2>6
<1> QED
  BY <1>3, <1>4 DEF Restricts

LEMMA ShapeInit == Init => SInv
<1> SUFFICES ASSUME Init PROVE SInv
  OBVIOUS
<1>1. generations = <<>> /\ results = {} /\ producer = NoProducer
      /\ shown = [t \in Slots |-> Absent] /\ producer.shown = shown
  BY DEF Init, NoProducer
<1>2. Tidy(results) /\ Tidy(producer.results)
  BY <1>1 DEF Tidy, NoOverlap, NoProducer
<1>3. Successive /\ ShownInWindow /\ LatestShown /\ LatestRestricts
  BY <1>1 DEF Successive, Generations, ShownInWindow, LatestShown, LatestRestricts
<1>4. MergedShown /\ MergedRestricts /\ MergedStands /\ MergedPast
  BY <1>1 DEF MergedShown, MergedRestricts, MergedStands, MergedPast, NoProducer
<1> QED
  BY <1>2, <1>3, <1>4 DEF SInv

\* The producer's steps other than reconciliation and commit.
LEMMA ShapeProducer ==
  ASSUME IInv, SInv, TakeSnapshot \/ BeginPublication \/ Crash
  PROVE  SInv'
<1>1. /\ UNCHANGED <<clock, sourceVars, publicationVars>>
      /\ Generations' = Generations
      /\ \A t \in Slots : producer'.shown[t] # Absent => t < WindowEnd(clock)
      /\ Tidy(producer'.results) /\ producer'.phase # "merged"
      /\ producer'.phase # "idle" => \/ producer'.now = clock
                                     \/ producer.phase # "idle" /\ producer'.now = producer.now
  <2>1. UNCHANGED <<clock, sourceVars, publicationVars>>
    BY DEF TakeSnapshot, BeginPublication, Crash
  <2>2. CASE GiveUp
    BY <2>1, <2>2 DEF GiveUp, NoProducer, Tidy, NoOverlap, publicationVars, Generations
  <2>3. CASE TakeSnapshot
    BY <2>1, <2>3 DEF TakeSnapshot, IInv, TypeOK, ProducerState, SInv, ShownInWindow,
                      publicationVars, Generations
  <2>4. CASE BeginPublication /\ ~GiveUp
    BY <2>1, <2>4 DEF BeginPublication, IInv, TypeOK, ProducerState, SInv, ShownInWindow,
                      publicationVars, Generations
  <2> QED
    BY <2>2, <2>3, <2>4 DEF Crash
<1>2. Tidy(results)' /\ ShownInWindow' /\ LatestShown' /\ LatestRestricts'
  BY <1>1 DEF SInv, ShownInWindow, LatestShown, LatestRestricts, Latest, Said, publicationVars,
              sourceVars, WindowEnd, DayStart, Restricts
<1>3. Successive'
  BY <1>1 DEF SInv, Successive, Latest, publicationVars
<1>4. MergedShown' /\ MergedRestricts' /\ MergedStands' /\ MergedPast'
  BY <1>1 DEF MergedShown, MergedRestricts, MergedStands, MergedPast
<1> QED
  BY <1>1, <1>2, <1>3, <1>4 DEF SInv

\* Open source transactions are not seen.
LEMMA ShapeWriter ==
  ASSUME SInv, UNCHANGED <<clock, source, evidence, revokedAt, publicationVars, producer>>
  PROVE  SInv'
<1>1. Readable' = Readable /\ Latest' = Latest /\ Generations' = Generations
  BY DEF Readable, Latest, Generations, RowsAt, Revoked, publicationVars
<1>2. Tidy(results)' /\ Tidy(producer.results)' /\ Successive' /\ ShownInWindow'
  BY <1>1 DEF SInv, Successive, ShownInWindow, WindowEnd, DayStart, publicationVars
<1>3. LatestShown' /\ MergedShown' /\ MergedRestricts' /\ LatestRestricts'
  BY <1>1 DEF SInv, LatestShown, MergedShown, MergedRestricts, LatestRestricts, Restricts,
              Said, WindowEnd, DayStart, publicationVars
<1>4. MergedStands' /\ MergedPast'
  BY <1>1 DEF SInv, MergedStands, MergedPast, Withdrawn, WindowEnd, DayStart, publicationVars
<1> QED
  BY <1>2, <1>3, <1>4 DEF SInv

LEMMA ShapeTick ==
  ASSUME IInv, SInv, Tick
  PROVE  SInv'
<1>1. /\ UNCHANGED <<source, evidence, revokedAt, generations, results, shown, producer>>
      /\ clock \in Nat /\ clock' = clock + 1
  BY ConstantsAssumption DEF Tick, sourceVars, publicationVars, IInv, TypeOK
<1>2. Readable' = Readable /\ Latest' = Latest /\ Generations' = Generations
  BY <1>1 DEF Readable, Latest, Generations, RowsAt, Revoked
<1>3. /\ DayStart(clock') \in Nat /\ DayStart(clock) \in Nat
      /\ DayStart(clock) <= DayStart(clock') /\ WindowEnd(clock) <= WindowEnd(clock')
      /\ WindowEnd(clock) \in Nat /\ WindowEnd(clock') \in Nat /\ DayStart(clock') <= clock'
      /\ WindowEnd(clock) = DayStart(clock) + Window /\ WindowEnd(clock') = DayStart(clock') + Window
      /\ DayStart(clock') # DayStart(clock) => clock < DayStart(clock')
  <2>1. clock' \in Nat
    BY <1>1
  <2>2. DayStart(clock) <= DayStart(clock') /\ DayStart(clock) \in Nat
    BY <1>1, <2>1, DayFacts
  <2>3. DayStart(clock') \in Nat /\ (DayStart(clock') <= clock => DayStart(clock') <= DayStart(clock))
    BY <1>1, <2>1, DayFacts
  <2>4. WindowEnd(clock) = DayStart(clock) + Window /\ WindowEnd(clock') = DayStart(clock') + Window
    BY DEF WindowEnd
  <2>5. DayStart(clock') <= clock'
    BY <2>1, DayFacts
  <2> QED
    BY <1>1, <2>2, <2>3, <2>4, <2>5, ConstantsAssumption
<1>4. \A t \in Slots : t \in Nat
  BY SlotsType
<1>5. \A g \in Generations : generations[g].computedAt \in Nat
  BY GenerationType DEF IInv
<1>6. Tidy(results)' /\ Tidy(producer.results)' /\ Successive'
  BY <1>1, <1>2, <1>5 DEF SInv, Successive
<1>7. ShownInWindow'
  BY <1>1, <1>3, <1>4 DEF SInv, ShownInWindow
<1>8. LatestShown' /\ MergedShown'
  BY <1>1, <1>2, <1>3, <1>4 DEF SInv, LatestShown, MergedShown, Said
<1>9. MergedRestricts' /\ LatestRestricts' /\ MergedStands'
  BY <1>1, <1>2 DEF SInv, MergedRestricts, LatestRestricts, Restricts, MergedStands, Withdrawn,
                    WindowEnd, DayStart
<1>10. MergedPast'
  <2> SUFFICES ASSUME producer.phase = "merged", producer.revision = source.revision,
                      NEW t \in Slots, t < producer.now
               PROVE  /\ \A r \in producer.results : At(r, t) =>
                           \/ r.content = Readable[t]
                           \/ Readable[t] = Absent /\ r.generation = Len(generations) + 1
                      /\ (DayStart(clock') <= t /\ t < WindowEnd(clock') /\ Readable[t] # Absent) =>
                           \E r \in producer.results : At(r, t)
    BY <1>1, <1>2 DEF MergedPast
  <2>1. t \in Nat /\ producer.now \in Nat /\ producer.now <= clock
    BY <1>4 DEF IInv, TypeOK, ProducerState, ClocksPast
  <2>2. DayStart(clock') <= t => /\ DayStart(clock) = DayStart(clock')
                                 /\ WindowEnd(clock) = WindowEnd(clock')
    BY <1>1, <1>3, <2>1
  <2> QED
    BY <2>2 DEF SInv, MergedPast
<1> QED
  BY <1>6, <1>7, <1>8, <1>9, <1>10 DEF SInv

\* A new revision outdates the latest generation and the publication under way.
LEMMA ShapeSource ==
  ASSUME IInv, SInv, NEW w \in Writers, CommitSource(w)
  PROVE  SInv'
<1>1. UNCHANGED <<clock, generations, results, shown, producer>>
  BY DEF CommitSource, publicationVars
<1>2. source'.revision = source.revision + 1 /\ source.revision \in Nat
  <2>1. writer[w].phase = "stamped" /\ source' = writer[w].source
    BY DEF CommitSource
  <2>2. PICK revoke \in BOOLEAN : writer[w].source = Stamped(revoke, writer[w].stmtAt)
    BY <2>1 DEF IInv, WritersSerial, StampedWriter
  <2> QED
    BY <2>1, <2>2 DEF Stamped, IInv, TypeOK, Source
<1>3. Latest' = Latest /\ Generations' = Generations
  BY <1>1 DEF Latest, Generations
<1>4. producer.phase = "merged" => producer'.revision # source'.revision
  BY <1>1, <1>2 DEF IInv, SnapshotFaithful, TypeOK, ProducerState
<1>5. generations # <<>> => Latest'.revision # source'.revision
  <2> SUFFICES ASSUME generations # <<>> PROVE Latest.revision # source'.revision
    BY <1>3
  <2>1. Len(generations) \in Generations
    BY LenProperties, EmptySeq DEF IInv, TypeOK, Generations
  <2>2. Latest.revision \in Nat /\ Latest.revision <= source.revision
    BY <2>1, GenerationType DEF IInv, GenerationsPast, Latest
  <2> QED
    BY <1>2, <2>2
<1>6. Tidy(results)' /\ Tidy(producer.results)' /\ Successive' /\ ShownInWindow'
  BY <1>1, <1>3 DEF SInv, Successive, ShownInWindow, WindowEnd, DayStart
<1>7. LatestShown' /\ MergedShown' /\ MergedRestricts'
  BY <1>1, <1>3 DEF SInv, LatestShown, MergedShown, MergedRestricts, Restricts, Said,
                    WindowEnd, DayStart
<1>8. LatestRestricts' /\ MergedStands' /\ MergedPast'
  BY <1>1, <1>4, <1>5 DEF LatestRestricts, MergedStands, MergedPast
<1> QED
  BY <1>6, <1>7, <1>8 DEF SInv

\* Reconciliation, instant by instant.
LEMMA ShapeMerge ==
  ASSUME IInv, SInv, MergeResults
  PROVE  SInv'
<1> DEFINE id      == Len(generations) + 1
           now     == producer.now
           today   == DayStart(clock)
           end     == WindowEnd(clock)
           stale   == StaleGenerations(source.invalidatedRevision)
           stage   == Runs(Retained, 0, MaxTime + Window, Absent, id)
           clipped == ClipRevoked(results, stale, source.invalidatedAt)
           merged  == MergeStage(results, stage, now, today, stale, source.invalidatedAt)
           pruned  == PruneRows(merged, today, end)
<1>1. /\ UNCHANGED <<clock, source, evidence, revokedAt, generations, results, shown>>
      /\ producer'.phase = "merged" /\ producer'.revision = producer.revision
      /\ producer'.now = now /\ producer'.evidence = producer.evidence
      /\ producer'.results = pruned /\ producer'.shown = Retained
      /\ producer.phase = "opened"
  BY DEF MergeResults, IInv, TypeOK, ProducerState, sourceVars, publicationVars
<1>2. /\ Readable' = Readable /\ Latest' = Latest /\ Generations' = Generations
      /\ \A t : DayStart(t)' = DayStart(t) /\ WindowEnd(t)' = WindowEnd(t)
      /\ \A c : Withdrawn(c)' = Withdrawn(c)
  BY <1>1 DEF Readable, Latest, Generations, RowsAt, Revoked, DayStart, WindowEnd, Withdrawn
<1>3. /\ id \in Nat /\ now \in Nat /\ clock \in Nat /\ clock <= MaxTime /\ now <= clock
      /\ source.invalidatedAt \in Int
  <2>1. id \in Nat
    BY LenProperties DEF IInv, TypeOK
  <2>2. clock \in 0..MaxTime
    BY DEF IInv, TypeOK
  <2>3. now \in Nat /\ source.invalidatedAt \in Int /\ now <= clock
    BY DEF IInv, TypeOK, ProducerState, Source, NoTime, ClocksPast
  <2> QED
    BY <2>1, <2>2, <2>3, ConstantsAssumption
<1>4. /\ today \in Nat /\ end \in Nat /\ today < end
      /\ WindowEnd(now) <= end /\ WindowEnd(now) <= N /\ WindowEnd(now) \in Nat
  <2>1. /\ DayStart(now) \in Nat /\ DayStart(now) <= now
        /\ today \in Nat /\ DayStart(now) <= today
    BY <1>3, DayFacts
  <2> QED
    BY <1>3, <2>1, ConstantsAssumption DEF WindowEnd, N
<1>5. /\ Retained \in [Slots -> Payload]
      /\ \A t \in Slots :
            \/ Retained[t].basis = 0
            \/ \E u \in Slots : Retained[t].basis = producer.evidence[u].basis
            \/ \E r \in Lenders : Retained[t].basis = r.content.basis
      /\ \A t \in Slots : Retained[t] # Absent => t < WindowEnd(now)
      /\ Restricts(Retained, producer.evidence, now)
  BY RetainedType, RetainedShows DEF IInv, TypeOK
<1>6. /\ N \in Nat /\ N = MaxTime + Window /\ Slots = 0..N
      /\ results \in SUBSET RowSet(N, Nat, Payload) /\ Tidy(results)
  BY SlotsType, RowType DEF N, IInv, TypeOK, SInv
<1>7. /\ stage \in SUBSET RowSet(N, Nat, Payload) /\ Tidy(stage)
      /\ \A r \in stage : r.generation = id
      /\ \A r \in stage, t \in Int :
              At(r, t) => t \in 0..(N - 1) /\ Retained[t] = r.content /\ Retained[t] # Absent
      /\ \A t \in 0..(N - 1) : Retained[t] # Absent =>
              \E r \in stage : At(r, t) /\ r.content = Retained[t]
  <2>1. \A s \in stage : s \in Row /\ s.generation = id
    <3> HIDE DEF id
    <3> QED
      BY <1>3, <1>5, StagedRows
  <2>2. stage = Runs(Retained, 0, N, Absent, id)
    BY <1>6
  <2> HIDE DEF stage, id
  <2> QED
    BY <1>6, <2>1, <2>2, RowType, RunsTidy
<1> HIDE DEF stage, id
<1>8. merged \in SUBSET RowSet(N, Nat, Payload)
  <2>1. \A s \in stage : s.start < s.finish
    BY <1>7 DEF Tidy
  <2> HIDE DEF stale, today, now
  <2> QED
    BY <1>3, <1>4, <1>6, <1>7, <2>1, MergeStageRows
<1>9. Tidy(merged) /\ Reconciled(merged, clipped, stage, now)
  <2> HIDE DEF stale, today, now
  <2> QED
    BY <1>3, <1>4, <1>6, <1>7, MergeStageTidy
<1>10. /\ \A c \in clipped : \E q \in results : Piece(c, q)
       /\ \A c \in clipped : c.generation \in stale => c.finish <= source.invalidatedAt
       /\ clipped \in SUBSET RowSet(N, Nat, Payload)
       /\ \A q \in results, t \in Int :
            (q.start <= t /\ t < q.finish /\ (q.generation \in stale => t < source.invalidatedAt)) =>
                \E c \in clipped : From(c, q) /\ c.start <= t /\ t < c.finish
  <2> HIDE DEF stale
  <2>1. /\ \A c \in clipped : \E q \in results : Piece(c, q)
        /\ \A q \in results, t \in Int :
            (q.start <= t /\ t < q.finish /\ (q.generation \in stale => t < source.invalidatedAt)) =>
                \E c \in clipped : From(c, q) /\ c.start <= t /\ t < c.finish
    BY <1>3, <1>6, ClipRevokedTidy
  <2>2. ASSUME NEW c \in clipped
        PROVE  /\ c \in RowSet(N, Nat, Payload)
               /\ c.generation \in stale => c.finish <= source.invalidatedAt
    BY <1>3, <1>6, ClipRevokedRows
  <2> QED
    BY <2>1, <2>2
<1> HIDE DEF merged, clipped
<1>11. /\ Tidy(pruned) /\ \A r \in pruned : \E q \in merged : Piece(r, q)
       /\ \A q \in merged, t \in today..(end - 1) :
              At(q, t) => \E r \in pruned : From(r, q) /\ At(r, t)
       /\ pruned \in SUBSET RowSet(N, Nat, Payload)
  <2>1. (Overlapping(merged, today, end) \ merged) \cup PruneRows(merged, today, end) = pruned
    BY DEF Overlapping
  <2>2. merged \in SUBSET merged
    OBVIOUS
  <2> HIDE DEF today, end, pruned
  <2>3. /\ Tidy(pruned) /\ \A r \in pruned : \E q \in merged : Piece(r, q)
        /\ \A q \in merged, t \in today..(end - 1) :
              At(q, t) => \E r \in pruned : From(r, q) /\ At(r, t)
    BY <1>4, <1>6, <1>8, <1>9, <2>1, <2>2, PruneRowsTidy
  <2>4. pruned \in SUBSET RowSet(N, Nat, Payload)
    BY <1>4, <1>6, <1>8, PruneRowsRows DEF pruned
  <2> QED
    BY <2>3, <2>4
<1> HIDE DEF pruned
<1>12. ASSUME NEW r \in pruned, NEW t \in Slots, At(r, t)
       PROVE  \E q \in merged : From(r, q) /\ At(q, t)
  <2>1. PICK q \in merged : Piece(r, q)
    BY <1>11
  <2>2. {r.start, r.finish, q.start, q.finish, t} \subseteq Int
    BY <1>6, <1>8, <1>11 DEF RowSet
  <2> QED
    BY <1>12, <2>1, <2>2 DEF Piece, At
<1>13. \A t \in Slots : t \in Int
  BY <1>6
<1>14. MergedShown'
  <2>1. ASSUME NEW t \in Slots, now <= t, NEW r \in pruned, At(r, t)
        PROVE  Retained[t] # Absent /\ r.content = Retained[t]
    <3>1. PICK q \in merged : From(r, q) /\ At(q, t)
      BY <1>12, <2>1
    <3>2. PICK s \in stage : At(s, t) /\ s.content = q.content
      BY <1>9, <1>13, <2>1, <3>1 DEF Reconciled
    <3> QED
      BY <1>7, <1>13, <3>1, <3>2 DEF From
  <2>2. ASSUME NEW t \in Slots, now <= t, today <= t, Retained[t] # Absent
        PROVE  \E r \in pruned : At(r, t)
    <3>1. t \in 0..(N - 1) /\ t \in today..(end - 1)
      BY <1>4, <1>5, <1>6, <2>2
    <3>2. PICK s \in stage : At(s, t) /\ s.content = Retained[t]
      BY <1>7, <2>2, <3>1
    <3>3. PICK q \in merged : At(q, t)
      BY <1>9, <1>13, <2>2, <3>2 DEF Reconciled
    <3> QED
      BY <1>11, <3>1, <3>3
  <2> QED
    BY <1>1, <1>2, <2>1, <2>2 DEF MergedShown, Said
<1>15. MergedStands'
  <2> SUFFICES ASSUME producer.revision = source.revision, NEW t \in Slots
               PROVE  ~Withdrawn(Retained[t])
    BY <1>1, <1>2 DEF MergedStands
  <2>1. producer.evidence = evidence
    BY <1>1 DEF IInv, SnapshotFaithful
  <2>2. \A r \in Lenders : ~Withdrawn(r.content)
    BY DEF Lenders, IInv, RowsAnswerable, Revoked, StaleGenerations, Generations
  <2> QED
    BY <1>5, <2>1, <2>2 DEF IInv, EvidenceStands, Withdrawn
<1>16. ASSUME NEW q \in results
       PROVE  (Revoked(q) => FALSE) <=> q.generation \notin stale
  BY DEF IInv, RowsAnswerable, Revoked, StaleGenerations, Generations
<1>17. MergedPast'
  <2> SUFFICES ASSUME NEW t \in Slots, t < now
               PROVE  /\ \A r \in pruned : At(r, t) =>
                           \/ r.content = Readable[t]
                           \/ Readable[t] = Absent /\ r.generation = id
                      /\ (today <= t /\ t < end /\ Readable[t] # Absent) =>
                           \E r \in pruned : At(r, t)
    BY <1>1, <1>2 DEF MergedPast, id
  <2>1. ASSUME Readable[t] # Absent
        PROVE  \E q \in merged : At(q, t) /\ q.content = Readable[t]
    <3>1. PICK w \in results : /\ At(w, t) /\ (Revoked(w) => t < source.invalidatedAt)
                               /\ Readable[t] = w.content
      BY <2>1, <1>6, ReadableIs DEF IInv
    <3>2. PICK c \in clipped : From(c, w) /\ At(c, t)
      BY <1>10, <1>13, <1>16, <3>1 DEF At
    <3>3. PICK q \in merged : From(q, c) /\ At(q, t)
      BY <1>9, <1>13, <3>2 DEF Reconciled
    <3> QED
      BY <3>1, <3>2, <3>3 DEF From
  <2>2. ASSUME NEW r \in pruned, At(r, t)
        PROVE  \/ r.content = Readable[t]
               \/ Readable[t] = Absent /\ r.generation = id
    <3>1. PICK q \in merged : From(r, q) /\ At(q, t)
      BY <1>12, <2>2
    <3>2. PICK c \in clipped \cup stage : From(q, c) /\ At(c, t)
      BY <1>9, <1>13, <3>1 DEF Reconciled
    <3>3. CASE c \in clipped
      <4>1. PICK w \in results : Piece(c, w)
        BY <1>10, <3>3
      <4>2. {c.start, c.finish, w.start, w.finish, t} \subseteq Int
        BY <1>6, <1>10, <3>3 DEF RowSet
      <4>3. At(w, t)
        BY <3>2, <4>1, <4>2 DEF Piece, At
      <4>4. w.generation \in stale => t < source.invalidatedAt
        BY <1>3, <1>10, <3>2, <3>3, <4>1, <4>2 DEF Piece, From, At
      <4>5. Readable[t] = w.content
        BY <1>6, <1>16, <4>3, <4>4, ReadableIs DEF IInv
      <4> QED
        BY <3>1, <3>2, <4>1, <4>5 DEF Piece, From
    <3>4. CASE c \in stage
      <4>1. r.generation = id
        BY <1>7, <3>1, <3>2, <3>4 DEF From
      <4>2. ASSUME Readable[t] # Absent PROVE r.content = Readable[t]
        <5>1. PICK p \in merged : At(p, t) /\ p.content = Readable[t]
          BY <2>1, <4>2
        <5>2. {p.start, p.finish, q.start, q.finish, t} \subseteq Int
          BY <1>6, <1>8 DEF RowSet
        <5>3. ShareInstant(p, q)
          BY <3>1, <5>1, <5>2 DEF At, ShareInstant
        <5>4. p = q
          BY <1>9, <5>3 DEF Tidy, NoOverlap
        <5> QED
          BY <3>1, <5>1, <5>4 DEF From
      <4> QED
        BY <4>1, <4>2
    <3> QED
      BY <3>2, <3>3, <3>4
  <2>3. ASSUME today <= t, t < end, Readable[t] # Absent PROVE \E r \in pruned : At(r, t)
    <3>1. PICK q \in merged : At(q, t)
      BY <2>1, <2>3
    <3>2. t \in today..(end - 1)
      BY <1>4, <1>13, <2>3
    <3> QED
      BY <1>11, <3>1, <3>2
  <2> QED
    BY <2>2, <2>3
<1>18. Tidy(results)' /\ Tidy(producer.results)' /\ Successive' /\ LatestShown' /\ LatestRestricts'
  BY <1>1, <1>2, <1>11 DEF SInv, Successive, LatestShown, LatestRestricts, Restricts, Said
<1>19. ShownInWindow' /\ MergedRestricts'
  <2>1. ASSUME NEW t \in Slots, Retained[t] # Absent PROVE t < end
    BY <1>4, <1>5, <1>13, <2>1
  <2>2. ShownInWindow'
    BY <1>1, <1>2, <2>1 DEF SInv, ShownInWindow
  <2> QED
    BY <1>1, <1>2, <1>5, <2>2 DEF MergedRestricts, Restricts
<1> QED
  BY <1>14, <1>15, <1>17, <1>18, <1>19 DEF SInv

\* The commit of a publication.
LEMMA ShapeCommit ==
  ASSUME IInv, SInv, CommitPublication
  PROVE  SInv'
<1>1. /\ UNCHANGED <<clock, source, evidence, revokedAt>> /\ producer' = NoProducer
      /\ producer.phase = "merged"
      /\ \A t : DayStart(t)' = DayStart(t) /\ WindowEnd(t)' = WindowEnd(t)
  BY DEF CommitPublication, GiveUp, sourceVars, DayStart, WindowEnd
<1>2. /\ Tidy(producer.results)' /\ \A t \in Slots : producer'.shown[t] = Absent
      /\ MergedShown' /\ MergedRestricts' /\ MergedStands' /\ MergedPast'
  BY <1>1 DEF NoProducer, Tidy, NoOverlap, MergedShown, MergedRestricts, MergedStands, MergedPast
<1>3. CASE source.revision # producer.revision
  <2>1. UNCHANGED <<generations, results, shown>>
    BY <1>3 DEF CommitPublication, publicationVars
  <2>2. Latest' = Latest /\ Generations' = Generations
    BY <2>1 DEF Latest, Generations
  <2>3. Tidy(results)' /\ Successive' /\ ShownInWindow'
    BY <1>1, <1>2, <2>1, <2>2 DEF SInv, Successive, ShownInWindow, NoProducer
  <2>4. LatestShown' /\ LatestRestricts'
    BY <1>1, <2>1, <2>2 DEF SInv, LatestShown, LatestRestricts, Restricts, Said
  <2> QED
    BY <1>2, <2>3, <2>4 DEF SInv
<1>4. CASE source.revision = producer.revision
  <2> DEFINE new == [revision |-> producer.revision, computedAt |-> producer.now]
             id  == Len(generations) + 1
  <2>1. /\ generations' = Append(generations, new) /\ results' = producer.results
        /\ shown' = producer.shown /\ new \in Generation
    BY <1>4 DEF CommitPublication, IInv, TypeOK, ProducerState, Generation
  <2>2. /\ Len(generations) \in Nat /\ Generations' = 1..id /\ Latest' = new
        /\ generations'[id] = new
        /\ \A g \in Generations : generations'[g] = generations[g]
    BY <2>1, AppendProperties, LenProperties DEF Generations, Latest, IInv, TypeOK
  <2>3. /\ producer.now \in Nat /\ producer.now <= clock /\ clock \in Nat
    BY ConstantsAssumption DEF IInv, TypeOK, ProducerState, ClocksPast
  <2>4. Successive'
    <3> SUFFICES ASSUME NEW g \in 1..id
                 PROVE  generations'[g].computedAt <= producer.now
                        /\ generations'[g].computedAt <= clock
      BY <1>1, <2>2 DEF Successive, NoProducer
    <3>1. CASE g = id
      BY <2>2, <2>3, <3>1
    <3>2. CASE g # id
      <4>1. g \in Generations
        BY <2>2, <3>2 DEF Generations
      <4> QED
        BY <1>1, <2>2, <4>1 DEF SInv, Successive
    <3> QED
      BY <3>1, <3>2
  <2>5. Tidy(results)' /\ ShownInWindow'
    BY <1>1, <1>2, <2>1 DEF SInv, ShownInWindow
  <2>6. LatestShown'
    BY <1>1, <2>1, <2>2 DEF SInv, MergedShown, LatestShown, Said
  <2>7. LatestRestricts'
    <3>1. producer.evidence = evidence
      BY <1>1, <1>4 DEF IInv, SnapshotFaithful
    <3> QED
      BY <1>1, <2>1, <2>2, <3>1 DEF SInv, MergedRestricts, LatestRestricts, Restricts
  <2> QED
    BY <1>2, <2>4, <2>5, <2>6, <2>7 DEF SInv
<1> QED
  BY <1>3, <1>4

\* What retention leaves of the stored rows.
LEMMA PruneLeaves ==
  ASSUME IInv, SInv, PruneResults
  PROVE  /\ Tidy(results')
         /\ \A r \in results', t \in Slots :
              At(r, t) => \E q \in results : From(r, q) /\ At(q, t)
         /\ \A q \in results, t \in Slots :
              (At(q, t) /\ DayStart(clock) <= t /\ t < WindowEnd(clock))
                => \E r \in results' : From(r, q) /\ At(r, t)
<1> DEFINE today == DayStart(clock)
           end   == WindowEnd(clock)
<1>1. today \in Nat /\ end \in Nat /\ today < end
  <2>1. clock \in Nat
    BY ConstantsAssumption DEF IInv, TypeOK
  <2> QED
    BY <2>1, DayFacts, ConstantsAssumption
<1>2. results \in SUBSET RowSet(N, Nat, Payload) /\ Tidy(results) /\ N \in Nat /\ Slots = 0..N
  BY SlotsType, RowType DEF IInv, TypeOK, SInv
<1>3. results' \in PruneOutcomes(results, today, end)
  BY DEF PruneResults
<1> HIDE DEF today, end
<1>4. /\ Tidy(results')
      /\ \A r \in results' : \E q \in results : Piece(r, q)
      /\ \A q \in results, t \in today..(end - 1) :
              At(q, t) => \E r \in results' : From(r, q) /\ At(r, t)
  BY <1>1, <1>2, <1>3, PruneOutcomesTidy
<1>5. results' \in SUBSET RowSet(N, Nat, Payload)
  BY <1>1, <1>2, <1>3, PruneOutcomesRows
<1>6. ASSUME NEW r \in results', NEW t \in Slots, At(r, t)
      PROVE  \E q \in results : From(r, q) /\ At(q, t)
  <2>1. PICK q \in results : Piece(r, q)
    BY <1>4
  <2>2. {r.start, r.finish, q.start, q.finish, t} \subseteq Int
    BY <1>2, <1>5 DEF RowSet
  <2> QED
    BY <1>6, <2>1, <2>2 DEF Piece, At
<1>7. \A t \in Slots : (today <= t /\ t < end) => t \in today..(end - 1)
  BY <1>1, <1>2
<1> QED
  BY <1>4, <1>6, <1>7 DEF today, end

LEMMA ShapePrune ==
  ASSUME IInv, SInv, PruneResults
  PROVE  SInv'
<1>1. /\ UNCHANGED <<clock, source, evidence, revokedAt, generations, shown, producer>>
      /\ producer.phase = "idle"
      /\ \A t : DayStart(t)' = DayStart(t) /\ WindowEnd(t)' = WindowEnd(t)
  BY DEF PruneResults, sourceVars, DayStart, WindowEnd
<1>2. Latest' = Latest /\ Generations' = Generations
  BY <1>1 DEF Latest, Generations
<1>3. LatestShown'
  <2> SUFFICES ASSUME generations # <<>>, NEW t \in Slots, Latest.computedAt <= t,
                      DayStart(clock) <= t
               PROVE  Said(results', t, shown[t])
    BY <1>1, <1>2 DEF LatestShown, Said
  <2>1. Said(results, t, shown[t])
    BY DEF SInv, LatestShown
  <2>2. \A r \in results' : At(r, t) => shown[t] # Absent /\ r.content = shown[t]
    BY <2>1, PruneLeaves DEF Said, From
  <2>3. shown[t] # Absent => \E r \in results' : At(r, t)
    BY <2>1, PruneLeaves DEF Said, SInv, ShownInWindow
  <2> QED
    BY <2>2, <2>3 DEF Said
<1>4. /\ Tidy(results)' /\ Tidy(producer.results)' /\ Successive' /\ ShownInWindow'
      /\ LatestRestricts'
  BY <1>1, <1>2, PruneLeaves DEF SInv, Successive, ShownInWindow, LatestRestricts, Restricts
<1>5. MergedShown' /\ MergedRestricts' /\ MergedStands' /\ MergedPast'
  BY <1>1 DEF MergedShown, MergedRestricts, MergedStands, MergedPast
<1> QED
  BY <1>3, <1>4, <1>5 DEF SInv

LEMMA ShapeNext == IInv /\ SInv /\ [Next]_vars => SInv'
<1> SUFFICES ASSUME IInv, SInv, [Next]_vars PROVE SInv'
  OBVIOUS
<1>1. CASE UNCHANGED vars
  BY <1>1, ShapeWriter DEF vars, publicationVars
<1>2. ASSUME NEW w \in Writers,
             StartStatement(w) \/ StampChange(w) \/ StampRevocation(w) \/ RollBackSource(w)
      PROVE  SInv'
  BY <1>2, ShapeWriter DEF StartStatement, StampChange, StampRevocation, Stamp, RollBackSource
<1> QED
  BY <1>1, <1>2, ShapeTick, ShapeSource, ShapeProducer, ShapeMerge, ShapeCommit, ShapePrune
  DEF Next

\* The rows keep their shape: the second invariant holds.
THEOREM Shape == Spec => []SInv
BY Invariance, ShapeInit, ShapeNext, PTL DEF Spec

LEMMA LatestIsComplete == SInv => LatestGenerationComplete
<1> SUFFICES ASSUME SInv PROVE LatestGenerationComplete
  OBVIOUS
<1>1. NoOverlap(results) /\ NoOverlap(producer.results)
  BY DEF SInv, Tidy
<1>2. ASSUME generations # <<>>, NEW t \in Slots, Latest.computedAt <= t, DayStart(clock) <= t
      PROVE  LET rows == RowsAt(results, t) IN
             IF shown[t] = Absent THEN rows = {} ELSE {r.content : r \in rows} = {shown[t]}
  <2>1. Said(results, t, shown[t])
    BY <1>2 DEF SInv, LatestShown
  <2> QED
    BY <2>1 DEF Said, At, RowsAt
<1> QED
  BY <1>1, <1>2 DEF LatestGenerationComplete

\* Through every sequence of merges, splits, reuse and prunes the rows stay
\* disjoint and show exactly what the latest generation calculated.
THEOREM LatestComplete == Spec => []LatestGenerationComplete
BY Shape, LatestIsComplete, PTL

LEMMA LentLast ==
  ASSUME NEW rows \in SUBSET Row, rows # {}
  PROVE  \E r \in rows : LentAt(rows) = r.content /\ \A q \in rows : q.start <= r.start
<1> DEFINE starts == {r.start : r \in rows}
<1>1. starts \in SUBSET (0..N) /\ starts # {}
  BY SlotsType DEF Row
<1>2. Max(starts) \in starts /\ \A y \in starts : Max(starts) >= y
  BY <1>1, SlotsType, MaxOfNaturals
<1>3. \E r \in rows : \A q \in rows : q.start <= r.start
  BY <1>1, <1>2
<1>4. PICK r \in rows : r = CHOOSE p \in rows : \A q \in rows : q.start <= p.start
  OBVIOUS
<1>5. \A q \in rows : q.start <= r.start
  BY <1>3, <1>4
<1> QED
  BY <1>4, <1>5 DEF LentAt

LEMMA RestrictionIsShown == IInv /\ SInv => RestrictionShown
<1> SUFFICES ASSUME IInv, SInv, generations # <<>>, NEW at \in ReadableInstants, at >= clock,
                    ~ProjectionDue, Latest.revision = source.revision,
                    evidence[at].kind = "blocked"
             PROVE  Served(at, clock).kind = "blocked"
  BY DEF RestrictionShown
<1> DEFINE last == Latest.computedAt
<1>1. PICK g \in Generations : generations[g].computedAt >= DayStart(clock)
  BY DEF ProjectionDue, ProjectionIsCurrent, Generations
<1>2. /\ clock \in Nat /\ at \in Nat /\ at \in Slots /\ at < WindowEnd(clock)
  BY SlotsType, ConstantsAssumption DEF IInv, TypeOK, ReadableInstants
<1>3. Len(generations) \in Generations
  BY LenProperties, EmptySeq DEF IInv, TypeOK, Generations
<1>4. /\ last \in Nat /\ generations[g].computedAt \in Nat
      /\ generations[g].computedAt <= last /\ last <= clock
  BY <1>3, GenerationType DEF IInv, SInv, Successive, Latest
<1>5. DayStart(clock) <= last /\ DayStart(clock) \in Nat /\ DayStart(clock) <= clock
  BY <1>1, <1>2, <1>4, DayFacts
<1>6. WindowEnd(clock) <= WindowEnd(last)
  <2>1. DayStart(clock) <= DayStart(last) /\ DayStart(last) \in Nat
    BY <1>2, <1>4, <1>5, DayFacts
  <2> QED
    BY <1>5, <2>1, ConstantsAssumption DEF WindowEnd
<1>7. WindowEnd(clock) \in Nat /\ WindowEnd(last) \in Nat
  BY <1>2, <1>4, DayType
<1>8. shown[at].kind = "blocked" /\ shown[at] # Absent
  <2>1. shown[at].kind = "blocked"
    BY <1>2, <1>4, <1>6, <1>7 DEF SInv, LatestRestricts, Restricts
  <2> QED
    BY <2>1 DEF Absent, Plain
<1>9. PICK r \in results : At(r, at) /\ r.content = shown[at]
  BY <1>2, <1>4, <1>5, <1>8 DEF SInv, LatestShown, Said
<1>10. r \in Eligible(at, clock)
  <2>1. r.generation \in Generations
    BY DEF IInv, RowsAnswerable
  <2>2. generations[r.generation].computedAt <= clock
    BY <2>1 DEF SInv, Successive
  <2>3. source.invalidatedRevision <= source.revision
    BY DEF IInv, InvalidationKnown
  <2>4. r.start <= at /\ r.finish > at
    <3>1. r.start \in Int /\ r.finish \in Int
      BY SlotsType DEF IInv, TypeOK, Row
    <3> QED
      BY <1>2, <1>9, <3>1 DEF At
  <2>5. Latest.revision >= source.invalidatedRevision
    BY <2>3 DEF IInv, TypeOK, Source
  <2> QED
    BY <1>4, <2>2, <2>4, <2>5 DEF Eligible
<1>11. Eligible(at, clock) \in SUBSET Row /\ Eligible(at, clock) \subseteq results
  BY DEF Eligible, IInv, TypeOK
<1>12. PICK q \in Eligible(at, clock) :
         /\ LentAt(Eligible(at, clock)) = q.content
         /\ \A p \in Eligible(at, clock) : p.start <= q.start
  BY <1>10, <1>11, LentLast
<1>13. q = r
  <2>1. /\ {q.start, q.finish, r.start, r.finish} \subseteq Int /\ q \in results
        /\ q.start < q.finish /\ q.start <= at /\ r.start <= q.start
    BY <1>10, <1>11, <1>12, SlotsType DEF Row, SInv, Tidy, Eligible
  <2>2. ShareInstant(r, q)
    BY <1>2, <1>9, <2>1 DEF At, ShareInstant
  <2> QED
    BY <2>1, <2>2 DEF SInv, Tidy, NoOverlap
<1>14. Served(at, clock) = q.content
  BY <1>10, <1>12 DEF Served, LentAt
<1> QED
  BY <1>8, <1>9, <1>13, <1>14

\* A restriction in force at publication is what readers get for every instant
\* still to come, whatever rows were reused, split or kept.
THEOREM RestrictionsShown == Spec => []RestrictionShown
BY Invariance, Shape, RestrictionIsShown, PTL

-----------------------------------------------------------------------------
(* The promise to the readers: every step is a step of ConditionBoard.     *)

BoardTime == IF generations = <<>> THEN NoTime ELSE Latest.computedAt

\* What a reader can get of a row.
Legible(r, t) == At(r, t) /\ (Revoked(r) => t < source.invalidatedAt)

LEMMA BoardInit == Init => Board!Init
<1> SUFFICES ASSUME Init PROVE Board!Init
  OBVIOUS
<1>1. results = {} /\ generations = <<>> /\ clock = 0
      /\ revokedAt = [b \in 1..MaxRevision |-> NoTime]
  BY DEF Init
<1>2. Readable = [t \in Slots |-> Absent]
  BY <1>1 DEF Readable, RowsAt
<1> QED
  BY <1>1, <1>2 DEF Board!Init

LEMMA BoardStutters ==
  ASSUME UNCHANGED <<clock, source, revokedAt, generations, results>>
  PROVE  UNCHANGED Board!vars
<1>1. Readable' = Readable /\ Latest' = Latest
  BY DEF Readable, Latest, RowsAt, Revoked
<1> QED
  BY <1>1 DEF Board!vars

LEMMA BoardPass == Tick => Board!Pass
<1> SUFFICES ASSUME Tick PROVE Board!Pass
  OBVIOUS
<1>1. /\ UNCHANGED <<source, revokedAt, generations, results>>
      /\ clock < MaxTime /\ clock' = clock + 1
  BY DEF Tick, sourceVars, publicationVars
<1>2. Readable' = Readable /\ Latest' = Latest
  BY <1>1 DEF Readable, Latest, RowsAt, Revoked
<1> QED
  BY <1>1, <1>2 DEF Board!Pass

\* Readers get the content of a row, and of every row that they can read.
ReadableSound ==
  \A t \in Slots :
     /\ \A r \in results : Legible(r, t) => Readable[t] = r.content
     /\ Readable[t] = Absent \/ \E r \in results : Legible(r, t) /\ Readable[t] = r.content
     /\ Readable[t] \in Payload

LEMMA ReadableIsSound == IInv /\ SInv => ReadableSound
BY ReadableIs DEF IInv, SInv, ReadableSound, Legible

\* Retention takes away what is out of the window.
LEMMA BoardExpire ==
  ASSUME IInv, SInv, ReadableSound, ReadableSound', PruneResults
  PROVE  Board!Expire
<1>1. UNCHANGED <<clock, source, revokedAt, generations>>
  BY DEF PruneResults, sourceVars
<1>2. Latest' = Latest /\ \A r, t : Legible(r, t)' = Legible(r, t)
  BY <1>1 DEF Latest, Revoked, Legible
<1>3. ASSUME NEW t \in Slots
      PROVE  Readable'[t] = Readable[t] \/ (Readable'[t] = Absent /\ ~Board!InWindow(t))
  <2>1. ASSUME Readable'[t] # Absent PROVE Readable'[t] = Readable[t]
    <3>1. PICK r \in results' : Legible(r, t) /\ Readable'[t] = r.content
      BY <1>2, <2>1 DEF ReadableSound
    <3>2. PICK q \in results : From(r, q) /\ At(q, t)
      BY <3>1, PruneLeaves DEF Legible
    <3>3. Legible(q, t)
      BY <3>1, <3>2 DEF Legible, From, Revoked
    <3> QED
      BY <3>1, <3>2, <3>3 DEF ReadableSound, From
  <2>2. ASSUME Readable'[t] = Absent, Board!InWindow(t) PROVE Readable'[t] = Readable[t]
    <3> SUFFICES ASSUME Readable[t] # Absent PROVE Readable'[t] = Readable[t]
      BY <2>2
    <3>1. PICK q \in results : Legible(q, t) /\ Readable[t] = q.content
      BY DEF ReadableSound
    <3>2. DayStart(clock) <= t /\ t < WindowEnd(clock)
      BY <2>2 DEF Board!InWindow, DayStart, WindowEnd
    <3>3. PICK r \in results' : From(r, q) /\ At(r, t)
      BY <3>1, <3>2, PruneLeaves DEF Legible
    <3>4. Legible(r, t)
      BY <3>1, <3>3 DEF Legible, From, Revoked
    <3> QED
      BY <1>2, <3>1, <3>3, <3>4 DEF ReadableSound, From
  <2> QED
    BY <2>1, <2>2
<1>4. Readable' \in [Slots -> Payload]
  BY DEF ReadableSound, Readable
<1> QED
  BY <1>1, <1>2, <1>3, <1>4 DEF Board!Expire

\* A correction wipes the board from its boundary on, another source change
\* leaves it alone.
LEMMA BoardWithdraw ==
  ASSUME IInv, SInv, IInv', NEW w \in Writers, CommitSource(w)
  PROVE  Board!Withdraw \/ UNCHANGED Board!vars
<1>1. UNCHANGED <<clock, generations, results>>
  BY DEF CommitSource, publicationVars
<1>2. PICK revoke \in BOOLEAN :
         /\ source' = Stamped(revoke, writer[w].stmtAt)
         /\ ~revoke => writer[w].withdrawn = {}
  BY DEF CommitSource, IInv, WritersSerial, StampedWriter
<1>3. /\ revokedAt \in [1..MaxRevision -> {NoTime} \cup Nat]
      /\ \A b \in 1..MaxRevision :
            revokedAt'[b] = IF b \in writer[w].withdrawn /\ revokedAt[b] = NoTime
                            THEN clock ELSE revokedAt[b]
      /\ revokedAt' \in [1..MaxRevision -> {NoTime} \cup Nat]
  BY DEF CommitSource, IInv, TypeOK
<1>4. Latest' = Latest
  BY <1>1 DEF Latest
<1>5. CASE ~revoke
  <2>1. revokedAt' = revokedAt
    <3>1. \A b \in 1..MaxRevision : revokedAt'[b] = revokedAt[b]
      BY <1>2, <1>3, <1>5
    <3>2. /\ revokedAt = [b \in 1..MaxRevision |-> revokedAt[b]]
          /\ revokedAt' = [b \in 1..MaxRevision |-> revokedAt'[b]]
      BY <1>3
    <3> QED
      BY <3>1, <3>2
  <2>2. /\ source'.invalidatedRevision = source.invalidatedRevision
        /\ source'.invalidatedAt = source.invalidatedAt
    BY <1>2, <1>5 DEF Stamped
  <2>3. Readable' = Readable
    BY <1>1, <2>2 DEF Readable, RowsAt, Revoked
  <2> QED
    BY <1>1, <1>4, <2>1, <2>3 DEF Board!vars
<1>6. CASE revoke
  <2> DEFINE from == source'.invalidatedAt
  <2>1. /\ source'.invalidatedRevision = source.revision + 1
        /\ from = InvalidationClock(writer[w].stmtAt)
        /\ source.revision \in Nat
    BY <1>2, <1>6 DEF Stamped, IInv, TypeOK, Source
  <2>2. from \in 0..clock /\ clock \in Nat
    <3>1. source'.invalidatedRevision # 0
      BY <2>1
    <3>2. from # NoTime /\ from <= clock
      BY <1>1, <3>1 DEF IInv, InvalidationKnown, ClocksPast
    <3>3. source' \in Source /\ clock \in Nat
      BY ConstantsAssumption DEF IInv, TypeOK
    <3> QED
      BY <3>2, <3>3 DEF Source, NoTime
  <2>3. ASSUME NEW r \in results PROVE Revoked(r)'
    <3>1. r.generation \in Generations
      BY DEF IInv, RowsAnswerable
    <3>2. /\ generations[r.generation].revision <= source.revision
          /\ generations[r.generation].revision \in Nat
      BY <3>1, GenerationType DEF IInv, GenerationsPast
    <3> QED
      BY <1>1, <2>1, <3>2 DEF Revoked
  <2>4. ASSUME NEW r \in results, NEW t \in Slots, At(r, t), t < from, Revoked(r)
        PROVE  t < source.invalidatedAt
    <3>1. CASE from = source.invalidatedAt
      BY <2>4, <3>1
    <3>2. CASE from # source.invalidatedAt
      <4>1. r.generation \in Generations
        BY DEF IInv, RowsAnswerable
      <4>2. source.invalidatedRevision # 0
        BY <2>4, <4>1, GenerationType DEF Revoked, IInv, TypeOK, Source
      <4>3. InvalidationAnswered
        BY <2>1, <3>2, <4>2 DEF InvalidationClock, InvalidationAnswered, Generations,
                                IInv, InvalidationKnown
      <4>4. r.finish <= source.invalidatedAt
        BY <2>4, <4>3 DEF IInv, RowsClipped
      <4>5. {t, r.finish, source.invalidatedAt} \subseteq Int
        BY SlotsType DEF IInv, TypeOK, Row, Source, NoTime
      <4> QED
        BY <2>4, <4>4, <4>5 DEF At
    <3> QED
      BY <3>1, <3>2
  <2>5. ASSUME NEW t \in Slots
        PROVE  Readable'[t] = IF t >= from THEN Absent ELSE Readable[t]
    <3> DEFINE rows == {r \in RowsAt(results, t) : ~Revoked(r) \/ t < source.invalidatedAt}
               next == {r \in RowsAt(results, t) : ~Revoked(r)' \/ t < from}
    <3>1. /\ Readable[t] = IF rows = {} THEN Absent ELSE (CHOOSE r \in rows : TRUE).content
          /\ Readable'[t] = IF next = {} THEN Absent ELSE (CHOOSE r \in next : TRUE).content
      BY <1>1 DEF Readable, RowsAt
    <3>2. t \in Int /\ from \in Int
      BY <2>2, SlotsType
    <3>3. t >= from => next = {}
      BY <2>3, <3>2 DEF RowsAt
    <3>4. t < from => next = rows
      BY <2>4 DEF RowsAt, At
    <3> HIDE DEF rows, next, from
    <3>5. CASE t >= from
      BY <3>1, <3>3, <3>5
    <3>6. CASE t < from
      <4>1. next = rows /\ ~(t >= from)
        BY <3>2, <3>4, <3>6
      <4> QED
        BY <3>1, <4>1
    <3> QED
      BY <3>2, <3>5, <3>6
  <2>6. Readable' = [t \in Slots |-> IF t >= from THEN Absent ELSE Readable[t]]
    <3> HIDE DEF from
    <3>1. Readable' = [t \in Slots |-> Readable'[t]]
      BY DEF Readable
    <3> QED
      BY <2>5, <3>1
  <2>7. /\ revokedAt' \in [1..MaxRevision ->
                              {NoTime, clock} \cup {revokedAt[b] : b \in 1..MaxRevision}]
        /\ \A b \in 1..MaxRevision : \/ revokedAt'[b] = revokedAt[b]
                                     \/ revokedAt[b] = NoTime /\ revokedAt'[b] = clock
    BY <1>3
  <2> QED
    BY <1>1, <1>4, <2>2, <2>6, <2>7 DEF Board!Withdraw
<1> QED
  BY <1>5, <1>6

\* A publication replaces the board from its instant on and fills gaps before.
LEMMA BoardPublish ==
  ASSUME IInv, SInv, ReadableSound, IInv', SInv', ReadableSound', CommitPublication
  PROVE  Board!Publish \/ UNCHANGED Board!vars
<1>1. UNCHANGED <<clock, source, revokedAt>> /\ producer.phase = "merged"
  BY DEF CommitPublication, sourceVars
<1>2. CASE source.revision # producer.revision
  <2>1. UNCHANGED <<generations, results>>
    BY <1>2 DEF CommitPublication, publicationVars
  <2> QED
    BY <1>1, <2>1, BoardStutters
<1>3. CASE source.revision = producer.revision
  <2> DEFINE new == [revision |-> producer.revision, computedAt |-> producer.now]
             id  == Len(generations) + 1
             now == producer.now
  <2>1. /\ generations' = Append(generations, new) /\ results' = producer.results
        /\ new \in Generation
    BY <1>3 DEF CommitPublication, IInv, TypeOK, ProducerState, Generation
  <2>2. /\ Len(generations) \in Nat /\ Generations' = 1..id
        /\ generations'[id] = new /\ generations' # <<>> /\ Latest' = new
    BY <2>1, AppendProperties, LenProperties DEF Generations, IInv, TypeOK, Latest
  <2>3. now \in 0..clock /\ clock \in Nat
    BY ConstantsAssumption DEF IInv, TypeOK, ProducerState, ClocksPast
  <2>4. BoardTime <= now
    <3>1. CASE generations = <<>>
      BY <2>3, <3>1 DEF BoardTime, NoTime
    <3>2. CASE generations # <<>>
      <4>1. Len(generations) \in Generations
        BY <3>2, LenProperties, EmptySeq DEF IInv, TypeOK, Generations
      <4> QED
        BY <1>1, <3>2, <4>1 DEF BoardTime, SInv, Successive, Latest
    <3> QED
      BY <3>1, <3>2
  <2>5. InvalidationAnswered'
    <3>1. id \in Generations' /\ generations'[id].revision = source.revision
      BY <1>3, <2>2
    <3>2. source.revision >= source.invalidatedRevision
      BY DEF IInv, InvalidationKnown, TypeOK, Source
    <3> QED
      BY <1>1, <3>1, <3>2 DEF InvalidationAnswered
  <2>6. ASSUME NEW r \in results', NEW t \in Slots, At(r, t)
        PROVE  Readable'[t] = r.content
    <3>1. Revoked(r)' => r.finish <= source.invalidatedAt
      BY <1>1, <2>5, <2>6 DEF IInv, RowsClipped
    <3>2. {t, r.finish, source.invalidatedAt} \subseteq Int
      BY <1>1, <2>6, SlotsType DEF IInv, TypeOK, Row, Source, NoTime
    <3>3. Legible(r, t)'
      BY <1>1, <2>6, <3>1, <3>2 DEF Legible, At
    <3> QED
      BY <2>6, <3>3 DEF ReadableSound
  <2>7. ASSUME NEW t \in Slots, Readable'[t] # Absent
        PROVE  \E r \in producer.results : At(r, t) /\ Readable'[t] = r.content
    BY <2>1, <2>7 DEF ReadableSound, Legible, At
  <2>8. ASSUME NEW t \in Slots
        PROVE  \/ Readable'[t] = Absent /\ (~Board!InWindow(t) \/ t >= now \/ Readable[t] = Absent)
               \/ Readable'[t] = Readable[t] /\ t < now
               \/ /\ t >= now \/ Readable[t] = Absent
                  /\ ~Board!IsWithdrawn(Readable'[t])
    <3>1. t \in Int
      BY SlotsType
    <3>2. CASE t < now
      <4>1. CASE Readable'[t] = Absent
        <5>1. ~\E r \in producer.results : At(r, t) /\ r.content # Absent
          BY <2>1, <2>6, <4>1
        <5>2. ASSUME Board!InWindow(t), Readable[t] # Absent PROVE Readable'[t] = Readable[t]
          <6>1. DayStart(clock) <= t /\ t < WindowEnd(clock)
            BY <5>2 DEF Board!InWindow, DayStart, WindowEnd
          <6>2. PICK r \in producer.results : At(r, t)
            BY <1>1, <1>3, <3>2, <5>2, <6>1 DEF SInv, MergedPast
          <6>3. r.content = Readable[t]
            BY <1>1, <1>3, <3>2, <5>2, <6>2 DEF SInv, MergedPast
          <6> QED
            BY <2>1, <2>6, <6>2, <6>3
        <5> QED
          BY <3>2, <4>1, <5>2
      <4>2. CASE Readable'[t] # Absent
        <5>1. PICK r \in producer.results : At(r, t) /\ Readable'[t] = r.content
          BY <2>7, <4>2
        <5>2. \/ r.content = Readable[t]
              \/ Readable[t] = Absent /\ r.generation = id
          BY <1>1, <1>3, <3>2, <5>1 DEF SInv, MergedPast
        <5>3. r.generation = id => ~Withdrawn(r.content)
          BY <1>1, <1>3, <5>1 DEF IInv, MergedAnswerable
        <5>4. ~Withdrawn(r.content) => ~Board!IsWithdrawn(r.content)
          BY DEF Withdrawn, Board!IsWithdrawn
        <5> QED
          BY <3>2, <5>1, <5>2, <5>3, <5>4
      <4> QED
        BY <4>1, <4>2
    <3>3. CASE t >= now
      <4>1. CASE Readable'[t] = Absent
        BY <3>3, <4>1
      <4>2. CASE Readable'[t] # Absent
        <5>1. PICK r \in producer.results : At(r, t) /\ Readable'[t] = r.content
          BY <2>7, <4>2
        <5>2. r.content = producer.shown[t]
          BY <1>1, <3>3, <5>1 DEF SInv, MergedShown
        <5>3. ~Withdrawn(r.content)
          BY <1>1, <1>3, <5>2 DEF SInv, MergedStands
        <5> QED
          BY <3>3, <5>1, <5>3 DEF Withdrawn, Board!IsWithdrawn
      <4> QED
        BY <4>1, <4>2
    <3> QED
      BY <2>3, <3>1, <3>2, <3>3
  <2>9. Readable' \in [Slots -> Payload]
    BY DEF ReadableSound, Readable
  <2>10. BoardTime' = now
    BY <2>2 DEF BoardTime
  <2> HIDE DEF now
  <2> QED
    BY <1>1, <2>3, <2>4, <2>8, <2>9, <2>10 DEF Board!Publish, BoardTime
<1> QED
  BY <1>2, <1>3

LEMMA BoardNext ==
  ASSUME IInv, SInv, ReadableSound, IInv', SInv', ReadableSound', [Next]_vars
  PROVE  [Board!Next]_(Board!vars)
<1>1. CASE UNCHANGED vars
  BY <1>1, BoardStutters DEF vars
<1>2. CASE TakeSnapshot \/ BeginPublication \/ MergeResults \/ Crash
  BY <1>2, BoardStutters
  DEF TakeSnapshot, BeginPublication, MergeResults, Crash, sourceVars, publicationVars
<1>3. ASSUME NEW w \in Writers,
             StartStatement(w) \/ StampChange(w) \/ StampRevocation(w) \/ RollBackSource(w)
      PROVE  UNCHANGED Board!vars
  BY <1>3, BoardStutters
  DEF StartStatement, StampChange, StampRevocation, Stamp, RollBackSource, publicationVars
<1> QED
  BY <1>1, <1>2, <1>3, BoardPass, BoardWithdraw, BoardPublish, BoardExpire
  DEF Next, Board!Next

\* Rows, revisions, locks and transactions together are the board that
\* ConditionBoard describes.
THEOREM PromiseKept == Spec => KeepsPromise
BY Invariance, Shape, ReadableIsSound, BoardInit, BoardNext, PTL DEF Spec, KeepsPromise, Board!Spec

\* What the board promises by itself: content that rests on withdrawn evidence
\* is shown for instants before the withdrawal only.
BoardInv ==
  /\ Board!TypeOK
  /\ Board!WithdrawnContentIsPast

LEMMA BoardConstants == Board!BoardAssumption
<1>1. Absent \in Payload /\ Absent.basis = 0
  BY ConstantsAssumption DEF Absent, Plain, Payload
<1> QED
  BY ConstantsAssumption, SlotsType, <1>1 DEF Board!BoardAssumption, NoTime

LEMMA BoardInvInit == Board!Init => BoardInv
BY BoardConstants
DEF BoardInv, Board!BoardAssumption, Board!Init, Board!TypeOK, Board!WithdrawnContentIsPast,
    Board!IsWithdrawn

LEMMA BoardInvNext == BoardInv /\ [Board!Next]_(Board!vars) => BoardInv'
<1> SUFFICES ASSUME BoardInv, [Board!Next]_(Board!vars) PROVE BoardInv'
  OBVIOUS
<1> USE BoardConstants DEF BoardInv, Board!BoardAssumption
<1>1. CASE Board!Pass
  BY <1>1 DEF Board!Pass, Board!TypeOK, Board!WithdrawnContentIsPast, Board!IsWithdrawn
<1>2. CASE Board!Publish
  BY <1>2 DEF Board!Publish, Board!TypeOK, Board!WithdrawnContentIsPast, Board!IsWithdrawn
<1>3. CASE Board!Withdraw
  <2>1. Board!TypeOK'
    BY <1>3 DEF Board!Withdraw, Board!TypeOK
  <2>2. ASSUME NEW t \in Slots, Board!IsWithdrawn(Readable[t])'
        PROVE  t < revokedAt'[Readable'[t].basis]
    <3>1. PICK from \in 0..clock :
             Readable' = [u \in Slots |-> IF u >= from THEN Absent ELSE Readable[u]]
      BY <1>3 DEF Board!Withdraw
    <3>2. t < from /\ Readable'[t] = Readable[t]
      BY <2>2, <3>1 DEF Board!IsWithdrawn, Board!TypeOK
    <3>3. CASE revokedAt'[Readable[t].basis] = revokedAt[Readable[t].basis]
      BY <2>2, <3>2, <3>3 DEF Board!IsWithdrawn, Board!WithdrawnContentIsPast
    <3>4. CASE revokedAt'[Readable[t].basis] = clock
      <4>1. t \in Int /\ from \in Int /\ clock \in Int /\ from <= clock
        BY DEF Board!TypeOK
      <4>2. t < clock
        BY <4>1, <3>2
      <4> QED
        BY <4>1, <4>2, <3>2, <3>4
    <3> QED
      BY <1>3, <2>2, <3>2, <3>3, <3>4 DEF Board!Withdraw, Board!IsWithdrawn
  <2> QED
    BY <2>1, <2>2 DEF Board!WithdrawnContentIsPast
<1>4. CASE Board!Expire
  BY <1>4 DEF Board!Expire, Board!TypeOK, Board!WithdrawnContentIsPast, Board!IsWithdrawn
<1>5. CASE UNCHANGED Board!vars
  BY <1>5 DEF Board!vars, Board!TypeOK, Board!WithdrawnContentIsPast, Board!IsWithdrawn
<1> QED
  BY <1>1, <1>2, <1>3, <1>4, <1>5 DEF Board!Next

\* Whatever keeps the promise of ConditionBoard, as the projection does, never
\* lets a reader see, at or after a withdrawal, content that rests on the
\* withdrawn evidence.
THEOREM BoardNeverShowsWithdrawn ==
  /\ KeepsPromise => []Board!WithdrawnContentIsPast
  /\ Spec => []Board!WithdrawnContentIsPast
<1>1. BoardInv => Board!WithdrawnContentIsPast
  BY DEF BoardInv
<1> QED
  BY BoardInvInit, BoardInvNext, PromiseKept, <1>1, PTL DEF KeepsPromise, Board!Spec

-----------------------------------------------------------------------------
(* Reconciling instant by instant: the bounded inputs of MCResultIntervals,  *)
(* here of every size.                                                       *)

OldAndNew == OldGenerations \cup {3}

MergeInputs ==
  /\ storedRows \in SUBSET RowSet(End, OldAndNew, Digests) /\ Tidy(storedRows)
  /\ stagedRows \in SUBSET RowSet(End, OldAndNew, Digests) /\ Tidy(stagedRows)
  /\ \A s \in stagedRows : s.generation = 3
  /\ calculatedAt \in Nat /\ dayStart \in Nat
  /\ invalidatedAt \in Nat /\ invalidatedAt <= calculatedAt

AsExpected == \A t \in dayStart..(End - 2) : Shown(RowsAt(result, t)) = Expected(t)

\* After the merge the rows are tidy, and each instant shows what it must; a
\* window without instants holds nothing.
MergeInv ==
  /\ MergeInputs
  /\ done /\ dayStart < End - 1 =>
       /\ result \in SUBSET RowSet(End, OldAndNew, Digests) /\ Tidy(result)
       /\ AsExpected

\* Two tables show the same at t when each row has its like in the other.
LEMMA ShownSame ==
  ASSUME NEW X, NEW Y,
         \A r \in X : \E q \in Y : From(r, q),
         \A q \in Y : \E r \in X : From(r, q)
  PROVE  Shown(X) = Shown(Y)
BY DEF Shown, From

\* Of a generation that is not stale nothing is clipped.
LEMMA ClipRevokedKeeps ==
  ASSUME NEW last \in Nat, NEW G, NEW C, NEW rows \in SUBSET RowSet(last, G, C),
         NEW stale, NEW boundary \in Int
  PROVE  /\ \A q \in rows : q.generation \notin stale => q \in ClipRevoked(rows, stale, boundary)
         /\ \A r \in ClipRevoked(rows, stale, boundary) : r.generation \notin stale => r \in rows
<1> DEFINE S == {q \in rows : q.generation \in stale => q.start < boundary}
           f == [q \in S |-> [q EXCEPT !.finish = IF q.generation \in stale
                                                  THEN Min({@, boundary}) ELSE @]]
<1>1. ClipRevoked(rows, stale, boundary) = Images(f, S)
  BY DEF ClipRevoked, Images
<1>2. ASSUME NEW q \in S PROVE f[q].generation = q.generation
  BY DEF RowSet
<1>3. ASSUME NEW q \in S, q.generation \notin stale PROVE f[q] = q
  <2>1. f[q] = [q EXCEPT !.finish = q.finish]
    BY <1>3
  <2>2. q \in RowSet(last, G, C)
    OBVIOUS
  <2> HIDE DEF f, S
  <2> QED
    BY <2>1, <2>2 DEF RowSet
<1>4. /\ \A q \in rows : q.generation \notin stale => q \in S
      /\ S \subseteq rows
  OBVIOUS
<1> HIDE DEF f, S
<1> QED
  BY <1>1, <1>2, <1>3, <1>4 DEF Images

LEMMA ClippedRow ==
  ASSUME MergeInputs, NEW r \in ClipRevoked(storedRows, Stale, invalidatedAt)
  PROVE  /\ r.start \in Int /\ r.finish \in Int
         /\ r.generation \in Stale => r.finish <= invalidatedAt
<1>1. /\ End \in Nat /\ invalidatedAt \in Int
      /\ storedRows \in SUBSET RowSet(End, OldAndNew, Digests)
  BY IntervalsAssumption DEF MergeInputs
<1>2. /\ r \in RowSet(End, OldAndNew, Digests)
      /\ r.generation \in Stale => r.finish <= invalidatedAt
  BY <1>1, ClipRevokedRows
<1> QED
  BY <1>1, <1>2 DEF RowSet

\* The clipped rows at t are those that can still be read.
LEMMA ClippedIsReadable ==
  ASSUME MergeInputs, NEW t \in Int
  PROVE  LET clipped == ClipRevoked(storedRows, Stale, invalidatedAt) IN
         /\ \A q \in ReadableOld(t) : \E c \in clipped : From(c, q) /\ At(c, t)
         /\ \A c \in clipped : At(c, t) => \E q \in ReadableOld(t) : From(c, q)
<1> DEFINE clipped == ClipRevoked(storedRows, Stale, invalidatedAt)
<1>1. /\ \A r \in clipped : \E q \in storedRows : Piece(r, q)
      /\ \A q \in storedRows, u \in Int :
           (q.start <= u /\ u < q.finish /\ (q.generation \in Stale => u < invalidatedAt)) =>
              \E r \in clipped : From(r, q) /\ r.start <= u /\ u < r.finish
  BY IntervalsAssumption, ClipRevokedTidy, SMTT(60) DEF MergeInputs
<1>2. \A r \in clipped : r.generation \in Stale => r.finish <= invalidatedAt
  BY ClippedRow
<1>3. \A r \in clipped : r.start \in Int /\ r.finish \in Int
  BY ClippedRow
<1>4. \A q \in storedRows : q.start \in Int /\ q.finish \in Int
  BY IntervalsAssumption DEF MergeInputs, RowSet
<1>5. invalidatedAt \in Int
  BY DEF MergeInputs
<1> HIDE DEF clipped
<1>6. \A q \in ReadableOld(t) : \E c \in clipped : From(c, q) /\ At(c, t)
  BY <1>1 DEF ReadableOld, RowsAt, At
<1>7. ASSUME NEW c \in clipped, At(c, t) PROVE \E q \in ReadableOld(t) : From(c, q)
  <2>1. PICK q \in storedRows : Piece(c, q)
    BY <1>1
  <2>2. At(q, t) /\ From(c, q)
    BY <1>3, <1>4, <1>7, <2>1 DEF At, Piece
  <2>3. q.generation \in Stale => t < invalidatedAt
    BY <1>2, <1>3, <1>5, <1>7, <2>2 DEF From, At
  <2> QED
    BY <2>2, <2>3 DEF ReadableOld, RowsAt, At
<1> QED
  BY <1>6, <1>7 DEF clipped

\* From the calculation on, the clipped rows that are repeated are the old rows
\* that are confirmed.
LEMMA RepeatedIsConfirmed ==
  ASSUME MergeInputs, NEW t \in Int, t >= calculatedAt
  PROVE  LET clipped == ClipRevoked(storedRows, Stale, invalidatedAt) IN
         /\ \A c \in clipped : At(c, t) /\ Repeated(c, stagedRows, calculatedAt) =>
              c \in ReadableOld(t) /\ Confirmed(c)
         /\ \A q \in ReadableOld(t) : Confirmed(q) =>
              q \in clipped /\ At(q, t) /\ Repeated(q, stagedRows, calculatedAt)
<1> DEFINE clipped == ClipRevoked(storedRows, Stale, invalidatedAt)
<1>1. /\ \A q \in storedRows : q.generation \notin Stale => q \in clipped
      /\ \A c \in clipped : c.generation \notin Stale => c \in storedRows
  BY IntervalsAssumption, ClipRevokedKeeps, SMTT(60) DEF MergeInputs
<1>2. \A r \in clipped : r.generation \in Stale => r.finish <= invalidatedAt
  BY ClippedRow
<1>3. \A r \in clipped : r.start \in Int /\ r.finish \in Int
  BY ClippedRow
<1>4. \A q \in storedRows : q.start \in Int /\ q.finish \in Int
  BY IntervalsAssumption DEF MergeInputs, RowSet
<1>5. /\ invalidatedAt \in Int /\ calculatedAt \in Int
      /\ invalidatedAt <= calculatedAt
  BY DEF MergeInputs
<1> HIDE DEF clipped
<1>6. ASSUME NEW q \in storedRows, q.generation \notin Stale
      PROVE  Confirmed(q) <=> Repeated(q, stagedRows, calculatedAt)
  <2>1. \A u \in Int : u \in q.start..(q.finish - 1) <=> At(q, u)
    BY <1>4 DEF At
  <2>2. \A u \in q.start..(q.finish - 1) : u \in Int
    BY <1>4
  <2>3. ASSUME NEW u
        PROVE  (\E s \in RowsAt(stagedRows, u) : s.content = q.content)
               <=> (\E p \in stagedRows : At(p, u) /\ p.content = q.content)
    BY DEF RowsAt, At
  <2>4. Confirmed(q) <=>
          \A u \in q.start..(q.finish - 1) : u >= calculatedAt =>
             \E p \in stagedRows : At(p, u) /\ p.content = q.content
    BY <1>6, <2>3 DEF Confirmed
  <2> QED
    BY <2>1, <2>2, <2>4 DEF Repeated
<1>7. ASSUME NEW c \in clipped, At(c, t), Repeated(c, stagedRows, calculatedAt)
      PROVE  c \in ReadableOld(t) /\ Confirmed(c)
  <2>1. c.generation \notin Stale
    BY <1>2, <1>3, <1>5, <1>7 DEF At
  <2> QED
    BY <1>1, <1>6, <1>7, <2>1 DEF ReadableOld, RowsAt, At
<1>8. ASSUME NEW q \in ReadableOld(t), Confirmed(q)
      PROVE  q \in clipped /\ At(q, t) /\ Repeated(q, stagedRows, calculatedAt)
  BY <1>1, <1>6, <1>8 DEF ReadableOld, RowsAt, At, Confirmed
<1> QED
  BY <1>7, <1>8 DEF clipped

\* The merge gives each instant of the day what the definition gives it.
LEMMA MergeShows ==
  ASSUME MergeInputs, Merge
  PROVE  /\ result' \in SUBSET RowSet(End, OldAndNew, Digests) /\ Tidy(result')
         /\ \A t \in dayStart..(End - 2) : Shown(RowsAt(result', t)) = Expected(t)
<1> DEFINE clipped == ClipRevoked(storedRows, Stale, invalidatedAt)
           out == MergeStage(storedRows, stagedRows, calculatedAt, dayStart, Stale,
                             invalidatedAt)
<1>1. result' = out
  BY DEF Merge
<1>2. /\ End \in Nat /\ calculatedAt \in Nat /\ dayStart \in Nat /\ invalidatedAt \in Int
      /\ storedRows \in SUBSET RowSet(End, OldAndNew, Digests) /\ Tidy(storedRows)
      /\ stagedRows \in SUBSET RowSet(End, OldAndNew, Digests) /\ Tidy(stagedRows)
  BY IntervalsAssumption DEF MergeInputs
<1>3. /\ Tidy(out)
      /\ Reconciled(out, clipped, stagedRows, calculatedAt)
      /\ Chosen(out, clipped, stagedRows, calculatedAt, dayStart, Stale)
  BY <1>2, MergeStageTidy, SMTT(60)
<1>4. out \in SUBSET RowSet(End, OldAndNew, Digests)
  <2>1. \A s \in stagedRows : s.start < s.finish
    BY <1>2 DEF Tidy
  <2>2. ASSUME NEW r \in out PROVE r \in RowSet(End, OldAndNew, Digests)
    <3> HIDE DEF out
    <3>1. r \in MergeStage(storedRows, stagedRows, calculatedAt, dayStart, Stale,
                           invalidatedAt)
      BY DEF out
    <3> QED
      BY <1>2, <2>1, <3>1, MergeStageRows, SMTT(60)
  <2> HIDE DEF out
  <2> QED
    BY <2>2
<1>5. ASSUME NEW t \in dayStart..(End - 2) PROVE Shown(RowsAt(out, t)) = Expected(t)
  <2>1. t \in Int /\ dayStart <= t /\ calculatedAt \in Int
    BY <1>2
  <2>2. /\ \A q \in ReadableOld(t) : \E c \in clipped : From(c, q) /\ At(c, t)
        /\ \A c \in clipped : At(c, t) => \E q \in ReadableOld(t) : From(c, q)
    BY <2>1, ClippedIsReadable
  <2> DEFINE shows == RowsAt(out, t)
             new == RowsAt(stagedRows, t)
  <2>3. ASSUME NEW r \in shows, NEW p \in shows PROVE r = p
    <3>1. r \in out /\ p \in out /\ At(r, t) /\ At(p, t)
      BY <2>3 DEF RowsAt, At
    <3>2. {r.start, r.finish, p.start, p.finish} \subseteq Int
      BY <1>2, <1>4, <3>1 DEF RowSet
    <3>3. ShareInstant(r, p)
      BY <2>1, <3>1, <3>2 DEF ShareInstant, At
    <3> HIDE DEF out
    <3> QED
      BY <1>3, <3>1, <3>3 DEF Tidy, NoOverlap
  <2>4. /\ \A r : r \in shows <=> r \in out /\ At(r, t)
        /\ \A s : s \in new <=> s \in stagedRows /\ At(s, t)
    BY DEF RowsAt, At
  <2>5. CASE t < calculatedAt
    <3> HIDE DEF out, clipped, shows, new
    <3>1. /\ \A q \in clipped : At(q, t) => \E r \in shows : From(r, q)
          /\ \A r \in shows : \E q \in clipped \cup stagedRows : From(r, q) /\ At(q, t)
          /\ \A s \in new : (\E q \in clipped : At(q, t)) \/ (\E r \in shows : From(r, s))
      <4>1. \A s \in stagedRows : s.generation \notin Stale
        BY DEF MergeInputs, Stale
      <4> QED
        BY <1>3, <2>1, <2>4, <2>5, <4>1 DEF Reconciled, Chosen
    <3>2. CASE ReadableOld(t) # {}
      <4>1. \A q \in ReadableOld(t) : \E r \in shows : From(r, q)
        BY <2>2, <3>1 DEF From
      <4>2. \A r \in shows : \E q \in ReadableOld(t) : From(r, q)
        BY <2>3, <3>2, <4>1
      <4>3. Shown(shows) = Shown(ReadableOld(t))
        BY <4>1, <4>2, ShownSame
      <4> QED
        BY <2>5, <3>2, <4>3 DEF Expected, shows
    <3>3. CASE ReadableOld(t) = {}
      <4>1. \A s \in new : \E r \in shows : From(r, s)
        BY <2>2, <3>1, <3>3
      <4>2. \A r \in shows : \E s \in new : From(r, s)
        BY <2>2, <2>4, <3>1, <3>3
      <4>3. Shown(shows) = Shown(new)
        BY <4>1, <4>2, ShownSame
      <4> QED
        BY <2>5, <3>3, <4>3 DEF Expected, shows, new
    <3> QED
      BY <3>2, <3>3
  <2>6. CASE t >= calculatedAt
    <3> DEFINE kept == {r \in ReadableOld(t) : Confirmed(r)}
    <3>1. /\ \A c \in clipped : At(c, t) /\ Repeated(c, stagedRows, calculatedAt) => c \in kept
          /\ \A q \in kept : q \in clipped /\ At(q, t) /\ Repeated(q, stagedRows, calculatedAt)
      BY <2>1, <2>6, RepeatedIsConfirmed
    <3>2. Expected(t) = IF kept # {} THEN Shown(kept) ELSE Shown(new)
      BY <2>1, <2>6 DEF Expected
    <3> HIDE DEF out, clipped, shows, new, kept
    <3>3. /\ \A q \in kept : \E r \in shows : From(r, q)
          /\ \A r \in shows : (\E q \in kept : From(r, q)) \/ (\E s \in new : From(r, s))
          /\ \A s \in new : kept # {} \/ (\E r \in shows : From(r, s))
      BY <1>3, <2>1, <2>4, <2>6, <3>1 DEF Chosen
    <3>4. CASE kept # {}
      <4>1. \A r \in shows : \E q \in kept : From(r, q)
        BY <2>3, <3>3, <3>4
      <4>2. Shown(shows) = Shown(kept)
        BY <3>3, <4>1, ShownSame
      <4> QED
        BY <3>2, <3>4, <4>2 DEF shows
    <3>5. CASE kept = {}
      <4>1. /\ \A r \in shows : \E s \in new : From(r, s)
            /\ \A s \in new : \E r \in shows : From(r, s)
        BY <3>3, <3>5
      <4>2. Shown(shows) = Shown(new)
        BY <4>1, ShownSame
      <4> QED
        BY <3>2, <3>5, <4>2 DEF shows
    <3> QED
      BY <3>4, <3>5
  <2> QED
    BY <2>1, <2>5, <2>6
<1> HIDE DEF out, clipped
<1> QED
  BY <1>1, <1>3, <1>4, <1>5

\* Cutting to the window changes no instant of the window.
LEMMA PruneShows ==
  ASSUME MergeInputs, NEW rows \in SUBSET RowSet(End, OldAndNew, Digests), Tidy(rows),
         dayStart < End - 1
  PROVE  LET left == PruneRows(rows, dayStart, End - 1) IN
         /\ left \in SUBSET RowSet(End, OldAndNew, Digests) /\ Tidy(left)
         /\ \A t \in dayStart..(End - 2) : Shown(RowsAt(left, t)) = Shown(RowsAt(rows, t))
<1> DEFINE left == PruneRows(rows, dayStart, End - 1)
<1>1. End \in Nat /\ dayStart \in Nat /\ End - 1 \in Nat
  BY IntervalsAssumption DEF MergeInputs
<1> DEFINE today == dayStart
           windowEnd == End - 1
<1>2. (Overlapping(rows, today, windowEnd) \ rows) \cup PruneRows(rows, today, windowEnd) = left
  BY DEF Overlapping
<1>3. /\ Tidy(left)
      /\ \A r \in left : \E q \in rows : Piece(r, q)
      /\ \A q \in rows, t \in dayStart..((End - 1) - 1) :
           At(q, t) => \E r \in left : From(r, q) /\ At(r, t)
  <2>1. /\ rows \in SUBSET rows /\ today \in Nat /\ windowEnd \in Nat /\ today < windowEnd
        /\ Tidy(rows)
    BY <1>1
  <2> HIDE DEF today, windowEnd, left
  <2>2. /\ Tidy(left) /\ \A r \in left : \E q \in rows : Piece(r, q)
        /\ \A q \in rows, t \in today..(windowEnd - 1) :
             At(q, t) => \E r \in left : From(r, q) /\ At(r, t)
    BY <1>1, <1>2, <2>1, PruneRowsTidy, SMTT(60)
  <2> QED
    BY <2>2 DEF today, windowEnd
<1> HIDE DEF left
<1>4. left \in SUBSET RowSet(End, OldAndNew, Digests)
  BY <1>1, PruneRowsRows, SMTT(60) DEF left
<1>5. ASSUME NEW t \in dayStart..(End - 2)
      PROVE  Shown(RowsAt(left, t)) = Shown(RowsAt(rows, t))
  <2>1. t \in Int /\ t \in dayStart..((End - 1) - 1)
    BY <1>1
  <2>2. ASSUME NEW r \in RowsAt(left, t) PROVE \E q \in RowsAt(rows, t) : From(r, q)
    <3>1. r \in left /\ At(r, t)
      BY DEF RowsAt, At
    <3>2. PICK q \in rows : Piece(r, q)
      BY <1>3, <3>1
    <3>3. {r.start, r.finish, q.start, q.finish} \subseteq Int
      BY <1>1, <1>4, <3>1 DEF RowSet
    <3> QED
      BY <2>1, <3>1, <3>2, <3>3 DEF RowsAt, At, Piece
  <2>3. \A q \in RowsAt(rows, t) : \E r \in RowsAt(left, t) : From(r, q)
    BY <1>3, <2>1 DEF RowsAt, At
  <2> QED
    BY <2>2, <2>3, ShownSame
<1> QED
  BY <1>3, <1>4, <1>5 DEF left

LEMMA MergeInvInit == MergeInit => MergeInv
<1> SUFFICES ASSUME MergeInit PROVE MergeInv
  OBVIOUS
<1>1. ASSUME NEW gens \in SUBSET OldAndNew, NEW table \in Tables(gens)
      PROVE  /\ table \in SUBSET RowSet(End, OldAndNew, Digests) /\ Tidy(table)
             /\ \A r \in table : r.generation \in gens
  <2>1. /\ NoOverlap(table)
        /\ table = {} \/ \E f \in [1..End -> Rows(gens)] : table = {f[n] : n \in 1..End}
    BY DEF Tables
  <2>2. table \in SUBSET Rows(gens)
    <3>1. CASE table = {}
      BY <3>1
    <3>2. CASE table # {}
      <4>1. PICK f \in [1..End -> Rows(gens)] : table = {f[n] : n \in 1..End}
        BY <2>1, <3>2
      <4> QED
        BY <4>1
    <3> QED
      BY <3>1, <3>2
  <2> QED
    BY <2>1, <2>2 DEF Rows, RowSet, Tidy
<1>2. OldGenerations \in SUBSET OldAndNew /\ {3} \in SUBSET OldAndNew
  BY DEF OldAndNew
<1>3. /\ storedRows \in SUBSET RowSet(End, OldAndNew, Digests) /\ Tidy(storedRows)
      /\ stagedRows \in SUBSET RowSet(End, OldAndNew, Digests) /\ Tidy(stagedRows)
      /\ \A s \in stagedRows : s.generation = 3
  BY <1>1, <1>2 DEF MergeInit
<1>4. /\ calculatedAt \in Nat /\ dayStart \in Nat
      /\ invalidatedAt \in Nat /\ invalidatedAt <= calculatedAt
  BY IntervalsAssumption DEF MergeInit
<1>5. ~done
  BY DEF MergeInit
<1> QED
  BY <1>3, <1>4, <1>5 DEF MergeInv, MergeInputs

LEMMA MergeInvNext == MergeInv /\ [MergeNext]_mergeVars => MergeInv'
<1> SUFFICES ASSUME MergeInv, [MergeNext]_mergeVars PROVE MergeInv'
  OBVIOUS
<1>1. UNCHANGED <<storedRows, stagedRows, calculatedAt, dayStart, invalidatedAt>>
  BY DEF MergeNext, Merge, Prune, mergeVars
<1>2. MergeInputs /\ MergeInputs'
  BY <1>1 DEF MergeInv, MergeInputs
<1>3. ASSUME NEW t PROVE Expected(t)' = Expected(t)
  <2>1. /\ storedRows' = storedRows /\ stagedRows' = stagedRows
        /\ calculatedAt' = calculatedAt /\ invalidatedAt' = invalidatedAt
    BY <1>1
  <2>2. ReadableOld(t)' = ReadableOld(t)
    BY <2>1 DEF ReadableOld
  <2>3. ASSUME NEW r PROVE Confirmed(r)' <=> Confirmed(r)
    BY <2>1 DEF Confirmed
  <2>4. {r \in ReadableOld(t)' : Confirmed(r)'} = {r \in ReadableOld(t) : Confirmed(r)}
    BY <2>2, <2>3
  <2> QED
    BY <2>1, <2>2, <2>4 DEF Expected
<1>4. CASE Merge
  <2>1. /\ result' \in SUBSET RowSet(End, OldAndNew, Digests) /\ Tidy(result')
        /\ \A t \in dayStart..(End - 2) : Shown(RowsAt(result', t)) = Expected(t)
    BY <1>2, <1>4, MergeShows
  <2> QED
    BY <1>1, <1>2, <1>3, <2>1 DEF MergeInv, AsExpected
<1>5. CASE Prune
  <2>1. CASE dayStart < End - 1
    <3>1. /\ done /\ result \in SUBSET RowSet(End, OldAndNew, Digests) /\ Tidy(result)
          /\ \A t \in dayStart..(End - 2) : Shown(RowsAt(result, t)) = Expected(t)
      BY <1>5, <2>1 DEF MergeInv, Prune, AsExpected
    <3>2. result' = PruneRows(result, dayStart, End - 1)
      BY <1>5 DEF Prune
    <3>3. /\ result' \in SUBSET RowSet(End, OldAndNew, Digests) /\ Tidy(result')
          /\ \A t \in dayStart..(End - 2) : Shown(RowsAt(result', t)) = Shown(RowsAt(result, t))
      BY <1>2, <2>1, <3>1, <3>2, PruneShows
    <3> QED
      BY <1>1, <1>2, <1>3, <3>1, <3>3 DEF MergeInv, AsExpected
  <2>2. CASE ~(dayStart < End - 1)
    BY <1>1, <1>2, <2>2 DEF MergeInv
  <2> QED
    BY <2>1, <2>2
<1>6. CASE UNCHANGED mergeVars
  <2>1. UNCHANGED <<result, done>>
    BY <1>6 DEF mergeVars
  <2> QED
    BY <1>1, <1>2, <1>3, <2>1 DEF MergeInv, AsExpected
<1> QED
  BY <1>4, <1>5, <1>6 DEF MergeNext

\* What the reconciliation of intervals leaves amounts, at every instant of the
\* window, to the definition of one instant at a time: of tables and stages of
\* every size, for every calculation instant, day start and invalidation.
THEOREM MergedPointwise == MergeSpec => []MergeIsPointwise
<1>1. MergeInv => MergeIsPointwise
  <2> SUFFICES ASSUME MergeInv, done, NEW t \in dayStart..(End - 2)
               PROVE  Shown(RowsAt(result, t)) = Expected(t)
    BY DEF MergeIsPointwise
  <2>1. dayStart < End - 1
    BY IntervalsAssumption DEF MergeInv, MergeInputs
  <2> QED
    BY <2>1 DEF MergeInv, AsExpected
<1> QED
  BY <1>1, MergeInvInit, MergeInvNext, PTL DEF MergeSpec
=============================================================================
