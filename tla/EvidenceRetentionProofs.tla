----------------------- MODULE EvidenceRetentionProofs -----------------------
(***************************************************************************)
(* Proofs about what retention leaves of the history of sources and        *)
(* assessments: nothing that is published names what is gone, each record  *)
(* counts as it was heard last, readers are given what is live, what was   *)
(* known of the past stays known, and a step that only deletes is not      *)
(* noticed by readers and producers.                                       *)
(*                                                                         *)
(* The inductive invariant has four parts: on the rows of the records, on  *)
(* the revisions of forecasts, on the references of publications and on    *)
(* the views that readers choose from.                                     *)
(*                                                                         *)
(* The last part is about the readers of the same rows (ConditionEvidence):*)
(* what they show of a place is the newest evidence, and they agree on it. *)
(* To the invariant on the rows it adds that each record that was heard    *)
(* has a row that counts, and that no two of its rows are of one instant,  *)
(* so a row that is newest and unambiguous says what was heard last.       *)
(***************************************************************************)
EXTENDS EvidenceRetention, ConditionEvidence, NumberSets

Row == [id : Nat, record : Records, content : Contents,
        state : {"recorded", "stale", "superseded"}, fetched : Nat]

SourceTypes ==
  /\ clock \in Nat
  /\ batches \in Nat
  /\ snapshots \in SUBSET Row
  /\ heard \in [Records -> Contents \cup {None}]

\* A record has one row for each thing that was said of it, and the one that
\* counts says what was said last.
OneRowPerContent ==
  \A s, t \in snapshots : s.record = t.record /\ s.content = t.content => s = t

CurrentHeard == \A s \in snapshots : s.state # "superseded" => s.content = heard[s.record]

\* What was heard lies before the end of the window, and until its target is
\* of the past there is a row for it that counts.
HeardKept ==
  \A r \in Records : heard[r] # None =>
    /\ ObservedAt[r] < WindowEnd(clock)
    /\ ValidUntil[r] > DayStart(clock) =>
         \E s \in snapshots : s.record = r /\ s.state # "superseded"

\* Rows are numbered in the order in which they were fetched.
NumberedInOrder ==
  /\ \A s \in snapshots : s.id <= batches /\ s.fetched <= clock
  /\ \A s, t \in snapshots : /\ s.id = t.id => s = t
                             /\ s.id < t.id => s.fetched <= t.fetched

SourceInv ==
  SourceTypes /\ OneRowPerContent /\ CurrentHeard /\ HeardKept /\ NumberedInOrder

\* Revisions are of the source of their record, and not of the future.
Revision == [id : Nat, key : {SourceKey[r] : r \in Records}, record : Records,
             snapshot : Nat, available : Nat]

RevisionInv ==
  /\ revisions \in SUBSET Revision
  /\ \E n \in Nat : \A v \in revisions : v.id <= n
  /\ \A v \in revisions : v.key = SourceKey[v.record] /\ v.available <= clock

\* Nothing a publication names is gone, nor what the projection at work holds.
ReferencesHeld ==
  /\ References(revisions) \subseteq Ids
  /\ projector.on => projector.ids \subseteq Ids

\* Views name assessments that exist, and runs have their view.
ViewsComplete ==
  /\ \A m \in reads : Selections(m) \subseteq assessments
  /\ \A n \in runs : \E m \in reads : m.id = n.id

ReferenceInv == ReferencesHeld /\ ViewsComplete

View == [id : 1 .. MaxRuns, group : Groups, items : SUBSET Row, mapping : Nat,
         asOf : Nat, available : Nat, start : Nat, until : Nat]

ViewTypes ==
  /\ reads \in SUBSET View
  /\ \A n \in runs : n.id \in 1 .. MaxRuns
  /\ mapping.version \in Nat

\* A view ends before any of its rows does, and rests on a mapping that was in
\* force at some time.
ViewsFit ==
  \A m \in reads : /\ m.available <= clock
                   /\ m.start <= DayStart(clock)
                   /\ m.mapping <= mapping.version
                   /\ \A s \in m.items : m.until <= ValidUntil[s.record]

\* The view readers are given has its run, and views that are not out of the
\* window are numbered in the order of their days, though the numbers of runs
\* that are gone are given again.
Span == WindowDays * DayLength
Live(m) == m.start + Span > DayStart(clock)
Superior(m) == \A o \in reads : o.group = m.group /\ Live(o) => o.id <= m.id
ViewsOrdered ==
  /\ \A m \in reads : Live(m) /\ Superior(m) => \E n \in runs : n.id = m.id
  /\ \A m, o \in reads : m.group = o.group /\ Live(m) /\ m.start < o.start => m.id < o.id

ViewInv == ViewTypes /\ ViewsFit /\ ViewsOrdered

IInv == SourceInv /\ RevisionInv /\ ReferenceInv /\ ViewInv

-----------------------------------------------------------------------------
(* Days and windows.                                                       *)

LEMMA Days ==
  ASSUME NEW c \in Nat
  PROVE  /\ Span \in Nat \ {0}
         /\ DayStart(c) \in Nat /\ DayStart(c) <= c
         /\ WindowEnd(c) = DayStart(c) + Span
         /\ c < WindowEnd(c)
<1> DEFINE q == c \div DayLength
<1>1. DayLength \in Nat \ {0} /\ WindowDays \in Nat \ {0}
  BY HistoryAssumption
<1>2. q \in Nat /\ q * DayLength <= c /\ c < (q + 1) * DayLength
  BY <1>1
<1>3. DayStart(c) = q * DayLength
  BY DEF DayStart
<1> HIDE DEF q
<1>4. \A a, b \in Nat : a * b \in Nat
  OBVIOUS
<1>5. \A a, b \in Nat \ {0} : a * b >= b
  OBVIOUS
<1>6. Span \in Nat /\ Span >= DayLength
  BY <1>1, <1>4, <1>5 DEF Span
<1>7. DayStart(c) \in Nat
  BY <1>1, <1>2, <1>3, <1>4
<1>8. WindowEnd(c) = DayStart(c) + Span
  BY DEF WindowEnd, Span
<1>9. (q + 1) * DayLength = DayStart(c) + DayLength
  BY <1>1, <1>2, <1>3
<1>10. DayStart(c) <= c /\ c < DayStart(c) + DayLength
  BY <1>2, <1>3, <1>9
<1> QED
  BY <1>1, <1>6, <1>7, <1>8, <1>10

LEMMA LaterDay ==
  ASSUME NEW c \in Nat, NEW d \in Nat, c <= d
  PROVE  DayStart(c) <= DayStart(d)
<1> DEFINE q == c \div DayLength
           p == d \div DayLength
<1>1. DayLength \in Nat \ {0}
  BY HistoryAssumption
<1>2. q \in Nat /\ q * DayLength <= c
  BY <1>1
<1>3. p \in Nat /\ d < (p + 1) * DayLength
  BY <1>1
<1>4. DayStart(c) = q * DayLength /\ DayStart(d) = p * DayLength
  BY DEF DayStart
<1> HIDE DEF p, q
<1>5. \A a, b \in Nat : a <= b => a * DayLength <= b * DayLength
  BY <1>1
<1>6. \A a \in Nat : a * DayLength \in Nat
  BY <1>1
<1>7. q <= p
  <2> SUFFICES ASSUME p + 1 <= q PROVE FALSE
    BY <1>2, <1>3
  <2>1. (p + 1) * DayLength <= q * DayLength
    BY <1>2, <1>3, <1>5
  <2>2. (p + 1) * DayLength \in Nat /\ q * DayLength \in Nat
    BY <1>2, <1>3, <1>6
  <2> QED
    BY <1>2, <1>3, <2>1, <2>2
<1> QED
  BY <1>2, <1>3, <1>4, <1>5, <1>7

-----------------------------------------------------------------------------
(* The rows of the records.                                                *)

\* The fields of rows.
LEMMA RowFields ==
  ASSUME SourceTypes
  PROVE  \A s \in snapshots :
           /\ s.id \in Nat /\ s.fetched \in Nat
           /\ s.record \in Records /\ s.content \in Contents
           /\ s.state \in {"recorded", "stale", "superseded"}
           /\ ObservedAt[s.record] \in Nat /\ ValidUntil[s.record] \in Nat
           /\ ObservedAt[s.record] < ValidUntil[s.record]
BY HistoryAssumption DEF SourceTypes, Row

\* A row keeps its identity whatever becomes of its state.
Same(s, q) ==
  s.id = q.id /\ s.record = q.record /\ s.content = q.content /\ s.fetched = q.fetched

LEMMA NewState ==
  ASSUME NEW q \in Row, NEW state \in {"recorded", "stale", "superseded"}
  PROVE  /\ [q EXCEPT !.state = state] \in Row
         /\ Same([q EXCEPT !.state = state], q)
         /\ [q EXCEPT !.state = state].state = state
BY DEF Row, Same

\* A batch that says c of r leaves one row x of r that counts, which is new or
\* was superseded; the other rows of r are superseded.
Past(q, r) == IF q.record = r THEN [q EXCEPT !.state = "superseded"] ELSE q
Settled(r, c, x, origin) ==
  /\ x \in Row /\ x.record = r /\ x.content = c /\ x.state # "superseded"
  /\ origin \subseteq snapshots
  /\ snapshots' = {x} \cup {Past(q, r) : q \in snapshots \ origin}
  /\ \A q \in snapshots \ origin : q.record = r => q.content # c
  /\ \/ origin = {} /\ x.id = batches + 1 /\ x.fetched = clock
     \/ \E q \in snapshots : origin = {q} /\ Same(x, q) /\ q.state = "superseded"

LEMMA BatchStores ==
  ASSUME SourceInv, NEW r \in Records, NEW c \in Contents, StoreBatch(r, c)
  PROVE  \E x, origin : Settled(r, c, x, origin)
<1> USE DEF SourceInv
<1> DEFINE known == {s \in Family(r) : s.content = c}
<1>1. /\ snapshots \subseteq Row
      /\ \A q \in snapshots : q \in Family(r) <=> q.record = r
  BY DEF SourceTypes, Family
<1>2. State(r) \in {"recorded", "stale", "superseded"} /\ State(r) # "superseded"
  BY DEF State
<1>3. CASE known = {} /\ snapshots' = Insert(r, c)
  <2> DEFINE x == [id |-> batches + 1, record |-> r, content |-> c,
                   state |-> State(r), fetched |-> clock]
  <2>1. x \in Row
    BY <1>2 DEF Row, SourceTypes
  <2>2. snapshots' = {x} \cup {Past(q, r) : q \in snapshots \ {}}
    <3>1. snapshots' = (snapshots \ Family(r)) \cup {x}
                         \cup {[q EXCEPT !.state = "superseded"] : q \in Family(r)}
      BY <1>3, Zenon DEF Insert, Superseded
    <3> HIDE DEF x
    <3>2. Family(r) = {q \in snapshots : q.record = r}
      BY DEF Family
    <3> QED
      BY <3>1, <3>2 DEF Past
  <2>3. \A q \in snapshots \ {} : q.record = r => q.content # c
    BY <1>1, <1>3
  <2>4. Settled(r, c, x, {})
    BY <1>2, <2>1, <2>2, <2>3 DEF Settled
  <2> QED
    BY <2>4
<1>4. ASSUME NEW s \in known, s.state = "superseded", snapshots' = Restore(r, s)
      PROVE  \E x, origin : Settled(r, c, x, origin)
  <2> DEFINE x == [s EXCEPT !.state = State(r)]
  <2>1. s \in snapshots /\ s.record = r /\ s.content = c
    BY <1>1 DEF Family
  <2>2. x \in Row /\ Same(x, s) /\ x.state = State(r)
    BY <1>1, <1>2, <2>1, NewState
  <2>3. \A q \in snapshots \ {s} : q.record = r => q.content # c
    BY <2>1 DEF OneRowPerContent
  <2>4. snapshots' = {x} \cup {Past(q, r) : q \in snapshots \ {s}}
    <3>1. snapshots' = (snapshots \ Family(r)) \cup {x}
                         \cup {[q EXCEPT !.state = "superseded"] : q \in Family(r) \ {s}}
      BY <1>4, Zenon DEF Restore, Superseded
    <3> HIDE DEF x
    <3>2. Family(r) = {q \in snapshots : q.record = r}
      BY DEF Family
    <3> QED
      BY <2>1, <3>1, <3>2 DEF Past
  <2> HIDE DEF x
  <2>5. x.record = r /\ x.content = c /\ x.state # "superseded"
    BY <1>2, <2>1, <2>2 DEF Same
  <2>6. Settled(r, c, x, {s})
    BY <1>4, <2>1, <2>2, <2>3, <2>4, <2>5 DEF Settled
  <2> QED
    BY <2>6
<1> QED
  BY <1>3, <1>4 DEF StoreBatch

\* Where the rows after a batch come from.
LEMMA RowsAfterBatch ==
  ASSUME SourceInv, NEW r \in Records, NEW c, NEW x, NEW origin, Settled(r, c, x, origin)
  PROVE  /\ snapshots' \subseteq Row
         /\ x \in snapshots'
         /\ \A s \in snapshots' : s = x \/ \E q \in snapshots \ origin :
              /\ s = Past(q, r) /\ Same(s, q)
              /\ IF q.record = r THEN s.state = "superseded" ELSE s = q
         /\ \A q \in snapshots : \E s \in snapshots' :
              Same(s, q) /\ (q.record # r => s = q)
<1> USE DEF SourceInv
<1>1. \A q \in snapshots : /\ Past(q, r) \in Row /\ Same(Past(q, r), q)
                           /\ IF q.record = r THEN Past(q, r).state = "superseded"
                                              ELSE Past(q, r) = q
  BY NewState DEF Past, SourceTypes, Same
<1>2. snapshots' \subseteq Row /\ x \in snapshots'
  BY <1>1 DEF Settled
<1>3. \A s \in snapshots' : s = x \/ \E q \in snapshots \ origin : s = Past(q, r)
  BY DEF Settled
<1>4. ASSUME NEW q \in snapshots PROVE \E s \in snapshots' : Same(s, q) /\ (q.record # r => s = q)
  <2>1. CASE q \in origin
    BY <1>2, <2>1 DEF Settled, Same
  <2>2. CASE q \notin origin
    BY <1>1, <2>2 DEF Settled
  <2> QED
    BY <2>1, <2>2
<1> QED
  BY <1>1, <1>2, <1>3, <1>4

LEMMA StoreKeepsSources ==
  ASSUME SourceInv, NEW r \in Records, NEW c \in Contents, StoreBatch(r, c)
  PROVE  SourceInv'
<1> PICK x, origin : Settled(r, c, x, origin)
  BY BatchStores
<1>1. /\ clock' = clock /\ batches' = batches + 1 /\ heard' = [heard EXCEPT ![r] = c]
      /\ ObservedAt[r] < WindowEnd(clock)
  BY DEF StoreBatch
<1>2. /\ snapshots' \subseteq Row
      /\ x \in snapshots'
      /\ \A s \in snapshots' : s = x \/ \E q \in snapshots \ origin :
           /\ s = Past(q, r) /\ Same(s, q)
           /\ IF q.record = r THEN s.state = "superseded" ELSE s = q
      /\ \A q \in snapshots : q.record # r => q \in snapshots'
  BY RowsAfterBatch
<1>3. /\ x.record = r /\ x.content = c /\ x.state # "superseded"
      /\ \A q \in snapshots \ origin : q.record = r => q.content # c
      /\ \/ origin = {} /\ x.id = batches + 1 /\ x.fetched = clock
         \/ \E q \in snapshots : origin = {q} /\ Same(x, q)
  BY DEF Settled
<1>4. \A q \in snapshots : q.id \in Nat /\ q.fetched \in Nat /\ q.record \in Records
  BY RowFields DEF SourceInv
<1>5. heard'[r] = c /\ \A u \in Records : u # r => heard'[u] = heard[u]
  BY <1>1 DEF SourceInv, SourceTypes
<1>6. SourceTypes'
  BY <1>1, <1>2 DEF SourceInv, SourceTypes
<1>7. OneRowPerContent'
  <2> SUFFICES ASSUME NEW s \in snapshots', NEW t \in snapshots',
                      s.record = t.record, s.content = t.content
               PROVE  s = t
    BY DEF OneRowPerContent
  <2>1. CASE s # x /\ t # x
    BY <1>2, <2>1 DEF Same, SourceInv, OneRowPerContent
  <2>2. CASE s = x \/ t = x
    BY <1>2, <1>3, <2>2 DEF Same
  <2> QED
    BY <2>1, <2>2
<1>8. CurrentHeard'
  BY <1>2, <1>3, <1>4, <1>5 DEF SourceInv, CurrentHeard
<1>9. HeardKept'
  <2> SUFFICES ASSUME NEW u \in Records, heard'[u] # None
               PROVE  /\ ObservedAt[u] < WindowEnd(clock)
                      /\ ValidUntil[u] > DayStart(clock) =>
                           \E s \in snapshots' : s.record = u /\ s.state # "superseded"
    BY <1>1 DEF HeardKept, WindowEnd, DayStart
  <2>1. CASE u = r
    BY <1>1, <1>2, <1>3, <2>1
  <2>2. CASE u # r
    BY <1>2, <1>5, <2>2 DEF SourceInv, HeardKept
  <2> QED
    BY <2>1, <2>2
<1>10. NumberedInOrder'
  <2>1. batches \in Nat /\ clock \in Nat
    BY DEF SourceInv, SourceTypes
  <2>2. \A q \in snapshots : q.id <= batches /\ q.fetched <= clock
    BY DEF SourceInv, NumberedInOrder
  <2>3. \A s \in snapshots' : \/ s = x /\ origin = {} /\ s.id = batches + 1 /\ s.fetched = clock
                             \/ \E q \in snapshots : Same(s, q)
    BY <1>2, <1>3
  <2>4. \A s \in snapshots' : s.id <= batches + 1 /\ s.fetched <= clock
    BY <1>4, <2>1, <2>2, <2>3 DEF Same
  <2>5. ASSUME NEW s \in snapshots', NEW t \in snapshots', s.id = t.id PROVE s = t
    <3>1. \A q \in snapshots : q.id # batches + 1
      BY <1>4, <2>1, <2>2
    <3>2. \A q, p \in snapshots : q.id = p.id => q = p
      BY DEF SourceInv, NumberedInOrder
    <3>3. CASE s # x /\ t # x
      BY <1>2, <2>5, <3>2, <3>3 DEF Same
    <3>4. ASSUME NEW u \in snapshots', u # x PROVE u.id # x.id
      <4>1. PICK q \in snapshots \ origin : Same(u, q)
        BY <1>2, <3>4
      <4> QED
        BY <1>3, <3>1, <3>2, <4>1 DEF Same
    <3> QED
      BY <2>5, <3>3, <3>4
  <2>6. ASSUME NEW s \in snapshots', NEW t \in snapshots', s.id < t.id PROVE s.fetched <= t.fetched
    <3>1. \A q, p \in snapshots : q.id < p.id => q.fetched <= p.fetched
      BY DEF SourceInv, NumberedInOrder
    <3>2. CASE t.id = batches + 1 /\ t.fetched = clock
      BY <2>4, <3>2
    <3>3. CASE \E p \in snapshots : Same(t, p)
      <4>1. PICK p \in snapshots : Same(t, p)
        BY <3>3
      <4>2. t.id <= batches
        BY <2>2, <4>1 DEF Same
      <4>3. s.id # batches + 1
        BY <1>2, <2>1, <2>6, <4>2 DEF Row
      <4>4. PICK q \in snapshots : Same(s, q)
        BY <2>3, <4>3
      <4> QED
        BY <2>6, <3>1, <4>1, <4>4 DEF Same
    <3> QED
      BY <2>3, <3>2, <3>3
  <2> QED
    BY <1>1, <2>4, <2>5, <2>6 DEF NumberedInOrder
<1> QED
  BY <1>6, <1>7, <1>8, <1>9, <1>10 DEF SourceInv

\* What a pass over the sources leaves: all that was to be kept, of each record
\* all rows or none.
LEMMA KeptRows ==
  ASSUME NEW history
  PROVE  /\ Kept(history) \subseteq snapshots
         /\ \A s \in snapshots : s.id \in References(history) => s \in Kept(history)
         /\ InCurrentWindow \subseteq Kept(history)
         /\ LatestTargets \subseteq Kept(history)
         /\ \A s, t \in snapshots : s \in Kept(history) /\ t.record = s.record => t \in Kept(history)
<1> DEFINE due == {s \in snapshots : s.id \in References(history)} \cup InCurrentWindow
                    \cup LatestTargets
           all == due \cup Presence(due)
<1>1. Kept(history) = Families(all)
  BY DEF Kept
<1>2. all \subseteq snapshots
  BY DEF InCurrentWindow, LatestTargets, Presence
<1>3. due \subseteq all
  OBVIOUS
<1> HIDE DEF all
<1>4. all \subseteq Families(all)
  BY <1>2 DEF Families
<1>5. \A s, t \in snapshots : s \in Families(all) /\ t.record = s.record => t \in Families(all)
  BY DEF Families
<1>6. Families(all) \subseteq snapshots
  BY DEF Families
<1> QED
  BY <1>1, <1>3, <1>4, <1>5, <1>6

LEMMA PruneLeaves ==
  ASSUME PruneSources
  PROVE  /\ snapshots' \subseteq snapshots
         /\ Kept(revisions') \subseteq snapshots'
         /\ revisions' \subseteq revisions
         /\ InCurrentWindow \subseteq snapshots'
<1>1. PICK gone \in Victims(snapshots \ Kept(revisions')) : snapshots' = snapshots \ gone
  BY DEF PruneSources
<1>2. gone \subseteq snapshots \ Kept(revisions')
  BY <1>1 DEF Victims
<1>3. revisions' \subseteq revisions
  BY DEF PruneSources
<1> QED
  BY <1>1, <1>2, <1>3, KeptRows

LEMMA PruneKeepsSources == ASSUME SourceInv, PruneSources PROVE SourceInv'
<1>1. UNCHANGED <<clock, batches, heard>>
  BY DEF PruneSources
<1>2. snapshots' \subseteq snapshots /\ InCurrentWindow \subseteq snapshots'
  BY PruneLeaves
<1>3. SourceTypes' /\ OneRowPerContent' /\ CurrentHeard' /\ NumberedInOrder'
  BY <1>1, <1>2 DEF SourceInv, SourceTypes, OneRowPerContent, CurrentHeard, NumberedInOrder
<1>4. HeardKept'
  <2> SUFFICES ASSUME NEW u \in Records, heard[u] # None
               PROVE  /\ ObservedAt[u] < WindowEnd(clock)
                      /\ ValidUntil[u] > DayStart(clock) =>
                           \E s \in snapshots' : s.record = u /\ s.state # "superseded"
    BY <1>1 DEF HeardKept, WindowEnd, DayStart
  <2>1. ASSUME NEW s \in snapshots, s.record = u, ValidUntil[u] > DayStart(clock)
        PROVE  s \in snapshots'
    BY <1>2, <2>1 DEF InCurrentWindow, InWindow, SourceInv, HeardKept
  <2> QED
    BY <2>1 DEF SourceInv, HeardKept
<1> QED
  BY <1>3, <1>4 DEF SourceInv

\* The other steps leave the rows alone, and the clock does not go back.
Passes == clock' \in Nat /\ clock <= clock'

LEMMA TimeKeepsSources ==
  ASSUME SourceInv, Passes, UNCHANGED <<batches, snapshots, heard>>
  PROVE  SourceInv'
<1>1. clock \in Nat /\ clock' \in Nat /\ clock <= clock'
  BY DEF Passes, SourceInv, SourceTypes
<1>2. SourceTypes' /\ OneRowPerContent' /\ CurrentHeard'
  BY <1>1 DEF SourceInv, SourceTypes, OneRowPerContent, CurrentHeard
<1>3. NumberedInOrder'
  BY <1>1, RowFields DEF SourceInv, NumberedInOrder
<1>4. HeardKept'
  <2> SUFFICES ASSUME NEW u \in Records, heard[u] # None
               PROVE  /\ ObservedAt[u] < WindowEnd(clock')
                      /\ ValidUntil[u] > DayStart(clock') =>
                           \E s \in snapshots : s.record = u /\ s.state # "superseded"
    BY DEF HeardKept, WindowEnd, DayStart
  <2>1. /\ DayStart(clock) <= DayStart(clock') /\ DayStart(clock) \in Nat /\ DayStart(clock') \in Nat
        /\ WindowEnd(clock) <= WindowEnd(clock') /\ WindowEnd(clock) \in Nat /\ WindowEnd(clock') \in Nat
    BY <1>1, Days, LaterDay
  <2>2. ObservedAt[u] \in Nat /\ ValidUntil[u] \in Nat
    BY HistoryAssumption
  <2>3. ObservedAt[u] < WindowEnd(clock)
    BY DEF SourceInv, HeardKept
  <2>4. ValidUntil[u] > DayStart(clock) => \E s \in snapshots : s.record = u /\ s.state # "superseded"
    BY DEF SourceInv, HeardKept
  <2> QED
    BY <2>1, <2>2, <2>3, <2>4
<1> QED
  BY <1>2, <1>3, <1>4 DEF SourceInv

\* Every step stores a batch, prunes the sources, or leaves the rows alone.
LEMMA StepsOnSources ==
  ASSUME SourceInv, [Next]_vars
  PROVE  \/ \E r \in Records, c \in Contents :
              StoreBatch(r, c) /\ UNCHANGED <<assessmentVars, others>>
         \/ PruneSources
         \/ Passes /\ UNCHANGED <<batches, snapshots, heard>>
<1> USE DEF SourceInv, SourceTypes, Passes
<1>1. CASE UNCHANGED vars
  BY <1>1 DEF vars, sourceVars
<1>2. CASE Tick
  BY <1>2 DEF Tick
<1>3. CASE ProjectForecasts
  BY <1>3 DEF ProjectForecasts
<1>4. CASE RegisterMapping
  BY <1>4 DEF RegisterMapping, sourceVars
<1>5. CASE ProduceAssessments
  <2>1. PICK publishing \in clock .. clock + 1 :
          clock' = publishing /\ UNCHANGED <<snapshots, batches, heard>>
    BY <1>5, Zenon DEF ProduceAssessments
  <2> QED
    BY <2>1
<1>6. CASE BeginProjection \/ FinishProjection \/ ProjectorDies \/ PruneResults
  BY <1>6 DEF BeginProjection, FinishProjection, ProjectorDies, PruneResults, sourceVars
<1>7. CASE PruneAssessments
  BY <1>7 DEF PruneAssessments, sourceVars
<1> QED
  BY <1>1, <1>2, <1>3, <1>4, <1>5, <1>6, <1>7 DEF Next

LEMMA SourcesNext == ASSUME SourceInv, [Next]_vars PROVE SourceInv'
BY StepsOnSources, StoreKeepsSources, PruneKeepsSources, TimeKeepsSources

LEMMA SourcesInit == ASSUME Init PROVE SourceInv
BY DEF Init, SourceInit, SourceInv, SourceTypes, OneRowPerContent, CurrentHeard, HeardKept,
       NumberedInOrder

LEMMA LastHeard == ASSUME SourceInv PROVE CurrentIsLastHeard
<1> SUFFICES ASSUME NEW r \in Records
             PROVE  /\ \A s \in Current \cap Family(r) :
                         s.content = heard[r] /\ Cardinality(Current \cap Family(r)) = 1
                    /\ heard[r] # None /\ InWindow(r, clock) => Current \cap Family(r) # {}
  BY DEF CurrentIsLastHeard
<1>1. \A s : s \in Current \cap Family(r) <=>
               s \in snapshots /\ s.record = r /\ s.state # "superseded"
  BY DEF Current, Family
<1>2. ASSUME NEW s \in Current \cap Family(r)
      PROVE  s.content = heard[r] /\ Cardinality(Current \cap Family(r)) = 1
  <2>1. \A t \in Current \cap Family(r) : t.content = heard[r]
    BY <1>1 DEF SourceInv, CurrentHeard
  <2>2. Current \cap Family(r) = {s}
    BY <1>1, <2>1 DEF SourceInv, OneRowPerContent
  <2> QED
    BY <2>1, <2>2, FS_Singleton
<1>3. heard[r] # None /\ InWindow(r, clock) => Current \cap Family(r) # {}
  BY <1>1 DEF InWindow, SourceInv, HeardKept
<1> QED
  BY <1>2, <1>3

-----------------------------------------------------------------------------
(* The revisions of forecasts.                                             *)

LEMMA NextRevision ==
  ASSUME RevisionInv
  PROVE  LET next == IF revisions = {} THEN 1 ELSE Max(RevisionIds) + 1
         IN  next \in Nat /\ \A v \in revisions : v.id < next
<1>1. CASE revisions = {}
  BY <1>1
<1>2. CASE revisions # {}
  <2>1. PICK n \in Nat : \A v \in revisions : v.id <= n
    BY DEF RevisionInv
  <2>2. RevisionIds \in SUBSET (0 .. n) /\ RevisionIds # {}
    BY <1>2, <2>1 DEF RevisionIds, RevisionInv, Revision
  <2>3. Max(RevisionIds) \in RevisionIds /\ \A i \in RevisionIds : Max(RevisionIds) >= i
    BY <2>1, <2>2, MaxOfNaturals
  <2>4. \A v \in revisions : v.id \in RevisionIds
    BY DEF RevisionIds
  <2> DEFINE S == RevisionIds
             m == Max(RevisionIds)
  <2>5. S \in SUBSET (0 .. n) /\ m \in S /\ \A i \in S : m >= i
    BY <2>2, <2>3
  <2>6. \A v \in revisions : v.id \in S
    BY <2>4
  <2> HIDE DEF S, m
  <2>7. m \in Nat
    BY <2>5
  <2>8. \A i \in S : i \in Nat /\ i <= m
    BY <2>5, <2>7
  <2>9. \A v \in revisions : v.id \in Nat /\ v.id <= m
    BY <2>6, <2>8
  <2> QED
    BY <1>2, <2>7, <2>9 DEF m
<1> QED
  BY <1>1, <1>2

LEMMA ProjectionAdds ==
  ASSUME SourceInv, RevisionInv, ProjectForecasts
  PROVE  /\ revisions \subseteq revisions'
         /\ \E next \in Nat :
              /\ \A v \in revisions : v.id < next
              /\ \A v \in revisions' \ revisions :
                   /\ v \in Revision /\ v.id = next /\ v.available = clock
                   /\ v.key = SourceKey[v.record]
                   /\ v.snapshot \in Ids
         /\ \E v \in revisions' : v \notin revisions
<1> DEFINE next == IF revisions = {} THEN 1 ELSE Max(RevisionIds) + 1
           new(s) == [id |-> next, key |-> SourceKey[s.record], record |-> s.record,
                      snapshot |-> s.id, available |-> clock]
<1>1. next \in Nat /\ \A v \in revisions : v.id < next
  BY NextRevision
<1>2. Unpublished # {} /\ revisions' = revisions \cup {new(s) : s \in Unpublished}
  BY Zenon DEF ProjectForecasts
<1>3. \A s \in Unpublished : /\ s.id \in Nat /\ s.id \in Ids /\ s.record \in Records
  BY RowFields DEF Unpublished, Effective, Applicable, Current, Ids, SourceInv
<1> HIDE DEF next
<1>4. clock \in Nat
  BY DEF SourceInv, SourceTypes
<1>5. \A s \in Unpublished : /\ new(s) \in Revision /\ new(s).id = next
                             /\ new(s).available = clock
                             /\ new(s).key = SourceKey[new(s).record]
                             /\ new(s).snapshot \in Ids
  BY <1>1, <1>3, <1>4 DEF Revision
<1>6. \A s \in Unpublished : new(s) \notin revisions
  BY <1>1, <1>5
<1> HIDE DEF new
<1>7. \A v \in revisions' \ revisions : \E s \in Unpublished : v = new(s)
  BY <1>2
<1>8. \A v \in revisions' \ revisions : /\ v \in Revision /\ v.id = next /\ v.available = clock
                                        /\ v.key = SourceKey[v.record] /\ v.snapshot \in Ids
  BY <1>5, <1>7
<1>9. \E v \in revisions' : v \notin revisions
  BY <1>2, <1>6
<1> QED
  BY <1>1, <1>2, <1>8, <1>9

\* Every step projects forecasts, prunes the sources, or leaves the revisions
\* alone.
LEMMA StepsOnRevisions ==
  ASSUME SourceInv, [Next]_vars
  PROVE  \/ ProjectForecasts /\ UNCHANGED <<assessmentVars, others>>
         \/ PruneSources
         \/ Passes /\ UNCHANGED revisions
<1> USE DEF SourceInv, SourceTypes, Passes
<1>1. CASE UNCHANGED vars
  BY <1>1 DEF vars, sourceVars
<1>2. CASE Tick
  BY <1>2 DEF Tick
<1>3. CASE \E r \in Records, c \in Contents : StoreBatch(r, c)
  BY <1>3 DEF StoreBatch
<1>4. CASE RegisterMapping
  BY <1>4 DEF RegisterMapping, sourceVars
<1>5. CASE ProduceAssessments
  <2>1. PICK publishing \in clock .. clock + 1 : clock' = publishing /\ UNCHANGED revisions
    BY <1>5, Zenon DEF ProduceAssessments
  <2> QED
    BY <2>1
<1>6. CASE BeginProjection \/ FinishProjection \/ ProjectorDies \/ PruneResults
  BY <1>6 DEF BeginProjection, FinishProjection, ProjectorDies, PruneResults, sourceVars
<1>7. CASE PruneAssessments
  BY <1>7 DEF PruneAssessments, sourceVars
<1> QED
  BY <1>1, <1>2, <1>3, <1>4, <1>5, <1>6, <1>7 DEF Next

LEMMA RevisionsInit == ASSUME Init PROVE RevisionInv
BY DEF Init, SourceInit, RevisionInv

LEMMA RevisionsNext ==
  ASSUME SourceInv, RevisionInv, [Next]_vars PROVE RevisionInv'
<1>1. CASE ProjectForecasts
  <2>1. PICK next \in Nat :
          /\ \A v \in revisions : v.id < next
          /\ \A v \in revisions' \ revisions :
               /\ v \in Revision /\ v.id = next /\ v.available = clock
               /\ v.key = SourceKey[v.record]
    BY <1>1, ProjectionAdds
  <2>2. clock' = clock /\ clock \in Nat
    BY <1>1 DEF ProjectForecasts, SourceInv, SourceTypes
  <2>3. \A v \in revisions : v.id \in Nat
    BY DEF RevisionInv, Revision
  <2>4. \A v \in revisions' : v.id <= next
    BY <2>1, <2>3
  <2> QED
    BY <2>1, <2>2, <2>4 DEF RevisionInv
<1>2. CASE PruneSources
  BY <1>2, PruneLeaves DEF PruneSources, RevisionInv
<1>3. CASE Passes /\ UNCHANGED revisions
  <2>1. \A v \in revisions : v.available \in Nat
    BY DEF RevisionInv, Revision
  <2> QED
    BY <1>3, <2>1 DEF Passes, RevisionInv, SourceInv, SourceTypes
<1> QED
  BY <1>1, <1>2, <1>3, StepsOnRevisions

\* What was known of a source at an instant that has passed.
LEMMA PastIsKept ==
  ASSUME SourceInv, RevisionInv, [Next]_vars, revisions' # revisions,
         NEW k, NEW cutoff \in 0 .. clock - 1, Revisions(k)' # {}
  PROVE  KnownAsOf(k, cutoff)' = KnownAsOf(k, cutoff)
<1>1. clock \in Nat
  BY DEF SourceInv, SourceTypes
<1>2. SUFFICES {v \in Revisions(k) : v.available <= cutoff}'
                 = {v \in Revisions(k) : v.available <= cutoff}
  BY DEF KnownAsOf
<1>3. CASE ProjectForecasts
  <2>1. /\ revisions \subseteq revisions'
        /\ \A v \in revisions' \ revisions : v.available = clock
    BY <1>3, ProjectionAdds
  <2> QED
    BY <1>1, <2>1 DEF Revisions
<1>4. CASE PruneSources
  <2>1. PICK keys : revisions' = revisions \ RevisionsOf(keys)
    BY <1>4 DEF PruneSources
  <2>2. k \notin keys
    BY <2>1 DEF Revisions, RevisionsOf
  <2>3. Revisions(k)' = Revisions(k)
    BY <2>1, <2>2 DEF Revisions, RevisionsOf
  <2> QED
    BY <2>3
<1> QED
  BY <1>3, <1>4, StepsOnRevisions

-----------------------------------------------------------------------------
(* What a pass of the assessment producer publishes.                       *)

LEMMA NumberOfNextRun ==
  ASSUME ViewTypes
  PROVE  NextRun \in Nat \ {0} /\ \A n \in runs : n.id < NextRun
<1> DEFINE S == {n.id : n \in runs}
           top == Max(S)
<1>0. MaxRuns \in Nat
  BY GroupAssumption
<1>1. S \in SUBSET (0 .. MaxRuns) /\ \A n \in runs : n.id \in S
  BY DEF ViewTypes
<1>2. CASE runs = {}
  BY <1>2 DEF NextRun
<1>3. CASE runs # {}
  <2>1. S # {}
    BY <1>3
  <2>2. NextRun = top + 1
    BY <1>3 DEF NextRun
  <2> HIDE DEF S
  <2>3. top \in S /\ \A i \in S : top >= i
    BY <1>0, <1>1, <2>1, MaxOfNaturals
  <2> HIDE DEF top
  <2>4. top \in Nat
    BY <1>1, <2>3
  <2>5. \A i \in S : i \in Nat /\ i <= top
    BY <1>1, <2>3, <2>4
  <2>6. \A n \in runs : n.id \in Nat /\ n.id <= top
    BY <1>1, <2>5
  <2> QED
    BY <2>2, <2>4, <2>6
<1> QED
  BY <1>2, <1>3

\* The numbers of the groups a pass publishes.
LEMMA Numbering ==
  ASSUME ViewTypes, NEW done \in SUBSET Groups,
         NextRun + Cardinality(done) - 1 <= MaxRuns, NEW g \in done
  PROVE  LET id == NextRun + Cardinality({h \in done : Before(h, g)})
         IN  id \in 1 .. MaxRuns /\ id >= NextRun
<1> DEFINE first == {h \in done : Before(h, g)}
<1>1. IsFiniteSet(done) /\ Cardinality(done) \in Nat
  BY GroupAssumption, FS_Subset, FS_CardinalityType
<1>2. IsFiniteSet(done \ {g}) /\ Cardinality(done \ {g}) = Cardinality(done) - 1
  BY <1>1, FS_RemoveElement
<1>3. ~Before(g, g)
  <2>1. g \in Nat
    BY GroupAssumption
  <2>2. ~(LastRun(g) < LastRun(g))
    <3>1. LastRun(g) \in Nat
      <4> DEFINE own == {n.id : n \in {n \in runs : n.group = g}}
      <4>1. own \in SUBSET (0 .. MaxRuns) /\ MaxRuns \in Nat
        BY GroupAssumption DEF ViewTypes
      <4>2. LastRun(g) = IF own = {} THEN 0 ELSE Max(own)
        BY DEF LastRun, None
      <4> HIDE DEF own
      <4>3. own # {} => Max(own) \in own
        BY <4>1, MaxOfNaturals
      <4>4. \A i \in own : i \in Nat
        BY <4>1
      <4> QED
        BY <4>2, <4>3, <4>4
    <3> QED
      BY <3>1
  <2> QED
    BY <2>1, <2>2 DEF Before
<1>4. first \in SUBSET (done \ {g})
  BY <1>3
<1> HIDE DEF first
<1>5. Cardinality(first) \in Nat /\ Cardinality(first) <= Cardinality(done) - 1
  BY <1>2, <1>4, FS_Subset, FS_CardinalityType
<1>6. NextRun \in Nat \ {0} /\ MaxRuns \in Nat
  BY NumberOfNextRun, GroupAssumption
<1>7. LET id == NextRun + Cardinality(first) IN id \in 1 .. MaxRuns /\ id >= NextRun
  BY <1>1, <1>5, <1>6
<1> QED
  BY <1>7 DEF first

\* A view of the rows that are in effect.
Fits(m, publishing) ==
  /\ m \in View
  /\ m.items \subseteq snapshots
  /\ \A s \in m.items : m.until <= ValidUntil[s.record]
  /\ m.mapping <= mapping.version
  /\ m.available = publishing /\ m.start = DayStart(clock)

LEMMA ManifestFits ==
  ASSUME SourceInv, ViewTypes, NEW publishing \in Nat, NEW g \in Due(clock, publishing),
         NEW id \in 1 .. MaxRuns
  PROVE  /\ Fits(Manifest(g, id, clock, publishing), publishing)
         /\ Manifest(g, id, clock, publishing).id = id
         /\ Manifest(g, id, clock, publishing).group = g
<1> DEFINE items == Items(g, clock, publishing)
           m == Manifest(g, id, clock, publishing)
           ends == {ValidUntil[s.record] : s \in items}
<1>1. items \subseteq snapshots /\ items # {} /\ g \in Groups
  BY DEF Due, Items, Effective, Applicable, Current
<1>2. snapshots \subseteq Row /\ clock \in Nat
  BY DEF SourceInv, SourceTypes
<1>3. m = [id |-> id, group |-> g, items |-> items, mapping |-> MappingOf(g),
           asOf |-> clock, available |-> publishing, start |-> DayStart(clock),
           until |-> Expiry(items)]
  BY DEF Manifest
<1>4. Expiry(items) = Min(ends)
  BY DEF Expiry
<1> HIDE DEF m, items
<1>5. ends \in SUBSET Nat /\ ends # {} /\ \A s \in items : ValidUntil[s.record] \in ends
  BY <1>1, RowFields DEF SourceInv
<1> HIDE DEF ends
<1>6. Min(ends) \in Nat /\ \A y \in ends : Min(ends) <= y
  BY <1>5, MinOfNaturals
<1>7. MappingOf(g) \in Nat /\ MappingOf(g) <= mapping.version
  BY DEF MappingOf, ViewTypes, None
<1>8. DayStart(clock) \in Nat
  BY <1>2, Days
<1>9. items \in SUBSET Row /\ Expiry(items) \in Nat
  BY <1>1, <1>2, <1>4, <1>6
<1>10. m \in View
  BY <1>1, <1>2, <1>3, <1>7, <1>8, <1>9 DEF View
<1>11. \A s \in items : Expiry(items) <= ValidUntil[s.record]
  BY <1>4, <1>5, <1>6
<1>12. /\ m.items = items /\ m.until = Expiry(items) /\ m.mapping = MappingOf(g)
       /\ m.available = publishing /\ m.start = DayStart(clock) /\ m.id = id /\ m.group = g
  BY <1>3
<1>13. Fits(m, publishing)
  BY <1>1, <1>7, <1>10, <1>11, <1>12 DEF Fits
<1> QED
  BY <1>12, <1>13 DEF m

Publishes(new, publishing) ==
  /\ clock' = publishing
  /\ new # {} /\ \A m \in new : Fits(m, publishing)
  /\ reads' = reads \cup new
  /\ assessments' = assessments \cup UNION {Selections(m) : m \in new}
  /\ runs \subseteq runs'
  /\ \A n \in runs' \ runs : \E m \in new : m.id = n.id
  /\ \A m \in new : \E n \in runs' : n.id = m.id
  /\ \A m \in new, n \in runs : n.id < m.id
  /\ \A m, o \in new : m.group = o.group => m = o

LEMMA Publication ==
  ASSUME SourceInv, ViewTypes, ProduceAssessments
  PROVE  \E publishing \in clock .. clock + 1 : \E new : Publishes(new, publishing)
<1>1. PICK publishing \in clock .. clock + 1 : \E done \in (SUBSET Due(clock, publishing)) \ {{}} :
        /\ NextRun + Cardinality(done) - 1 <= MaxRuns
        /\ Publish(done, clock, publishing)
        /\ clock' = publishing
  BY Zenon DEF ProduceAssessments
<1>2. PICK done \in (SUBSET Due(clock, publishing)) \ {{}} :
        /\ NextRun + Cardinality(done) - 1 <= MaxRuns
        /\ Publish(done, clock, publishing)
        /\ clock' = publishing
  BY <1>1
<1> DEFINE id(g) == NextRun + Cardinality({h \in done : Before(h, g)})
           view(g) == Manifest(g, id(g), clock, publishing)
           run(g) == [id |-> id(g), group |-> g,
                      digest |-> Fingerprint(g, clock, publishing)]
           new == {view(g) : g \in done}
<1>3. /\ reads' = reads \cup new
      /\ runs' = runs \cup {run(g) : g \in done}
      /\ assessments' = assessments \cup UNION {Selections(m) : m \in new}
  BY <1>2, Zenon DEF Publish
<1>4. publishing \in Nat
  BY DEF SourceInv, SourceTypes
<1>5. done \in SUBSET Groups /\ done # {} /\ done \subseteq Due(clock, publishing)
  BY <1>2 DEF Due
<1>6. \A g \in done : id(g) \in 1 .. MaxRuns /\ id(g) >= NextRun
  BY <1>2, <1>5, Numbering
<1> HIDE DEF id
<1>7. \A g \in done : Fits(view(g), publishing) /\ view(g).id = id(g) /\ view(g).group = g
  BY <1>4, <1>5, <1>6, ManifestFits
<1>8. \A g \in done : run(g).id = id(g)
  OBVIOUS
<1> HIDE DEF view, run
<1>9. \A m \in new : \E g \in done : m = view(g)
  OBVIOUS
<1>10. new # {} /\ \A g \in done : view(g) \in new
  BY <1>5
<1> HIDE DEF new
<1>11. \A m \in new : Fits(m, publishing)
  BY <1>7, <1>9
<1>12. \A n \in runs' \ runs : \E m \in new : m.id = n.id
  BY <1>3, <1>7, <1>8, <1>10
<1>13. \A m \in new : \E n \in runs' : n.id = m.id
  BY <1>3, <1>7, <1>8, <1>9
<1>14. ASSUME NEW m \in new, NEW n \in runs PROVE n.id < m.id
  <2>1. PICK g \in done : m = view(g)
    BY <1>9
  <2>2. NextRun \in Nat /\ n.id < NextRun /\ n.id \in Nat
    BY NumberOfNextRun DEF ViewTypes
  <2>3. m.id \in Nat /\ m.id >= NextRun
    BY <1>6, <1>7, <2>1
  <2> QED
    BY <2>2, <2>3
<1>15. \A m, o \in new : m.group = o.group => m = o
  BY <1>7, <1>9
<1>16. runs \subseteq runs'
  BY <1>3
<1>17. Publishes(new, publishing)
  BY <1>2, <1>3, <1>10, <1>11, <1>12, <1>13, <1>14, <1>15, <1>16, Zenon DEF Publishes
<1> QED
  BY <1>17

-----------------------------------------------------------------------------
(* The references of publications.                                         *)

\* Whatever refers to snapshots.
LEMMA ReferencesAre ==
  ASSUME NEW history
  PROVE  \A i : i \in References(history) <=>
           \/ \E x \in results : i = x.snapshot
           \/ \E a \in assessments : i = a.snapshot
           \/ \E v \in history : i = v.snapshot
BY DEF References

LEMMA SelectionFacts ==
  ASSUME NEW m
  PROVE  \A a \in Selections(m) :
           /\ \E s \in m.items : a.snapshot = s.id /\ a.record = s.record
           /\ a.mapping = m.mapping /\ a.group = m.group
BY DEF Selections

\* Rows that are stored stay known by their number, except in a pass over the
\* sources, which keeps what is referred to.
LEMMA NumbersStay ==
  ASSUME SourceInv, ReferencesHeld, [Next]_vars
  PROVE  /\ \A i \in Ids : i \in References(revisions') => i \in Ids'
         /\ Ids \subseteq Ids' \/ PruneSources
<1>1. CASE \E r \in Records, c \in Contents : StoreBatch(r, c)
  <2>1. PICK r \in Records, c \in Contents : StoreBatch(r, c)
    BY <1>1
  <2>2. PICK x, origin : Settled(r, c, x, origin)
    BY <2>1, BatchStores
  <2>3. \A q \in snapshots : \E s \in snapshots' : Same(s, q)
    BY <2>2, RowsAfterBatch
  <2> QED
    BY <2>3 DEF Ids, Same
<1>2. CASE PruneSources
  <2>1. Kept(revisions') \subseteq snapshots'
    BY <1>2, PruneLeaves
  <2>2. \A s \in snapshots : s.id \in References(revisions') => s \in snapshots'
    BY <2>1, KeptRows
  <2> QED
    BY <1>2, <2>2 DEF Ids
<1>3. CASE UNCHANGED snapshots
  BY <1>3 DEF Ids
<1> QED
  BY <1>1, <1>2, <1>3, StepsOnSources

\* What a pass over the assessments leaves.
LEMMA KeptLeft ==
  ASSUME PruneAssessments
  PROVE  /\ KeptReads \subseteq reads' /\ reads' \subseteq reads
         /\ RunsOf(KeptReads) \subseteq runs' /\ runs' \subseteq runs
         /\ AssessmentsOf(KeptReads) \subseteq assessments' /\ assessments' \subseteq assessments
         /\ reads' # reads => runs' = RunsOf(KeptReads)
         /\ assessments' # assessments => reads' = KeptReads
         /\ UNCHANGED <<sourceVars, mapping, results, projector>>
<1> DEFINE kept == KeptReads
<1>1. ChildrenFirst(kept) /\ UNCHANGED <<sourceVars, mapping, results, projector>>
  BY DEF PruneAssessments
<1>2. kept \subseteq reads /\ RunsOf(kept) \subseteq runs /\ AssessmentsOf(kept) \subseteq assessments
  BY DEF KeptReads, RunsOf, AssessmentsOf
<1> HIDE DEF kept
<1>3. \A table, least : least \subseteq table =>
        \A left \in Partly(table, least) : least \subseteq left /\ left \subseteq table
  BY DEF Partly
<1>4. /\ kept \subseteq reads' /\ reads' \subseteq reads
      /\ RunsOf(kept) \subseteq runs' /\ runs' \subseteq runs
      /\ AssessmentsOf(kept) \subseteq assessments' /\ assessments' \subseteq assessments
      /\ reads' # reads => runs' = RunsOf(kept)
      /\ assessments' # assessments => reads' = kept
  BY <1>1, <1>2, <1>3 DEF ChildrenFirst
<1> QED
  BY <1>1, <1>4 DEF kept

\* Steps that neither publish nor prune assessments.
LEMMA StepsOnViews ==
  ASSUME SourceInv, ViewTypes, [Next]_vars
  PROVE  \/ ProduceAssessments /\ UNCHANGED others
         \/ PruneAssessments
         \/ RegisterMapping /\ UNCHANGED others
         \/ Passes /\ UNCHANGED assessmentVars
<1> USE DEF SourceInv, SourceTypes, Passes
<1>1. CASE UNCHANGED vars
  BY <1>1 DEF vars, sourceVars
<1>2. CASE Tick /\ UNCHANGED assessmentVars
  BY <1>2 DEF Tick
<1>3. CASE \E r \in Records, c \in Contents : StoreBatch(r, c) /\ UNCHANGED assessmentVars
  BY <1>3 DEF StoreBatch
<1>4. CASE ProjectForecasts /\ UNCHANGED assessmentVars
  BY <1>4 DEF ProjectForecasts
<1>5. CASE BeginProjection \/ FinishProjection \/ ProjectorDies \/ PruneResults
  BY <1>5 DEF BeginProjection, FinishProjection, ProjectorDies, PruneResults, sourceVars
<1>6. CASE PruneSources
  BY <1>6 DEF PruneSources
<1> QED
  BY <1>1, <1>2, <1>3, <1>4, <1>5, <1>6 DEF Next

\* Every reference of the new state is an old one, or of rows that are stored.
LEMMA NewReferences ==
  ASSUME SourceInv, RevisionInv, ViewTypes, ReferenceInv, [Next]_vars
  PROVE  References(revisions)' \subseteq Ids
<1>1. References(revisions) \subseteq Ids
  BY DEF ReferenceInv, ReferencesHeld
<1> SUFFICES ASSUME NEW i \in References(revisions)' PROVE i \in Ids
  OBVIOUS
<1>2. \/ \E x \in results' : i = x.snapshot
      \/ \E a \in assessments' : i = a.snapshot
      \/ \E v \in revisions' : i = v.snapshot
  BY DEF References
<1>3. /\ \A x \in results : x.snapshot \in Ids
      /\ \A a \in assessments : a.snapshot \in Ids
      /\ \A v \in revisions : v.snapshot \in Ids
  BY <1>1, ReferencesAre
<1>4. CASE \E v \in revisions' : i = v.snapshot
  <2>1. CASE ProjectForecasts
    BY <1>3, <1>4, <2>1, ProjectionAdds
  <2>2. CASE revisions' \subseteq revisions
    BY <1>3, <1>4, <2>2
  <2> QED
    BY <2>1, <2>2, StepsOnRevisions, PruneLeaves
<1>5. CASE \E a \in assessments' : i = a.snapshot
  <2>1. CASE ProduceAssessments
    <3>1. PICK publishing \in clock .. clock + 1 : \E new : Publishes(new, publishing)
      BY <2>1, Publication
    <3>2. PICK new : Publishes(new, publishing)
      BY <3>1
    <3>3. PICK a \in assessments' : i = a.snapshot
      BY <1>5
    <3>4. CASE a \in assessments
      BY <1>3, <3>3, <3>4
    <3>5. CASE a \notin assessments
      <4>1. PICK m \in new : a \in Selections(m)
        BY <3>2, <3>3, <3>5 DEF Publishes
      <4>2. m.items \subseteq snapshots
        BY <3>2, <4>1 DEF Publishes, Fits
      <4> QED
        BY <3>3, <4>1, <4>2, SelectionFacts DEF Ids
    <3> QED
      BY <3>4, <3>5
  <2>2. CASE assessments' \subseteq assessments
    BY <1>3, <1>5, <2>2
  <2> QED
    BY <2>1, <2>2, StepsOnViews, KeptLeft DEF RegisterMapping, assessmentVars
<1>6. CASE \E x \in results' : i = x.snapshot
  <2>1. CASE FinishProjection
    <3>1. projector.on /\ projector.ids \subseteq Ids
      BY <2>1 DEF FinishProjection, ReferenceInv, ReferencesHeld
    <3>2. PICK x \in results' : i = x.snapshot
      BY <1>6
    <3>3. x \in results \/ x.snapshot \in projector.ids
      BY <2>1, <3>2 DEF FinishProjection
    <3> QED
      BY <1>3, <3>1, <3>2, <3>3
  <2>2. CASE results' \subseteq results
    BY <1>3, <1>6, <2>2
  <2>3. FinishProjection \/ results' \subseteq results
    BY DEF Next, vars, others, BeginProjection, ProjectorDies, PruneResults, PruneAssessments,
           PruneSources
  <2> QED
    BY <2>1, <2>2, <2>3
<1> QED
  BY <1>2, <1>4, <1>5, <1>6

LEMMA ViewsStayComplete ==
  ASSUME SourceInv, ViewTypes, ViewsComplete, [Next]_vars PROVE ViewsComplete'
<1>1. CASE ProduceAssessments
  <2>1. PICK publishing \in clock .. clock + 1 : \E new : Publishes(new, publishing)
    BY <1>1, Publication
  <2>2. PICK new : Publishes(new, publishing)
    BY <2>1
  <2>3. ASSUME NEW m \in reads' PROVE Selections(m) \subseteq assessments'
    BY <2>2 DEF Publishes, ViewsComplete
  <2>4. ASSUME NEW n \in runs' PROVE \E m \in reads' : m.id = n.id
    BY <2>2 DEF Publishes, ViewsComplete
  <2>5. \A m : Selections(m)' = Selections(m)
    BY DEF Selections
  <2> QED
    BY <2>3, <2>4, <2>5 DEF ViewsComplete
<1>2. CASE PruneAssessments
  <2>1. /\ KeptReads \subseteq reads' /\ reads' \subseteq reads
        /\ runs' \subseteq runs
        /\ AssessmentsOf(KeptReads) \subseteq assessments'
        /\ reads' # reads => runs' = RunsOf(KeptReads)
        /\ assessments' # assessments => reads' = KeptReads
    BY <1>2, KeptLeft
  <2>2. ASSUME NEW m \in reads' PROVE Selections(m) \subseteq assessments'
    <3>1. Selections(m) \subseteq assessments
      BY <2>1 DEF ViewsComplete
    <3>2. CASE assessments' # assessments
      BY <2>1, <3>1, <3>2 DEF AssessmentsOf
    <3> QED
      BY <3>1, <3>2
  <2>3. ASSUME NEW n \in runs' PROVE \E m \in reads' : m.id = n.id
    BY <2>1 DEF RunsOf, ViewsComplete
  <2>4. \A m : Selections(m)' = Selections(m)
    BY DEF Selections
  <2> QED
    BY <2>2, <2>3, <2>4 DEF ViewsComplete
<1>3. CASE RegisterMapping \/ UNCHANGED assessmentVars
  <2>1. \A m : Selections(m)' = Selections(m)
    BY DEF Selections
  <2> QED
    BY <1>3, <2>1 DEF RegisterMapping, assessmentVars, ViewsComplete
<1> QED
  BY <1>1, <1>2, <1>3, StepsOnViews

LEMMA ReferencesNext ==
  ASSUME SourceInv, RevisionInv, ViewTypes, ReferenceInv, [Next]_vars PROVE ReferenceInv'
<1>1. /\ \A i \in Ids : i \in References(revisions') => i \in Ids'
      /\ Ids \subseteq Ids' \/ PruneSources
  BY NumbersStay DEF ReferenceInv
<1>2. References(revisions)' \subseteq Ids
  BY NewReferences
<1>3. References(revisions)' \subseteq Ids'
  <2>1. CASE PruneSources
    <3>1. References(revisions)' = References(revisions')
      BY <2>1 DEF PruneSources, References, assessmentVars
    <3> QED
      BY <1>1, <1>2, <3>1
  <2> QED
    BY <1>1, <1>2, <2>1
<1>4. projector'.on => projector'.ids \subseteq Ids'
  <2>1. CASE BeginProjection
    <3>1. projector'.ids = {s.id : s \in ConditionRows(clock)} /\ UNCHANGED snapshots
      BY <2>1 DEF BeginProjection, sourceVars
    <3>2. ConditionRows(clock) \subseteq snapshots
      BY DEF ConditionRows, Newest
    <3> QED
      BY <3>1, <3>2 DEF Ids
  <2>2. CASE FinishProjection \/ ProjectorDies
    BY <2>2 DEF FinishProjection, ProjectorDies, Idle
  <2>3. CASE PruneSources
    BY <2>3 DEF PruneSources, Free
  <2>4. CASE UNCHANGED projector /\ ~PruneSources
    BY <1>1, <2>4 DEF ReferenceInv, ReferencesHeld
  <2>5. BeginProjection \/ FinishProjection \/ ProjectorDies \/ UNCHANGED projector
    BY DEF Next, vars, others, PruneResults, PruneAssessments, PruneSources
  <2> QED
    BY <2>1, <2>2, <2>3, <2>4, <2>5
<1>5. ViewsComplete'
  BY ViewsStayComplete DEF ReferenceInv
<1> QED
  BY <1>3, <1>4, <1>5 DEF ReferenceInv, ReferencesHeld

LEMMA ReferencesInit == ASSUME Init PROVE ReferenceInv
BY DEF Init, SourceInit, AssessmentInit, ReferenceInv, ReferencesHeld, ViewsComplete, References,
       Idle

-----------------------------------------------------------------------------
(* The views readers choose from.                                          *)

\* The candidates of today's window are the live views of the group.
LEMMA LiveViews ==
  ASSUME SourceInv, ViewInv, NEW g
  PROVE  /\ \A m : m \in Candidates(g, DayStart(clock), WindowEnd(clock), clock)
                     <=> m \in reads /\ m.group = g /\ Live(m)
         /\ \A m : m \in Chosen(g, DayStart(clock), WindowEnd(clock), clock)
                     <=> m \in reads /\ m.group = g /\ Live(m) /\ Superior(m)
<1> DEFINE all == Candidates(g, DayStart(clock), WindowEnd(clock), clock)
<1>1. clock \in Nat
  BY DEF SourceInv, SourceTypes
<1>2. \A m \in reads : m.available <= clock /\ m.start < WindowEnd(clock)
  <2>1. /\ DayStart(clock) \in Nat /\ WindowEnd(clock) \in Nat
        /\ DayStart(clock) < WindowEnd(clock)
    BY <1>1, Days
  <2>2. \A m \in reads : m.available <= clock /\ m.start <= DayStart(clock) /\ m.start \in Nat
    BY DEF ViewInv, ViewsFit, ViewTypes, View
  <2> QED
    BY <2>1, <2>2
<1>3. \A m : m \in all <=> m \in reads /\ m.group = g /\ Live(m)
  BY <1>2 DEF Candidates, Live, Span
<1>4. Chosen(g, DayStart(clock), WindowEnd(clock), clock)
        = {m \in all : \A o \in all : o.id <= m.id}
  BY DEF Chosen
<1> HIDE DEF all
<1>5. \A m : m \in {m1 \in all : \A o \in all : o.id <= m1.id}
               <=> m \in reads /\ m.group = g /\ Live(m) /\ Superior(m)
  BY <1>3 DEF Superior
<1> QED
  BY <1>3, <1>4, <1>5 DEF all

LEMMA KeptViews ==
  ASSUME SourceInv, ViewInv
  PROVE  \A m : m \in KeptReads <=> m \in reads /\ Live(m) /\ Superior(m)
BY LiveViews DEF KeptReads

\* A group with a live view has one that is superior, and its run.
LEMMA SuperiorExists ==
  ASSUME ViewInv, NEW m \in reads, Live(m)
  PROVE  \E o \in reads : /\ o.group = m.group /\ Live(o) /\ Superior(o)
                          /\ m.id <= o.id
                          /\ \E n \in runs : n.id = o.id
<1> DEFINE S == {o.id : o \in {o \in reads : o.group = m.group /\ Live(o)}}
           top == Max(S)
<1>1. MaxRuns \in Nat /\ \A o \in reads : o.id \in 1 .. MaxRuns
  BY GroupAssumption DEF ViewInv, ViewTypes, View
<1>2. S \in SUBSET (0 .. MaxRuns) /\ m.id \in S
  BY <1>1
<1>3. \A i \in S : \E o \in reads : o.group = m.group /\ Live(o) /\ o.id = i
  OBVIOUS
<1>4. \A o \in reads : o.group = m.group /\ Live(o) => o.id \in S
  OBVIOUS
<1> HIDE DEF S
<1>5. top \in S /\ \A i \in S : top >= i
  BY <1>1, <1>2, MaxOfNaturals
<1> HIDE DEF top
<1>6. \A i \in S : i \in Nat
  BY <1>2
<1>7. PICK o \in reads : o.group = m.group /\ Live(o) /\ o.id = top
  BY <1>3, <1>5
<1>8. \A p \in reads : p.group = m.group /\ Live(p) => p.id <= o.id
  BY <1>4, <1>5, <1>6, <1>7
<1>9. Superior(o)
  BY <1>7, <1>8 DEF Superior
<1>10. \E n \in runs : n.id = o.id
  BY <1>7, <1>9 DEF ViewInv, ViewsOrdered
<1> QED
  BY <1>7, <1>8, <1>9, <1>10

\* As days pass views go out of the window, never back into it.
LEMMA LiveBefore ==
  ASSUME SourceInv, ViewTypes, Passes
  PROVE  /\ DayStart(clock) <= DayStart(clock')
         /\ DayStart(clock) \in Nat /\ DayStart(clock') \in Nat
         /\ \A m \in View : m.start + Span > DayStart(clock') => Live(m)
<1>1. clock \in Nat /\ clock' \in Nat /\ clock <= clock'
  BY DEF Passes, SourceInv, SourceTypes
<1>2. /\ DayStart(clock) <= DayStart(clock')
      /\ DayStart(clock) \in Nat /\ DayStart(clock') \in Nat /\ Span \in Nat
  BY <1>1, Days, LaterDay
<1>3. \A m \in View : m.start \in Nat
  BY DEF View
<1> QED
  BY <1>2, <1>3 DEF Live

\* What is superior when the clock has moved was superior before.
LEMMA SuperiorBefore ==
  ASSUME SourceInv, ViewInv, Passes, NEW m \in reads, m.start + Span > DayStart(clock'),
         \A o \in reads : o.group = m.group /\ o.start + Span > DayStart(clock') => o.id <= m.id
  PROVE  \E n \in runs : n.id = m.id
<1>1. Live(m)
  BY LiveBefore DEF ViewInv, ViewTypes
<1>2. ASSUME NEW o \in reads, o.group = m.group, Live(o) PROVE o.id <= m.id
  <2>1. CASE o.start + Span > DayStart(clock')
    BY <1>2, <2>1
  <2>2. CASE ~(o.start + Span > DayStart(clock'))
    <3>1. {o.start, m.start, o.id, m.id, Span, DayStart(clock')} \subseteq Nat
      <4>1. Span \in Nat /\ DayStart(clock') \in Nat
        BY Days DEF Passes
      <4>2. {o.start, m.start, o.id, m.id} \subseteq Nat
        BY DEF ViewInv, ViewTypes, View
      <4> QED
        BY <4>1, <4>2
    <3>2. o.start < m.start
      BY <2>2, <3>1
    <3>3. o.id < m.id
      BY <1>2, <3>2 DEF ViewInv, ViewsOrdered
    <3> QED
      BY <3>1, <3>3
  <2> QED
    BY <2>1, <2>2
<1> QED
  BY <1>1, <1>2 DEF Superior, ViewInv, ViewsOrdered

LEMMA TimeKeepsViews ==
  ASSUME SourceInv, ViewInv, Passes, UNCHANGED <<runs, reads>>,
         mapping'.version \in Nat, mapping.version <= mapping'.version
  PROVE  ViewInv'
<1>1. \A m \in reads : m \in View /\ {m.available, m.start, m.mapping} \subseteq Nat
  BY DEF ViewInv, ViewTypes, View
<1>2. clock \in Nat /\ clock' \in Nat /\ clock <= clock' /\ mapping.version \in Nat
  BY DEF Passes, SourceInv, SourceTypes, ViewInv, ViewTypes
<1>3. /\ DayStart(clock) <= DayStart(clock')
      /\ DayStart(clock) \in Nat /\ DayStart(clock') \in Nat
      /\ \A m \in View : m.start + Span > DayStart(clock') => Live(m)
  BY LiveBefore DEF ViewInv
<1>4. ViewTypes'
  BY DEF ViewInv, ViewTypes
<1>5. ViewsFit'
  <2> SUFFICES ASSUME NEW m \in reads
               PROVE  /\ m.available <= clock'
                      /\ m.start <= DayStart(clock')
                      /\ m.mapping <= mapping'.version
                      /\ \A s \in m.items : m.until <= ValidUntil[s.record]
    BY DEF ViewsFit, DayStart
  <2>1. /\ m.available <= clock
        /\ m.start <= DayStart(clock)
        /\ m.mapping <= mapping.version
        /\ \A s \in m.items : m.until <= ValidUntil[s.record]
    BY DEF ViewInv, ViewsFit
  <2> QED
    BY <1>1, <1>2, <1>3, <2>1
<1>6. ViewsOrdered'
  <2>1. \A m : Live(m)' <=> m.start + Span > DayStart(clock')
    BY DEF Live, DayStart
  <2>2. ASSUME NEW m \in reads, Live(m)', Superior(m)' PROVE \E n \in runs' : n.id = m.id
    BY <2>1, <2>2, SuperiorBefore DEF Superior
  <2>3. ASSUME NEW m \in reads, NEW o \in reads, m.group = o.group, Live(m)', m.start < o.start
        PROVE  m.id < o.id
    BY <1>1, <1>3, <2>1, <2>3 DEF ViewInv, ViewsOrdered
  <2> QED
    BY <2>2, <2>3 DEF ViewsOrdered
<1> QED
  BY <1>4, <1>5, <1>6 DEF ViewInv

LEMMA PruneKeepsViews ==
  ASSUME SourceInv, ViewInv, PruneAssessments
  PROVE  ViewInv'
<1>1. /\ KeptReads \subseteq reads' /\ reads' \subseteq reads
      /\ RunsOf(KeptReads) \subseteq runs' /\ runs' \subseteq runs
      /\ UNCHANGED <<clock, mapping>>
  BY KeptLeft DEF sourceVars
<1>2. ViewTypes'
  BY <1>1 DEF ViewInv, ViewTypes
<1>3. ViewsFit'
  BY <1>1 DEF ViewInv, ViewsFit, DayStart
<1>4. \A m : Live(m)' <=> Live(m)
  BY <1>1 DEF Live, DayStart
<1>5. ASSUME NEW m \in reads', Live(m)', Superior(m)' PROVE \E n \in runs' : n.id = m.id
  <2>1. m \in reads /\ Live(m)
    BY <1>1, <1>4, <1>5
  <2>2. PICK o \in reads : /\ o.group = m.group /\ Live(o) /\ Superior(o) /\ m.id <= o.id
                           /\ \E n \in runs : n.id = o.id
    BY <2>1, SuperiorExists
  <2>3. o \in KeptReads
    BY <2>2, KeptViews
  <2>4. o.id <= m.id
    BY <1>1, <1>4, <1>5, <2>2, <2>3 DEF Superior
  <2>5. o.id = m.id
    <3>1. o.id \in Nat /\ m.id \in Nat
      BY <2>1 DEF ViewInv, ViewTypes, View
    <3> QED
      BY <2>2, <2>4, <3>1
  <2>6. \E n \in RunsOf(KeptReads) : n.id = o.id
    BY <2>2, <2>3 DEF RunsOf
  <2> QED
    BY <1>1, <2>5, <2>6
<1>6. ASSUME NEW m \in reads', NEW o \in reads', m.group = o.group, Live(m)', m.start < o.start
      PROVE  m.id < o.id
  BY <1>1, <1>4, <1>6 DEF ViewInv, ViewsOrdered
<1>7. ViewsOrdered'
  BY <1>5, <1>6 DEF ViewsOrdered
<1> QED
  BY <1>2, <1>3, <1>7 DEF ViewInv

LEMMA PublicationKeepsViews ==
  ASSUME SourceInv, ViewInv, ProduceAssessments
  PROVE  ViewInv'
<1>1. PICK publishing \in clock .. clock + 1 : \E new : Publishes(new, publishing)
  BY Publication DEF ViewInv
<1>2. PICK new : Publishes(new, publishing)
  BY <1>1
<1>3. UNCHANGED mapping
  BY Zenon DEF ProduceAssessments
<1>4. /\ clock' = publishing
      /\ reads' = reads \cup new
      /\ runs \subseteq runs'
      /\ \A n \in runs' \ runs : \E m \in new : m.id = n.id
      /\ \A m \in new : \E n \in runs' : n.id = m.id
      /\ \A m \in new, n \in runs : n.id < m.id
      /\ \A m, o \in new : m.group = o.group => m = o
  BY <1>2 DEF Publishes
<1>5. \A m \in new : /\ m \in View
                     /\ \A s \in m.items : m.until <= ValidUntil[s.record]
                     /\ m.mapping <= mapping.version
                     /\ m.available = publishing /\ m.start = DayStart(clock)
  BY <1>2 DEF Publishes, Fits
<1>6. clock \in Nat /\ clock' \in Nat /\ clock <= clock' /\ Passes
  BY <1>4 DEF Passes, SourceInv, SourceTypes
<1>7. /\ DayStart(clock) <= DayStart(clock')
      /\ DayStart(clock) \in Nat /\ DayStart(clock') \in Nat
      /\ \A m \in View : m.start + Span > DayStart(clock') => Live(m)
  BY <1>6, LiveBefore DEF ViewInv
<1>8. \A m \in reads : /\ m \in View /\ {m.available, m.start, m.mapping, m.id} \subseteq Nat
                       /\ m.available <= clock
                       /\ m.start <= DayStart(clock)
                       /\ m.mapping <= mapping.version
                       /\ \A s \in m.items : m.until <= ValidUntil[s.record]
  BY DEF ViewInv, ViewTypes, View, ViewsFit
<1>9. \A m \in View : m.id \in 1 .. MaxRuns
  BY DEF View
<1>10. ViewTypes'
  <2>1. \A n \in runs' : n.id \in 1 .. MaxRuns
    BY <1>4, <1>5, <1>9 DEF ViewInv, ViewTypes
  <2>2. reads' \in SUBSET View
    BY <1>4, <1>5, <1>8
  <2> QED
    BY <1>3, <2>1, <2>2 DEF ViewInv, ViewTypes
<1>11. ViewsFit'
  <2> SUFFICES ASSUME NEW m \in reads'
               PROVE  /\ m.available <= clock'
                      /\ m.start <= DayStart(clock')
                      /\ m.mapping <= mapping.version
                      /\ \A s \in m.items : m.until <= ValidUntil[s.record]
    BY <1>3 DEF ViewsFit, DayStart
  <2>1. CASE m \in new
    BY <1>4, <1>5, <1>6, <1>7, <2>1
  <2>2. CASE m \in reads
    BY <1>6, <1>7, <1>8, <2>2
  <2> QED
    BY <1>4, <2>1, <2>2
<1>12. \A m : Live(m)' <=> m.start + Span > DayStart(clock')
  BY DEF Live, DayStart
<1>13. ASSUME NEW m \in reads', Live(m)', Superior(m)' PROVE \E n \in runs' : n.id = m.id
  <2>1. CASE m \in new
    BY <1>4, <2>1
  <2>2. CASE m \in reads
    <3>1. \A o \in reads : o.group = m.group /\ o.start + Span > DayStart(clock') => o.id <= m.id
      BY <1>4, <1>12, <1>13 DEF Superior
    <3>2. \E n \in runs : n.id = m.id
      BY <1>6, <1>12, <1>13, <2>2, <3>1, SuperiorBefore
    <3> QED
      BY <1>4, <3>2
  <2> QED
    BY <1>4, <2>1, <2>2
<1>14. ASSUME NEW m \in reads', NEW o \in reads', m.group = o.group, Live(m)', m.start < o.start
       PROVE  m.id < o.id
  <2>1. Live(m)
    BY <1>4, <1>5, <1>7, <1>8, <1>12, <1>14
  <2>2. CASE m \in reads /\ o \in reads
    BY <1>14, <2>1, <2>2 DEF ViewInv, ViewsOrdered
  <2>3. CASE m \in reads /\ o \in new
    <3>1. PICK p \in reads : m.id <= p.id /\ \E n \in runs : n.id = p.id
      BY <2>1, <2>3, SuperiorExists
    <3>2. p.id < o.id
      BY <1>4, <2>3, <3>1
    <3>3. m.id \in Nat /\ p.id \in Nat /\ o.id \in Nat
      BY <1>5, <1>8, <1>9, <2>3
    <3> QED
      BY <3>1, <3>2, <3>3
  <2>4. CASE m \in new
    <3>1. m.start = DayStart(clock) /\ o.start <= DayStart(clock) /\ o.start \in Nat
      BY <1>4, <1>5, <1>7, <1>8, <2>4
    <3> QED
      BY <1>7, <1>14, <3>1
  <2> QED
    BY <1>4, <2>2, <2>3, <2>4
<1>15. ViewsOrdered'
  BY <1>13, <1>14 DEF ViewsOrdered
<1> QED
  BY <1>10, <1>11, <1>15 DEF ViewInv

LEMMA ViewsNext ==
  ASSUME SourceInv, ViewInv, [Next]_vars PROVE ViewInv'
<1>1. CASE RegisterMapping
  <2>1. /\ mapping.version \in Nat /\ mapping'.version = mapping.version + 1
        /\ UNCHANGED <<clock, runs, reads>> /\ clock \in Nat
    BY <1>1 DEF RegisterMapping, sourceVars, ViewInv, ViewTypes, SourceInv, SourceTypes
  <2>2. Passes
    BY <2>1 DEF Passes
  <2> QED
    BY <2>1, <2>2, TimeKeepsViews
<1>2. CASE Passes /\ UNCHANGED assessmentVars
  <2>1. mapping.version \in Nat
    BY DEF ViewInv, ViewTypes
  <2> QED
    BY <1>2, <2>1, TimeKeepsViews DEF assessmentVars
<1> QED
  BY <1>1, <1>2, PruneKeepsViews, PublicationKeepsViews, StepsOnViews DEF ViewInv

LEMMA ViewsInit == ASSUME Init PROVE ViewInv
BY GroupAssumption DEF Init, SourceInit, AssessmentInit, ViewInv, ViewTypes, ViewsFit, ViewsOrdered

-----------------------------------------------------------------------------
(* A step that only deletes is a pass of the retention.                    *)

LEMMA DeletesIsPruning ==
  ASSUME IInv, [Next]_vars, Deletes
  PROVE  PruneAssessments \/ PruneSources
<1> USE DEF IInv
<1>1. /\ reads' \subseteq reads /\ snapshots' \subseteq snapshots /\ revisions' \subseteq revisions
      /\ ~(UNCHANGED <<snapshots, revisions, reads, assessments>>)
  BY DEF Deletes, Stored
<1>2. ASSUME NEW r \in Records, NEW c \in Contents, StoreBatch(r, c) PROVE FALSE
  <2>1. PICK x, origin : Settled(r, c, x, origin)
    BY <1>2, BatchStores
  <2>2. x \in snapshots
    BY <1>1, <2>1, RowsAfterBatch
  <2>3. x.id # batches + 1
    BY <2>2, RowFields DEF SourceInv, SourceTypes, NumberedInOrder
  <2>4. PICK q \in snapshots : Same(x, q) /\ q.state = "superseded"
    BY <2>1, <2>3 DEF Settled
  <2>5. x = q
    BY <2>2, <2>4 DEF Same, SourceInv, NumberedInOrder
  <2> QED
    BY <2>1, <2>4, <2>5 DEF Settled
<1>3. ~ProjectForecasts
  BY <1>1, ProjectionAdds
<1>4. ASSUME ProduceAssessments PROVE FALSE
  <2>1. PICK publishing \in clock .. clock + 1 : \E new : Publishes(new, publishing)
    BY <1>4, Publication DEF ViewInv
  <2>2. PICK new : Publishes(new, publishing)
    BY <2>1
  <2>3. PICK m \in new : TRUE
    BY <2>2 DEF Publishes
  <2>4. m \in reads /\ m.start = DayStart(clock) /\ \A n \in runs : n.id < m.id
    BY <1>1, <2>2, <2>3 DEF Publishes, Fits
  <2>5. Live(m)
    <3>1. Span \in Nat \ {0} /\ DayStart(clock) \in Nat
      BY Days DEF SourceInv, SourceTypes
    <3> QED
      BY <2>4, <3>1 DEF Live
  <2>6. PICK o \in reads : m.id <= o.id /\ \E n \in runs : n.id = o.id
    BY <2>4, <2>5, SuperiorExists
  <2>7. m.id \in Nat /\ o.id \in Nat
    BY <2>4 DEF ViewInv, ViewTypes, View
  <2> QED
    BY <2>4, <2>6, <2>7
<1>5. ~RegisterMapping /\ ~(UNCHANGED vars)
  BY <1>1 DEF RegisterMapping, vars, sourceVars, assessmentVars
<1>6. ~BeginProjection /\ ~FinishProjection /\ ~ProjectorDies /\ ~PruneResults
  BY <1>1 DEF BeginProjection, FinishProjection, ProjectorDies, PruneResults, sourceVars,
              assessmentVars
<1>7. Tick /\ UNCHANGED <<assessmentVars, others>> => FALSE
  BY <1>1 DEF Tick, assessmentVars
<1> QED
  BY <1>2, <1>3, <1>4, <1>5, <1>6, <1>7 DEF Next

\* Readers get the same answer from the same views and their assessments.
LEMMA SameAnswer ==
  ASSUME NEW g, NEW from, NEW until, UNCHANGED <<clock, mapping>>,
         Chosen(g, from, until, clock)' = Chosen(g, from, until, clock),
         \A m \in Chosen(g, from, until, clock) : \A a \in Selections(m) :
           a \in assessments' <=> a \in assessments
  PROVE  ReadProjection(g, from, until)' = ReadProjection(g, from, until)
<1> DEFINE C == Chosen(g, from, until, clock)
           over(m) == {a \in Selections(m) : Overlaps(a.record, from, until)}
           rows(m) == {[record |-> a.record, assessment |-> {a} \cap assessments] : a \in over(m)}
           rows1(m) == {[record |-> a.record, assessment |-> {a} \cap assessments'] : a \in over(m)}
           good(m) == Usable(m, from, until, clock) /\ ~MappingChanged(m)
           good1(m) == Usable(m, from, until, clock) /\ ~MappingChanged(m)'
<1>1. ReadProjection(g, from, until) = UNION {rows(m) : m \in {m \in C : good(m)}}
  BY DEF ReadProjection
<1>2. /\ \A m : Selections(m)' = Selections(m)
      /\ \A m : Usable(m, from, until, clock)' <=> Usable(m, from, until, clock)
      /\ \A r : Overlaps(r, from, until)' <=> Overlaps(r, from, until)
  BY DEF Selections, Usable, Overlaps
<1>3. ReadProjection(g, from, until)' = UNION {rows1(m) : m \in {m \in C : good1(m)}}
  BY <1>2 DEF ReadProjection
<1>4. ASSUME NEW m \in C PROVE rows1(m) = rows(m) /\ (good1(m) <=> good(m))
  <2>1. \A a \in Selections(m) : {a} \cap assessments' = {a} \cap assessments
    OBVIOUS
  <2>2. rows1(m) = rows(m)
    BY <2>1
  <2>3. MappingChanged(m)' <=> MappingChanged(m)
    BY <1>2 DEF MappingChanged
  <2> QED
    BY <2>2, <2>3
<1> HIDE DEF C, rows, rows1, good, good1
<1>5. {m \in C : good1(m)} = {m \in C : good(m)}
  BY <1>4
<1>6. {rows1(m) : m \in {m \in C : good1(m)}} = {rows(m) : m \in {m \in C : good(m)}}
  BY <1>4, <1>5
<1> QED
  BY <1>1, <1>3, <1>6

LEMMA AnswersStay ==
  ASSUME IInv, PruneAssessments \/ PruneSources, NEW g \in Groups
  PROVE  ReadProjection(g, DayStart(clock), WindowEnd(clock))'
           = ReadProjection(g, DayStart(clock), WindowEnd(clock))
<1>0. PICK from, until : from = DayStart(clock) /\ until = WindowEnd(clock)
  OBVIOUS
<1> DEFINE C == Chosen(g, from, until, clock)
           all == Candidates(g, from, until, clock)
<1> USE DEF IInv
<1>1. UNCHANGED <<clock, mapping>>
  BY KeptLeft DEF PruneSources, assessmentVars, sourceVars
<1>2. DayStart(clock)' = from /\ WindowEnd(clock)' = until
  BY <1>0, <1>1 DEF DayStart, WindowEnd
<1>3. reads' \subseteq reads /\ C \subseteq reads'
  <2>1. C \subseteq reads
    BY DEF Chosen, Candidates
  <2>2. C \subseteq KeptReads
    BY <1>0, LiveViews, KeptViews
  <2> QED
    BY <2>1, <2>2, KeptLeft DEF PruneSources, assessmentVars
<1>4. Candidates(g, from, until, clock)' = all \cap reads'
  BY <1>1, <1>2, <1>3 DEF Candidates
<1>5. ASSUME NEW m \in all PROVE \E o \in C : m.id <= o.id
  <2>1. m \in reads /\ m.group = g /\ Live(m)
    BY <1>0, LiveViews
  <2>2. PICK o \in reads : o.group = g /\ Live(o) /\ Superior(o) /\ m.id <= o.id
    BY <2>1, SuperiorExists
  <2> QED
    BY <1>0, <2>2, LiveViews
<1>6. \A m \in all : m.id \in Nat
  BY DEF Candidates, ViewInv, ViewTypes, View
<1>7. C = {m \in all : \A o \in all : o.id <= m.id}
  BY DEF Chosen
<1>8. Chosen(g, from, until, clock)'
        = {m \in all \cap reads' : \A o \in all \cap reads' : o.id <= m.id}
  BY <1>4 DEF Chosen
<1> HIDE DEF C, all
<1>9. Chosen(g, from, until, clock)' = C
  <2>1. ASSUME NEW m \in all \cap reads', \A o \in all \cap reads' : o.id <= m.id
        PROVE  m \in C
    <3>1. PICK o \in C : m.id <= o.id
      BY <1>5
    <3>2. o \in all \cap reads'
      BY <1>3, <1>7
    <3>3. m.id = o.id
      BY <1>6, <2>1, <3>1, <3>2
    <3> QED
      BY <1>7, <3>1, <3>3
  <2> QED
    BY <1>3, <1>7, <1>8, <2>1
<1>10. ASSUME NEW m \in C, NEW a \in Selections(m) PROVE a \in assessments' <=> a \in assessments
  <2>1. CASE PruneAssessments
    <3>1. m \in KeptReads
      BY <1>0, LiveViews, KeptViews DEF C
    <3>2. AssessmentsOf(KeptReads) \subseteq assessments' /\ assessments' \subseteq assessments
      BY <2>1, KeptLeft
    <3> QED
      BY <3>1, <3>2 DEF AssessmentsOf
  <2>2. CASE PruneSources
    BY <2>2 DEF PruneSources, assessmentVars
  <2> QED
    BY <2>1, <2>2
<1>11. ReadProjection(g, from, until)' = ReadProjection(g, from, until)
  BY <1>1, <1>9, <1>10, SameAnswer DEF C
<1>12. (ReadProjection(g, DayStart(clock), WindowEnd(clock)))' = ReadProjection(g, from, until)'
  BY <1>2
<1> QED
  BY <1>0, <1>11, <1>12

-----------------------------------------------------------------------------
(* What producers read of the sources.                                     *)

LEMMA FiniteRows == ASSUME SourceInv PROVE IsFiniteSet(snapshots)
<1> DEFINE f == [s \in snapshots |-> s.id]
<1>1. \A s \in snapshots : s.id \in 0 .. batches
  BY RowFields DEF SourceInv, SourceTypes, NumberedInOrder
<1>2. \A s, t \in snapshots : s.id = t.id => s = t
  BY DEF SourceInv, NumberedInOrder
<1>3. f \in Injection(snapshots, 0 .. batches)
  BY <1>1, <1>2, Zenon DEF Injection, IsInjective
<1>4. IsFiniteSet(0 .. batches)
  BY FS_Interval DEF SourceInv, SourceTypes
<1> QED
  BY <1>3, <1>4, FS_Injection

\* A record that has rows has a newest one.
LEMMA NewestExists ==
  ASSUME SourceInv, NEW s \in snapshots
  PROVE  \E t \in Newest : t.record = s.record
<1> DEFINE S == {t.id : t \in Family(s.record)}
<1>1. \A t \in snapshots : t.id \in Nat /\ t.fetched \in Nat /\ t.id \in 0 .. batches
  BY RowFields DEF SourceInv, SourceTypes, NumberedInOrder
<1>2. S \in SUBSET (0 .. batches) /\ s.id \in S /\ batches \in Nat
  BY <1>1 DEF Family, SourceInv, SourceTypes
<1> HIDE DEF S
<1>3. Max(S) \in S /\ \A y \in S : Max(S) >= y
  BY <1>2, MaxOfNaturals
<1>4. PICK t \in Family(s.record) : t.id = Max(S)
  BY <1>3 DEF S
<1>5. \A u \in Family(s.record) : u.id <= t.id
  BY <1>1, <1>3, <1>4 DEF S, Family
<1>6. \A u \in Family(s.record) : ~Newer(u, t)
  <2> SUFFICES ASSUME NEW u \in Family(s.record), Newer(u, t) PROVE FALSE
    OBVIOUS
  <2>1. u \in snapshots /\ t \in snapshots
    BY <1>4 DEF Family
  <2>2. u.id < t.id \/ u = t
    BY <1>1, <1>5, <2>1 DEF SourceInv, NumberedInOrder
  <2>3. u.fetched <= t.fetched
    BY <1>1, <2>1, <2>2 DEF SourceInv, NumberedInOrder
  <2>4. ~(u.id > t.id)
    BY <1>1, <1>5, <2>1
  <2> QED
    BY <1>1, <2>1, <2>3, <2>4 DEF Newer
<1> QED
  BY <1>4, <1>6 DEF Newest, Family

\* A product with a target that is elapsed has a latest one.
LEMMA LatestExists ==
  ASSUME SourceInv, NEW s \in snapshots, Elapsed(s.record)
  PROVE  \E m \in LatestTargets : /\ SameProduct(m.record, s.record)
                                  /\ ObservedAt[s.record] <= ObservedAt[m.record]
<1> DEFINE own == {t \in snapshots : Elapsed(t.record) /\ SameProduct(t.record, s.record)}
           S == {ObservedAt[t.record] : t \in own}
<1>1. clock \in Nat /\ DayStart(clock) \in Nat /\ DayStart(clock) <= clock
  BY Days DEF SourceInv, SourceTypes
<1>2. \A t \in own : ObservedAt[t.record] \in 0 .. clock
  BY <1>1, RowFields DEF Elapsed, SourceInv
<1>3. s \in own
  BY DEF SameProduct
<1> HIDE DEF own
<1>4. S \in SUBSET (0 .. clock) /\ ObservedAt[s.record] \in S
  BY <1>2, <1>3
<1> HIDE DEF S
<1>5. Max(S) \in S /\ \A y \in S : Max(S) >= y
  BY <1>1, <1>4, MaxOfNaturals
<1>6. PICK m \in own : ObservedAt[m.record] = Max(S)
  BY <1>5 DEF S
<1>7. \A t \in own : ObservedAt[t.record] <= ObservedAt[m.record]
  BY <1>2, <1>5, <1>6 DEF S
<1>8. m \in LatestTargets
  BY <1>6, <1>7 DEF own, LatestTargets, SameProduct
<1> QED
  BY <1>3, <1>6, <1>7, <1>8 DEF own

\* Of one record no newer row is deleted before an older one.
LEMMA OldestFirst ==
  ASSUME SourceInv, PruneSources, NEW s \in snapshots', NEW t \in snapshots,
         s.record = t.record, s.id < t.id
  PROVE  t \in snapshots'
<1> DEFINE K == Kept(revisions')
           O == snapshots \ K
<1>1. PICK gone \in Victims(O) : snapshots' = snapshots \ gone
  BY DEF PruneSources
<1>2. PICK n \in 1 .. MaxPasses :
        gone = {u \in O : Cardinality({w \in O : w.id < u.id}) < n * BatchSize}
  BY <1>1 DEF Victims
<1>3. s \in snapshots /\ s \notin gone
  BY <1>1
<1>4. (s \in K) => (t \in K)
  BY <1>3, KeptRows
<1>5. SUFFICES ASSUME t \in gone PROVE FALSE
  BY <1>1
<1>6. t \in O /\ s \in O
  BY <1>2, <1>3, <1>4, <1>5
<1> DEFINE below(u) == {w \in O : w.id < u.id}
<1>7. below(s) \subseteq below(t)
  BY <1>3, RowFields DEF SourceInv
<1>8. IsFiniteSet(below(t)) /\ IsFiniteSet(below(s))
  BY FiniteRows, FS_Subset
<1>9. /\ Cardinality(below(s)) <= Cardinality(below(t))
      /\ Cardinality(below(s)) \in Nat /\ Cardinality(below(t)) \in Nat
  BY <1>7, <1>8, FS_Subset, FS_CardinalityType
<1>10. n * BatchSize \in Nat
  <2>1. n \in Nat /\ BatchSize \in Nat
    BY RetentionAssumption
  <2> QED
    BY <2>1
<1>11. Cardinality(below(t)) < n * BatchSize
  BY <1>2, <1>5
<1>12. Cardinality(below(s)) < n * BatchSize
  BY <1>9, <1>10, <1>11
<1> QED
  BY <1>2, <1>3, <1>6, <1>12

LEMMA NewestStays ==
  ASSUME SourceInv, PruneSources
  PROVE  Newest' = Newest \cap snapshots'
<1>1. snapshots' \subseteq snapshots
  BY PruneLeaves
<1>2. ASSUME NEW s \in snapshots', NEW t \in snapshots, t.record = s.record, Newer(t, s)
      PROVE  t \in snapshots'
  <2>1. s \in snapshots
    BY <1>1
  <2>2. s.id < t.id
    BY <1>2, <2>1, RowFields DEF Newer, SourceInv, NumberedInOrder
  <2> QED
    BY <1>2, <2>2, OldestFirst
<1>3. Newest = {s \in snapshots : \A t \in snapshots : t.record = s.record => ~Newer(t, s)}
  BY DEF Newest, Family
<1>4. Newest' = {s \in snapshots' : \A t \in snapshots' : t.record = s.record => ~Newer(t, s)}
  BY DEF Newest, Family, Newer
<1> QED
  BY <1>1, <1>2, <1>3, <1>4

\* The rows a condition is calculated from, given the newest row N of each
\* record.
HeardOf(N) == {s \in N : /\ ObservedAt[s.record] < WindowEnd(clock)
                         /\ s.record \in Forecasts \/ ObservedAt[s.record] <= clock}
LastOf(N, s) ==
  /\ Elapsed(s.record)
  /\ \A t \in HeardOf(N) : Elapsed(t.record) /\ SameProduct(t.record, s.record)
       => ObservedAt[t.record] <= ObservedAt[s.record]
RowsOf(N) ==
  {s \in HeardOf(N) : \/ s.record \in Forecasts /\ ObservedAt[s.record] >= DayStart(clock)
                      \/ LastOf(N, s)}

\* The same by the text of ConditionRows.
LEMMA RowsAre ==
  ASSUME SourceInv, NEW N, N \subseteq snapshots
  PROVE  LET morning == DayStart(clock)
             last(s, until) ==
               /\ ObservedAt[s.record] <= until
               /\ \A t \in HeardOf(N) :
                    SameProduct(t.record, s.record) /\ ObservedAt[t.record] <= until
                      => ObservedAt[t.record] <= ObservedAt[s.record]
         IN  {s \in HeardOf(N) : IF s.record \in Forecasts
                                 THEN ObservedAt[s.record] >= morning \/ last(s, morning)
                                 ELSE last(s, clock)} = RowsOf(N)
<1>1. \A s \in HeardOf(N) : s.record \in Records
  BY RowFields DEF HeardOf, SourceInv
<1>2. \A s, t \in HeardOf(N) : SameProduct(t.record, s.record) =>
        (t.record \in Forecasts <=> s.record \in Forecasts)
  BY <1>1, HistoryAssumption DEF SameProduct
<1>3. ASSUME NEW s \in HeardOf(N), s.record \in Forecasts
      PROVE  LastOf(N, s) <=>
               /\ ObservedAt[s.record] <= DayStart(clock)
               /\ \A t \in HeardOf(N) :
                    SameProduct(t.record, s.record) /\ ObservedAt[t.record] <= DayStart(clock)
                      => ObservedAt[t.record] <= ObservedAt[s.record]
  BY <1>2, <1>3 DEF LastOf, Elapsed
<1>4. ASSUME NEW s \in HeardOf(N), s.record \notin Forecasts
      PROVE  LastOf(N, s) <=>
               /\ ObservedAt[s.record] <= clock
               /\ \A t \in HeardOf(N) :
                    SameProduct(t.record, s.record) /\ ObservedAt[t.record] <= clock
                      => ObservedAt[t.record] <= ObservedAt[s.record]
  BY <1>2, <1>4 DEF LastOf, Elapsed
<1> QED
  BY <1>3, <1>4 DEF RowsOf, LastOf, Elapsed, HeardOf

\* Rows conditions are calculated from are kept: they are of the window or of
\* the latest target of their product.
LEMMA RowsAreKept ==
  ASSUME SourceInv, NEW s \in RowsOf(Newest)
  PROVE  s \in InCurrentWindow \cup LatestTargets
<1>1. s \in snapshots /\ s \in HeardOf(Newest)
  BY DEF RowsOf, HeardOf, Newest
<1>2. clock \in Nat /\ DayStart(clock) \in Nat /\ DayStart(clock) <= clock
      /\ clock < WindowEnd(clock) /\ WindowEnd(clock) \in Nat
  BY Days DEF SourceInv, SourceTypes
<1>3. CASE s.record \in Forecasts /\ ObservedAt[s.record] >= DayStart(clock)
  <2>1. ObservedAt[s.record] < WindowEnd(clock)
    BY <1>1 DEF HeardOf
  <2>2. ValidUntil[s.record] > DayStart(clock)
    BY <1>1, <1>2, <1>3, RowFields DEF SourceInv
  <2> QED
    BY <1>1, <2>1, <2>2 DEF InCurrentWindow, InWindow
<1>4. CASE LastOf(Newest, s)
  <2>1. ASSUME NEW t \in snapshots, Elapsed(t.record), SameProduct(t.record, s.record)
        PROVE  ObservedAt[t.record] <= ObservedAt[s.record]
    <3>1. PICK u \in Newest : u.record = t.record
      BY NewestExists
    <3>2. ObservedAt[u.record] <= clock /\ ObservedAt[u.record] < WindowEnd(clock)
      BY <1>2, <2>1, <3>1, RowFields DEF Elapsed, SourceInv
    <3>3. u \in HeardOf(Newest)
      BY <3>2 DEF HeardOf
    <3> QED
      BY <1>4, <2>1, <3>1, <3>3 DEF LastOf
  <2>2. Elapsed(s.record)
    BY <1>4 DEF LastOf
  <2> QED
    BY <1>1, <2>1, <2>2 DEF LatestTargets
<1> QED
  BY <1>3, <1>4 DEF RowsOf

\* No pass takes a row from what conditions are calculated from, nor lets
\* another row take its place.
LEMMA RowsStay ==
  ASSUME SourceInv, PruneSources
  PROVE  RowsOf(Newest \cap snapshots') = RowsOf(Newest)
<1> DEFINE N == Newest \cap snapshots'
<1>1. RowsOf(Newest) \subseteq snapshots'
  BY RowsAreKept, PruneLeaves, KeptRows
<1>2. HeardOf(N) = HeardOf(Newest) \cap snapshots'
  BY DEF HeardOf
<1>3. ASSUME NEW s \in HeardOf(N), LastOf(N, s) PROVE LastOf(Newest, s)
  <2> SUFFICES ASSUME NEW t \in HeardOf(Newest), Elapsed(t.record),
                      SameProduct(t.record, s.record)
               PROVE  ObservedAt[t.record] <= ObservedAt[s.record]
    BY <1>3 DEF LastOf
  <2>1. t \in snapshots /\ s \in snapshots
    BY <1>2 DEF HeardOf, Newest
  <2>2. PICK m \in LatestTargets : SameProduct(m.record, t.record)
                                   /\ ObservedAt[t.record] <= ObservedAt[m.record]
    BY <2>1, LatestExists
  <2>3. m \in snapshots /\ Elapsed(m.record)
    BY <2>2 DEF LatestTargets
  <2>4. PICK u \in Newest : u.record = m.record
    BY <2>3, NewestExists
  <2>5. u \in snapshots
    BY <2>4 DEF Newest
  <2>6. u \in LatestTargets
    BY <2>2, <2>4, <2>5 DEF LatestTargets
  <2>7. u \in N
    BY <2>4, <2>6, PruneLeaves, KeptRows
  <2>8. clock \in Nat /\ DayStart(clock) \in Nat /\ DayStart(clock) <= clock
        /\ clock < WindowEnd(clock) /\ WindowEnd(clock) \in Nat
    BY Days DEF SourceInv, SourceTypes
  <2>9. u \in HeardOf(N)
    BY <2>3, <2>4, <2>5, <2>7, <2>8, RowFields DEF HeardOf, Elapsed, SourceInv
  <2>10. ObservedAt[u.record] <= ObservedAt[s.record]
    <3>1. Elapsed(u.record) /\ SameProduct(u.record, s.record)
      BY <2>2, <2>3, <2>4 DEF SameProduct
    <3> QED
      BY <1>3, <2>9, <3>1 DEF LastOf
  <2> QED
    BY <2>1, <2>2, <2>4, <2>5, <2>10, RowFields DEF SourceInv
<1>4. ASSUME NEW s, LastOf(Newest, s) PROVE LastOf(N, s)
  BY <1>2, <1>4 DEF LastOf
<1>5. RowsOf(N) \subseteq RowsOf(Newest)
  BY <1>2, <1>3 DEF RowsOf
<1>6. RowsOf(Newest) \subseteq RowsOf(N)
  BY <1>1, <1>2, <1>4 DEF RowsOf
<1> QED
  BY <1>5, <1>6

LEMMA EvidenceStays ==
  ASSUME SourceInv, PruneSources
  PROVE  /\ Effective(clock)' = Effective(clock)
         /\ ConditionRows(clock)' = ConditionRows(clock)
         /\ \A s \in ConditionRows(clock) : Ambiguous(s)' = Ambiguous(s)
<1>1. clock' = clock /\ snapshots' \subseteq snapshots /\ InCurrentWindow \subseteq snapshots'
  BY PruneLeaves DEF PruneSources
<1>2. Effective(clock)' = Effective(clock)
  <2>1. \A s \in snapshots : ValidUntil[s.record] > clock => ValidUntil[s.record] > DayStart(clock)
    BY Days, RowFields DEF SourceInv, SourceTypes
  <2>2. \A s \in Applicable(clock) : s \in snapshots'
    BY <1>1, <2>1 DEF Applicable, Current, InCurrentWindow, InWindow
  <2>3. Applicable(clock)' = {s \in {u \in snapshots' : u.state # "superseded"} :
            ValidUntil[s.record] > clock /\ ObservedAt[s.record] < WindowEnd(clock)}
    BY <1>1 DEF Applicable, Current, WindowEnd, DayStart
  <2>4. Applicable(clock)' = Applicable(clock)
    BY <1>1, <2>2, <2>3 DEF Applicable, Current
  <2>5. Effective(clock)' = {s \in Applicable(clock)' : \A t \in Applicable(clock)' :
            SourceKey[t.record] = SourceKey[s.record] => ~Newer(t, s)}
    BY DEF Effective, Newer
  <2> QED
    BY <2>4, <2>5 DEF Effective
<1>3. Newest' = Newest \cap snapshots' /\ Newest \subseteq snapshots
  BY NewestStays DEF Newest
<1>4. ConditionRows(clock) = RowsOf(Newest)
  BY <1>3, RowsAre DEF ConditionRows, HeardOf
<1> DEFINE N == Newest \cap snapshots'
<1>5. ConditionRows(clock)' = RowsOf(N)
  <2>1. N \subseteq snapshots
    BY <1>1
  <2>2. ConditionRows(clock)' = LET morning == DayStart(clock)
             last(s, until) ==
               /\ ObservedAt[s.record] <= until
               /\ \A t \in HeardOf(N) :
                    SameProduct(t.record, s.record) /\ ObservedAt[t.record] <= until
                      => ObservedAt[t.record] <= ObservedAt[s.record]
         IN  {s \in HeardOf(N) : IF s.record \in Forecasts
                                 THEN ObservedAt[s.record] >= morning \/ last(s, morning)
                                 ELSE last(s, clock)}
    BY <1>1, <1>3 DEF ConditionRows, HeardOf, SameProduct, WindowEnd, DayStart
  <2> QED
    BY <2>1, <2>2, RowsAre
<1>6. ConditionRows(clock)' = ConditionRows(clock)
  BY <1>4, <1>5, RowsStay
<1>7. ASSUME NEW s \in ConditionRows(clock) PROVE Ambiguous(s)' = Ambiguous(s)
  <2>1. s \in Kept(revisions') /\ s \in snapshots
    BY <1>4, RowsAreKept, KeptRows
  <2>2. \A t \in snapshots : t.record = s.record => t \in snapshots'
    BY <2>1, KeptRows, PruneLeaves
  <2>3. (Current \cap Family(s.record))' = Current \cap Family(s.record)
    BY <1>1, <2>2 DEF Current, Family
  <2> QED
    BY <2>3 DEF Ambiguous
<1> QED
  BY <1>2, <1>6, <1>7

\* A source of the window is not obsolete.
LEMMA LastRevisionStays ==
  ASSUME RevisionInv, PruneSources, NEW r \in Records, InWindow(r, clock)
  PROVE  LastRevision(SourceKey[r])' = LastRevision(SourceKey[r])
<1>1. PICK keys \in SUBSET ObsoleteKeys : revisions' = revisions \ RevisionsOf(keys)
  BY DEF PruneSources
<1>2. \A v \in revisions : v.key = SourceKey[r] => v.key \notin keys
  <2> SUFFICES ASSUME NEW v \in revisions, v.key = SourceKey[r], v.key \in keys PROVE FALSE
    OBVIOUS
  <2>1. v \in Revisions(v.key) /\ ~InWindow(v.record, clock)
    BY <1>1 DEF ObsoleteKeys, Revisions
  <2>2. v.record \in Records /\ SourceKey[v.record] = SourceKey[r]
    BY DEF RevisionInv, Revision
  <2>3. ObservedAt[v.record] = ObservedAt[r] /\ ValidUntil[v.record] = ValidUntil[r]
    BY <2>2, HistoryAssumption
  <2> QED
    BY <2>1, <2>3 DEF InWindow
<1>3. Revisions(SourceKey[r])' = Revisions(SourceKey[r])
  BY <1>1, <1>2 DEF Revisions, RevisionsOf
<1> QED
  BY <1>3 DEF LastRevision

-----------------------------------------------------------------------------
(* The theorems.                                                           *)

LEMMA Invariance == Spec => []IInv
<1>1. Init => IInv
  BY SourcesInit, RevisionsInit, ReferencesInit, ViewsInit DEF IInv
<1>2. IInv /\ [Next]_vars => IInv'
  BY SourcesNext, RevisionsNext, ReferencesNext, ViewsNext DEF IInv, ViewInv
<1> QED
  BY <1>1, <1>2, PTL DEF Spec

\* Whatever results, revisions and assessments name exists, and so does every
\* assessment of a view and the view of every run, whichever passes of
\* retention.py run between the reads and the publication of the projection.
THEOREM NothingIsLost == Spec => []NothingDangles
<1>1. IInv => NothingDangles
  BY DEF IInv, ReferenceInv, ReferencesHeld, ViewsComplete, NothingDangles
<1> QED
  BY <1>1, Invariance, PTL

\* Of each record the row that counts is what the provider said last
\* (store_batch), and there is one until its target is of the past.
THEOREM LastHeardCounts == Spec => []CurrentIsLastHeard
<1>1. IInv => CurrentIsLastHeard
  BY LastHeard DEF IInv
<1> QED
  BY <1>1, Invariance, PTL

\* What read_projection gives for now rests on no target that is over and on
\* no mapping that has been corrected.
THEOREM LiveServed == Spec => []ServedIsLive
<1>1. ASSUME IInv, NEW g \in Groups,
             NEW row \in ReadProjection(g, DayStart(clock), WindowEnd(clock))
      PROVE  /\ ValidUntil[row.record] > clock
             /\ \A a \in row.assessment : a.mapping \in {None, mapping.version}
  <2>1. PICK m \in Chosen(g, DayStart(clock), WindowEnd(clock), clock) :
          /\ Usable(m, DayStart(clock), WindowEnd(clock), clock) /\ ~MappingChanged(m)
          /\ \E a \in Selections(m) : row.record = a.record /\ row.assessment = {a} \cap assessments
    BY DEF ReadProjection
  <2>2. PICK a \in Selections(m) : row.record = a.record /\ row.assessment = {a} \cap assessments
    BY <2>1
  <2>3. m \in reads
    BY <2>1 DEF Chosen, Candidates
  <2> USE DEF IInv, ViewInv
  <2>9. m \in View /\ mapping.version \in Nat
    BY <1>1, <2>3 DEF ViewTypes
  <2>10. m.items \subseteq Row /\ m.mapping \in Nat /\ m.until \in Nat
    BY <2>9 DEF View
  <2>11. m.mapping <= mapping.version /\ \A s \in m.items : m.until <= ValidUntil[s.record]
    BY <1>1, <2>3 DEF ViewsFit
  <2>4. PICK s \in m.items : a.record = s.record
    BY SelectionFacts
  <2>5. s \in Row /\ m.until \in Nat /\ m.until <= ValidUntil[s.record] /\ m.until > clock
    BY <2>1, <2>4, <2>10, <2>11 DEF Usable
  <2>6. ValidUntil[s.record] \in Nat /\ clock \in Nat
    BY <1>1, <2>5, HistoryAssumption DEF Row, SourceInv, SourceTypes
  <2>7. ValidUntil[row.record] > clock
    BY <2>2, <2>4, <2>5, <2>6
  <2>8. a \in assessments => a.mapping \in {None, mapping.version}
    <3>1. a.mapping = m.mapping /\ m.mapping \in Nat /\ mapping.version \in Nat
          /\ m.mapping <= mapping.version
      BY <2>2, <2>9, <2>10, <2>11, SelectionFacts
    <3>2. a \in assessments => a.mapping = None \/ ~(a.mapping < mapping.version)
      BY <2>1, <2>2 DEF MappingChanged
    <3> QED
      BY <3>1, <3>2
  <2> QED
    BY <2>2, <2>7, <2>8
<1>2. IInv => ServedIsLive
  BY <1>1 DEF ServedIsLive
<1> QED
  BY <1>2, Invariance, PTL

\* project_forecasts and prune_source_history leave what was known of a source
\* at every instant that has passed as it was, until it is forgotten whole.
THEOREM PastKept == Spec => PastStaysKnown
<1> DEFINE Step ==
      revisions' # revisions =>
        \A k \in {SourceKey[r] : r \in Records}, cutoff \in 0 .. clock - 1 :
          Revisions(k)' # {} => KnownAsOf(k, cutoff)' = KnownAsOf(k, cutoff)
<1>1. IInv /\ [Next]_vars => [Step]_vars
  BY PastIsKept DEF IInv
<1> QED
  BY <1>1, Invariance, PTL DEF Spec, PastStaysKnown

\* A pass of the retention is not noticed: readers are given the same answer
\* for today and the days to come, the producers the same rows, the forecast
\* projection the same last revisions.
THEOREM RetentionUnnoticed == Spec => RetentionHidesNothing
<1> DEFINE Hidden ==
      Deletes =>
       /\ \A g \in Groups :
            ReadProjection(g, DayStart(clock), WindowEnd(clock))'
              = ReadProjection(g, DayStart(clock), WindowEnd(clock))
       /\ snapshots' # snapshots =>
            /\ Effective(clock)' = Effective(clock)
            /\ ConditionRows(clock)' = ConditionRows(clock)
            /\ \A s \in ConditionRows(clock) : Ambiguous(s)' = Ambiguous(s)
       /\ revisions' # revisions =>
            \A r \in Forecasts : InWindow(r, clock) =>
              LastRevision(SourceKey[r])' = LastRevision(SourceKey[r])
<1>1. ASSUME IInv, [Next]_vars, Deletes PROVE Hidden
  <2>1. PruneAssessments \/ PruneSources
    BY <1>1, DeletesIsPruning
  <2>2. \A g \in Groups : ReadProjection(g, DayStart(clock), WindowEnd(clock))'
                            = ReadProjection(g, DayStart(clock), WindowEnd(clock))
    BY <1>1, <2>1, AnswersStay
  <2>3. PruneAssessments => UNCHANGED <<snapshots, revisions>>
    BY DEF PruneAssessments, sourceVars
  <2>4. ASSUME PruneSources
        PROVE  /\ Effective(clock)' = Effective(clock)
               /\ ConditionRows(clock)' = ConditionRows(clock)
               /\ \A s \in ConditionRows(clock) : Ambiguous(s)' = Ambiguous(s)
    BY <1>1, <2>4, EvidenceStays DEF IInv
  <2>5. ASSUME PruneSources, NEW r \in Forecasts, InWindow(r, clock)
        PROVE  LastRevision(SourceKey[r])' = LastRevision(SourceKey[r])
    BY <1>1, <2>5, LastRevisionStays, HistoryAssumption DEF IInv
  <2> QED
    BY <2>1, <2>2, <2>3, <2>4, <2>5
<1> HIDE DEF Hidden
<1>2. IInv /\ [Next]_vars => [Deletes => Hidden]_vars
  BY <1>1
<1>3. Spec => [][Deletes => Hidden]_vars
  BY <1>2, Invariance, PTL DEF Spec
<1> QED
  BY <1>3, PTL DEF RetentionHidesNothing, Hidden

-----------------------------------------------------------------------------
(* What readers make of the records of a place.  Their history is that of  *)
(* the sources alone, before anything is deleted.                          *)

\* A record that was heard has a row that counts, and no other has rows.
FamiliesHeard ==
  \A r \in Records : /\ heard[r] = None => Family(r) = {}
                     /\ heard[r] # None => \E s \in Family(r) : s.state # "superseded"

\* A record is not asked for twice in one instant.
OneRowPerInstant ==
  \A s, t \in snapshots : s.record = t.record /\ s.fetched = t.fetched => s = t

EvidenceInv == SourceInv /\ FamiliesHeard /\ OneRowPerInstant

LEMMA ReadingKeepsEvidence ==
  ASSUME EvidenceInv, ReadingArrives
  PROVE  EvidenceInv'
<1>1. PICK r \in Records, c \in Contents :
        (\A s \in Family(r) : s.fetched < clock) /\ StoreBatch(r, c)
  BY Zenon DEF ReadingArrives
<1>2. SourceInv
  BY DEF EvidenceInv
<1>3. SourceInv'
  BY <1>1, <1>2, StoreKeepsSources
<1>4. PICK x, origin : Settled(r, c, x, origin)
  BY <1>1, <1>2, BatchStores
<1>5. /\ x \in snapshots'
      /\ \A s \in snapshots' : s = x \/ \E q \in snapshots \ origin :
           /\ s = Past(q, r) /\ Same(s, q)
           /\ IF q.record = r THEN s.state = "superseded" ELSE s = q
      /\ \A q \in snapshots : \E s \in snapshots' : Same(s, q) /\ (q.record # r => s = q)
  BY <1>2, <1>4, RowsAfterBatch
<1>6. /\ x.record = r /\ x.state # "superseded"
      /\ \/ origin = {} /\ x.fetched = clock
         \/ \E q \in snapshots : origin = {q} /\ Same(x, q)
  BY <1>4 DEF Settled
<1>7. heard'[r] # None /\ \A u \in Records : u # r => heard'[u] = heard[u]
  BY <1>1, HistoryAssumption DEF StoreBatch, EvidenceInv, SourceInv, SourceTypes, None
<1>8. FamiliesHeard'
  <2> SUFFICES ASSUME NEW u \in Records
               PROVE  /\ heard'[u] = None => \A s \in snapshots' : s.record # u
                      /\ heard'[u] # None =>
                           \E s \in snapshots' : s.record = u /\ s.state # "superseded"
    BY DEF FamiliesHeard, Family
  <2>1. CASE u = r
    BY <1>5, <1>6, <1>7, <2>1
  <2>2. CASE u # r
    <3>1. heard'[u] = heard[u]
      BY <1>7, <2>2
    <3>2. /\ heard[u] = None => \A s \in snapshots : s.record # u
          /\ heard[u] # None => \E s \in snapshots : s.record = u /\ s.state # "superseded"
      BY DEF EvidenceInv, FamiliesHeard, Family
    <3>3. \A s \in snapshots' : s.record = u => s \in snapshots
      BY <1>5, <1>6, <2>2 DEF Same
    <3>4. \A s \in snapshots : s.record = u => s \in snapshots'
      BY <1>5, <2>2
    <3> QED
      BY <3>1, <3>2, <3>3, <3>4
  <2> QED
    BY <2>1, <2>2
<1>9. OneRowPerInstant'
  <2>1. ASSUME NEW t \in snapshots', t # x, t.record = r PROVE t.fetched # x.fetched
    <3>1. PICK q \in snapshots \ origin : Same(t, q)
      BY <1>5, <2>1
    <3>2. q.record = r /\ q.fetched = t.fetched /\ q \in Family(r)
      BY <2>1, <3>1 DEF Same, Family
    <3>3. CASE origin = {} /\ x.fetched = clock
      <4>1. q.fetched < clock /\ q.fetched \in Nat /\ clock \in Nat
        BY <1>1, <1>2, <3>1, <3>2, RowFields DEF SourceInv, SourceTypes
      <4> QED
        BY <3>2, <3>3, <4>1
    <3>4. CASE \E p \in snapshots : origin = {p} /\ Same(x, p)
      <4>1. PICK p \in snapshots : origin = {p} /\ Same(x, p)
        BY <3>4
      <4>2. p # q /\ p.record = r /\ p.fetched = x.fetched
        BY <1>6, <3>1, <4>1 DEF Same
      <4> QED
        BY <3>1, <3>2, <4>1, <4>2 DEF EvidenceInv, OneRowPerInstant
    <3> QED
      BY <1>6, <3>3, <3>4
  <2>2. ASSUME NEW s \in snapshots', NEW t \in snapshots', s # x, t # x,
               s.record = t.record, s.fetched = t.fetched
        PROVE  s = t
    <3>1. PICK p \in snapshots \ origin : s = Past(p, r) /\ Same(s, p)
      BY <1>5, <2>2
    <3>2. PICK q \in snapshots \ origin : t = Past(q, r) /\ Same(t, q)
      BY <1>5, <2>2
    <3>3. p = q
      BY <2>2, <3>1, <3>2 DEF Same, EvidenceInv, OneRowPerInstant
    <3> QED
      BY <3>1, <3>2, <3>3
  <2> QED
    BY <1>6, <2>1, <2>2 DEF OneRowPerInstant
<1> QED
  BY <1>3, <1>8, <1>9 DEF EvidenceInv

LEMMA EvidenceInvariance == EvidenceSpec => []EvidenceInv
<1>1. ASSUME SourceInit PROVE EvidenceInv
  BY <1>1 DEF SourceInit, EvidenceInv, SourceInv, SourceTypes, OneRowPerContent, CurrentHeard,
              HeardKept, NumberedInOrder, FamiliesHeard, OneRowPerInstant, Family
<1>2. ASSUME EvidenceInv, [EvidenceNext]_sourceVars PROVE EvidenceInv'
  <2>1. CASE ReadingArrives
    BY <1>2, <2>1, ReadingKeepsEvidence
  <2>2. CASE Tick \/ UNCHANGED sourceVars
    <3>1. UNCHANGED <<batches, snapshots, heard>> /\ Passes
      BY <1>2, <2>2 DEF Tick, sourceVars, Passes, EvidenceInv, SourceInv, SourceTypes
    <3>2. SourceInv'
      BY <1>2, <3>1, TimeKeepsSources DEF EvidenceInv
    <3>3. FamiliesHeard' /\ OneRowPerInstant'
      BY <1>2, <3>1 DEF EvidenceInv, FamiliesHeard, OneRowPerInstant, Family
    <3> QED
      BY <3>2, <3>3 DEF EvidenceInv
  <2> QED
    BY <1>2, <2>1, <2>2 DEF EvidenceNext
<1> QED
  BY <1>1, <1>2, PTL DEF EvidenceSpec

\* What is known at an instant.
Known(asOf) == {s \in snapshots : s.fetched <= asOf}

LEMMA MetricsAre ==
  ASSUME NEW at, NEW asOf
  PROVE  /\ \A m \in MetricGroups(at, asOf) :
              /\ m.station \in Stations /\ m.rows # {}
              /\ m = GroupMetric(m.station, at, Known(asOf))
              /\ m.rows = CandidateRows(m.station, at, Known(asOf))
         /\ \A st \in Stations : CandidateRows(st, at, Known(asOf)) # {} =>
              GroupMetric(st, at, Known(asOf)) \in MetricGroups(at, asOf)
<1>1. \A st : /\ GroupMetric(st, at, Known(asOf)).station = st
              /\ GroupMetric(st, at, Known(asOf)).rows = CandidateRows(st, at, Known(asOf))
  BY DEF GroupMetric
<1>2. MetricGroups(at, asOf) =
        {m \in {GroupMetric(st, at, Known(asOf)) : st \in Stations} : m.rows # {}}
  BY DEF MetricGroups, Known
<1> QED
  BY <1>1, <1>2

LEMMA MetricsFinite ==
  ASSUME NEW at, NEW asOf
  PROVE  IsFiniteSet(MetricGroups(at, asOf))
<1> DEFINE all == {GroupMetric(st, at, Known(asOf)) : st \in Stations}
<1>1. IsFiniteSet(Stations)
  BY EvidenceAssumption
<1>2. IsFiniteSet(all)
  <2> DEFINE f == [st \in Stations |-> GroupMetric(st, at, Known(asOf))]
  <2>1. f \in Surjection(Stations, all)
    <3>1. \A st \in Stations : f[st] = GroupMetric(st, at, Known(asOf))
      OBVIOUS
    <3>2. f \in [Stations -> all]
      BY Zenon
    <3>3. \A m \in all : \E st \in Stations : f[st] = m
      BY <3>1
    <3> QED
      BY <3>2, <3>3 DEF Surjection
  <2> QED
    BY <1>1, <2>1, FS_Surjection
<1>3. MetricGroups(at, asOf) \subseteq all
  BY DEF MetricGroups, Known
<1> HIDE DEF all
<1> QED
  BY <1>2, <1>3, FS_Subset

\* The metrics that decide, and what is made of them.
Deciding(around, groups) ==
  Nearest(around, Freshest(SourceClass(around, AssembledMetrics(around, groups))))

LEMMA DecidingAreMetrics ==
  ASSUME NEW around, NEW groups
  PROVE  Deciding(around, groups) \subseteq groups
<1>1. AssembledMetrics(around, groups) \subseteq groups
  BY DEF AssembledMetrics, Related
<1>2. \A s : SourceClass(around, s) \subseteq s /\ Freshest(s) \subseteq s /\ Nearest(around, s) \subseteq s
  BY Zenon DEF SourceClass, Freshest, Nearest
<1> QED
  BY <1>1, <1>2 DEF Deciding

LEMMA MetricsDecide ==
  ASSUME NEW around, NEW at, NEW asOf,
         NEW shown, shown = SelectMetric(around, MetricGroups(at, asOf), at),
         shown.value # Withheld
  PROVE  /\ shown.metric \in Deciding(around, MetricGroups(at, asOf))
         /\ \A m \in Deciding(around, MetricGroups(at, asOf)) :
              ProvisionalValue(m, at) = shown.value
<1> DEFINE groups == MetricGroups(at, asOf)
           deciding == Deciding(around, groups)
           values == {ProvisionalValue(m, at) : m \in deciding}
           named == CHOOSE m \in deciding : \A n \in deciding : m.station <= n.station
           value == CHOOSE v \in values : TRUE
<1>1. shown = IF Cardinality(values) # 1 THEN [metric |-> Nobody, value |-> Withheld]
              ELSE [metric |-> named, value |-> value]
  BY Zenon DEF SelectMetric, Deciding
<1>2. deciding \subseteq groups
  BY DecidingAreMetrics
<1>3. IsFiniteSet(values)
  <2> DEFINE f == [m \in deciding |-> ProvisionalValue(m, at)]
  <2>1. IsFiniteSet(deciding)
    BY <1>2, MetricsFinite, FS_Subset
  <2>2. f \in [deciding -> values] /\ \A v \in values : \E m \in deciding : f[m] = v
    BY Zenon
  <2>3. f \in Surjection(deciding, values)
    BY <2>2 DEF Surjection
  <2> QED
    BY <2>1, <2>3, FS_Surjection
<1>4. \A m \in deciding : m.station \in Nat
  BY <1>2, MetricsAre, EvidenceAssumption
<1>5. deciding # {} => \E m \in deciding : \A n \in deciding : m.station <= n.station
  <2> DEFINE S == {m.station : m \in deciding}
  <2> HIDE DEF deciding
  <2>1. SUFFICES ASSUME deciding # {}
                 PROVE  \E m \in deciding : \A n \in deciding : m.station <= n.station
    OBVIOUS
  <2>2. S \in SUBSET Nat /\ S # {}
    BY <1>4, <2>1
  <2>3. Min(S) \in S /\ \A y \in S : Min(S) <= y
    BY <2>2, MinOfNaturals
  <2> QED
    BY <2>3
<1> HIDE DEF groups, deciding
<1>6. deciding # {} => named \in deciding
  BY <1>5 DEF named
<1> HIDE DEF named, value, values
<1>7. Cardinality(values) = 1 /\ shown.metric = named /\ shown.value = value
  BY <1>1
<1>8. PICK v : values = {v}
  BY <1>3, <1>7, FS_Singleton
<1>9. value = v
  BY <1>8 DEF value
<1>10. deciding # {} /\ \A m \in deciding : ProvisionalValue(m, at) = v
  BY <1>8 DEF values
<1> QED
  BY <1>6, <1>7, <1>9, <1>10 DEF deciding, groups

\* A value is that of every row of its metric, each is valid, and no record has
\* returned to an earlier row.
LEMMA RowsSay ==
  ASSUME NEW at, NEW asOf, NEW m \in MetricGroups(at, asOf), ProvisionalValue(m, at) # Withheld
  PROVE  \A s \in m.rows : /\ s.content = ProvisionalValue(m, at)
                           /\ s.content # Missing
                           /\ ~(ValidUntil[s.record] <= at)
                           /\ ~RevisionAmbiguous(s, Known(asOf))
<1>1. /\ m.rows # {} /\ m = GroupMetric(m.station, at, Known(asOf))
      /\ m.rows = CandidateRows(m.station, at, Known(asOf))
  BY MetricsAre
<1>2. /\ m.status \in {"available", "conflict"}
      /\ \A s \in m.rows : RowStatus(s, at) = "available"
      /\ \A s, t \in m.rows : s.content = t.content
      /\ ProvisionalValue(m, at) = (CHOOSE s \in m.rows : TRUE).content
  BY Zenon DEF ProvisionalValue
<1>3. (\E s \in m.rows : RevisionAmbiguous(s, Known(asOf))) => m.status = "unknown"
  BY <1>1 DEF GroupMetric
<1>4. \A s \in m.rows : ~RevisionAmbiguous(s, Known(asOf))
  BY <1>2, <1>3
<1>5. \A s \in m.rows : s.content # Missing /\ ~(ValidUntil[s.record] <= at)
  BY <1>2 DEF RowStatus
<1>6. (CHOOSE s \in m.rows : TRUE) \in m.rows
  BY <1>1
<1> QED
  BY <1>2, <1>4, <1>5, <1>6

\* The rows that a station has a say with, of whatever target.
Own(st, at, known) ==
  {s \in Revised(known) : /\ StationOf[s.record] = st
                          /\ \E t \in known : t.record = s.record /\ t.content # Missing
                          /\ ObservedAt[s.record] <= at}

LEMMA CandidatesAre ==
  ASSUME NEW st, NEW at, NEW known
  PROVE  /\ CandidateRows(st, at, known) = LatestTarget(Own(st, at, known))
         /\ CandidateRows(st, at, known) \subseteq Own(st, at, known)
         /\ Own(st, at, known) \subseteq known
<1>1. \A r : r \in {s.record : s \in {s \in known : s.content # Missing}}
               <=> \E t \in known : t.record = r /\ t.content # Missing
  OBVIOUS
<1>2. CandidateRows(st, at, known) = LatestTarget(Own(st, at, known))
  BY <1>1 DEF CandidateRows, Own
<1> QED
  BY <1>2 DEF LatestTarget, Own, Revised

\* The map shows of a station what its conditions say.
LEMMA MapAgrees ==
  ASSUME SourceInv, NEW asOf \in Nat, NEW st, NEW value,
         CandidateRows(st, asOf, Known(asOf)) # {},
         \A s \in CandidateRows(st, asOf, Known(asOf)) :
           s.content = value /\ s.content # Missing /\ ~(ValidUntil[s.record] <= asOf)
  PROVE  TwinValue(st, asOf, asOf) = value
<1> DEFINE known == Known(asOf)
           rows == CandidateRows(st, asOf, known)
           telling == {s \in Revised(known) :
                         StationOf[s.record] = st /\ s.content # Missing /\ ObservedAt[s.record] <= asOf}
           last == {s \in rows : \A t \in rows : t.id <= s.id}
<1>1. \A s \in snapshots : /\ s.id \in 0 .. batches /\ ObservedAt[s.record] \in Nat
                           /\ ValidUntil[s.record] \in Nat
  BY RowFields DEF SourceInv, SourceTypes, NumberedInOrder
<1>2. rows = LatestTarget(Own(st, asOf, known)) /\ rows \subseteq Own(st, asOf, known)
  BY CandidatesAre
<1>3. telling \subseteq Own(st, asOf, known)
  BY DEF Own, Revised
<1>4. rows \subseteq telling
  BY <1>2 DEF Own
<1>5. Own(st, asOf, known) \subseteq snapshots
  BY CandidatesAre DEF Known
<1> HIDE DEF telling, known
<1>6. LatestTarget(telling) = rows
  <2> PICK m \in rows : TRUE
    BY DEF known
  <2>1. \A t \in Own(st, asOf, known) : ObservedAt[t.record] <= ObservedAt[m.record]
    BY <1>2 DEF LatestTarget
  <2>2. ASSUME NEW s \in LatestTarget(telling) PROVE s \in rows
    <3>1. s \in Own(st, asOf, known) /\ ObservedAt[m.record] <= ObservedAt[s.record]
      BY <1>3, <1>4, <2>2 DEF LatestTarget
    <3>2. \A t \in Own(st, asOf, known) : ObservedAt[t.record] <= ObservedAt[s.record]
      BY <1>1, <1>2, <1>5, <2>1, <3>1
    <3> QED
      BY <1>2, <3>1, <3>2 DEF LatestTarget
  <2>3. ASSUME NEW s \in rows PROVE s \in LatestTarget(telling)
    BY <1>2, <1>3, <1>4, <2>3 DEF LatestTarget
  <2> QED
    BY <2>2, <2>3
<1> HIDE DEF rows
<1>7. TwinRows(st, asOf, asOf) = last
  <2>1. telling = {s \in Revised({s \in snapshots : s.fetched <= asOf}) :
                     StationOf[s.record] = st /\ s.content # Missing /\ ObservedAt[s.record] <= asOf}
    BY DEF telling, known, Known
  <2> QED
    BY <1>6, <2>1, Zenon DEF TwinRows, last
<1>8. last # {}
  <2> DEFINE S == {s.id : s \in rows}
  <2>1. S \in SUBSET (0 .. batches) /\ S # {} /\ batches \in Nat
    BY <1>1, <1>2, <1>5 DEF rows, known, SourceInv, SourceTypes
  <2>2. Max(S) \in S /\ \A y \in S : Max(S) >= y
    BY <2>1, MaxOfNaturals
  <2>3. PICK s \in rows : s.id = Max(S)
    BY <2>2
  <2>4. \A t \in rows : t.id \in S
    OBVIOUS
  <2>5. \A t \in rows : t.id <= s.id
    BY <2>1, <2>2, <2>3, <2>4
  <2> QED
    BY <2>5
<1>9. \A s \in last : s.content = value /\ ValidUntil[s.record] > asOf
  BY <1>1, <1>2, <1>5 DEF rows, known
<1> HIDE DEF last
<1>10. {s \in TwinRows(st, asOf, asOf) : ValidUntil[s.record] > asOf} = last
  BY <1>7, <1>9
<1> QED
  BY <1>8, <1>9, <1>10, Zenon DEF TwinValue

\* A criterion names the station of a metric.
LEMMA CriterionAgrees ==
  ASSUME NEW around, NEW at, NEW asOf, NEW m \in MetricGroups(at, asOf), NEW value,
         \A s \in m.rows : s.content = value
  PROVE  CriterionValue(around, MetricGroups(at, asOf), m.station) \in {Withheld, value}
<1> DEFINE groups == MetricGroups(at, asOf)
           own == {n \in Related(around, groups, {"mapped"}) :
                     n.station = m.station /\ n.status = "available"}
<1>1. own \subseteq {m}
  <2> SUFFICES ASSUME NEW n \in own PROVE n = m
    OBVIOUS
  <2>1. n \in groups /\ n.station = m.station
    BY DEF Related
  <2> QED
    BY <2>1, MetricsAre
<1>2. m.rows # {}
  BY MetricsAre
<1>3. CriterionValue(around, groups, m.station) =
        IF own = {} THEN Withheld
        ELSE (CHOOSE s \in (CHOOSE n \in own : TRUE).rows : TRUE).content
  BY Zenon DEF CriterionValue
<1> HIDE DEF own, groups
<1>4. CASE own = {}
  BY <1>3, <1>4 DEF groups
<1>5. CASE own # {}
  <2>1. (CHOOSE n \in own : TRUE) = m
    BY <1>1, <1>5
  <2>2. (CHOOSE s \in m.rows : TRUE) \in m.rows
    BY <1>2
  <2> QED
    BY <1>3, <1>5, <2>1, <2>2 DEF groups
<1> QED
  BY <1>4, <1>5

LEMMA ReadersAlike == ASSUME SourceInv PROVE ReadersAgree
<1> SUFFICES ASSUME NEW asOf \in 0 .. clock, NEW around \in Surroundings
             PROVE  LET groups == MetricGroups(asOf, asOf)
                        shown == SelectMetric(around, groups, asOf)
                        st == shown.metric.station
                    IN  shown.value # Withheld =>
                          /\ TwinValue(st, asOf, asOf) = shown.value
                          /\ CriterionValue(around, groups, st) \in {Withheld, shown.value}
  BY Zenon DEF ReadersAgree
<1> DEFINE groups == MetricGroups(asOf, asOf)
<1>1. PICK shown : shown = SelectMetric(around, groups, asOf)
  OBVIOUS
<1>2. SUFFICES ASSUME shown.value # Withheld
               PROVE  /\ TwinValue(shown.metric.station, asOf, asOf) = shown.value
                      /\ CriterionValue(around, groups, shown.metric.station)
                           \in {Withheld, shown.value}
  BY <1>1, Zenon
<1>3. PICK m : m = shown.metric
  OBVIOUS
<1>4. m \in groups /\ ProvisionalValue(m, asOf) = shown.value
  BY <1>1, <1>2, <1>3, MetricsDecide, DecidingAreMetrics
<1>5. \A s \in m.rows : s.content = shown.value /\ s.content # Missing /\ ~(ValidUntil[s.record] <= asOf)
  BY <1>2, <1>4, RowsSay
<1>6. m.rows # {} /\ m.rows = CandidateRows(m.station, asOf, Known(asOf))
  BY <1>4, MetricsAre
<1>7. asOf \in Nat
  BY DEF SourceInv, SourceTypes
<1> HIDE DEF groups
<1>8. TwinValue(m.station, asOf, asOf) = shown.value
  BY <1>5, <1>6, <1>7, MapAgrees
<1>9. CriterionValue(around, groups, m.station) \in {Withheld, shown.value}
  BY <1>4, <1>5, CriterionAgrees DEF groups
<1> QED
  BY <1>3, <1>8, <1>9

-----------------------------------------------------------------------------
(* The newest evidence decides.                                            *)

\* A row that nothing contradicts says what was heard last of its record.
LEMMA RowIsHeard ==
  ASSUME EvidenceInv, NEW s \in Revised(snapshots), ~RevisionAmbiguous(s, snapshots)
  PROVE  heard[s.record] = s.content /\ s.record \in Heard
<1>1. s \in snapshots /\ s.record \in Records /\ s.fetched \in Nat
  BY RowFields DEF Revised, EvidenceInv, SourceInv
<1>2. heard[s.record] # None
  BY <1>1 DEF EvidenceInv, FamiliesHeard, Family
<1>3. PICK t \in Family(s.record) : t.state # "superseded"
  BY <1>1, <1>2 DEF EvidenceInv, FamiliesHeard
<1>4. t \in snapshots /\ t.record = s.record /\ t.fetched \in Nat
  BY RowFields DEF Family, EvidenceInv, SourceInv
<1>5. ~(t.fetched < s.fetched)
  BY <1>3, <1>4 DEF RevisionAmbiguous
<1>6. ~(t.fetched > s.fetched)
  BY <1>4 DEF Revised, Newer
<1>7. t = s
  BY <1>1, <1>4, <1>5, <1>6 DEF EvidenceInv, OneRowPerInstant
<1> QED
  BY <1>1, <1>2, <1>3, <1>7 DEF EvidenceInv, SourceInv, CurrentHeard, Heard

\* Records that have ever contained the quantity.
Told(at) == {r \in Heard : /\ \E s \in Family(r) : s.content # Missing
                           /\ ObservedAt[r] <= at}
OfRelation(around, at, R) == {r \in Told(at) : around.relation[StationOf[r]] \in R}

LEMMA ToldRows ==
  ASSUME EvidenceInv, NEW at
  PROVE  /\ \A r \in Told(at) : \E s \in Own(StationOf[r], at, snapshots) : s.record = r
         /\ \A st : \A s \in Own(st, at, snapshots) : s.record \in Told(at) /\ StationOf[s.record] = st
<1>1. ASSUME NEW r \in Told(at)
      PROVE  \E s \in Own(StationOf[r], at, snapshots) : s.record = r
  <2>1. PICK t \in snapshots : t.record = r /\ t.content # Missing
    BY DEF Told, Family
  <2>2. PICK s \in Newest : s.record = r
    BY <2>1, NewestExists DEF EvidenceInv
  <2>3. s \in Revised(snapshots)
    BY <2>2 DEF Newest, Revised, Family
  <2> QED
    BY <2>1, <2>2, <2>3 DEF Own, Told
<1>2. ASSUME NEW st, NEW s \in Own(st, at, snapshots)
      PROVE  s.record \in Told(at) /\ StationOf[s.record] = st
  <2>1. s \in snapshots /\ s.record \in Records
    BY RowFields DEF Own, Revised, EvidenceInv, SourceInv
  <2>2. s \in Family(s.record) /\ s.record \in Heard
    BY <2>1 DEF Family, Heard, EvidenceInv, FamiliesHeard
  <2>3. PICK t \in snapshots : t.record = s.record /\ t.content # Missing
    BY DEF Own
  <2> QED
    BY <2>2, <2>3 DEF Own, Told, Family
<1> QED
  BY <1>1, <1>2

\* The rows of a metric are of one target, which no row of the station exceeds.
Target(m, at, T) ==
  /\ T \in Nat /\ TargetOf(m) = T
  /\ \A s \in m.rows : ObservedAt[s.record] = T
  /\ \A s \in Own(m.station, at, snapshots) :
       /\ ObservedAt[s.record] <= T
       /\ ObservedAt[s.record] = T => s \in m.rows

LEMMA KnownNow ==
  ASSUME SourceInv PROVE Known(clock) = snapshots
BY DEF Known, SourceInv, NumberedInOrder

LEMMA MetricsHaveTargets ==
  ASSUME SourceInv, NEW at, NEW m \in MetricGroups(at, clock)
  PROVE  \E T : Target(m, at, T)
<1>1. /\ m.rows # {} /\ m.rows = LatestTarget(Own(m.station, at, snapshots))
      /\ m.rows \subseteq Own(m.station, at, snapshots)
  BY MetricsAre, CandidatesAre, KnownNow
<1>2. PICK x \in m.rows : TRUE
  BY <1>1
<1>3. \A s \in Own(m.station, at, snapshots) : ObservedAt[s.record] \in Nat
  BY CandidatesAre, RowFields DEF SourceInv
<1> DEFINE T == ObservedAt[x.record]
<1>4. \A s \in Own(m.station, at, snapshots) : ObservedAt[s.record] <= T
  BY <1>1 DEF LatestTarget
<1>5. \A s \in m.rows : ObservedAt[s.record] = T
  BY <1>1, <1>3, <1>4 DEF LatestTarget
<1>6. \A s \in Own(m.station, at, snapshots) : ObservedAt[s.record] = T => s \in m.rows
  BY <1>1, <1>4 DEF LatestTarget
<1>7. {ObservedAt[s.record] : s \in m.rows} = {T}
  BY <1>2, <1>5
<1>8. T \in Nat
  BY <1>1, <1>3
<1> HIDE DEF T
<1>9. Max({T}) = T
  BY <1>8 DEF Max
<1>10. TargetOf(m) = T
  BY <1>7, <1>9 DEF TargetOf
<1> QED
  BY <1>4, <1>5, <1>6, <1>8, <1>10 DEF Target

\* A station has a metric when one of its records has a say.
LEMMA ToldMetric ==
  ASSUME EvidenceInv, NEW at \in Nat, NEW r \in Told(at)
  PROVE  \E m \in MetricGroups(at, clock) : m.station = StationOf[r]
<1> DEFINE st == StationOf[r]
           own == Own(st, at, snapshots)
<1>1. SourceInv /\ clock \in Nat /\ st \in Stations
  BY EvidenceAssumption DEF EvidenceInv, SourceInv, SourceTypes, Told, Heard
<1>2. own # {} /\ own \subseteq snapshots
  BY ToldRows, CandidatesAre
<1>3. LatestTarget(own) # {}
  <2> DEFINE S == {ObservedAt[s.record] : s \in own}
  <2>1. S \in SUBSET (0 .. at)
    <3>1. \A s \in own : ObservedAt[s.record] \in Nat
      BY <1>1, <1>2, RowFields DEF SourceInv
    <3>2. \A s \in own : ObservedAt[s.record] \in 0 .. at
      BY <3>1 DEF Own
    <3> QED
      BY <3>2
  <2> HIDE DEF own
  <2>2. Max(S) \in S /\ \A y \in S : Max(S) >= y
    BY <1>2, <2>1, MaxOfNaturals
  <2>3. PICK s \in own : ObservedAt[s.record] = Max(S)
    BY <2>2
  <2>4. \A t \in own : ObservedAt[t.record] \in S
    OBVIOUS
  <2>5. \A t \in own : ObservedAt[t.record] <= ObservedAt[s.record]
    BY <2>1, <2>2, <2>3, <2>4
  <2> QED
    BY <2>5 DEF LatestTarget
<1>4. CandidateRows(st, at, Known(clock)) # {}
  BY <1>1, <1>3, CandidatesAre, KnownNow
<1>5. GroupMetric(st, at, Known(clock)) \in MetricGroups(at, clock)
  BY <1>1, <1>4, MetricsAre
<1>6. GroupMetric(st, at, Known(clock)).station = st
  BY DEF GroupMetric
<1> QED
  BY <1>5, <1>6

\* Records and metrics of the same stations have a say.
LEMMA SameStations ==
  ASSUME EvidenceInv, NEW at \in Nat, NEW around
  PROVE  \E R : /\ Voices(around, at) = OfRelation(around, at, R)
                /\ SourceClass(around, AssembledMetrics(around, MetricGroups(at, clock)))
                     = Related(around, MetricGroups(at, clock), R)
<1> DEFINE groups == MetricGroups(at, clock)
<1>1. Voices(around, at) =
        IF OfRelation(around, at, {"mapped"}) # {} THEN OfRelation(around, at, {"mapped"})
        ELSE IF around.weather /\ OfRelation(around, at, {"grid"}) # {}
             THEN OfRelation(around, at, {"grid"})
             ELSE OfRelation(around, at, {"nearby", "grid"})
  BY Zenon DEF Voices, OfRelation, Told
<1>2. ASSUME NEW R PROVE OfRelation(around, at, R) # {} <=> Related(around, groups, R) # {}
  <2>1. ASSUME NEW r \in OfRelation(around, at, R) PROVE Related(around, groups, R) # {}
    BY ToldMetric DEF OfRelation, Related
  <2>2. ASSUME NEW m \in Related(around, groups, R) PROVE OfRelation(around, at, R) # {}
    <3>1. m \in groups /\ around.relation[m.station] \in R
      BY DEF Related
    <3>2. PICK s \in Own(m.station, at, snapshots) : TRUE
      BY <3>1, MetricsAre, CandidatesAre, KnownNow DEF EvidenceInv
    <3>3. s.record \in Told(at) /\ StationOf[s.record] = m.station
      BY ToldRows
    <3> QED
      BY <3>1, <3>3 DEF OfRelation
  <2> QED
    BY <2>1, <2>2
<1> HIDE DEF groups
<1>3. AssembledMetrics(around, groups) =
        IF Related(around, groups, {"mapped"}) # {} THEN Related(around, groups, {"mapped"})
        ELSE Related(around, groups, {"nearby", "grid"})
  BY Zenon DEF AssembledMetrics
<1>4. \A metrics :
        SourceClass(around, metrics) =
          IF around.weather /\ {m \in metrics : around.relation[m.station] = "grid"} # {}
          THEN {m \in metrics : around.relation[m.station] = "grid"} ELSE metrics
  BY Zenon DEF SourceClass
<1>5. CASE Related(around, groups, {"mapped"}) # {}
  <2>1. {m \in Related(around, groups, {"mapped"}) : around.relation[m.station] = "grid"} = {}
    BY DEF Related
  <2>2. SourceClass(around, AssembledMetrics(around, groups)) = Related(around, groups, {"mapped"})
    BY <1>3, <1>4, <1>5, <2>1
  <2>3. Voices(around, at) = OfRelation(around, at, {"mapped"})
    BY <1>1, <1>2, <1>5
  <2> QED
    BY <2>2, <2>3 DEF groups
<1>6. CASE Related(around, groups, {"mapped"}) = {}
  <2>1. {m \in Related(around, groups, {"nearby", "grid"}) : around.relation[m.station] = "grid"}
          = Related(around, groups, {"grid"})
    BY DEF Related
  <2>2. SourceClass(around, AssembledMetrics(around, groups)) =
          IF around.weather /\ Related(around, groups, {"grid"}) # {}
          THEN Related(around, groups, {"grid"}) ELSE Related(around, groups, {"nearby", "grid"})
    BY <1>3, <1>4, <1>6, <2>1, Zenon
  <2>3. Voices(around, at) =
          IF around.weather /\ Related(around, groups, {"grid"}) # {}
          THEN OfRelation(around, at, {"grid"}) ELSE OfRelation(around, at, {"nearby", "grid"})
    <3>1. OfRelation(around, at, {"mapped"}) = {}
      BY <1>2, <1>6
    <3>2. OfRelation(around, at, {"grid"}) # {} <=> Related(around, groups, {"grid"}) # {}
      BY <1>2
    <3> QED
      BY <1>1, <3>1, <3>2, Zenon
  <2>4. CASE around.weather /\ Related(around, groups, {"grid"}) # {}
    BY <2>2, <2>3, <2>4, Zenon DEF groups
  <2>5. CASE ~(around.weather /\ Related(around, groups, {"grid"}) # {})
    BY <2>2, <2>3, <2>5, Zenon DEF groups
  <2> QED
    BY <2>4, <2>5, Zenon
<1> QED
  BY <1>5, <1>6

\* What decides is the latest of its class, and the nearest of these.
LEMMA LatestDecide ==
  ASSUME NEW around \in Surroundings, NEW groups, \A m \in groups : m.station \in Stations,
         NEW shown \in Deciding(around, groups)
  PROVE  LET metrics == SourceClass(around, AssembledMetrics(around, groups))
         IN  /\ shown \in metrics /\ \A n \in metrics : TargetOf(n) <= TargetOf(shown)
             /\ \A q \in Freshest(metrics) :
                  q \in Deciding(around, groups)
                  \/ /\ around.relation[q.station] = "nearby"
                     /\ around.distance[q.station] > around.distance[shown.station]
<1> DEFINE metrics == SourceClass(around, AssembledMetrics(around, groups))
           last == Freshest(metrics)
<1>1. AssembledMetrics(around, groups) \subseteq groups
  BY DEF AssembledMetrics, Related
<1>2. \A s : SourceClass(around, s) \subseteq s /\ Freshest(s) \subseteq s /\ Nearest(around, s) \subseteq s
  BY Zenon DEF SourceClass, Freshest, Nearest
<1>3. metrics \subseteq groups /\ last \subseteq metrics /\ Deciding(around, groups) = Nearest(around, last)
  BY <1>1, <1>2 DEF Deciding
<1>4. \A m \in last : around.distance[m.station] \in Nat
  BY <1>3, EvidenceAssumption
<1>5. \A n \in metrics : TargetOf(n) <= TargetOf(shown)
  BY <1>2, <1>3 DEF Freshest
<1> HIDE DEF metrics
<1>6. ASSUME NEW q \in last, q \notin Nearest(around, last)
      PROVE  /\ around.relation[q.station] = "nearby"
             /\ around.distance[q.station] > around.distance[shown.station]
  <2>1. ~\E m \in last : around.relation[m.station] # "nearby"
    BY <1>6, Zenon DEF Nearest
  <2>2. Nearest(around, last) =
          {m \in last : \A n \in last : around.distance[m.station] <= around.distance[n.station]}
    BY <2>1, Zenon DEF Nearest
  <2> HIDE DEF last
  <2>3. PICK n \in last : ~(around.distance[q.station] <= around.distance[n.station])
    BY <1>6, <2>2
  <2>4. shown \in last /\ around.distance[shown.station] <= around.distance[n.station]
    BY <1>3, <2>2
  <2> QED
    BY <1>4, <1>6, <2>1, <2>3, <2>4
<1>7. shown \in metrics
  BY <1>2, <1>3
<1> QED
  BY <1>3, <1>5, <1>6, <1>7 DEF metrics

LEMMA NewestDecides == ASSUME EvidenceInv PROVE NewestEvidenceDecides
<1> SUFFICES ASSUME NEW at \in 0 .. clock, NEW around \in Surroundings
             PROVE  LET groups == MetricGroups(at, clock)
                        shown == SelectMetric(around, groups, at)
                        latest == LET voices == Voices(around, at)
                                  IN {r \in voices : \A q \in voices : ObservedAt[q] <= ObservedAt[r]}
                        agrees(r) == heard[r] = shown.value /\ at < ValidUntil[r]
                        further(q) == /\ around.relation[StationOf[q]] = "nearby"
                                      /\ around.distance[StationOf[q]]
                                           > around.distance[shown.metric.station]
                    IN  shown.value # Withheld =>
                          /\ \E r \in latest : StationOf[r] = shown.metric.station /\ agrees(r)
                          /\ \A q \in latest : agrees(q) \/ further(q)
  BY Zenon DEF NewestEvidenceDecides
<1> DEFINE groups == MetricGroups(at, clock)
           metrics == SourceClass(around, AssembledMetrics(around, groups))
           deciding == Deciding(around, groups)
           voices == Voices(around, at)
           latest == {r \in voices : \A q \in voices : ObservedAt[q] <= ObservedAt[r]}
<1>1. PICK shown : shown = SelectMetric(around, groups, at)
  OBVIOUS
<1> DEFINE st == shown.metric.station
           Agrees(r) == heard[r] = shown.value /\ at < ValidUntil[r]
           Further(q) == /\ around.relation[StationOf[q]] = "nearby"
                         /\ around.distance[StationOf[q]] > around.distance[st]
<1>2. SUFFICES ASSUME shown.value # Withheld
               PROVE  /\ \E r \in latest : StationOf[r] = st /\ Agrees(r)
                      /\ \A q \in latest : Agrees(q) \/ Further(q)
  BY <1>1, Zenon
<1>3. SourceInv /\ clock \in Nat /\ at \in Nat /\ Known(clock) = snapshots
  BY KnownNow DEF EvidenceInv, SourceInv, SourceTypes
<1>4. PICK named : named = shown.metric
  OBVIOUS
<1>5. named \in deciding /\ \A m \in deciding : ProvisionalValue(m, at) = shown.value
  BY <1>1, <1>2, <1>4, MetricsDecide
<1>6. deciding \subseteq groups
  BY DecidingAreMetrics
<1>7. /\ named \in metrics /\ \A n \in metrics : TargetOf(n) <= TargetOf(named)
      /\ \A q \in Freshest(metrics) :
           q \in deciding \/ /\ around.relation[q.station] = "nearby"
                             /\ around.distance[q.station] > around.distance[named.station]
  BY <1>5, MetricsAre, LatestDecide
<1>8. PICK R : voices = OfRelation(around, at, R) /\ metrics = Related(around, groups, R)
  BY <1>3, SameStations
<1>9. \A m \in groups : /\ m.rows # {}
                        /\ m.rows \subseteq Own(m.station, at, snapshots)
                        /\ Own(m.station, at, snapshots) \subseteq Revised(snapshots)
                        /\ \E T : Target(m, at, T)
  <2> SUFFICES ASSUME NEW m \in groups
               PROVE  /\ m.rows # {}
                      /\ m.rows \subseteq Own(m.station, at, snapshots)
                      /\ Own(m.station, at, snapshots) \subseteq Revised(snapshots)
                      /\ \E T : Target(m, at, T)
    OBVIOUS
  <2>1. m.rows # {} /\ m.rows = CandidateRows(m.station, at, snapshots)
    BY <1>3, MetricsAre
  <2>2. m.rows \subseteq Own(m.station, at, snapshots)
    BY <2>1, CandidatesAre
  <2>3. Own(m.station, at, snapshots) \subseteq Revised(snapshots)
    BY DEF Own
  <2>4. \E T : Target(m, at, T)
    BY <1>3, MetricsHaveTargets
  <2> QED
    BY <2>1, <2>2, <2>3, <2>4
\* What the rows of a deciding metric say was heard last.
<1>10. ASSUME NEW m \in deciding, NEW s \in m.rows PROVE Agrees(s.record)
  <2>1. m \in groups /\ ProvisionalValue(m, at) = shown.value
    BY <1>5, <1>6
  <2>2. s.content = shown.value /\ ~(ValidUntil[s.record] <= at) /\ ~RevisionAmbiguous(s, snapshots)
    BY <1>2, <1>3, <2>1, RowsSay
  <2>3. heard[s.record] = s.content
    BY <1>9, <2>1, <2>2, RowIsHeard
  <2>4. ValidUntil[s.record] \in Nat
    <3>1. s \in snapshots
      BY <1>9, <2>1 DEF Revised
    <3> QED
      BY <1>3, <3>1, RowFields DEF SourceInv
  <2> QED
    BY <1>3, <2>2, <2>3, <2>4
\* Each record with a say belongs to a metric of its class.
<1>11. ASSUME NEW q \in voices
       PROVE  /\ ObservedAt[q] \in Nat
              /\ \E m \in metrics : /\ m \in groups /\ m.station = StationOf[q]
                                    /\ \E s \in Own(m.station, at, snapshots) : s.record = q
  <2>1. q \in Told(at) /\ around.relation[StationOf[q]] \in R
    BY <1>8 DEF OfRelation
  <2>2. PICK m \in groups : m.station = StationOf[q]
    BY <1>3, <2>1, ToldMetric
  <2>3. m \in metrics
    BY <1>8, <2>1, <2>2 DEF Related
  <2>4. ObservedAt[q] \in Nat
    BY <2>1, HistoryAssumption DEF Told, Heard
  <2> QED
    BY <2>1, <2>2, <2>3, <2>4, ToldRows
<1>12. PICK T : Target(named, at, T)
  BY <1>5, <1>6, <1>9
<1> HIDE DEF groups, metrics, deciding, voices
<1>13. \A q \in voices : ObservedAt[q] <= T
  <2> SUFFICES ASSUME NEW q \in voices PROVE ObservedAt[q] <= T
    OBVIOUS
  <2>1. PICK m \in metrics : /\ m \in groups /\ m.station = StationOf[q]
                             /\ \E s \in Own(m.station, at, snapshots) : s.record = q
    BY <1>11
  <2>2. PICK U : Target(m, at, U)
    BY <1>9, <2>1
  <2>3. ObservedAt[q] <= U /\ U <= T
    BY <1>7, <1>12, <2>1, <2>2 DEF Target
  <2> QED
    BY <1>11, <1>12, <2>2, <2>3 DEF Target
<1>14. PICK x \in named.rows : /\ x.record \in voices /\ StationOf[x.record] = named.station
                               /\ ObservedAt[x.record] = T
  <2>1. PICK s \in named.rows : TRUE
    BY <1>5, <1>6, <1>9
  <2>2. s.record \in Told(at) /\ StationOf[s.record] = named.station
    BY <1>5, <1>6, <1>9, <2>1, ToldRows
  <2>3. s.record \in voices /\ ObservedAt[s.record] = T
    BY <1>7, <1>8, <1>12, <2>2 DEF OfRelation, Related, Target
  <2> QED
    BY <2>2, <2>3
<1>15. \A q \in latest : ObservedAt[q] = T
  BY <1>11, <1>12, <1>13, <1>14 DEF Target
<1>16. \E r \in latest : StationOf[r] = st /\ Agrees(r)
  <2>1. x.record \in latest
    BY <1>13, <1>14
  <2>2. Agrees(x.record)
    BY <1>5, <1>10
  <2> QED
    BY <1>4, <1>14, <2>1, <2>2
<1>17. ASSUME NEW q \in latest PROVE Agrees(q) \/ Further(q)
  <2>1. q \in voices /\ ObservedAt[q] = T
    BY <1>15
  <2>2. PICK m \in metrics : /\ m \in groups /\ m.station = StationOf[q]
                             /\ \E s \in Own(m.station, at, snapshots) : s.record = q
    BY <1>11, <2>1
  <2>3. PICK U : Target(m, at, U)
    BY <1>9, <2>2
  <2>4. PICK t \in Own(m.station, at, snapshots) : t.record = q
    BY <2>2
  <2>5. U = T
    BY <1>7, <1>12, <2>1, <2>2, <2>3, <2>4 DEF Target
  <2>6. m \in Freshest(metrics)
    BY <1>7, <1>12, <2>2, <2>3, <2>5 DEF Freshest, Target
  <2>7. t \in m.rows
    BY <2>1, <2>3, <2>4, <2>5 DEF Target
  <2>8. CASE m \in deciding
    BY <1>10, <2>4, <2>7, <2>8
  <2>9. CASE m \notin deciding
    BY <1>4, <1>7, <2>2, <2>6, <2>9
  <2> QED
    BY <2>8, <2>9
<1> QED
  BY <1>16, <1>17

\* ReadersTellTheNewest, for every set of stations, records, corrections and
\* surroundings: what read_conditions and select_metric show is what the provider
\* says now of the latest valid record with a say, and criteria and the map show
\* no other number of its station.
THEOREM NewestIsTold == EvidenceSpec => []ReadersTellTheNewest
<1>1. ASSUME EvidenceInv PROVE ReadersTellTheNewest
  BY <1>1, NewestDecides, ReadersAlike DEF ReadersTellTheNewest, EvidenceInv
<1> QED
  BY <1>1, EvidenceInvariance, PTL
=============================================================================
