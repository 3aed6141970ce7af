--------------------------- MODULE VisitorProofs ---------------------------
(***************************************************************************)
(* Proofs about what a visitor is told: the answers of the concierge, the  *)
(* recommendation of an activity and the page of a place.                  *)
(*                                                                         *)
(* Concierge: however calls, reads, timeouts, departures and lost threads  *)
(* fall together, the cap on conversations holds, the ledger of a day adds *)
(* up, and a response claims no more than was read.  The inductive         *)
(* invariant has three parts.  Sound says what a request may know at the   *)
(* await it is at; Leased that the lease of a conversation outlives it,    *)
(* for its timer is served before the clock goes on; and Entered that each *)
(* attempt is entered in the ledger once, under an identity that no        *)
(* statement still under way is going to use again.                        *)
(*                                                                         *)
(* ActivityChoice: whatever cannot be read in time, an authority's         *)
(* restriction is final and what was not known is named.  ChoiceInv says   *)
(* that the choice is the best of what the request knows, and that what it *)
(* does not know has not been looked up yet, is not asked of such a place  *)
(* or is named as missing.                                                 *)
(*                                                                         *)
(* PlacePictures: pages that have settled tell what the provider tells     *)
(* now.  PageInv follows the date of the record through the collectors:    *)
(* what was fetched for the date of now is the content of now, although    *)
(* a late collector may still store an older one, and a photo that was     *)
(* found with fresh details is one the provider allows.                    *)
(***************************************************************************)
EXTENDS Concierge, ActivityChoice, PlacePictures, NumberSets, SequenceTheorems

(***************************************************************************)
(* The answers of the concierge.                                           *)
(***************************************************************************)
Reading == {"search", "feature", "travel"}

Over == {"release", "done"}

ReqRow ==
  [at : Awaiting \cup Over \cup {"new", "view"}, since : 0 .. MaxTime, leased : BOOLEAN,
   calls : 0 .. MaxModelCalls, tools : 0 .. MaxToolCalls, used : Usages \cup {0},
   action : Interpretations \cup {"none", "reject"}, retried : BOOLEAN, model : BOOLEAN,
   todo : Seq(Reading), features : SUBSET Reading,
   facts : SUBSET (Reading \cup {"partial", "failed"}), read : BOOLEAN,
   plan : {"none", "http_error", "clarify", "explain", "unsupported", "ordered", "facts",
           "disconnected"},
   timedOut : BOOLEAN]

\* Every read that was listed has its fact, or one has failed.
Told(q) == q.features \subseteq q.facts \/ "failed" \in q.facts

Plain(q) == q.facts \subseteq q.features \cup {"partial", "failed"}

\* Between two awaits: nothing is decided and no read is half done.
Between(q) ==
  /\ q \in ReqRow
  /\ q.read = FALSE /\ q.timedOut = FALSE /\ q.plan = "none"
  /\ "partial" \notin q.facts
  /\ Told(q) /\ Plain(q)

\* While a read is awaited.
InRead(q) ==
  /\ q \in ReqRow /\ q.at = "read" /\ q.todo # <<>>
  /\ q.read = FALSE /\ q.timedOut = FALSE /\ q.plan = "none"
  /\ "partial" \in q.facts => Head(q.todo) # "travel"
  /\ q.features \subseteq q.facts \cup {Head(q.todo)} \/ "failed" \in q.facts
  /\ Head(q.todo) # "travel" => Head(q.todo) \in q.features
  /\ Plain(q)

\* Once the request is over; q may still have to be stripped.
Settled(q) ==
  /\ q \in ReqRow
  /\ q.read => ReadSomething(q) /\ Told(q)
  /\ "partial" \in q.facts => q.timedOut \/ q.plan = "disconnected"
  /\ Plain(q)

Sound(q) ==
  \/ InRead(q)
  \/ /\ Between(q) /\ q.at \notin Over \cup {"read"}
     /\ q.at = "reserve" => q.calls < MaxModelCalls
     /\ q.at \in {"new", "admission", "view"} => q.calls = 0
  \/ Settled(q) /\ q.at \in Over

\* n is how q goes on: it is over, or it keeps its lease and its calls.
Goes(q, n) ==
  /\ Sound(n)
  /\ n.at \in Over \cup {"reserve", "read"}
  /\ n.at \in {"reserve", "read"} => n.since = q.since /\ n.leased = q.leased /\ n.calls = q.calls

-----------------------------------------------------------------------------
(* What the operators of a request yield.                                  *)

LEMMA Bounds ==
  /\ MaxTime \in Nat /\ MaxModelCalls \in Nat \ {0} /\ MaxToolCalls \in Nat \ {0}
  /\ RequestTimeout \in Nat /\ LeaseLife \in Nat /\ RequestTimeout < LeaseLife
  /\ MaxConcurrency \in Nat /\ MaxDailyCalls \in Nat /\ MaxDailyTokens \in Nat
  /\ AttemptMemory \in Nat /\ RequestsPerMinute \in Nat
  /\ DayLength \in Nat \ {0} /\ MinuteLength \in Nat \ {0}
  /\ Sizes \subseteq Nat /\ Usages \subseteq Nat
BY BudgetAssumption, LeaseAssumption, ConciergeAssumption

LEMMA Counts ==
  /\ \A n \in Sizes : n \in Nat /\ n \in Int
  /\ \A n \in Usages \cup {0} : n \in Nat /\ n \in Int
BY ConciergeAssumption

LEMMA NewSettled == New \in ReqRow /\ Settled(Done) /\ Done.at = "done" /\ Between(New)
<1>1. /\ 0 \in 0 .. MaxTime /\ 0 \in 0 .. MaxModelCalls /\ 0 \in 0 .. MaxToolCalls
      /\ <<>> \in Seq(Reading)
  BY Bounds
<1>2. New \in ReqRow
  BY <1>1 DEF New, ReqRow, Awaiting
<1>3. Done \in ReqRow
  BY <1>1 DEF New, Done, ReqRow, Awaiting, Over
<1> QED
  BY <1>2, <1>3 DEF New, Done, Settled, Between, Told, Plain

LEMMA EndedSettled ==
  ASSUME NEW q, Settled(q)
  PROVE  Settled(Ended(q)) /\ Ended(q).at \in Over /\ Goes(q, Ended(q))
<1> DEFINE n == [q EXCEPT !.at = "release", !.todo = <<>>, !.since = 0, !.calls = 0,
                          !.tools = 0, !.used = 0, !.retried = FALSE]
<1>1. CASE q.leased
  <2>1. 0 \in 0 .. MaxTime /\ 0 \in 0 .. MaxModelCalls /\ 0 \in 0 .. MaxToolCalls
        /\ <<>> \in Seq(Reading)
    BY Bounds
  <2>2. q \in ReqRow
    BY DEF Settled
  <2>3. n \in ReqRow
    BY <2>1, <2>2 DEF ReqRow, Over
  <2>4. n.at = "release" /\ n.read = q.read /\ n.facts = q.facts /\ n.features = q.features
        /\ n.timedOut = q.timedOut /\ n.plan = q.plan
    BY <2>2 DEF ReqRow
  <2>5. Ended(q) = n
    BY <1>1 DEF Ended
  <2> HIDE DEF n
  <2>6. Settled(n) /\ n.at \in Over
    BY <2>3, <2>4 DEF Settled, ReadSomething, Told, Plain, Over
  <2> QED
    BY <2>4, <2>5, <2>6 DEF Goes, Sound
<1>2. CASE ~q.leased
  <2>1. Ended(q) = Done
    BY <1>2 DEF Ended
  <2>2. Settled(Done) /\ Done.at = "done"
    BY NewSettled
  <2> QED
    BY <2>1, <2>2 DEF Goes, Sound, Over
<1> QED
  BY <1>1, <1>2

LEMMA BetweenSettled ==
  ASSUME NEW q, Between(q)
  PROVE  Settled(q)
BY DEF Between, Settled

LEMMA InReadRow ==
  ASSUME NEW q, InRead(q)
  PROVE  q \in ReqRow
BY DEF InRead

\* A provider or a tool has failed.
LEMMA FailedGoes ==
  ASSUME NEW q, Settled(q)
  PROVE  Goes(q, Failed(q)) /\ Settled(Failed(q)) /\ Failed(q).at \in Over
<1> DEFINE n == [q EXCEPT !.model = FALSE]
<1>1. /\ n \in ReqRow /\ n.facts = q.facts /\ n.features = q.features /\ n.read = q.read
      /\ n.plan = q.plan /\ n.timedOut = q.timedOut
      /\ n.since = q.since /\ n.leased = q.leased /\ n.calls = q.calls
  BY DEF Settled, ReqRow
<1>2. Failed(q) = Ended(n)
  BY DEF Failed
<1> HIDE DEF n
<1>3. Settled(n)
  BY <1>1 DEF Settled, ReadSomething, Told, Plain
<1>4. Goes(n, Ended(n)) /\ Settled(Ended(n)) /\ Ended(n).at \in Over
  BY <1>3, EndedSettled
<1> QED
  BY <1>1, <1>2, <1>4 DEF Goes

PlanNames == {"none", "http_error", "clarify", "explain", "unsupported", "ordered", "facts",
              "disconnected"}

LEMMA PlannedGoes ==
  ASSUME NEW q, NEW plan \in PlanNames, q \in ReqRow,
         q.read => ReadSomething(q) /\ Told(q),
         "partial" \in q.facts => q.timedOut \/ plan = "disconnected", Plain(q)
  PROVE  Goes(q, Planned(q, plan)) /\ Planned(q, plan).at \in Over
<1> DEFINE n == [q EXCEPT !.plan = plan]
<1>1. /\ n \in ReqRow /\ n.facts = q.facts /\ n.features = q.features /\ n.read = q.read
      /\ n.plan = plan /\ n.timedOut = q.timedOut
      /\ n.since = q.since /\ n.leased = q.leased /\ n.calls = q.calls
  BY DEF ReqRow, PlanNames
<1>2. Planned(q, plan) = Ended(n)
  BY DEF Planned
<1> HIDE DEF n
<1>3. Settled(n)
  BY <1>1 DEF Settled, ReadSomething, Told, Plain
<1>4. Goes(n, Ended(n)) /\ Ended(n).at \in Over
  BY <1>3, EndedSettled
<1> QED
  BY <1>1, <1>2, <1>4 DEF Goes

LEMMA BetweenPlanned ==
  ASSUME NEW q, Between(q), NEW plan \in PlanNames
  PROVE  Goes(q, Planned(q, plan)) /\ Planned(q, plan).at \in Over
<1>1. q \in ReqRow /\ ~q.read /\ "partial" \notin q.facts /\ Plain(q)
  BY DEF Between
<1> QED
  BY <1>1, PlannedGoes

\* A response that rests on the reads so far.
LEMMA ReadPlanned ==
  ASSUME NEW q, Between(q), NEW plan \in PlanNames
  PROVE  LET n == Planned([q EXCEPT !.read = ReadSomething(q)], plan)
         IN Goes(q, n) /\ n.at \in Over
<1> DEFINE n == [q EXCEPT !.read = ReadSomething(q)]
<1>0. ReadSomething(q) \in BOOLEAN
  BY DEF ReadSomething
<1>1. /\ n \in ReqRow /\ n.facts = q.facts /\ n.features = q.features
      /\ n.plan = q.plan /\ n.timedOut = q.timedOut
      /\ n.since = q.since /\ n.leased = q.leased /\ n.calls = q.calls
  BY <1>0 DEF Between, ReqRow
<1>2. n.read = ReadSomething(q)
  BY <1>0 DEF Between, ReqRow
<1> HIDE DEF n
<1>3. /\ n.read => ReadSomething(n) /\ Told(n)
      /\ "partial" \notin n.facts /\ Plain(n)
  BY <1>1, <1>2 DEF Between, ReadSomething, Told, Plain
<1>4. Goes(n, Planned(n, plan)) /\ Planned(n, plan).at \in Over
  BY <1>1, <1>3, PlannedGoes
<1>5. Goes(q, Planned(n, plan))
  BY <1>1, <1>4 DEF Goes
<1> QED
  BY <1>4, <1>5 DEF n

LEMMA NextTurnGoes ==
  ASSUME NEW q, Between(q)
  PROVE  Goes(q, NextTurn(q))
<1>1. CASE q.calls < MaxModelCalls
  <2> DEFINE n == [q EXCEPT !.at = "reserve", !.todo = <<>>]
  <2>1. <<>> \in Seq(Reading)
    OBVIOUS
  <2>2. /\ n \in ReqRow /\ n.at = "reserve" /\ n.facts = q.facts /\ n.features = q.features
        /\ n.read = q.read /\ n.plan = q.plan /\ n.timedOut = q.timedOut
        /\ n.since = q.since /\ n.leased = q.leased /\ n.calls = q.calls
    BY <2>1 DEF Between, ReqRow, Awaiting
  <2>3. NextTurn(q) = n
    BY <1>1 DEF NextTurn
  <2> HIDE DEF n
  <2>4. Between(n)
    BY <2>2 DEF Between, Told, Plain
  <2> QED
    BY <1>1, <2>2, <2>3, <2>4 DEF Goes, Sound, Over
<1>2. CASE ~(q.calls < MaxModelCalls)
  <2> DEFINE plan == IF Accepted(q) /\ q.features # {} THEN "explain" ELSE "none"
  <2>1. NextTurn(q) = Planned(q, plan) /\ plan \in PlanNames
    BY <1>2 DEF NextTurn, PlanNames
  <2> HIDE DEF plan
  <2> QED
    BY <2>1, BetweenPlanned
<1> QED
  BY <1>1, <1>2

LEMMA FinishedGoes ==
  ASSUME NEW q, Between(q)
  PROVE  Goes(q, Finished(q))
<1>1. CASE q.action \in {"loop", "route"}
  BY <1>1, NextTurnGoes DEF Finished
<1>2. CASE q.action \notin {"loop", "route"}
  <2>1. "explain" \in PlanNames
    BY DEF PlanNames
  <2> QED
    BY <1>2, <2>1, ReadPlanned DEF Finished
<1> QED
  BY <1>1, <1>2

LEMMA ReadsGo ==
  ASSUME NEW q, Between(q), NEW todo \in Seq(Reading) \ {<<>>}, NEW n \in Reads(q, todo)
  PROVE  Goes(q, n)
<1>1. Goes(q, Failed(q)) /\ Settled(Failed(q)) /\ Failed(q).at \in Over
  BY BetweenSettled, FailedGoes
<1>2. CASE n = Failed(q)
  BY <1>1, <1>2
<1>3. CASE n = [Failed(q) EXCEPT !.plan = "clarify"]
  <2>1. /\ n \in ReqRow /\ n.at = Failed(q).at /\ n.facts = Failed(q).facts
        /\ n.features = Failed(q).features /\ n.read = Failed(q).read
        /\ n.timedOut = Failed(q).timedOut
    BY <1>1, <1>3 DEF Settled, ReqRow
  <2>2. "partial" \notin Failed(q).facts
    <3>1. Failed(q) = Ended([q EXCEPT !.model = FALSE])
      BY DEF Failed
    <3>2. [q EXCEPT !.model = FALSE].facts = q.facts /\ "partial" \notin q.facts
      BY DEF Between, ReqRow
    <3>3. [q EXCEPT !.model = FALSE] \in ReqRow
      BY DEF Between, ReqRow
    <3> DEFINE p == [q EXCEPT !.model = FALSE]
    <3> HIDE DEF p
    <3>4. p \in ReqRow => Ended(p).facts \in {p.facts, {}}
      BY DEF ReqRow, Ended, Done, New
    <3> QED
      BY <3>1, <3>2, <3>3, <3>4 DEF p
  <2>3. Settled(n) /\ n.at \in Over
    BY <1>1, <2>1, <2>2 DEF Settled, ReadSomething, Told, Plain
  <2> QED
    BY <2>3 DEF Goes, Sound, Over
<1>4. CASE q.tools < MaxToolCalls /\ n = Begun(q, todo)
  <2>1. Head(todo) \in Reading
    OBVIOUS
  <2>2. q.tools + 1 \in 0 .. MaxToolCalls
    BY <1>4, Bounds DEF Between, ReqRow
  <2>3. q.features \cup ({Head(todo)} \ {"travel"}) \in SUBSET Reading
    BY <2>1 DEF Between, ReqRow
  <2> DEFINE more == q.features \cup ({Head(todo)} \ {"travel"})
             tools == q.tools + 1
  <2>4. n = [q EXCEPT !.at = "read", !.todo = todo, !.tools = tools, !.features = more]
    BY <1>4 DEF Begun, Between, ReqRow
  <2> HIDE DEF more, tools
  <2>5. /\ n \in ReqRow /\ n.at = "read" /\ n.todo = todo /\ n.facts = q.facts
        /\ n.features = more /\ n.read = q.read /\ n.plan = q.plan /\ n.timedOut = q.timedOut
        /\ n.since = q.since /\ n.leased = q.leased /\ n.calls = q.calls
    BY <2>2, <2>3, <2>4 DEF Between, ReqRow, Awaiting, more, tools
  <2>6. InRead(n)
    BY <2>5 DEF InRead, Between, Told, Plain, more
  <2> QED
    BY <2>5, <2>6 DEF Goes, Sound
<1>5. q.tools \in 0 .. MaxToolCalls
  BY DEF Between, ReqRow
<1> QED
  BY <1>2, <1>3, <1>4, <1>5, Bounds DEF Reads

LEMMA OnwardGoes ==
  ASSUME NEW q, Between(q), q.todo # <<>>, NEW n \in Onward(q)
  PROVE  Goes(q, n)
<1>1. q.todo \in Seq(Reading)
  BY DEF Between, ReqRow
<1>2. Tail(q.todo) \in Seq(Reading)
  BY <1>1
<1>3. CASE Tail(q.todo) # <<>>
  <2>1. n \in Reads(q, Tail(q.todo))
    BY <1>3 DEF Onward
  <2> QED
    BY <1>2, <1>3, <2>1, ReadsGo
<1>4. CASE Tail(q.todo) = <<>>
  BY <1>4, FinishedGoes DEF Onward
<1> QED
  BY <1>3, <1>4

\* The interpretation of the question.
LEMMA ScopeGoes ==
  ASSUME NEW q, Between(q), NEW n \in ScopeOutcomes(q)
  PROVE  Goes(q, n)
<1> DEFINE known(action) == [q EXCEPT !.action = action, !.model = TRUE]
<1>1. ASSUME NEW action \in Interpretations \cup {"reject"}
      PROVE  /\ Between(known(action))
             /\ \A m : Goes(known(action), m) => Goes(q, m)
  <2>1. /\ known(action) \in ReqRow /\ known(action).facts = q.facts
        /\ known(action).features = q.features
        /\ known(action).read = q.read /\ known(action).plan = q.plan
        /\ known(action).timedOut = q.timedOut /\ known(action).since = q.since
        /\ known(action).leased = q.leased /\ known(action).calls = q.calls
    BY DEF Between, ReqRow
  <2> HIDE DEF known
  <2> QED
    BY <2>1 DEF Between, Told, Plain, Goes
<1>2. {"unsupported", "clarify", "http_error"} \subseteq PlanNames
  BY DEF PlanNames
<1>3. CASE n = Failed(q)
  BY <1>3, BetweenSettled, FailedGoes
<1>4. CASE n = Planned(known("reject"), "unsupported")
  <2> HIDE DEF known
  <2> QED
    BY <1>1, <1>2, <1>4, BetweenPlanned
<1>5. CASE n = [q EXCEPT !.at = "reserve", !.retried = TRUE] /\ q.calls < MaxModelCalls
  <2>1. /\ n \in ReqRow /\ n.at = "reserve" /\ n.facts = q.facts /\ n.features = q.features
        /\ n.read = q.read /\ n.plan = q.plan /\ n.timedOut = q.timedOut
        /\ n.since = q.since /\ n.leased = q.leased /\ n.calls = q.calls
    BY <1>5 DEF Between, ReqRow, Awaiting
  <2>2. Between(n)
    BY <2>1 DEF Between, Told, Plain
  <2> QED
    BY <1>5, <2>1, <2>2 DEF Goes, Sound, Over
<1>6. ASSUME NEW action \in Interpretations, n = HttpError(known(action))
      PROVE  Goes(q, n)
  <2> HIDE DEF known
  <2>1. Goes(known(action), HttpError(known(action)))
    BY <1>1, <1>2, BetweenPlanned DEF HttpError
  <2> QED
    BY <1>1, <1>6, <2>1
<1>7. ASSUME NEW action \in Interpretations,
             \/ n = Planned(known(action), "clarify")
             \/ n = NextTurn(known(action))
             \/ n = Failed(known(action))
             \/ n \in Reads(known(action), <<"travel">>)
             \/ \E todo \in ReadPlans : n \in Reads(known(action), todo)
      PROVE  Goes(q, n)
  <2> HIDE DEF known
  <2>1. Between(known(action)) /\ (\A m : Goes(known(action), m) => Goes(q, m))
    BY <1>1
  <2>2. Goes(known(action), Planned(known(action), "clarify"))
    BY <1>2, <2>1, BetweenPlanned
  <2>3. Goes(known(action), NextTurn(known(action)))
    BY <2>1, NextTurnGoes
  <2>4. Goes(known(action), Failed(known(action)))
    BY <2>1, BetweenSettled, FailedGoes
  <2>5. n \in Reads(known(action), <<"travel">>) => Goes(known(action), n)
    <3>1. <<"travel">> \in Seq(Reading) \ {<<>>}
      BY DEF Reading
    <3> QED
      BY <2>1, <3>1, ReadsGo
  <2>6. ASSUME NEW todo \in ReadPlans, n \in Reads(known(action), todo)
        PROVE  Goes(known(action), n)
    <3>1. todo \in Seq(Reading) \ {<<>>}
      BY ConciergeAssumption DEF Reading
    <3> QED
      BY <2>1, <2>6, <3>1, ReadsGo
  <2> QED
    BY <1>7, <2>1, <2>2, <2>3, <2>4, <2>5, <2>6
<1>8. q.calls \in 0 .. MaxModelCalls
  BY DEF Between, ReqRow
<1>9. \/ n = Failed(q)
      \/ n = Planned(known("reject"), "unsupported")
      \/ n = [q EXCEPT !.at = "reserve", !.retried = TRUE] /\ q.calls < MaxModelCalls
      \/ \E action \in Interpretations :
           \/ n = HttpError(known(action))
           \/ n = Planned(known(action), "clarify")
           \/ n = NextTurn(known(action))
           \/ n = Failed(known(action))
           \/ n \in Reads(known(action), <<"travel">>)
           \/ \E todo \in ReadPlans : n \in Reads(known(action), todo)
  <2> DEFINE started(action) ==
        CASE action = "clarify" -> {Planned(known(action), "clarify")}
          [] action \in {"loop", "route"} -> {NextTurn(known(action))}
          [] action = "recommend" -> Reads(known(action), <<"travel">>)
          [] action = "read" ->
               {Planned(known(action), "clarify"), Failed(known(action))}
               \cup UNION {Reads(known(action), todo) : todo \in ReadPlans}
      retried == IF q.retried \/ q.calls >= MaxModelCalls THEN Failed(q)
                 ELSE [q EXCEPT !.at = "reserve", !.retried = TRUE]
  <2>1. n \in {Failed(q), Planned(known("reject"), "unsupported"), retried}
             \cup UNION {started(action) \cup {HttpError(known(action))} : action \in Interpretations}
    BY DEF ScopeOutcomes
  <2>2. retried = Failed(q)
        \/ (retried = [q EXCEPT !.at = "reserve", !.retried = TRUE] /\ q.calls < MaxModelCalls)
    BY <1>8, Bounds
  <2> HIDE DEF known, retried
  <2>3. ASSUME NEW action \in Interpretations, n \in started(action)
        PROVE  \/ n = Planned(known(action), "clarify")
               \/ n = NextTurn(known(action))
               \/ n = Failed(known(action))
               \/ n \in Reads(known(action), <<"travel">>)
               \/ \E todo \in ReadPlans : n \in Reads(known(action), todo)
    <3>1. action \in {"clarify", "read", "loop", "recommend", "route"}
      BY ConciergeAssumption
    <3> QED
      BY <2>3, <3>1
  <2> HIDE DEF started
  <2> QED
    BY <2>1, <2>2, <2>3
<1> QED
  <2> HIDE DEF known
  <2> QED
    BY <1>3, <1>4, <1>5, <1>6, <1>7, <1>9

\* The answer to a question that is known to be relevant.
LEMMA ResponseGoes ==
  ASSUME NEW q, Between(q), NEW n \in ResponseOutcomes(q)
  PROVE  Goes(q, n)
<1>1. {"clarify", "explain"} \subseteq PlanNames
  BY DEF PlanNames
<1>2. CASE n = Failed(q)
  BY <1>2, BetweenSettled, FailedGoes
<1>3. ASSUME NEW p \in {"clarify", "explain"},
             n = Planned([q EXCEPT !.read = ReadSomething(q)], p)
      PROVE  Goes(q, n)
  BY <1>1, <1>3, ReadPlanned
<1>4. ASSUME NEW todo \in ReadPlans \cup {<<"travel">>}, n \in Reads(q, todo)
      PROVE  Goes(q, n)
  <2>1. CASE todo \in ReadPlans
    <3>1. todo \in Seq(Reading) \ {<<>>}
      BY <2>1, ConciergeAssumption DEF Reading
    <3> QED
      BY <1>4, <3>1, ReadsGo
  <2>2. CASE todo = <<"travel">>
    <3>1. todo \in Seq(Reading) \ {<<>>}
      BY <2>2 DEF Reading
    <3> QED
      BY <1>4, <3>1, ReadsGo
  <2> QED
    BY <2>1, <2>2
<1> QED
  BY <1>2, <1>3, <1>4 DEF ResponseOutcomes

LEMMA OutcomesGo ==
  ASSUME NEW r \in Requests, Between(req[r]), NEW n \in Outcomes(r)
  PROVE  Goes(req[r], n)
<1>1. CASE r \in Chats /\ Accepted(req[r])
  BY <1>1, ResponseGoes DEF Outcomes
<1>2. CASE r \in Chats /\ ~Accepted(req[r])
  BY <1>2, ScopeGoes DEF Outcomes
<1>3. CASE r \notin Chats
  <2> DEFINE m == [req[r] EXCEPT !.model = TRUE]
  <2>1. /\ m \in ReqRow /\ m.facts = req[r].facts /\ m.features = req[r].features
        /\ m.read = req[r].read /\ m.plan = req[r].plan /\ m.timedOut = req[r].timedOut
        /\ m.since = req[r].since /\ m.leased = req[r].leased /\ m.calls = req[r].calls
    BY DEF Between, ReqRow
  <2>2. n = Planned(m, "ordered") \/ n = Failed(req[r])
    BY <1>3 DEF Outcomes
  <2> HIDE DEF m
  <2>3. Between(m) /\ "ordered" \in PlanNames
    BY <2>1 DEF Between, Told, Plain, PlanNames
  <2>4. Goes(m, Planned(m, "ordered")) /\ Goes(req[r], Failed(req[r]))
    BY <2>3, BetweenPlanned, BetweenSettled, FailedGoes
  <2> QED
    BY <2>1, <2>2, <2>4 DEF Goes
<1> QED
  BY <1>1, <1>2, <1>3

-----------------------------------------------------------------------------
(* What a step does to a request.                                          *)

\* r goes on as n: it is over, or keeps the lease, the calls and the start it had.
Carries(r, n) ==
  /\ Sound(n)
  /\ n.at # "new" /\ (r \in Chats => n.at # "view")
  /\ n.at \notin Over =>
       /\ req[r].at \in Awaiting \cup {"view"}
       /\ n.since = req[r].since /\ n.leased = req[r].leased /\ n.calls = req[r].calls

LEMMA GoesCarries ==
  ASSUME NEW r \in Requests, NEW n, Goes(req[r], n), req[r].at \in Awaiting \cup {"view"}
  PROVE  Carries(r, n)
BY DEF Goes, Carries, Over

LEMMA SoundRow ==
  ASSUME NEW q, Sound(q)
  PROVE  /\ q \in ReqRow
         /\ q.at \in (Awaiting \cup {"view", "new"}) \ {"read"} => Between(q)
         /\ q.at = "read" => InRead(q)
         /\ q.at \in Over => Settled(q)
         /\ q.at = "reserve" => q.calls < MaxModelCalls
         /\ q.at \in {"new", "admission", "view"} => q.calls = 0
<1>1. /\ InRead(q) => q \in ReqRow /\ q.at = "read"
      /\ Between(q) => q \in ReqRow
      /\ Settled(q) => q \in ReqRow
  BY DEF Between, InRead, Settled
<1>2. \/ InRead(q) /\ q.at = "read"
      \/ /\ Between(q) /\ q.at \notin Over \cup {"read"}
         /\ q.at = "reserve" => q.calls < MaxModelCalls
         /\ q.at \in {"new", "admission", "view"} => q.calls = 0
      \/ Settled(q) /\ q.at \in Over
  BY <1>1 DEF Sound
<1>3. CASE InRead(q) /\ q.at = "read"
  BY <1>1, <1>3 DEF Over
<1>4. CASE /\ Between(q) /\ q.at \notin Over \cup {"read"}
           /\ q.at = "reserve" => q.calls < MaxModelCalls
           /\ q.at \in {"new", "admission", "view"} => q.calls = 0
  BY <1>1, <1>4 DEF Over
<1>5. CASE Settled(q) /\ q.at \in Over
  BY <1>1, <1>5 DEF Over, Awaiting
<1> QED
  BY <1>2, <1>3, <1>4, <1>5

\* A request may be cut short wherever it is.
LEMMA CutGoes ==
  ASSUME NEW q, Sound(q), q.at \in Awaiting \cup {"view"}
  PROVE  /\ Goes(q, Planned(q, "disconnected")) /\ Planned(q, "disconnected").at \in Over
         /\ Goes(q, Ended([q EXCEPT !.timedOut = TRUE]))
         /\ Ended([q EXCEPT !.timedOut = TRUE]).at \in Over
<1>1. q \in ReqRow /\ ~q.read /\ Plain(q)
  BY SoundRow DEF Between, InRead, Over, Awaiting
<1>2. Goes(q, Planned(q, "disconnected")) /\ Planned(q, "disconnected").at \in Over
  <2>1. "disconnected" \in PlanNames
    BY DEF PlanNames
  <2> QED
    BY <1>1, <2>1, PlannedGoes
<1> DEFINE n == [q EXCEPT !.timedOut = TRUE]
<1>3. /\ n \in ReqRow /\ n.facts = q.facts /\ n.features = q.features /\ n.read = q.read
      /\ n.timedOut /\ n.since = q.since /\ n.leased = q.leased /\ n.calls = q.calls
  BY <1>1 DEF ReqRow
<1> HIDE DEF n
<1>4. Settled(n)
  BY <1>1, <1>3 DEF Settled, Plain
<1>5. Goes(n, Ended(n)) /\ Ended(n).at \in Over
  BY <1>4, EndedSettled
<1>6. Goes(q, Ended(n)) /\ Ended(n).at \in Over
  BY <1>3, <1>5 DEF Goes
<1> QED
  BY <1>2, <1>6 DEF n

\* The reads of a tool, as far as its request is concerned.
LEMMA ReadMoreGoes ==
  ASSUME NEW q, InRead(q), Head(q.todo) # "travel"
  PROVE  Goes(q, [q EXCEPT !.facts = @ \cup {"partial"}])
<1> DEFINE n == [q EXCEPT !.facts = @ \cup {"partial"}]
<1>1. q.facts \cup {"partial"} \in SUBSET (Reading \cup {"partial", "failed"})
  BY DEF InRead, ReqRow
<1>2. /\ n \in ReqRow /\ n.at = "read" /\ n.todo = q.todo /\ n.facts = q.facts \cup {"partial"}
      /\ n.features = q.features /\ n.read = q.read /\ n.plan = q.plan
      /\ n.timedOut = q.timedOut /\ n.since = q.since /\ n.leased = q.leased
      /\ n.calls = q.calls
  BY <1>1 DEF InRead, ReqRow
<1> HIDE DEF n
<1>3. InRead(n)
  BY <1>2 DEF InRead, Plain
<1> QED
  BY <1>2, <1>3 DEF Goes, Sound, n

After(q, facts, features) == [q EXCEPT !.facts = facts, !.features = features]

\* n is q between two reads, and goes on as q may.
Proceeds(q, n) ==
  /\ Between(n) /\ n.todo # <<>> /\ n.action = q.action /\ n.todo = q.todo
  /\ \A m : Goes(n, m) => Goes(q, m)

\* After a read, with its facts or with the one that it failed.
LEMMA ReadEnds ==
  ASSUME NEW q, InRead(q), NEW facts, NEW features,
         \/ /\ Head(q.todo) # "travel" /\ features = q.features
            /\ facts \in {(q.facts \ {"partial"}) \cup {Head(q.todo)}, RolledBack(q.facts)}
         \/ /\ Head(q.todo) = "travel" /\ features = q.features \cup {"travel"}
            /\ facts = q.facts \cup {"travel"}
  PROVE  Proceeds(q, After(q, facts, features))
<1> DEFINE n == [q EXCEPT !.facts = facts, !.features = features]
<1>0. q.todo # <<>> /\ Head(q.todo) \in Reading /\ q \in ReqRow
  BY DEF InRead, ReqRow
<1>1. /\ facts \in SUBSET (Reading \cup {"partial", "failed"}) /\ features \in SUBSET Reading
      /\ "partial" \notin facts
      /\ features \subseteq facts \/ "failed" \in facts
      /\ facts \subseteq features \cup {"partial", "failed"}
  <2>1. /\ q.facts \in SUBSET (Reading \cup {"partial", "failed"}) /\ q.features \in SUBSET Reading
    BY <1>0 DEF ReqRow
  <2> QED
    BY <1>0, <2>1 DEF InRead, RolledBack, Plain, Reading
<1>2. /\ n \in ReqRow /\ n.todo = q.todo /\ n.facts = facts /\ n.features = features
      /\ n.read = q.read /\ n.plan = q.plan /\ n.timedOut = q.timedOut
      /\ n.since = q.since /\ n.leased = q.leased /\ n.calls = q.calls
      /\ n.action = q.action
  BY <1>0, <1>1 DEF ReqRow
<1> HIDE DEF n
<1>3. Between(n)
  BY <1>1, <1>2 DEF Between, InRead, Told, Plain
<1>4. \A m : Goes(n, m) => Goes(q, m)
  BY <1>2 DEF Goes
<1> QED
  BY <1>0, <1>2, <1>3, <1>4 DEF n, Proceeds, After

-----------------------------------------------------------------------------
(* The inductive invariant.                                                *)

LedgerRow == [calls : 0 .. MaxDailyCalls, reserved : Nat, observed : Nat, actual : Nat]

AttemptRow == [id : Requests \X (1 .. MaxModelCalls), day : Days, tokens : Sizes,
               used : Usages \cup {0}, observed : BOOLEAN]

ThreadRow == [op : {"acquire", "reserve", "usage", "call"}, request : Requests,
              id : Requests \X (0 .. MaxModelCalls), used : Usages \cup {0}]

RateRow == [minute : Nat, count : 0 .. RequestsPerMinute]

Types ==
  /\ clock \in 0 .. MaxTime
  /\ ledger \in [Days -> LedgerRow]
  /\ attempts \subseteq AttemptRow /\ IsFiniteSet(attempts)
  /\ leases \in [Requests -> 0 .. MaxTime + LeaseLife]
  /\ rate \in [Principals -> RateRow]
  /\ threads \subseteq ThreadRow

Rows == req \in [Requests -> ReqRow] /\ \A r \in Requests : Sound(req[r])

\* A conversation has no awaits beyond its timeout, and its lease goes beyond that.
Timely(r) ==
  r \in Chats =>
    /\ req[r].at # "view"
    /\ req[r].at \in Awaiting =>
         /\ req[r].since <= clock /\ clock <= req[r].since + RequestTimeout
         /\ req[r].leased => leases[r] >= req[r].since + LeaseLife

Leased ==
  /\ Cardinality(Live) <= MaxConcurrency
  /\ \A r \in Requests : Timely(r)

\* The ledger of a day is what its attempts say.
Entered(d) ==
  /\ ledger[d].calls = Cardinality(AttemptsOf(d))
  /\ ledger[d].reserved = Reserved(AttemptsOf(d))
  /\ ledger[d].observed = Cardinality({a \in AttemptsOf(d) : a.observed})
  /\ ledger[d].actual = Usage(AttemptsOf(d))
  /\ Tokens(AttemptsOf(d)) <= MaxDailyTokens
  /\ Tokens(AttemptsOf(d)) <= Reserved(AttemptsOf(d))

Books ==
  /\ \A a, b \in attempts : a.id = b.id => a = b
  /\ \A a \in attempts : ~a.observed => a.used = 0
  /\ \A d \in Days : d >= Today - AttemptMemory => Entered(d)

\* An identity that is still to be used is not used yet.
Numbered ==
  /\ \A a \in attempts : req[a.id[1]].at \notin Over => a.id[2] <= req[a.id[1]].calls
  /\ \A t \in threads :
       /\ t.request = t.id[1]
       /\ t.op = "reserve" =>
            /\ t.id[2] # 0 /\ t.used = 0
            /\ req[t.id[1]].at \in Over
            /\ \A a \in attempts : a.id # t.id

IInv == Types /\ Rows /\ Leased /\ Books /\ Numbered

-----------------------------------------------------------------------------
(* The budget.                                                             *)

LEMMA DayFacts ==
  /\ \A t \in 0 .. MaxTime : t \div DayLength \in Days /\ t \div DayLength \in Nat
  /\ \A t, u \in Nat : t <= u => t \div DayLength <= u \div DayLength
  /\ \A t \in Nat : t \div MinuteLength \in Nat
<1>1. \A t \in Nat : t \div DayLength \in Nat /\ t \div MinuteLength \in Nat
  BY Bounds
<1>2. ASSUME NEW t \in Nat, NEW u \in Nat, t <= u PROVE t \div DayLength <= u \div DayLength
  BY <1>2, Bounds
<1>3. \A t \in 0 .. MaxTime : t \div DayLength \in Days
  <2> SUFFICES ASSUME NEW t \in 0 .. MaxTime PROVE t \div DayLength \in Days
    OBVIOUS
  <2>1. t \in Nat /\ t <= MaxTime /\ MaxTime \in Nat
    BY Bounds
  <2>2. t \div DayLength <= MaxTime \div DayLength
    BY <1>2, <2>1
  <2> QED
    BY <1>1, <2>1, <2>2 DEF Days
<1>4. \A t \in 0 .. MaxTime : t \div DayLength \in Nat
  BY <1>1, Bounds
<1> QED
  BY <1>1, <1>2, <1>3, <1>4

LEMMA TodayFacts ==
  ASSUME Types
  PROVE  Today \in Days /\ Today \in Nat /\ Minute \in Nat /\ clock \in Nat
<1>1. clock \in 0 .. MaxTime /\ clock \in Nat
  BY Bounds DEF Types
<1> QED
  BY <1>1, DayFacts DEF Today, Minute

\* What the attempts of a set sum up to, and one more of them.
LEMMA SumsGrow ==
  ASSUME NEW S \in SUBSET AttemptRow, IsFiniteSet(S), NEW x \in AttemptRow, x \notin S
  PROVE  /\ Tokens(S) \in Int /\ Tokens(S \cup {x}) = Tokens(S) + x.tokens
         /\ Usage(S) \in Int /\ Usage(S \cup {x}) = Usage(S) + x.used
         /\ Reserved(S) \in Int
         /\ Reserved(S \cup {x}) = Reserved(S) + Max({x.tokens, x.used})
<1>1. \A a \in AttemptRow : a.tokens \in Int /\ a.used \in Int /\ Max({a.tokens, a.used}) \in Int
  <2> SUFFICES ASSUME NEW a \in AttemptRow
               PROVE  a.tokens \in Int /\ a.used \in Int /\ Max({a.tokens, a.used}) \in Int
    OBVIOUS
  <2>0. a.tokens \in Sizes /\ a.used \in Usages \cup {0}
    BY DEF AttemptRow
  <2>1. a.tokens \in Int /\ a.used \in Int
    BY <2>0, Counts
  <2> QED
    BY <2>1, MaxOfPair
<1>2. Tokens(S) \in Int /\ Tokens(S \cup {x}) = Tokens(S) + x.tokens
  <2> DEFINE v == [a \in S |-> a.tokens]
             w == [a \in S \cup {x} |-> a.tokens]
  <2>1. v \in [S -> Int] /\ w \in [S \cup {x} -> Int] /\ (\A y \in S : v[y] = w[y])
    BY <1>1
  <2>2. w[x] = x.tokens
    OBVIOUS
  <2>3. Tokens(S) = SumFunction(v) /\ Tokens(S \cup {x}) = SumFunction(w)
    BY DEF Tokens
  <2> HIDE DEF v, w
  <2>4. SumFunction(v) \in Int /\ SumFunction(w) = SumFunction(v) + w[x]
    BY ONLY <2>1, SumExtended, IsFiniteSet(S), x \notin S
  <2> QED
    BY <2>2, <2>3, <2>4
<1>3. Usage(S) \in Int /\ Usage(S \cup {x}) = Usage(S) + x.used
  <2> DEFINE v == [a \in S |-> a.used]
             w == [a \in S \cup {x} |-> a.used]
  <2>1. v \in [S -> Int] /\ w \in [S \cup {x} -> Int] /\ (\A y \in S : v[y] = w[y])
    BY <1>1
  <2>2. w[x] = x.used
    OBVIOUS
  <2>3. Usage(S) = SumFunction(v) /\ Usage(S \cup {x}) = SumFunction(w)
    BY DEF Usage
  <2> HIDE DEF v, w
  <2>4. SumFunction(v) \in Int /\ SumFunction(w) = SumFunction(v) + w[x]
    BY ONLY <2>1, SumExtended, IsFiniteSet(S), x \notin S
  <2> QED
    BY <2>2, <2>3, <2>4
<1>4. Reserved(S) \in Int /\ Reserved(S \cup {x}) = Reserved(S) + Max({x.tokens, x.used})
  <2> DEFINE v == [a \in S |-> Max({a.tokens, a.used})]
             w == [a \in S \cup {x} |-> Max({a.tokens, a.used})]
  <2>1. v \in [S -> Int] /\ w \in [S \cup {x} -> Int] /\ (\A y \in S : v[y] = w[y])
    BY <1>1
  <2>2. w[x] = Max({x.tokens, x.used})
    OBVIOUS
  <2>3. Reserved(S) = SumFunction(v) /\ Reserved(S \cup {x}) = SumFunction(w)
    BY DEF Reserved
  <2> HIDE DEF v, w
  <2>4. SumFunction(v) \in Int /\ SumFunction(w) = SumFunction(v) + w[x]
    BY ONLY <2>1, SumExtended, IsFiniteSet(S), x \notin S
  <2> QED
    BY <2>2, <2>3, <2>4
<1> QED
  BY <1>2, <1>3, <1>4

\* A new attempt is entered on its day and leaves the other days alone.
LEMMA ReserveBooks ==
  ASSUME Types, Books, NEW id \in Requests \X (1 .. MaxModelCalls), NEW tokens \in Sizes,
         \A a \in attempts : a.id # id,
         ReserveAttempt(id, tokens), UNCHANGED clock
  PROVE  /\ attempts' \subseteq AttemptRow /\ IsFiniteSet(attempts')
         /\ ledger' \in [Days -> LedgerRow] /\ Books'
         /\ \A a \in attempts' : a \in attempts \/ a.id = id
<1> DEFINE new == [id |-> id, day |-> Today, tokens |-> tokens, used |-> 0, observed |-> FALSE]
           kept == {a \in attempts : a.day >= Today - AttemptMemory}
<1>1. attempts' = kept \cup {new} /\ new \notin attempts
  BY DEF ReserveAttempt
<1>2. new \in AttemptRow /\ new.id = id /\ new.day = Today /\ new.tokens = tokens
      /\ new.used = 0 /\ new.observed = FALSE
  BY TodayFacts DEF AttemptRow
<1> HIDE DEF new
<1>3. attempts' \subseteq AttemptRow /\ IsFiniteSet(attempts')
  <2>1. IsFiniteSet(kept)
    BY FS_Subset DEF Types
  <2> QED
    BY <1>1, <1>2, <2>1, FS_AddElement DEF Types
<1>4. \A a \in attempts' : a \in attempts \/ a.id = id
  BY <1>1, <1>2
<1>5. ledger[Today] \in LedgerRow /\ Today \in Days /\ Today' = Today
  BY TodayFacts DEF Types, Today
<1>6. /\ ledger[Today].calls \in Nat /\ ledger[Today].calls + 1 \in 0 .. MaxDailyCalls
      /\ ledger[Today].reserved \in Nat /\ ledger[Today].reserved + tokens \in Nat
      /\ ledger[Today].reserved + tokens <= MaxDailyTokens
  BY <1>5, Bounds DEF LedgerRow, ReserveAttempt, Affordable
<1> DEFINE row == [ledger[Today] EXCEPT !.calls = ledger[Today].calls + 1,
                                        !.reserved = ledger[Today].reserved + tokens]
<1>7. row \in LedgerRow /\ row.calls = ledger[Today].calls + 1
      /\ row.reserved = ledger[Today].reserved + tokens
      /\ row.observed = ledger[Today].observed /\ row.actual = ledger[Today].actual
  BY <1>5, <1>6 DEF LedgerRow
<1>8. ledger' = [ledger EXCEPT ![Today] = row]
  BY <1>5 DEF ReserveAttempt, Types, LedgerRow
<1> HIDE DEF row
<1>9. ledger' \in [Days -> LedgerRow]
  BY <1>5, <1>7, <1>8 DEF Types
<1>10. ASSUME NEW d \in Days, (d >= Today - AttemptMemory)' PROVE Entered(d)'
  <2>1. d >= Today - AttemptMemory /\ Entered(d)
    BY <1>5, <1>10 DEF Books
  <2>2. CASE d # Today
    <3>1. AttemptsOf(d)' = AttemptsOf(d)
      BY <1>1, <1>2, <2>1, <2>2 DEF AttemptsOf
    <3>2. ledger'[d] = ledger[d]
      BY <1>8, <2>2 DEF Types
    <3> QED
      BY <2>1, <3>1, <3>2 DEF Entered
  <2>3. CASE d = Today
    <3> DEFINE S == AttemptsOf(Today)
    <3>1. AttemptsOf(d)' = S \cup {new}
      BY <1>1, <1>2, <2>1, <2>3 DEF AttemptsOf
    <3>2. ledger'[d] = row
      BY <1>5, <1>8, <2>3 DEF Types
    <3>3. S \in SUBSET AttemptRow /\ IsFiniteSet(S) /\ new \notin S
      BY <1>1, FS_Subset DEF Types, AttemptsOf
    <3>4. {a \in S \cup {new} : a.observed} = {a \in S : a.observed}
      BY <1>2
    <3> HIDE DEF S
    <3>5. Cardinality(S \cup {new}) = Cardinality(S) + 1
      BY <3>3, FS_AddElement
    <3>6. Max({new.tokens, new.used}) = tokens
      <4>1. tokens \in Nat
        BY Bounds
      <4> QED
        BY <1>2, <4>1, MaxOfPair
    <3>7. /\ Tokens(S) \in Int /\ Tokens(S \cup {new}) = Tokens(S) + tokens
          /\ Usage(S) \in Int /\ Usage(S \cup {new}) = Usage(S) + 0
          /\ Reserved(S) \in Int /\ Reserved(S \cup {new}) = Reserved(S) + tokens
      BY <1>2, <3>3, <3>6, SumsGrow
    <3>8. /\ ledger[Today].calls = Cardinality(S) /\ ledger[Today].reserved = Reserved(S)
          /\ ledger[Today].observed = Cardinality({a \in S : a.observed})
          /\ ledger[Today].actual = Usage(S) /\ Tokens(S) <= Reserved(S)
      BY <2>1, <2>3 DEF Entered, S
    <3>9. tokens \in Nat /\ MaxDailyTokens \in Nat
      BY Bounds
    <3>10. /\ row.calls = Cardinality(S \cup {new})
           /\ row.reserved = Reserved(S \cup {new})
           /\ row.observed = Cardinality({a \in S \cup {new} : a.observed})
           /\ row.actual = Usage(S \cup {new})
           /\ Tokens(S \cup {new}) <= MaxDailyTokens
           /\ Tokens(S \cup {new}) <= Reserved(S \cup {new})
      <4>1. row.calls = Cardinality(S \cup {new})
        BY <1>7, <3>5, <3>8
      <4>2. row.reserved = Reserved(S \cup {new})
        BY <1>7, <3>7, <3>8
      <4>3. row.observed = Cardinality({a \in S \cup {new} : a.observed})
        BY <1>7, <3>4, <3>8
      <4>4. row.actual = Usage(S \cup {new})
        BY <1>7, <3>7, <3>8
      <4>5. /\ Tokens(S \cup {new}) <= MaxDailyTokens
            /\ Tokens(S \cup {new}) <= Reserved(S \cup {new})
        BY <1>6, <3>7, <3>8, <3>9
      <4> QED
        BY <4>1, <4>2, <4>3, <4>4, <4>5
    <3> QED
      BY <3>1, <3>2, <3>10 DEF Entered
  <2> QED
    BY <2>2, <2>3
<1>11. \A a, b \in attempts' : a.id = b.id => a = b
  BY <1>1, <1>2 DEF Books
<1>12. \A a \in attempts' : ~a.observed => a.used = 0
  BY <1>1, <1>2 DEF Books
<1>13. Books'
  BY <1>10, <1>11, <1>12 DEF Books, Days
<1> QED
  BY <1>3, <1>4, <1>9, <1>13

\* A usage is written to the day of its attempt, at most once.
LEMMA RecordBooks ==
  ASSUME Types, Books, NEW id, NEW used \in Usages \cup {0},
         RecordUsage(id, used), UNCHANGED clock
  PROVE  /\ attempts' \subseteq AttemptRow /\ IsFiniteSet(attempts')
         /\ ledger' \in [Days -> LedgerRow] /\ Books'
         /\ \A a \in attempts' : \E b \in attempts : a.id = b.id
<1>1. PICK a \in attempts :
        /\ a.id = id /\ ~a.observed
        /\ attempts' = (attempts \ {a}) \cup {[a EXCEPT !.observed = TRUE, !.used = used]}
        /\ ledger' = [ledger EXCEPT ![a.day] = Observed(@, a.tokens, used)]
  BY DEF RecordUsage
<1> DEFINE new == [a EXCEPT !.observed = TRUE, !.used = used]
<1>2. a \in AttemptRow /\ a.used = 0 /\ a.day \in Days
  BY <1>1 DEF Types, Books, AttemptRow
<1>3. /\ new \in AttemptRow /\ new.id = a.id /\ new.day = a.day /\ new.tokens = a.tokens
      /\ new.used = used /\ new.observed = TRUE
  BY <1>2 DEF AttemptRow
<1>4. attempts' = (attempts \ {a}) \cup {new}
  BY <1>1
<1> HIDE DEF new
<1>5. new \notin attempts
  BY <1>1, <1>3 DEF Books
<1>6. attempts' \subseteq AttemptRow /\ IsFiniteSet(attempts')
  <2>1. IsFiniteSet(attempts \ {a})
    BY FS_Subset DEF Types
  <2> QED
    BY <1>3, <1>4, <2>1, FS_AddElement DEF Types
<1>7. \A b \in attempts' : \E c \in attempts : b.id = c.id
  BY <1>1, <1>3, <1>4
<1> DEFINE dated == a.day
           old == ledger[dated]
           row == Observed(old, a.tokens, used)
           more == Max({0, used - a.tokens})
<1>8. old \in LedgerRow /\ a.tokens \in Nat /\ used \in Nat /\ more \in Nat
      /\ Max({a.tokens, used}) = a.tokens + more
  <2>1. old \in LedgerRow
    BY <1>2 DEF Types
  <2>2. a.tokens \in Sizes
    BY <1>2 DEF AttemptRow
  <2>3. a.tokens \in Nat /\ used \in Nat
    BY <2>2, Counts
  <2>4. more = (IF 0 >= used - a.tokens THEN 0 ELSE used - a.tokens)
        /\ Max({a.tokens, used}) = (IF a.tokens >= used THEN a.tokens ELSE used)
    BY <2>3, MaxOfPair
  <2> QED
    BY <2>1, <2>3, <2>4
<1>9. /\ row \in LedgerRow /\ row.calls = old.calls /\ row.reserved = old.reserved + more
      /\ row.observed = old.observed + 1 /\ row.actual = old.actual + used
  <2>1. /\ old.observed + 1 \in Nat /\ old.actual + used \in Nat /\ old.reserved + more \in Nat
    BY <1>8 DEF LedgerRow
  <2> HIDE DEF old, more
  <2>2. row = [old EXCEPT !.observed = old.observed + 1, !.actual = old.actual + used,
                          !.reserved = old.reserved + more]
    BY <1>8 DEF LedgerRow, Observed, more
  <2> QED
    BY <1>8, <2>1, <2>2 DEF LedgerRow
<1>10. ledger' = [ledger EXCEPT ![dated] = row]
  BY <1>1, <1>2 DEF Types, LedgerRow
<1> HIDE DEF row, old, more
<1>11. ledger' \in [Days -> LedgerRow]
  BY <1>2, <1>9, <1>10 DEF Types
<1>12. ASSUME NEW d \in Days, (d >= Today - AttemptMemory)' PROVE Entered(d)'
  <2>1. Entered(d)
    BY <1>12 DEF Books, Today
  <2>2. CASE d # dated
    <3>1. AttemptsOf(d)' = AttemptsOf(d)
      BY <1>3, <1>4, <2>2 DEF AttemptsOf
    <3>2. ledger'[d] = ledger[d]
      BY <1>10, <2>2 DEF Types
    <3> QED
      BY <2>1, <3>1, <3>2 DEF Entered
  <2>3. CASE d = dated
    <3> DEFINE S == AttemptsOf(dated) \ {a}
    <3>1. AttemptsOf(d)' = S \cup {new} /\ AttemptsOf(d) = S \cup {a}
      BY <1>3, <1>4, <2>3 DEF AttemptsOf
    <3>2. ledger'[d] = row /\ ledger[d] = old
      BY <1>2, <1>10, <2>3 DEF Types, old
    <3>3. S \in SUBSET AttemptRow /\ IsFiniteSet(S) /\ new \notin S /\ a \notin S
      BY <1>5, FS_Subset DEF Types, AttemptsOf
    <3>4. /\ {b \in S \cup {new} : b.observed} = {b \in S : b.observed} \cup {new}
          /\ {b \in S \cup {a} : b.observed} = {b \in S : b.observed}
      BY <1>1, <1>3
    <3>5. IsFiniteSet({b \in S : b.observed}) /\ new \notin {b \in S : b.observed}
      BY <3>3, FS_Subset
    <3> HIDE DEF S
    <3>6. /\ Cardinality(S \cup {new}) = Cardinality(S) + 1
          /\ Cardinality(S \cup {a}) = Cardinality(S) + 1
          /\ Cardinality({b \in S : b.observed} \cup {new}) = Cardinality({b \in S : b.observed}) + 1
      BY <3>3, <3>5, FS_AddElement
    <3>7. Max({new.tokens, new.used}) = a.tokens + more /\ Max({a.tokens, a.used}) = a.tokens
      <4>1. Max({a.tokens, 0}) = a.tokens
        BY <1>8, MaxOfPair
      <4> QED
        BY <1>2, <1>3, <1>8, <4>1
    <3>8. /\ Tokens(S) \in Int /\ Tokens(S \cup {new}) = Tokens(S) + a.tokens
          /\ Usage(S) \in Int /\ Usage(S \cup {new}) = Usage(S) + used
          /\ Reserved(S) \in Int /\ Reserved(S \cup {new}) = Reserved(S) + (a.tokens + more)
      BY <1>3, <3>3, <3>7, SumsGrow
    <3>9. /\ Tokens(S \cup {a}) = Tokens(S) + a.tokens
          /\ Usage(S \cup {a}) = Usage(S) + 0
          /\ Reserved(S \cup {a}) = Reserved(S) + a.tokens
      BY <1>2, <3>3, <3>7, SumsGrow
    <3>10. /\ old.calls = Cardinality(S \cup {a}) /\ old.reserved = Reserved(S \cup {a})
           /\ old.observed = Cardinality({b \in S \cup {a} : b.observed})
           /\ old.actual = Usage(S \cup {a}) /\ Tokens(S \cup {a}) <= Reserved(S \cup {a})
           /\ Tokens(S \cup {a}) <= MaxDailyTokens
      BY <2>1, <3>1, <3>2 DEF Entered
    <3>11. MaxDailyTokens \in Nat
      BY Bounds
    <3>12. row.calls = Cardinality(S \cup {new})
      BY <1>9, <3>6, <3>10
    <3>13. row.observed = Cardinality({b \in S \cup {new} : b.observed})
      BY <1>9, <3>4, <3>6, <3>10
    <3>14. /\ row.reserved = Reserved(S \cup {new})
           /\ row.actual = Usage(S \cup {new})
           /\ Tokens(S \cup {new}) <= MaxDailyTokens
           /\ Tokens(S \cup {new}) <= Reserved(S \cup {new})
      BY <1>8, <1>9, <3>8, <3>9, <3>10, <3>11
    <3> QED
      BY <3>1, <3>2, <3>12, <3>13, <3>14 DEF Entered
  <2> QED
    BY <2>2, <2>3
<1>13. \A b, c \in attempts' : b.id = c.id => b = c
  BY <1>1, <1>3, <1>4 DEF Books
<1>14. \A b \in attempts' : ~b.observed => b.used = 0
  BY <1>3, <1>4 DEF Books
<1>15. Books'
  BY <1>12, <1>13, <1>14 DEF Books, Days
<1> QED
  BY <1>6, <1>7, <1>11, <1>15

-----------------------------------------------------------------------------
(* Admission.                                                              *)

\* Leases given out by one statement: none is taken from a running request.
LEMMA AcquireLeases ==
  ASSUME Types, Cardinality(Live) <= MaxConcurrency, NEW r \in Requests,
         AcquireRequest(r), UNCHANGED clock
  PROVE  /\ leases' \in [Requests -> 0 .. MaxTime + LeaseLife]
         /\ rate' \in [Principals -> RateRow]
         /\ Cardinality(Live') <= MaxConcurrency
         /\ \A s \in Live : leases'[s] = leases[s] \/ leases'[s] = Expiry
         /\ Admissible(r) => leases'[r] = Expiry
<1>1. /\ clock \in Nat /\ clock <= MaxTime /\ MaxTime \in Nat /\ LeaseLife \in Nat /\ LeaseLife # 0
      /\ MaxConcurrency \in Nat /\ RequestsPerMinute \in Nat /\ Minute \in Nat
  BY Bounds, TodayFacts DEF Types
<1>2. Expiry \in 0 .. MaxTime + LeaseLife /\ Expiry > clock /\ 0 \in 0 .. MaxTime + LeaseLife
  BY <1>1 DEF Expiry
<1>3. \A s \in Requests : leases[s] \in 0 .. MaxTime + LeaseLife
  BY DEF Types
<1>4. \A s \in Requests : leases'[s] =
        IF s = r /\ Admissible(r) THEN Expiry ELSE IF s \in Live THEN leases[s] ELSE 0
  BY DEF AcquireRequest
<1>5. leases' \in [Requests -> 0 .. MaxTime + LeaseLife]
  BY <1>2, <1>3, <1>4 DEF AcquireRequest
<1>6. Owner[r] \in Principals
  BY BudgetAssumption
<1>7. RequestsOfMinute(Owner[r]) \in 0 .. RequestsPerMinute
  BY <1>1, <1>6 DEF Types, RateRow, RequestsOfMinute
<1>8. rate' \in [Principals -> RateRow]
  <2>1. CASE Admissible(r)
    <3> DEFINE row == [minute |-> Minute, count |-> RequestsOfMinute(Owner[r]) + 1]
    <3>1. RequestsOfMinute(Owner[r]) + 1 \in 0 .. RequestsPerMinute
      BY <1>1, <1>7, <2>1 DEF Admissible
    <3>2. row \in RateRow
      BY <1>1, <3>1 DEF RateRow
    <3>3. rate' = [rate EXCEPT ![Owner[r]] = row]
      BY <2>1 DEF AcquireRequest
    <3> HIDE DEF row
    <3> QED
      BY <3>2, <3>3 DEF Types
  <2>2. CASE ~Admissible(r)
    BY <2>2 DEF AcquireRequest, Types
  <2> QED
    BY <2>1, <2>2
<1>9. IsFiniteSet(Live) /\ Cardinality(Live) \in Nat
  BY BudgetAssumption, FS_Subset, FS_CardinalityType DEF Live
<1>10. Cardinality(Live') <= MaxConcurrency
  <2>1. CASE Admissible(r)
    <3>1. Live' = Live \cup {r}
      BY <1>1, <1>2, <1>3, <1>4, <2>1 DEF Live
    <3>2. Cardinality(Live \cup {r}) = IF r \in Live THEN Cardinality(Live) ELSE Cardinality(Live) + 1
      <4>1. ASSUME NEW S, IsFiniteSet(S)
            PROVE  Cardinality(S \cup {r}) = IF r \in S THEN Cardinality(S) ELSE Cardinality(S) + 1
        BY <4>1, FS_AddElement
      <4> QED
        BY <1>9, <4>1
    <3>3. Cardinality(Live) < MaxConcurrency
      BY <2>1 DEF Admissible
    <3> QED
      BY <1>1, <1>9, <3>1, <3>2, <3>3
  <2>2. CASE ~Admissible(r)
    <3>1. Live' = Live
      BY <1>1, <1>3, <1>4, <2>2 DEF Live
    <3> QED
      BY <3>1
  <2> QED
    BY <2>1, <2>2
<1>11. \A s \in Live : leases'[s] = leases[s] \/ leases'[s] = Expiry
  BY <1>4 DEF Live
<1> QED
  BY <1>4, <1>5, <1>8, <1>10, <1>11

\* Fewer leases are no more than there were.
LEMMA FewerLive ==
  ASSUME Types, Cardinality(Live) <= MaxConcurrency, Live' \subseteq Live
  PROVE  Cardinality(Live') <= MaxConcurrency
<1>1. IsFiniteSet(Live)
  BY BudgetAssumption, FS_Subset DEF Live
<1>2. Cardinality(Live') <= Cardinality(Live) /\ Cardinality(Live') \in Nat /\ Cardinality(Live) \in Nat
  BY <1>1, FS_Subset, FS_CardinalityType
<1> QED
  BY <1>2, Bounds

-----------------------------------------------------------------------------
(* What a step keeps of the invariant.                                     *)

LEMMA RowsKept ==
  ASSUME Rows, NEW r \in Requests, NEW n, Sound(n), Becomes(r, n)
  PROVE  Rows' /\ req'[r] = n /\ \A s \in Requests \ {r} : req'[s] = req[s]
<1>1. n \in ReqRow
  BY SoundRow
<1>2. req'[r] = n /\ \A s \in Requests \ {r} : req'[s] = req[s]
  BY DEF Rows, Becomes
<1>3. \A s \in Requests : Sound(req'[s])
  BY <1>2 DEF Rows
<1>4. req' \in [Requests -> ReqRow]
  BY <1>1 DEF Rows, Becomes
<1> QED
  BY <1>2, <1>3, <1>4 DEF Rows

LEMMA BooksKept ==
  ASSUME Books, UNCHANGED <<clock, ledger, attempts>>
  PROVE  Books'
<1>1. Today' = Today /\ \A d : AttemptsOf(d)' = AttemptsOf(d)
  BY DEF Today, AttemptsOf
<1>2. \A d \in Days : Entered(d) => Entered(d)'
  BY <1>1 DEF Entered
<1> QED
  BY <1>1, <1>2 DEF Books, Days

\* A statement of r is left behind with an identity that is not used.
Left(r, t) ==
  /\ t \in ThreadRow /\ t.request = r /\ t.id[1] = r
  /\ t.op = "reserve" => t.id[2] = req[r].calls + 1 /\ t.used = 0

LEMMA NumberedKept ==
  ASSUME Types, Rows, Numbered, NEW r \in Requests, NEW n, Carries(r, n), Becomes(r, n),
         \A a \in attempts' : \E b \in attempts : a.id = b.id,
         \A t \in threads' : t \in threads
           \/ (Left(r, t) /\ n.at \in Over /\ req[r].at \notin Over)
  PROVE  Numbered'
<1>1. req'[r] = n /\ \A s \in Requests \ {r} : req'[s] = req[s]
  BY RowsKept DEF Carries
<1>2. \A a \in attempts : a.id[1] \in Requests /\ a.id[2] \in Nat \ {0}
  BY DEF Types, AttemptRow
<1>3. \A s \in Requests : /\ req'[s].at \notin Over => req[s].at \notin Over /\ req'[s].calls = req[s].calls
                          /\ req[s].at \in Over => req'[s].at \in Over
  <2>1. n.at \notin Over => req[r].at \notin Over /\ n.calls = req[r].calls
    BY DEF Carries, Over, Awaiting
  <2> QED
    BY <1>1, <2>1
<1>4. \A a \in attempts' : req'[a.id[1]].at \notin Over => a.id[2] <= req'[a.id[1]].calls
  <2> SUFFICES ASSUME NEW a \in attempts', req'[a.id[1]].at \notin Over
               PROVE  a.id[2] <= req'[a.id[1]].calls
    OBVIOUS
  <2>1. PICK b \in attempts : a.id = b.id
    OBVIOUS
  <2> QED
    BY <1>2, <1>3, <2>1 DEF Numbered
<1>5. ASSUME NEW t \in threads'
      PROVE  /\ t.request = t.id[1]
             /\ t.op = "reserve" =>
                  /\ t.id[2] # 0 /\ t.used = 0
                  /\ req'[t.id[1]].at \in Over
                  /\ \A a \in attempts' : a.id # t.id
  <2>1. CASE t \in threads
    <3>1. t.request \in Requests
      BY <2>1 DEF Types, ThreadRow
    <3> QED
      BY <1>3, <2>1, <3>1 DEF Numbered
  <2>2. CASE Left(r, t) /\ n.at \in Over /\ req[r].at \notin Over
    <3>1. req[r].calls \in Nat
      BY Bounds DEF Rows, ReqRow
    <3>2. \A a \in attempts : a.id[1] = r => a.id[2] <= req[r].calls
      BY <2>2 DEF Numbered
    <3>3. t.op = "reserve" => \A a \in attempts : a.id # t.id
      BY <1>2, <2>2, <3>1, <3>2 DEF Left
    <3>4. t.op = "reserve" => t.id[2] # 0
      BY <2>2, <3>1 DEF Left
    <3>5. t.request = t.id[1] /\ (t.op = "reserve" => t.used = 0) /\ req'[t.id[1]].at \in Over
      BY <1>1, <2>2 DEF Left
    <3> QED
      BY <3>3, <3>4, <3>5
  <2> QED
    BY <2>1, <2>2
<1> QED
  BY <1>4, <1>5 DEF Numbered

LEMMA LeasedKept ==
  ASSUME Types, Rows, Leased, NEW r \in Requests, NEW n, Carries(r, n), Becomes(r, n),
         UNCHANGED clock, Live' \subseteq Live,
         \A s \in Requests \ {r} : leases'[s] = leases[s],
         n.at \notin Over => leases'[r] = leases[r]
  PROVE  Leased'
<1>1. req'[r] = n /\ \A s \in Requests \ {r} : req'[s] = req[s]
  BY RowsKept DEF Carries
<1>2. Cardinality(Live') <= MaxConcurrency
  BY FewerLive DEF Leased
<1>3. \A s \in Requests \ {r} : Timely(s)'
  BY <1>1 DEF Leased, Timely
<1>4. Timely(r)'
  <2>1. CASE n.at \in Over
    BY <1>1, <2>1 DEF Timely, Over, Awaiting
  <2>2. CASE n.at \notin Over
    <3>1. /\ n.at # "new" /\ (r \in Chats => n.at # "view")
          /\ req[r].at \in Awaiting \cup {"view"}
          /\ n.since = req[r].since /\ n.leased = req[r].leased
          /\ leases'[r] = leases[r]
      BY <2>2 DEF Carries
    <3>2. Timely(r) /\ clock' = clock
      BY DEF Leased
    <3>3. CASE req[r].at \in Awaiting
      BY <1>1, <3>1, <3>2, <3>3 DEF Timely
    <3>4. CASE req[r].at = "view"
      BY <1>1, <3>1, <3>2, <3>4 DEF Timely
    <3> QED
      BY <3>1, <3>3, <3>4
  <2> QED
    BY <2>1, <2>2
<1> QED
  BY <1>2, <1>3, <1>4 DEF Leased

\* A request goes on and no other table than those of the budget changes, or
\* its lease ends.
LEMMA MoveKeeps ==
  ASSUME IInv, NEW r \in Requests, NEW n, Carries(r, n), Becomes(r, n),
         UNCHANGED <<clock, rate>>,
         leases' \in [Requests -> 0 .. MaxTime + LeaseLife], Live' \subseteq Live,
         \A s \in Requests \ {r} : leases'[s] = leases[s],
         n.at \notin Over => leases'[r] = leases[r],
         attempts' \subseteq AttemptRow, IsFiniteSet(attempts'),
         ledger' \in [Days -> LedgerRow], Books',
         \A a \in attempts' : \E b \in attempts : a.id = b.id,
         \A t \in threads' : t \in threads
           \/ (Left(r, t) /\ n.at \in Over /\ req[r].at \notin Over)
  PROVE  IInv'
<1>1. Types /\ Rows /\ Leased /\ Numbered
  BY DEF IInv
<1>2. Sound(n)
  BY DEF Carries
<1>3. Rows'
  BY <1>1, <1>2, RowsKept
<1>4. Leased'
  BY <1>1, LeasedKept
<1>5. Numbered'
  BY <1>1, NumberedKept
<1>6. threads' \subseteq ThreadRow
  BY <1>1 DEF Types, Left
<1>7. Types'
  BY <1>1, <1>6 DEF Types, Days
<1> QED
  BY <1>3, <1>4, <1>5, <1>7 DEF IInv

\* A request goes on, with the tables as they are.
LEMMA PlainMove ==
  ASSUME IInv, NEW r \in Requests, NEW n, Carries(r, n), Becomes(r, n),
         UNCHANGED <<clock, tables>>,
         \A t \in threads' : t \in threads
           \/ (Left(r, t) /\ n.at \in Over /\ req[r].at \notin Over)
  PROVE  IInv'
<1>1. /\ leases' \in [Requests -> 0 .. MaxTime + LeaseLife] /\ attempts' \subseteq AttemptRow
      /\ IsFiniteSet(attempts') /\ ledger' \in [Days -> LedgerRow]
      /\ UNCHANGED <<clock, rate, leases, ledger, attempts>>
  BY DEF IInv, Types, tables
<1>2. Live' = Live
  BY <1>1 DEF Live
<1>3. Books'
  BY <1>1, BooksKept DEF IInv
<1> QED
  BY <1>1, <1>2, <1>3, MoveKeeps

\* r goes on, or nothing of it is left behind.
LEMMA QuietMove ==
  ASSUME IInv, NEW r \in Requests, NEW n, Goes(req[r], n), Becomes(r, n),
         req[r].at \in Awaiting \cup {"view"}, UNCHANGED <<clock, tables, threads>>
  PROVE  IInv'
<1>1. Carries(r, n)
  BY GoesCarries
<1> QED
  BY <1>1, PlainMove

-----------------------------------------------------------------------------
(* The steps.                                                              *)

LEMMA TickKeeps ==
  ASSUME IInv, Tick
  PROVE  IInv'
<1>1. Types /\ Rows /\ Leased /\ Books /\ Numbered
  BY DEF IInv
<1>2. /\ clock \in Nat /\ clock' = clock + 1 /\ clock' \in 0 .. MaxTime /\ clock' \in Nat
      /\ clock <= clock' /\ MaxTime \in Nat
      /\ UNCHANGED <<ledger, attempts, leases, rate, req, threads>>
  BY <1>1, Bounds DEF Types, Tick, tables
<1>3. Types'
  BY <1>1, <1>2 DEF Types, Days
<1>4. Rows'
  BY <1>1, <1>2 DEF Rows
<1>5. Leased'
  <2>1. Live' \subseteq Live
    BY <1>1, <1>2, Bounds DEF Live, Types
  <2>2. Cardinality(Live') <= MaxConcurrency
    BY <1>1, <2>1, FewerLive DEF Leased
  <2>3. ASSUME NEW r \in Requests PROVE Timely(r)'
    <3>1. Timely(r) /\ ~Overdue(r)
      BY <1>1 DEF Leased, Tick
    <3>2. req[r].since \in Nat /\ RequestTimeout \in Nat
      BY <1>1, Bounds DEF Rows, ReqRow
    <3> QED
      BY <1>2, <3>1, <3>2 DEF Timely, Overdue
  <2> QED
    BY <2>2, <2>3 DEF Leased
<1>6. Books'
  <2>1. Today <= Today' /\ Today \in Nat /\ Today' \in Nat
    BY <1>2, DayFacts DEF Today
  <2>2. \A d : AttemptsOf(d)' = AttemptsOf(d)
    BY <1>2 DEF AttemptsOf
  <2>3. ASSUME NEW d \in Days, (d >= Today - AttemptMemory)' PROVE Entered(d)'
    <3>1. d \in Nat /\ AttemptMemory \in Nat
      BY Bounds DEF Days
    <3>2. d >= Today' - AttemptMemory
      BY <2>3
    <3>3. d >= Today - AttemptMemory
      <4>1. \A x, y \in Nat : x <= y /\ d >= y - AttemptMemory => d >= x - AttemptMemory
        BY <3>1
      <4> QED
        BY <2>1, <3>2, <4>1
    <3> QED
      BY <1>1, <1>2, <2>2, <3>3 DEF Books, Entered
  <2> QED
    BY <1>1, <1>2, <2>3 DEF Books, Days
<1>7. Numbered'
  BY <1>1, <1>2 DEF Numbered
<1> QED
  BY <1>3, <1>4, <1>5, <1>6, <1>7 DEF IInv

LEMMA AskKeeps ==
  ASSUME IInv, NEW r \in Requests, Ask(r)
  PROVE  IInv'
<1> DEFINE n == [New EXCEPT !.at = "admission", !.since = clock]
<1>1. Types /\ Rows /\ Leased /\ Books /\ Numbered
  BY DEF IInv
<1>2. /\ Becomes(r, n) /\ req[r].at = "new"
      /\ UNCHANGED <<clock, ledger, attempts, leases, rate, threads>>
  BY DEF Ask, tables
<1>3. /\ n \in ReqRow /\ n.at = "admission" /\ n.since = clock /\ n.leased = FALSE /\ n.calls = 0
      /\ n.read = FALSE /\ n.timedOut = FALSE /\ n.plan = "none" /\ n.facts = {} /\ n.features = {}
  <2>1. clock \in 0 .. MaxTime
    BY <1>1 DEF Types
  <2> QED
    BY <2>1, NewSettled DEF New, ReqRow, Awaiting
<1> HIDE DEF n
<1>4. Sound(n)
  BY <1>3 DEF Sound, Between, Told, Plain, Over
<1>5. Rows' /\ req'[r] = n /\ \A s \in Requests \ {r} : req'[s] = req[s]
  BY <1>1, <1>2, <1>4, RowsKept
<1>6. Types'
  BY <1>1, <1>2 DEF Types, Days
<1>7. Books'
  BY <1>1, <1>2, BooksKept
<1>8. Leased'
  <2>1. Live' = Live
    BY <1>2 DEF Live
  <2>2. \A s \in Requests \ {r} : Timely(s)'
    BY <1>1, <1>2, <1>5 DEF Leased, Timely
  <2>3. Timely(r)'
    <3>1. clock \in Nat /\ RequestTimeout \in Nat
      BY <1>1, Bounds, TodayFacts
    <3> QED
      BY <1>2, <1>3, <1>5, <3>1 DEF Timely
  <2> QED
    BY <1>1, <2>1, <2>2, <2>3 DEF Leased
<1>9. Numbered'
  <2>1. req[r].calls = 0 /\ req[r].at \notin Over
    <3>1. Sound(req[r])
      BY <1>1 DEF Rows
    <3> QED
      BY <1>2, <3>1, SoundRow DEF Over
  <2>2. \A a \in attempts : a.id[1] \in Requests
    BY <1>1 DEF Types, AttemptRow
  <2>3. \A t \in threads : t.id[1] \in Requests
    BY <1>1 DEF Types, ThreadRow
  <2> QED
    BY <1>1, <1>2, <1>3, <1>5, <2>1, <2>2, <2>3 DEF Numbered
<1> QED
  BY <1>5, <1>6, <1>7, <1>8, <1>9 DEF IInv

\* A running conversation keeps its lease, whoever else is admitted.
LEMMA AcquireTimely ==
  ASSUME Types, Rows, Leased, NEW r \in Requests, AcquireRequest(r), UNCHANGED clock,
         NEW s \in Requests, Timely(s), req'[s] = req[s]
  PROVE  Timely(s)'
<1>1. SUFFICES ASSUME s \in Chats, req[s].at \in Awaiting, req[s].leased
      PROVE  leases'[s] >= req[s].since + LeaseLife
  BY DEF Timely
<1>2. /\ req[s].since \in Nat /\ RequestTimeout \in Nat /\ LeaseLife \in Nat /\ clock \in Nat
      /\ RequestTimeout < LeaseLife /\ leases[s] \in Nat
  BY Bounds, TodayFacts DEF Rows, ReqRow, Types
<1>3. /\ req[s].since <= clock /\ clock <= req[s].since + RequestTimeout
      /\ leases[s] >= req[s].since + LeaseLife
  BY <1>1 DEF Timely
<1>4. s \in Live
  BY <1>2, <1>3 DEF Live
<1>5. leases'[s] = leases[s] \/ leases'[s] = Expiry
  BY <1>4, AcquireLeases DEF Leased
<1> QED
  BY <1>2, <1>3, <1>5 DEF Expiry

LEMMA AdmissionKeeps ==
  ASSUME IInv, NEW r \in Requests, req[r].at = "admission", AcquireRequest(r),
         UNCHANGED <<clock, threads>>,
         NEW n, Becomes(r, n), Sound(n), n.at # "new", r \in Chats => n.at # "view",
         n.at \notin Over => n.calls = 0 /\ n.since = req[r].since,
         r \in Chats /\ n.at \notin Over /\ n.leased => leases'[r] = Expiry
  PROVE  IInv'
<1>1. Types /\ Rows /\ Leased /\ Books /\ Numbered
  BY DEF IInv
<1>2. UNCHANGED <<clock, ledger, attempts, threads>>
  BY DEF AcquireRequest
<1>3. Sound(req[r]) /\ Timely(r) /\ req[r].calls = 0
  BY <1>1, SoundRow DEF Rows, Leased
<1>4. /\ leases' \in [Requests -> 0 .. MaxTime + LeaseLife] /\ rate' \in [Principals -> RateRow]
      /\ Cardinality(Live') <= MaxConcurrency
  BY <1>1, AcquireLeases DEF Leased
<1>5. Rows' /\ req'[r] = n /\ \A s \in Requests \ {r} : req'[s] = req[s]
  BY <1>1, RowsKept
<1>6. Types'
  BY <1>1, <1>2, <1>4 DEF Types, Days
<1>7. Books'
  BY <1>1, <1>2, BooksKept
<1>8. Leased'
  <2>1. ASSUME NEW s \in Requests \ {r} PROVE Timely(s)'
    <3>1. Timely(s) /\ req'[s] = req[s]
      BY <1>1, <1>5 DEF Leased
    <3> QED
      BY <1>1, <3>1, AcquireTimely
  <2>2. Timely(r)'
    <3>1. SUFFICES ASSUME r \in Chats, n.at \in Awaiting
          PROVE  /\ n.since <= clock /\ clock <= n.since + RequestTimeout
                 /\ n.leased => leases'[r] >= n.since + LeaseLife
      BY <1>2, <1>5 DEF Timely
    <3>2. n.since = req[r].since /\ (n.leased => leases'[r] = Expiry)
      BY <3>1 DEF Over, Awaiting
    <3>3. /\ req[r].since \in Nat /\ clock \in Nat /\ LeaseLife \in Nat
          /\ req[r].since <= clock /\ clock <= req[r].since + RequestTimeout
      BY <1>1, <1>3, <3>1, Bounds, TodayFacts DEF Rows, ReqRow, Timely, Awaiting
    <3> QED
      BY <3>2, <3>3 DEF Expiry
  <2> QED
    BY <1>4, <2>1, <2>2 DEF Leased
<1>9. Numbered'
  <2>1. req[r].at \notin Over
    BY DEF Over
  <2>2. \A a \in attempts : a.id[1] \in Requests
    BY <1>1 DEF Types, AttemptRow
  <2>3. \A t \in threads : t.id[1] \in Requests
    BY <1>1 DEF Types, ThreadRow
  <2> QED
    BY <1>1, <1>2, <1>3, <1>5, <2>1, <2>2, <2>3 DEF Numbered
<1> QED
  BY <1>5, <1>6, <1>7, <1>8, <1>9 DEF IInv

LEMMA AdmitKeeps ==
  ASSUME IInv, NEW r \in Requests, Admit(r)
  PROVE  IInv'
<1>1. Types /\ Rows /\ Leased
  BY DEF IInv
<1>2. req[r].at = "admission" /\ AcquireRequest(r) /\ UNCHANGED <<clock, threads>>
  BY DEF Admit
<1>3. Between(req[r]) /\ req[r] \in ReqRow /\ req[r].calls = 0
  <2>1. Sound(req[r])
    BY <1>1 DEF Rows
  <2> QED
    BY <1>2, <2>1, SoundRow DEF Awaiting
<1>4. Admissible(r) => leases'[r] = Expiry
  BY <1>1, <1>2, AcquireLeases DEF Leased
<1> DEFINE q == [req[r] EXCEPT !.leased = TRUE]
<1>5. Between(q)
  <2>1. q \in ReqRow /\ q.facts = req[r].facts /\ q.features = req[r].features
        /\ q.read = req[r].read /\ q.plan = req[r].plan /\ q.timedOut = req[r].timedOut
    BY <1>3 DEF ReqRow
  <2> HIDE DEF q
  <2> QED
    BY <1>3, <2>1 DEF Between, Told, Plain
<1>6. ASSUME NEW at \in {"reserve", "view"}, r \in Chats => at = "reserve", Admissible(r),
             Becomes(r, [q EXCEPT !.at = at])
      PROVE  IInv'
  <2> DEFINE n == [q EXCEPT !.at = at]
  <2>1. /\ n \in ReqRow /\ n.at = at /\ n.facts = req[r].facts /\ n.features = req[r].features
        /\ n.read = req[r].read /\ n.plan = req[r].plan /\ n.timedOut = req[r].timedOut
        /\ n.since = req[r].since /\ n.calls = 0
    BY <1>3 DEF ReqRow, Awaiting
  <2>2. Becomes(r, n)
    BY <1>6
  <2> HIDE DEF n
  <2>3. Sound(n)
    BY <1>3, <2>1, Bounds DEF Sound, Between, Told, Plain, Over
  <2> QED
    BY <1>2, <1>4, <1>6, <2>1, <2>2, <2>3, AdmissionKeeps
<1>7. CASE Becomes(r, Failed(q)) \/ Becomes(r, Failed(req[r]))
  <2>1. \A p : Between(p) => Sound(Failed(p)) /\ Failed(p).at \in Over
    BY BetweenSettled, FailedGoes DEF Goes
  <2> HIDE DEF q
  <2>2. PICK n : Becomes(r, n) /\ Sound(n) /\ n.at \in Over
    BY <1>3, <1>5, <1>7, <2>1
  <2> QED
    BY <1>2, <2>2, AdmissionKeeps DEF Over
<1>8. CASE r \notin Chats /\ Becomes(r, [req[r] EXCEPT !.at = "view"])
  <2> DEFINE n == [req[r] EXCEPT !.at = "view"]
  <2>1. n \in ReqRow /\ n.at = "view" /\ n.facts = req[r].facts /\ n.features = req[r].features
        /\ n.read = req[r].read /\ n.plan = req[r].plan /\ n.timedOut = req[r].timedOut
        /\ n.since = req[r].since /\ n.calls = 0
    BY <1>3 DEF ReqRow
  <2>2. Becomes(r, n)
    BY <1>8
  <2> HIDE DEF n
  <2>3. Sound(n)
    BY <1>3, <2>1 DEF Sound, Between, Told, Plain, Over
  <2> QED
    BY <1>2, <1>8, <2>1, <2>2, <2>3, AdmissionKeeps
<1> QED
  BY <1>6, <1>7, <1>8 DEF Admit, Unadmitted

LEMMA AdmissionFailsKeeps ==
  ASSUME IInv, NEW r \in Requests, AdmissionFails(r)
  PROVE  IInv'
<1>1. req[r].at = "admission" /\ UNCHANGED <<clock, tables, threads>> /\ Becomes(r, Unadmitted(r))
  BY DEF AdmissionFails
<1>2. Between(req[r]) /\ req[r] \in ReqRow /\ req[r].calls = 0
  <2>1. Sound(req[r])
    BY DEF IInv, Rows
  <2> QED
    BY <1>1, <2>1, SoundRow DEF Awaiting
<1>3. CASE r \in Chats
  <2>1. Goes(req[r], Failed(req[r]))
    BY <1>2, BetweenSettled, FailedGoes
  <2> QED
    BY <1>1, <1>3, <2>1, QuietMove DEF Unadmitted, Awaiting
<1>4. CASE r \notin Chats
  <2> DEFINE n == [req[r] EXCEPT !.at = "view"]
  <2>1. n \in ReqRow /\ n.at = "view" /\ n.facts = req[r].facts /\ n.features = req[r].features
        /\ n.read = req[r].read /\ n.plan = req[r].plan /\ n.timedOut = req[r].timedOut
        /\ n.since = req[r].since /\ n.calls = req[r].calls /\ n.leased = req[r].leased
    BY <1>2 DEF ReqRow
  <2>2. Becomes(r, n)
    BY <1>1, <1>4 DEF Unadmitted
  <2> HIDE DEF n
  <2>3. Sound(n)
    BY <1>2, <2>1 DEF Sound, Between, Told, Plain, Over
  <2>4. Carries(r, n)
    BY <1>1, <1>4, <2>1, <2>3 DEF Carries, Awaiting
  <2> QED
    BY <1>1, <2>2, <2>4, PlainMove
<1> QED
  BY <1>3, <1>4

LEMMA ViewKeeps ==
  ASSUME IInv, NEW r \in Requests, View(r)
  PROVE  IInv'
<1>1. req[r].at = "view" /\ UNCHANGED <<clock, tables, threads>>
  BY DEF View
<1>2. Between(req[r]) /\ req[r] \in ReqRow /\ req[r].calls = 0
  <2>1. Sound(req[r])
    BY DEF IInv, Rows
  <2> QED
    BY <1>1, <2>1, SoundRow
<1>3. CASE Becomes(r, HttpError(req[r])) \/ Becomes(r, Planned(req[r], "facts"))
  <2>1. Goes(req[r], Planned(req[r], "http_error")) /\ Goes(req[r], Planned(req[r], "facts"))
    <3>1. {"http_error", "facts"} \subseteq PlanNames
      BY DEF PlanNames
    <3> QED
      BY <1>2, <3>1, BetweenPlanned
  <2> QED
    BY <1>1, <1>3, <2>1, QuietMove DEF HttpError
<1>4. CASE Becomes(r, [req[r] EXCEPT !.at = "reserve"])
  <2> DEFINE n == [req[r] EXCEPT !.at = "reserve"]
  <2>1. n \in ReqRow /\ n.at = "reserve" /\ n.facts = req[r].facts /\ n.features = req[r].features
        /\ n.read = req[r].read /\ n.plan = req[r].plan /\ n.timedOut = req[r].timedOut
        /\ n.since = req[r].since /\ n.calls = req[r].calls /\ n.leased = req[r].leased
    BY <1>2 DEF ReqRow, Awaiting
  <2>2. Becomes(r, n)
    BY <1>4
  <2> HIDE DEF n
  <2>3. Sound(n)
    BY <1>2, <2>1, Bounds DEF Sound, Between, Told, Plain, Over
  <2>4. Goes(req[r], n)
    BY <2>1, <2>3 DEF Goes
  <2> QED
    BY <1>1, <2>2, <2>4, QuietMove
<1> QED
  BY <1>3, <1>4 DEF View

LEMMA ReserveKeeps ==
  ASSUME IInv, NEW r \in Requests, NEW tokens \in Sizes, Reserve(r, tokens)
  PROVE  IInv'
<1>1. Types /\ Rows /\ Leased /\ Books /\ Numbered
  BY DEF IInv
<1> DEFINE made == req[r].calls + 1
           id == <<r, made>>
           n == [req[r] EXCEPT !.at = "call", !.calls = made]
<1>2. /\ req[r].at = "reserve" /\ ReserveAttempt(id, tokens) /\ UNCHANGED <<clock, threads>>
      /\ UNCHANGED <<leases, rate>>
  BY DEF Reserve, ReserveAttempt
<1>3. /\ Between(req[r]) /\ req[r] \in ReqRow /\ req[r].calls < MaxModelCalls /\ Timely(r)
  <2>1. Sound(req[r]) /\ Timely(r)
    BY <1>1 DEF Rows, Leased
  <2> QED
    BY <1>2, <2>1, SoundRow DEF Awaiting
<1>4. Becomes(r, n)
  BY <1>1, <1>3 DEF Reserve, Rows, ReqRow
<1>5. made \in 1 .. MaxModelCalls /\ made \in 0 .. MaxModelCalls /\ req[r].calls \in Nat
  <2>1. req[r].calls \in 0 .. MaxModelCalls
    BY <1>3 DEF ReqRow
  <2>2. MaxModelCalls \in Nat
    BY Bounds
  <2> QED
    BY <1>3, <2>1, <2>2
<1> HIDE DEF made
<1>6. /\ n \in ReqRow /\ n.at = "call" /\ n.facts = req[r].facts /\ n.features = req[r].features
      /\ n.read = req[r].read /\ n.plan = req[r].plan /\ n.timedOut = req[r].timedOut
      /\ n.since = req[r].since /\ n.calls = made /\ n.leased = req[r].leased
  BY <1>3, <1>5 DEF ReqRow, Awaiting
<1> HIDE DEF n
<1>7. Sound(n)
  BY <1>3, <1>6 DEF Sound, Between, Told, Plain, Over
<1>8. Rows' /\ req'[r] = n /\ \A s \in Requests \ {r} : req'[s] = req[s]
  BY <1>1, <1>4, <1>7, RowsKept
<1>9. /\ \A a \in attempts : a.id[1] \in Requests /\ a.id[2] \in Nat
      /\ \A t \in threads : t.id[1] \in Requests
  BY <1>1 DEF Types, AttemptRow, ThreadRow
<1>10. \A a \in attempts : a.id # id
  <2> SUFFICES ASSUME NEW a \in attempts, a.id = id PROVE FALSE
    OBVIOUS
  <2>1. a.id[1] = r /\ a.id[2] = made
    OBVIOUS
  <2>2. a.id[2] <= req[r].calls
    BY <1>1, <1>2, <2>1 DEF Numbered, Over
  <2> QED
    BY <1>5, <2>1, <2>2 DEF made
<1>11. /\ attempts' \subseteq AttemptRow /\ IsFiniteSet(attempts')
       /\ ledger' \in [Days -> LedgerRow] /\ Books'
       /\ \A a \in attempts' : a \in attempts \/ a.id = id
  <2>1. id \in Requests \X (1 .. MaxModelCalls)
    BY <1>5
  <2> HIDE DEF id
  <2> QED
    BY <1>1, <1>2, <1>10, <2>1, ReserveBooks
<1>12. Types'
  BY <1>1, <1>2, <1>11 DEF Types, Days
<1>13. Leased'
  <2>1. Live' = Live
    BY <1>2 DEF Live
  <2>2. \A s \in Requests \ {r} : Timely(s)'
    BY <1>1, <1>2, <1>8 DEF Leased, Timely
  <2>3. Timely(r)'
    BY <1>2, <1>3, <1>6, <1>8 DEF Timely, Awaiting
  <2> QED
    BY <1>1, <2>1, <2>2, <2>3 DEF Leased
<1>14. Numbered'
  <2>1. ASSUME NEW a \in attempts', req'[a.id[1]].at \notin Over
        PROVE  a.id[2] <= req'[a.id[1]].calls
    <3>1. CASE a \in attempts /\ a.id[1] # r
      BY <1>1, <1>8, <1>9, <2>1, <3>1 DEF Numbered
    <3>2. CASE a \in attempts /\ a.id[1] = r
      <4>1. a.id[2] <= req[r].calls
        BY <1>1, <1>2, <3>2 DEF Numbered, Over
      <4> QED
        BY <1>5, <1>6, <1>8, <1>9, <3>2, <4>1 DEF made
    <3>3. CASE a.id = id
      BY <1>5, <1>6, <1>8, <3>3
    <3> QED
      BY <1>9, <1>11, <3>1, <3>2, <3>3
  <2>2. ASSUME NEW t \in threads
        PROVE  /\ t.request = t.id[1]
               /\ t.op = "reserve" =>
                    /\ t.id[2] # 0 /\ t.used = 0
                    /\ req'[t.id[1]].at \in Over
                    /\ \A a \in attempts' : a.id # t.id
    <3>1. t.op = "reserve" => t.id[1] # r
      BY <1>1, <1>2 DEF Numbered, Over
    <3> QED
      BY <1>1, <1>8, <1>9, <1>11, <3>1 DEF Numbered
  <2> QED
    BY <1>2, <2>1, <2>2 DEF Numbered
<1> QED
  BY <1>8, <1>11, <1>12, <1>13, <1>14 DEF IInv

LEMMA ReserveFailsKeeps ==
  ASSUME IInv, NEW r \in Requests, ReserveFails(r)
  PROVE  IInv'
<1>1. req[r].at = "reserve" /\ UNCHANGED <<clock, tables, threads>> /\ Becomes(r, Failed(req[r]))
  BY DEF ReserveFails
<1>2. Sound(req[r])
  BY DEF IInv, Rows
<1>3. Goes(req[r], Failed(req[r]))
  BY <1>1, <1>2, SoundRow, BetweenSettled, FailedGoes DEF Awaiting
<1> QED
  BY <1>1, <1>3, QuietMove DEF Awaiting

\* What the call or its usage leads to.
LEMMA AnswerGoes ==
  ASSUME IInv, NEW r \in Requests, req[r].at \in {"call", "usage"}
  PROVE  Goes(req[r], Failed(req[r])) /\ \A n \in Outcomes(r) : Goes(req[r], n)
<1>1. Sound(req[r])
  BY DEF IInv, Rows
<1>2. Between(req[r])
  BY <1>1, SoundRow DEF Awaiting
<1> QED
  BY <1>2, OutcomesGo, BetweenSettled, FailedGoes

LEMMA RespondKeeps ==
  ASSUME IInv, NEW r \in Requests, Respond(r)
  PROVE  IInv'
<1>1. req[r].at = "call" /\ UNCHANGED <<clock, tables, threads>> /\ req[r].at \in Awaiting
  BY DEF Respond, Awaiting
<1>2. ASSUME NEW used \in Usages, Becomes(r, [req[r] EXCEPT !.at = "usage", !.used = used])
      PROVE  IInv'
  <2> DEFINE n == [req[r] EXCEPT !.at = "usage", !.used = used]
  <2>0. Between(req[r]) /\ req[r] \in ReqRow
    <3>1. Sound(req[r])
      BY DEF IInv, Rows
    <3> QED
      BY <1>1, <3>1, SoundRow DEF Awaiting
  <2>1. /\ n \in ReqRow /\ n.at = "usage" /\ n.facts = req[r].facts /\ n.features = req[r].features
        /\ n.read = req[r].read /\ n.plan = req[r].plan /\ n.timedOut = req[r].timedOut
        /\ n.since = req[r].since /\ n.calls = req[r].calls /\ n.leased = req[r].leased
    BY <2>0 DEF ReqRow, Awaiting
  <2>2. Becomes(r, n)
    BY <1>2
  <2> HIDE DEF n
  <2>3. Sound(n)
    BY <2>0, <2>1 DEF Sound, Between, Told, Plain, Over
  <2>4. Carries(r, n)
    BY <1>1, <2>1, <2>3 DEF Carries
  <2> QED
    BY <1>1, <2>2, <2>4, PlainMove
<1>3. CASE Becomes(r, Failed(req[r])) \/ \E n \in Outcomes(r) : Becomes(r, n)
  <2>1. PICK n : Becomes(r, n) /\ Goes(req[r], n)
    BY <1>1, <1>3, AnswerGoes
  <2> QED
    BY <1>1, <2>1, QuietMove
<1> QED
  BY <1>2, <1>3 DEF Respond

LEMMA GiveUpKeeps ==
  ASSUME IInv, NEW r \in Requests, GiveUp(r)
  PROVE  IInv'
<1> DEFINE left == [op |-> "call", request |-> r, id |-> Attempt(r), used |-> 0]
<1>1. /\ req[r].at = "call" /\ UNCHANGED <<clock, tables>> /\ Becomes(r, Failed(req[r]))
      /\ threads' = threads \cup {left}
  BY DEF GiveUp
<1>2. /\ Goes(req[r], Failed(req[r])) /\ Failed(req[r]).at \in Over
  <2>1. Sound(req[r])
    BY DEF IInv, Rows
  <2>2. Between(req[r])
    BY <1>1, <2>1, SoundRow DEF Awaiting
  <2> QED
    BY <2>2, BetweenSettled, FailedGoes
<1>3. Left(r, left)
  <2>1. req[r].calls \in 0 .. MaxModelCalls
    BY DEF IInv, Rows, ReqRow
  <2> QED
    BY <2>1 DEF Left, ThreadRow, Attempt
<1>4. Carries(r, Failed(req[r]))
  BY <1>1, <1>2, GoesCarries DEF Awaiting
<1> HIDE DEF left
<1>5. req[r].at \notin Over
  BY <1>1 DEF Over
<1> QED
  BY <1>1, <1>2, <1>3, <1>4, <1>5, PlainMove

LEMMA RecordedKeeps ==
  ASSUME IInv, NEW r \in Requests, Recorded(r)
  PROVE  IInv'
<1>1. req[r].at = "usage" /\ UNCHANGED <<clock, threads>> /\ req[r].at \in Awaiting
  BY DEF Recorded, Awaiting
<1>2. PICK n : Becomes(r, n) /\ Goes(req[r], n)
  BY <1>1, AnswerGoes DEF Recorded
<1>3. Carries(r, n)
  BY <1>1, <1>2, GoesCarries
<1>4. CASE UNCHANGED tables
  BY <1>1, <1>2, <1>3, <1>4, PlainMove
<1>5. CASE RecordUsage(Attempt(r), req[r].used)
  <2>1. req[r].used \in Usages \cup {0}
    BY DEF IInv, Rows, ReqRow
  <2>2. /\ attempts' \subseteq AttemptRow /\ IsFiniteSet(attempts')
        /\ ledger' \in [Days -> LedgerRow] /\ Books'
        /\ \A a \in attempts' : \E b \in attempts : a.id = b.id
    BY <1>1, <1>5, <2>1, RecordBooks DEF IInv
  <2>3. UNCHANGED <<clock, leases, rate, threads>>
    BY <1>1, <1>5 DEF RecordUsage
  <2>4. Live' = Live /\ leases' \in [Requests -> 0 .. MaxTime + LeaseLife]
    BY <2>3 DEF Live, IInv, Types
  <2> QED
    BY <1>2, <1>3, <2>2, <2>3, <2>4, MoveKeeps
<1> QED
  BY <1>4, <1>5 DEF Recorded, UsageRefused

LEMMA InReadFacts ==
  ASSUME IInv, NEW r \in Requests, req[r].at = "read"
  PROVE  InRead(req[r]) /\ req[r] \in ReqRow /\ req[r].at \in Awaiting
<1>1. Sound(req[r])
  BY DEF IInv, Rows
<1> QED
  BY <1>1, SoundRow DEF Awaiting

LEMMA ReadMoreKeeps ==
  ASSUME IInv, NEW r \in Requests, ReadMore(r)
  PROVE  IInv'
<1>1. /\ req[r].at = "read" /\ Head(req[r].todo) # "travel"
      /\ UNCHANGED <<clock, tables, threads>>
  BY DEF ReadMore
<1>2. InRead(req[r]) /\ req[r] \in ReqRow /\ req[r].at \in Awaiting
  BY <1>1, InReadFacts
<1> DEFINE n == [req[r] EXCEPT !.facts = @ \cup {"partial"}]
<1>3. Becomes(r, n)
  BY DEF ReadMore
<1>4. Goes(req[r], n)
  BY <1>1, <1>2, ReadMoreGoes
<1> HIDE DEF n
<1> QED
  BY <1>1, <1>2, <1>3, <1>4, QuietMove

LEMMA ReadDoneKeeps ==
  ASSUME IInv, NEW r \in Requests, ReadDone(r)
  PROVE  IInv'
<1> DEFINE facts == (req[r].facts \ {"partial"}) \cup {Head(req[r].todo)}
           q == [req[r] EXCEPT !.facts = facts, !.features = req[r].features]
<1>1. /\ req[r].at = "read" /\ Head(req[r].todo) # "travel"
      /\ UNCHANGED <<clock, tables, threads>>
  BY DEF ReadDone
<1>2. InRead(req[r]) /\ req[r] \in ReqRow /\ req[r].at \in Awaiting
  BY <1>1, InReadFacts
<1>3. q = [req[r] EXCEPT !.facts = (@ \ {"partial"}) \cup {Head(req[r].todo)}]
  BY <1>2 DEF ReqRow
<1>4. Between(q) /\ q.todo # <<>> /\ \A m : Goes(q, m) => Goes(req[r], m)
  <2>1. q = After(req[r], facts, req[r].features)
    BY DEF After
  <2> HIDE DEF q
  <2>2. Proceeds(req[r], After(req[r], facts, req[r].features))
    BY <1>1, <1>2, ReadEnds
  <2> QED
    BY <2>1, <2>2 DEF Proceeds
<1>5. \/ \E n \in Onward(q) : Becomes(r, n)
      \/ Becomes(r, Planned(q, "clarify"))
  BY <1>3 DEF ReadDone
<1> HIDE DEF q
<1>6. Goes(q, Planned(q, "clarify"))
  <2>1. "clarify" \in PlanNames
    BY DEF PlanNames
  <2> QED
    BY <1>4, <2>1, BetweenPlanned
<1>7. PICK n : Becomes(r, n) /\ Goes(req[r], n)
  BY <1>4, <1>5, <1>6, OnwardGoes
<1> QED
  BY <1>1, <1>2, <1>7, QuietMove

LEMMA ReadFailsKeeps ==
  ASSUME IInv, NEW r \in Requests, ReadFails(r)
  PROVE  IInv'
<1> DEFINE facts == RolledBack(req[r].facts)
           q == [req[r] EXCEPT !.facts = facts, !.features = req[r].features]
<1>1. /\ req[r].at = "read" /\ Head(req[r].todo) # "travel"
      /\ UNCHANGED <<clock, tables, threads>>
  BY DEF ReadFails
<1>2. InRead(req[r]) /\ req[r] \in ReqRow /\ req[r].at \in Awaiting
  BY <1>1, InReadFacts
<1>3. q = [req[r] EXCEPT !.facts = RolledBack(@)]
  BY <1>2 DEF ReqRow
<1>4. Between(q) /\ q.todo # <<>> /\ \A m : Goes(q, m) => Goes(req[r], m)
  <2>1. q = After(req[r], facts, req[r].features)
    BY DEF After
  <2> HIDE DEF q
  <2>2. Proceeds(req[r], After(req[r], facts, req[r].features))
    BY <1>1, <1>2, ReadEnds
  <2> QED
    BY <2>1, <2>2 DEF Proceeds
<1>5. \/ \E n \in Onward(q) : Becomes(r, n)
      \/ Becomes(r, Finished(q))
  BY <1>3 DEF ReadFails
<1> HIDE DEF q
<1>6. Goes(q, Finished(q))
  BY <1>4, FinishedGoes
<1>7. PICK n : Becomes(r, n) /\ Goes(req[r], n)
  BY <1>4, <1>5, <1>6, OnwardGoes
<1> QED
  BY <1>1, <1>2, <1>7, QuietMove

LEMMA TravelReadKeeps ==
  ASSUME IInv, NEW r \in Requests, TravelRead(r)
  PROVE  IInv'
<1> DEFINE facts == req[r].facts \cup {"travel"}
           features == req[r].features \cup {"travel"}
           q == [req[r] EXCEPT !.facts = facts, !.features = features]
<1>1. /\ req[r].at = "read" /\ Head(req[r].todo) = "travel"
      /\ UNCHANGED <<clock, tables, threads>>
  BY DEF TravelRead
<1>2. InRead(req[r]) /\ req[r] \in ReqRow /\ req[r].at \in Awaiting
  BY <1>1, InReadFacts
<1>3. q = [req[r] EXCEPT !.facts = @ \cup {"travel"}, !.features = @ \cup {"travel"}]
  BY <1>2 DEF ReqRow
<1>4. Between(q) /\ q.todo # <<>> /\ \A m : Goes(q, m) => Goes(req[r], m)
  <2>1. q = After(req[r], facts, features)
    BY DEF After
  <2> HIDE DEF q
  <2>2. Proceeds(req[r], After(req[r], facts, features))
    BY <1>1, <1>2, ReadEnds
  <2> QED
    BY <2>1, <2>2 DEF Proceeds
<1>5. \/ \E n \in Onward(q) : Becomes(r, n)
      \/ Becomes(r, Failed(req[r]))
  BY <1>3 DEF TravelRead
<1> HIDE DEF q
<1>6. Goes(req[r], Failed(req[r]))
  <2>1. Settled(req[r])
    BY <1>1, <1>2 DEF InRead, Settled
  <2> QED
    BY <2>1, FailedGoes
<1>7. PICK n : Becomes(r, n) /\ Goes(req[r], n)
  BY <1>4, <1>5, <1>6, OnwardGoes
<1> QED
  BY <1>1, <1>2, <1>7, QuietMove

LEMMA CutKeeps ==
  ASSUME IInv, NEW r \in Requests, TimesOut(r) \/ Disconnect(r)
  PROVE  IInv'
<1>1. /\ req[r].at \in Awaiting /\ UNCHANGED <<clock, tables>>
      /\ threads' = threads \cup Loose(r)
      /\ \/ Becomes(r, Ended([req[r] EXCEPT !.timedOut = TRUE]))
         \/ Becomes(r, Planned(req[r], "disconnected"))
  BY DEF TimesOut, Disconnect, Overdue
<1>2. Sound(req[r]) /\ req[r] \in ReqRow
  BY DEF IInv, Rows
<1>3. PICK n : Becomes(r, n) /\ Goes(req[r], n) /\ n.at \in Over
  BY <1>1, <1>2, CutGoes
<1>4. Carries(r, n)
  BY <1>1, <1>3, GoesCarries
<1>5. \A t \in Loose(r) : Left(r, t)
  <2>1. /\ req[r].calls \in 0 .. MaxModelCalls /\ req[r].used \in Usages \cup {0}
    BY <1>2 DEF ReqRow
  <2>2. req[r].at = "reserve" => req[r].calls + 1 \in 0 .. MaxModelCalls
    <3>1. req[r].at = "reserve" => req[r].calls < MaxModelCalls
      BY <1>2, SoundRow
    <3> QED
      BY <2>1, <3>1, Bounds
  <2>3. req[r].calls + 1 # req[r].calls + 2
    BY <2>1
  <2> QED
    BY <2>1, <2>2 DEF Loose, Left, ThreadRow, Attempt
<1>6. req[r].at \notin Over
  BY <1>1 DEF Over, Awaiting
<1> QED
  BY <1>1, <1>3, <1>4, <1>5, <1>6, PlainMove

LEMMA ReleaseKeeps ==
  ASSUME IInv, NEW r \in Requests, Release(r) \/ ReleaseFails(r)
  PROVE  IInv'
<1>1. /\ req[r].at = "release" /\ UNCHANGED <<clock, threads>> /\ Becomes(r, Done)
      /\ \/ UNCHANGED tables
         \/ leases' = [leases EXCEPT ![r] = 0] /\ UNCHANGED <<ledger, attempts, rate>>
  BY DEF Release, ReleaseFails, ReleaseRequest
<1>2. Carries(r, Done)
  BY NewSettled DEF Carries, Sound, Over
<1>3. CASE UNCHANGED tables
  BY <1>1, <1>2, <1>3, PlainMove
<1>4. CASE leases' = [leases EXCEPT ![r] = 0] /\ UNCHANGED <<ledger, attempts, rate>>
  <2>1. 0 \in 0 .. MaxTime + LeaseLife /\ clock \in Nat
    BY Bounds, TodayFacts DEF IInv
  <2>2. leases' \in [Requests -> 0 .. MaxTime + LeaseLife]
    BY <1>4, <2>1 DEF IInv, Types
  <2>3. \A s \in Requests \ {r} : leases'[s] = leases[s]
    BY <1>4 DEF IInv, Types
  <2>4. leases'[r] = 0
    BY <1>4 DEF IInv, Types
  <2>5. Live' \subseteq Live
    BY <1>1, <2>1, <2>3, <2>4 DEF Live
  <2>6. Books'
    BY <1>1, <1>4, BooksKept DEF IInv
  <2>7. Done.at \in Over
    BY NewSettled DEF Over
  <2>8. attempts' \subseteq AttemptRow /\ IsFiniteSet(attempts') /\ ledger' \in [Days -> LedgerRow]
    BY <1>4 DEF IInv, Types
  <2> QED
    BY <1>1, <1>2, <1>4, <2>2, <2>3, <2>5, <2>6, <2>7, <2>8, MoveKeeps
<1> QED
  BY <1>1, <1>3, <1>4

LEMMA ThreadEndsKeeps ==
  ASSUME IInv, NEW t \in threads, ThreadEnds(t)
  PROVE  IInv'
<1>1. Types /\ Rows /\ Leased /\ Books /\ Numbered
  BY DEF IInv
<1>2. threads' = threads \ {t} /\ UNCHANGED <<clock, req>> /\ t \in ThreadRow
  BY <1>1 DEF ThreadEnds, Types
<1>3. Rows' /\ threads' \subseteq ThreadRow
  BY <1>1, <1>2 DEF Rows, Types
<1>4. CASE t.op = "acquire" /\ AcquireRequest(t.request)
  <2>1. t.request \in Requests /\ UNCHANGED <<ledger, attempts>>
    BY <1>2, <1>4 DEF ThreadRow, AcquireRequest
  <2>2. /\ leases' \in [Requests -> 0 .. MaxTime + LeaseLife] /\ rate' \in [Principals -> RateRow]
        /\ Cardinality(Live') <= MaxConcurrency
    BY <1>1, <1>2, <1>4, <2>1, AcquireLeases DEF Leased
  <2>3. Types'
    BY <1>1, <1>2, <1>3, <2>1, <2>2 DEF Types, Days
  <2>4. Books'
    BY <1>1, <1>2, <2>1, BooksKept
  <2>5. \A s \in Requests : Timely(s)'
    BY <1>1, <1>2, <1>4, <2>1, AcquireTimely DEF Leased
  <2>6. Numbered'
    BY <1>1, <1>2, <2>1 DEF Numbered
  <2> QED
    BY <1>3, <2>2, <2>3, <2>4, <2>5, <2>6 DEF IInv, Leased
<1>5. ASSUME UNCHANGED <<leases, rate>>,
             attempts' \subseteq AttemptRow, IsFiniteSet(attempts'),
             ledger' \in [Days -> LedgerRow], Books',
             \A a \in attempts' : (\E b \in attempts : a.id = b.id)
                                  \/ (t.op = "reserve" /\ a.id = t.id)
      PROVE  IInv'
  <2>1. Types'
    BY <1>1, <1>2, <1>3, <1>5 DEF Types, Days
  <2>2. Leased'
    BY <1>1, <1>2, <1>5 DEF Leased, Timely, Live
  <2>3. ASSUME NEW a \in attempts', req'[a.id[1]].at \notin Over
        PROVE  a.id[2] <= req'[a.id[1]].calls
    BY <1>1, <1>2, <1>5, <2>3 DEF Numbered
  <2>4. ASSUME NEW u \in threads'
        PROVE  /\ u.request = u.id[1]
               /\ u.op = "reserve" =>
                    /\ u.id[2] # 0 /\ u.used = 0
                    /\ req'[u.id[1]].at \in Over
                    /\ \A a \in attempts' : a.id # u.id
    <3>1. u \in threads /\ u # t /\ u \in ThreadRow
      BY <1>2, <1>3
    <3>2. u.op = "reserve" /\ t.op = "reserve" => u.id # t.id
      <4>1. SUFFICES ASSUME u.op = "reserve", t.op = "reserve", u.id = t.id PROVE FALSE
        OBVIOUS
      <4>2. u.request = t.request /\ u.used = t.used
        BY <1>1, <3>1, <4>1 DEF Numbered
      <4> QED
        BY <1>2, <3>1, <4>1, <4>2 DEF ThreadRow
    <3> QED
      BY <1>1, <1>2, <1>5, <3>1, <3>2 DEF Numbered
  <2>5. Numbered'
    BY <2>3, <2>4 DEF Numbered
  <2> QED
    BY <1>3, <1>5, <2>1, <2>2, <2>5 DEF IInv
<1>6. ASSUME t.op = "reserve", NEW tokens \in Sizes, ReserveAttempt(t.id, tokens)
      PROVE  IInv'
  <2>1. t.id \in Requests \X (1 .. MaxModelCalls) /\ \A a \in attempts : a.id # t.id
    <3>1. t.id \in Requests \X (0 .. MaxModelCalls) /\ t.id[2] # 0
      BY <1>1, <1>2, <1>6 DEF ThreadRow, Numbered
    <3> QED
      BY <1>1, <1>6, <3>1, Bounds DEF Numbered
  <2>2. /\ attempts' \subseteq AttemptRow /\ IsFiniteSet(attempts')
        /\ ledger' \in [Days -> LedgerRow] /\ Books'
        /\ \A a \in attempts' : a \in attempts \/ a.id = t.id
    BY <1>1, <1>2, <1>6, <2>1, ReserveBooks
  <2>3. UNCHANGED <<leases, rate>>
    BY <1>6 DEF ReserveAttempt
  <2> QED
    BY <1>5, <1>6, <2>2, <2>3
<1>7. CASE RecordUsage(t.id, t.used)
  <2>1. t.used \in Usages \cup {0}
    BY <1>2 DEF ThreadRow
  <2>2. /\ attempts' \subseteq AttemptRow /\ IsFiniteSet(attempts')
        /\ ledger' \in [Days -> LedgerRow] /\ Books'
        /\ \A a \in attempts' : \E b \in attempts : a.id = b.id
    BY <1>1, <1>2, <1>7, <2>1, RecordBooks
  <2>3. UNCHANGED <<leases, rate>>
    BY <1>7 DEF RecordUsage
  <2> QED
    BY <1>5, <2>2, <2>3
<1>8. CASE UNCHANGED tables
  <2>1. UNCHANGED <<leases, rate, ledger, attempts>>
    BY <1>8 DEF tables
  <2>2. Books'
    BY <1>1, <1>2, <2>1, BooksKept
  <2>3. attempts' \subseteq AttemptRow /\ IsFiniteSet(attempts') /\ ledger' \in [Days -> LedgerRow]
    BY <1>1, <2>1 DEF Types
  <2> QED
    BY <1>5, <2>1, <2>2, <2>3
<1> QED
  BY <1>4, <1>6, <1>7, <1>8 DEF ThreadEnds, UsageRefused

-----------------------------------------------------------------------------
(* The invariant holds, and what follows from it.                          *)

LEMMA InitHolds ==
  ASSUME Init
  PROVE  IInv
<1>1. /\ clock = 0 /\ ledger = [d \in Days |-> NoCalls] /\ attempts = {}
      /\ leases = [r \in Requests |-> 0]
      /\ rate = [p \in Principals |-> [minute |-> 0, count |-> 0]]
      /\ req = [r \in Requests |-> New] /\ threads = {}
  BY DEF Init, BudgetInit
<1>2. Types
  <2>1. /\ 0 \in 0 .. MaxTime /\ 0 \in 0 .. MaxTime + LeaseLife /\ 0 \in 0 .. RequestsPerMinute
        /\ 0 \in 0 .. MaxDailyCalls
    BY Bounds
  <2>2. NoCalls \in LedgerRow
    BY <2>1 DEF NoCalls, LedgerRow
  <2>3. [minute |-> 0, count |-> 0] \in RateRow
    BY <2>1 DEF RateRow
  <2>4. rate \in [Principals -> RateRow]
    BY <1>1, <2>3
  <2> QED
    BY <1>1, <2>1, <2>2, <2>4, FS_EmptySet DEF Types
<1>3. Rows
  <2>1. New \in ReqRow /\ Sound(New)
    BY NewSettled DEF Sound, New, Over
  <2> QED
    BY <1>1, <2>1 DEF Rows
<1>4. Leased
  <2>1. Live = {} /\ Cardinality(Live) = 0
    BY <1>1, FS_EmptySet DEF Live
  <2>2. \A r \in Requests : Timely(r)
    BY <1>1 DEF Timely, New, Awaiting
  <2> QED
    BY <2>1, <2>2, Bounds DEF Leased
<1>5. Books
  <2>1. Tokens({}) = 0 /\ Usage({}) = 0 /\ Reserved({}) = 0
    BY SumOfNothing DEF Tokens, Usage, Reserved
  <2>2. \A d : AttemptsOf(d) = {} /\ {a \in AttemptsOf(d) : a.observed} = {}
    BY <1>1 DEF AttemptsOf
  <2>3. MaxDailyTokens \in Nat /\ Cardinality({}) = 0
    BY Bounds, FS_EmptySet
  <2>4. ASSUME NEW d \in Days PROVE Entered(d)
    <3>1. ledger[d] = NoCalls
      BY <1>1
    <3> QED
      BY <2>1, <2>2, <2>3, <3>1 DEF Entered, NoCalls
  <2> QED
    BY <1>1, <2>4 DEF Books
<1>6. Numbered
  BY <1>1 DEF Numbered
<1> QED
  BY <1>2, <1>3, <1>4, <1>5, <1>6 DEF IInv

LEMMA StutterKeeps ==
  ASSUME IInv, UNCHANGED vars
  PROVE  IInv'
<1>1. UNCHANGED <<clock, ledger, attempts, leases, rate, req, threads>>
  BY DEF vars, tables
<1>2. Types' /\ Rows' /\ Numbered'
  BY <1>1 DEF IInv, Types, Rows, Numbered, Days
<1>3. Leased'
  BY <1>1 DEF IInv, Leased, Timely, Live
<1>4. Books'
  BY <1>1, BooksKept DEF IInv
<1> QED
  BY <1>2, <1>3, <1>4 DEF IInv

LEMMA NextKeeps ==
  ASSUME IInv, [Next]_vars
  PROVE  IInv'
<1>1. CASE Tick
  BY <1>1, TickKeeps
<1>2. ASSUME NEW t \in threads, ThreadEnds(t) PROVE IInv'
  BY <1>2, ThreadEndsKeeps
<1>3. ASSUME NEW r \in Requests, Ask(r) PROVE IInv'
  BY <1>3, AskKeeps
<1>4. ASSUME NEW r \in Requests, Step(r) PROVE IInv'
  <2>1. ASSUME NEW tokens \in Sizes, Reserve(r, tokens) PROVE IInv'
    BY <2>1, ReserveKeeps
  <2>2. CASE Admit(r)
    BY <2>2, AdmitKeeps
  <2>3. CASE AdmissionFails(r)
    BY <2>3, AdmissionFailsKeeps
  <2>4. CASE View(r)
    BY <2>4, ViewKeeps
  <2>5. CASE ReserveFails(r)
    BY <2>5, ReserveFailsKeeps
  <2>6. CASE Recorded(r)
    BY <2>6, RecordedKeeps
  <2>7. CASE Release(r) \/ ReleaseFails(r)
    BY <2>7, ReleaseKeeps
  <2> QED
    BY <1>4, <2>1, <2>2, <2>3, <2>4, <2>5, <2>6, <2>7 DEF Step
<1>5. ASSUME NEW r \in Requests, Respond(r) \/ GiveUp(r) PROVE IInv'
  BY <1>5, RespondKeeps, GiveUpKeeps
<1>6. ASSUME NEW r \in Requests, ReadMore(r) \/ ReadDone(r) \/ ReadFails(r) \/ TravelRead(r)
      PROVE  IInv'
  BY <1>6, ReadMoreKeeps, ReadDoneKeeps, ReadFailsKeeps, TravelReadKeeps
<1>7. ASSUME NEW r \in Requests, TimesOut(r) \/ Disconnect(r) PROVE IInv'
  BY <1>7, CutKeeps
<1>8. CASE UNCHANGED vars
  BY <1>8, StutterKeeps
<1> QED
  BY <1>1, <1>2, <1>3, <1>4, <1>5, <1>6, <1>7, <1>8 DEF Next

\* The invariant holds whatever requests, threads and the clock do.
THEOREM Invariant == Spec => []IInv
<1>1. Init => IInv
  BY InitHolds
<1>2. IInv /\ [Next]_vars => IInv'
  BY NextKeeps
<1> QED
  BY <1>1, <1>2, PTL DEF Spec

\* Every table and every request keeps its shape: the ledger never counts more
\* calls than a day may have, an attempt has a number its request may have, and
\* a fact is of a read that was listed.
THEOREM TypeCorrect == Spec => []TypeOK
<1>1. ASSUME IInv PROVE TypeOK
  <2>1. Types /\ Rows
    BY <1>1 DEF IInv
  <2>2. ASSUME NEW r \in Requests
        PROVE  /\ req[r].at \in Awaiting \cup {"new", "view", "release", "done"}
               /\ req[r].action \in Interpretations \cup {"none", "reject"}
               /\ req[r].features \subseteq {"search", "feature", "travel"}
               /\ req[r].facts \subseteq req[r].features \cup {"partial", "failed"}
               /\ req[r].at = "read" => req[r].todo # <<>>
    <3>1. Sound(req[r]) /\ req[r] \in ReqRow
      BY <2>1 DEF Rows
    <3>2. Plain(req[r]) /\ (req[r].at = "read" => req[r].todo # <<>>)
      BY <3>1 DEF Sound, InRead, Between, Settled, Over
    <3>3. /\ req[r].at \in Awaiting \cup Over \cup {"new", "view"}
          /\ req[r].action \in Interpretations \cup {"none", "reject"}
          /\ req[r].features \subseteq Reading
      BY <3>1 DEF ReqRow
    <3> QED
      BY <3>2, <3>3 DEF Plain, Over, Reading
  <2> QED
    BY <2>1, <2>2 DEF TypeOK, Types, LedgerRow, AttemptRow, RateRow
<1> QED
  BY <1>1, Invariant, PTL

\* The cap on conversations, for any number of requests, callers and limits.
THEOREM Capped == Spec => []CapHolds
<1>1. ASSUME IInv PROVE CapHolds
  <2>1. Types /\ Rows /\ Leased
    BY <1>1 DEF IInv
  <2>2. ASSUME NEW r \in Running PROVE r \in Live
    <3>1. r \in Chats /\ req[r].leased /\ req[r].at \in Awaiting /\ r \in Requests
      BY ConciergeAssumption DEF Running
    <3>2. Timely(r) /\ req[r].since \in Nat /\ leases[r] \in Nat
      BY <2>1, <3>1, Bounds DEF Leased, Rows, ReqRow, Types
    <3>3. /\ RequestTimeout \in Nat /\ LeaseLife \in Nat /\ RequestTimeout < LeaseLife
          /\ clock \in Nat
      BY <2>1, Bounds, TodayFacts
    <3> QED
      BY <3>1, <3>2, <3>3 DEF Timely, Live
  <2>3. Live \cup Running = Live
    BY <2>2
  <2> QED
    BY <2>1, <2>3 DEF CapHolds, Leased
<1> QED
  BY <1>1, Invariant, PTL

\* The ledger of each remembered day is the sum of its attempts, and what they
\* reserve stays within the limit.
THEOREM Balanced == Spec => []LedgerAddsUp
<1>1. ASSUME IInv PROVE LedgerAddsUp
  BY <1>1 DEF IInv, Books, Entered, LedgerAddsUp
<1> QED
  BY <1>1, Invariant, PTL

\* A response says that data is available only when it was read.
THEOREM ClaimsWhatWasRead == Spec => []AvailableMeansRead
<1>1. ASSUME IInv PROVE AvailableMeansRead
  <2> SUFFICES ASSUME NEW r \in Chats, Answered(r)
               PROVE  /\ req[r].action \in {"read", "loop"}
                           /\ Status(req[r]) \in {"available", "deterministic_fallback"} =>
                         req[r].facts \cap {"feature", "travel"} # {} /\ "failed" \notin req[r].facts
                      /\ "partial" \in req[r].facts => req[r].timedOut
    BY DEF AvailableMeansRead
  <2> DEFINE q == req[r]
  <2>1. Sound(q) /\ q.at = "release" /\ q.plan # "disconnected"
    BY <1>1, ConciergeAssumption DEF IInv, Rows, Answered
  <2>2. Settled(q) /\ q \in ReqRow
    BY <2>1, SoundRow DEF Over
  <2> HIDE DEF q
  <2>3. "partial" \in q.facts => q.timedOut
    BY <2>1, <2>2 DEF Settled
  <2>4. ASSUME q.action \in {"read", "loop"},
               Status(q) \in {"available", "deterministic_fallback"}
        PROVE  q.facts \cap {"feature", "travel"} # {} /\ "failed" \notin q.facts
    <3>1. q.action \in Interpretations \cup {"none", "reject"} /\ q.features \subseteq Reading
      BY <2>2 DEF ReqRow
    <3>2. Accepted(q) /\ ~Denied(q)
      BY <2>4, <3>1 DEF Accepted, Denied
    <3>3. /\ Status(q) = Assembled(q)
          /\ ~(Incomplete(q) /\ Assembled(q) # "query_failed")
      BY <2>4, <3>2 DEF Status
    <3>4. q.plan # "clarify" /\ "failed" \notin q.facts
      BY <2>4, <3>3 DEF Assembled
    <3>5. q.read
      BY <2>4, <3>3, <3>4 DEF Incomplete
    <3>6. ReadSomething(q) /\ q.features \subseteq q.facts
      BY <2>2, <3>4, <3>5 DEF Settled, Told
    <3> QED
      BY <3>1, <3>4, <3>6 DEF ReadSomething, Reading
  <2> QED
    BY <2>3, <2>4 DEF q
<1> QED
  BY <1>1, Invariant, PTL

(***************************************************************************)
(* The recommendation of an activity.                                      *)
(***************************************************************************)

\* A score is a number.
LEMMA ScoreIsNumber ==
  ASSUME NEW e, IsFiniteSet(DOMAIN e.points),
         \A m \in DOMAIN e.points : e.points[m] \in 0 .. 100
  PROVE  Score(e) \in Int
<1> DEFINE A == DOMAIN e.points
           Iter(g) == g = [s \in SUBSET A |->
                             IF s = {} THEN 0 ELSE g[s \ {Member(s)}] + e.points[Member(s)]]
           total == CHOOSE g : Iter(g)
           w == [m \in A |-> e.points[m]]
<1>1. FoldSet(LAMBDA m, sum : sum + e.points[m], 0, A) = total[A]
  BY DEF FoldSet, MapThenFoldSet, Member
<1>2. PICK T \in [SUBSET A -> Int] : SumsUp(A, w, T)
  <2>1. w \in [A -> Int]
    OBVIOUS
  <2> HIDE DEF A, w
  <2> QED
    BY <2>1, SumExists DEF A
<1>3. Iter(T)
  <2>1. ASSUME NEW s \in SUBSET A
        PROVE  T[s] = IF s = {} THEN 0 ELSE T[s \ {Member(s)}] + e.points[Member(s)]
    <3>1. CASE s = {}
      BY <1>2, <3>1 DEF SumsUp
    <3>2. CASE s # {}
      <4>1. Member(s) \in s
        BY <3>2 DEF Member
      <4>2. T[s] = w[Member(s)] + T[s \ {Member(s)}]
        BY <1>2, <3>2 DEF SumsUp
      <4>3. w[Member(s)] = e.points[Member(s)] /\ w[Member(s)] \in Int
            /\ T[s \ {Member(s)}] \in Int
        BY <1>2, <4>1
      <4> QED
        BY <3>2, <4>2, <4>3
    <3> QED
      BY <3>1, <3>2
  <2> HIDE DEF A
  <2>2. T = [s \in SUBSET A |-> T[s]]
    BY <1>2
  <2> QED
    BY <2>1, <2>2
<1>4. Iter(total)
  <2> HIDE DEF Iter
  <2> QED
    BY <1>3
<1>5. \A s \in SUBSET A :
        total[s] = IF s = {} THEN 0 ELSE total[s \ {Member(s)}] + e.points[Member(s)]
  <2> HIDE DEF total
  <2> QED
    BY <1>4
<1> HIDE DEF total
<1>6. \A s \in SUBSET A : total[s] \in Int
  <2> DEFINE S == {n \in Nat : \A s \in SUBSET A : Cardinality(s) = n => total[s] \in Int}
  <2>1. \A s \in SUBSET A : Cardinality(s) \in Nat /\ (Cardinality(s) = 0 <=> s = {})
    BY FS_Subset, FS_CardinalityType, FS_EmptySet
  <2>2. 0 \in S
    <3> SUFFICES ASSUME NEW s \in SUBSET A, Cardinality(s) = 0 PROVE total[s] \in Int
      OBVIOUS
    <3>1. s = {}
      BY <2>1
    <3>2. total[s] = 0
      BY <1>5, <3>1, Zenon
    <3> QED
      BY <3>2
  <2>3. ASSUME NEW n \in Nat, n \in S PROVE n + 1 \in S
    <3> SUFFICES ASSUME NEW s \in SUBSET A, Cardinality(s) = n + 1 PROVE total[s] \in Int
      OBVIOUS
    <3>1. s # {}
      BY <2>1
    <3>2. Member(s) \in s /\ s \ {Member(s)} \in SUBSET A /\ Cardinality(s \ {Member(s)}) = n
      BY <3>1, MemberFacts
    <3>3. total[s \ {Member(s)}] \in Int /\ e.points[Member(s)] \in Int
      BY <2>3, <3>2
    <3>4. total[s] = total[s \ {Member(s)}] + e.points[Member(s)]
      BY <1>5, <3>1, Zenon
    <3> QED
      BY <3>3, <3>4
  <2>4. \A n \in Nat : n \in S
    <3> HIDE DEF S
    <3> QED
      BY <2>2, <2>3, InductionOnSet
  <2> QED
    BY <2>1, <2>4
<1>7. total[A] \in Int
  <2>1. A \in SUBSET A
    OBVIOUS
  <2> QED
    BY <1>6, <2>1
<1>8. CASE Blocked(e) \/ A = {}
  <2>1. Score(e) = NoScore
    BY <1>8, Zenon DEF Score
  <2> QED
    BY <2>1 DEF NoScore
<1>9. CASE ~Blocked(e) /\ A # {}
  <2>1. Score(e) = total[A] \div Cardinality(A)
    BY <1>1, <1>9 DEF Score
  <2>2. Cardinality(A) \in Nat \ {0}
    BY <1>9, FS_CardinalityType, FS_EmptySet
  <2> HIDE DEF A
  <2> QED
    BY <1>7, <2>1, <2>2
<1> QED
  BY <1>8, <1>9

\* The five activities, and where each stands.
LEMMA FiveActivities ==
  /\ Len(Order) = 5
  /\ Activities = {"swim", "surf", "relax", "onsen", "walk"}
  /\ \A a \in Activities : Position(a) \in 1 .. 5 /\ Order[Position(a)] = a
<1>1. Len(Order) = 5 /\ 1 .. Len(Order) = {1, 2, 3, 4, 5}
  BY DEF Order
<1>2. /\ Order[1] = "swim" /\ Order[2] = "surf" /\ Order[3] = "relax"
      /\ Order[4] = "onsen" /\ Order[5] = "walk"
  BY DEF Order
<1>3. Activities = {"swim", "surf", "relax", "onsen", "walk"}
  BY <1>1, <1>2, Zenon DEF Activities
<1>4. ASSUME NEW a \in Activities PROVE Position(a) \in 1 .. 5 /\ Order[Position(a)] = a
  <2>1. \E i \in 1 .. Len(Order) : Order[i] = a
    BY DEF Activities
  <2>2. Position(a) \in 1 .. Len(Order) /\ Order[Position(a)] = a
    BY <2>1 DEF Position
  <2> QED
    BY <1>1, <2>2
<1> QED
  BY <1>1, <1>3, <1>4

\* The order of the candidates compares the first numbers that differ.
IsRank(r) == r[1] \in Int /\ r[2] \in Int /\ r[3] \in Int /\ r[4] \in Int

LEMMA AheadUnfolds ==
  ASSUME NEW r, NEW s
  PROVE  Ahead(r, s) <=>
           \/ r[1] < s[1]
           \/ r[1] = s[1] /\ r[2] < s[2]
           \/ r[1] = s[1] /\ r[2] = s[2] /\ r[3] < s[3]
           \/ r[1] = s[1] /\ r[2] = s[2] /\ r[3] = s[3] /\ r[4] < s[4]
<1>1. 1 .. 4 = {1, 2, 3, 4} /\ 1 .. 1 - 1 = {} /\ 1 .. 2 - 1 = {1} /\ 1 .. 3 - 1 = {1, 2}
      /\ 1 .. 4 - 1 = {1, 2, 3}
  OBVIOUS
<1> QED
  BY <1>1, Zenon DEF Ahead

LEMMA AheadOrders ==
  /\ \A r, s, t : IsRank(r) /\ IsRank(s) /\ IsRank(t) /\ Ahead(r, s) /\ Ahead(s, t)
       => Ahead(r, t)
  /\ \A r, s : IsRank(r) /\ IsRank(s) /\ r[4] # s[4] => Ahead(r, s) \/ Ahead(s, r)
BY AheadUnfolds DEF IsRank

\* One of a set of activities is ahead of the others.
First(rank, s) == \E a \in s : \A b \in s \ {a} : Ahead(rank[a], rank[b])

\* The ranks of all differ.
Ranked(rank, live) ==
  /\ \A a \in live : IsRank(rank[a])
  /\ \A a, b \in live : a # b => rank[a][4] # rank[b][4]

LEMMA FirstOfOneMore ==
  ASSUME NEW rank, NEW live, Ranked(rank, live), NEW s \in SUBSET live, NEW x \in live,
         s = {} \/ First(rank, s)
  PROVE  First(rank, s \cup {x})
<1>1. CASE s = {} \/ x \in s
  BY <1>1 DEF First
<1>2. CASE s # {} /\ x \notin s
  <2>1. PICK a \in s : \A b \in s \ {a} : Ahead(rank[a], rank[b])
    BY <1>2 DEF First
  <2>2. a # x /\ a \in live /\ IsRank(rank[a]) /\ IsRank(rank[x])
        /\ \A b \in s : IsRank(rank[b])
    BY <1>2 DEF Ranked
  <2>3. CASE Ahead(rank[a], rank[x])
    BY <2>1, <2>3 DEF First
  <2>4. CASE ~Ahead(rank[a], rank[x])
    <3>1. Ahead(rank[x], rank[a])
      BY <2>2, <2>4, AheadOrders DEF Ranked
    <3>2. \A b \in s : Ahead(rank[x], rank[b])
      BY <2>1, <2>2, <3>1, AheadOrders
    <3> QED
      BY <3>2 DEF First
  <2> QED
    BY <2>3, <2>4
<1> QED
  BY <1>1, <1>2

LEMMA FirstExists ==
  ASSUME NEW live \in SUBSET Activities, live # {}, NEW rank, Ranked(rank, live)
  PROVE  First(rank, live)
<1> DEFINE Has(s) == s = {} \/ First(rank, s)
           s1 == live \cap {"swim"}
           s2 == live \cap {"swim", "surf"}
           s3 == live \cap {"swim", "surf", "relax"}
           s4 == live \cap {"swim", "surf", "relax", "onsen"}
<1> HIDE DEF Has
<1>1. ASSUME NEW s \in SUBSET live, Has(s), NEW x PROVE Has(s \cup (live \cap {x}))
  <2>1. CASE x \in live
    <3>1. s \cup (live \cap {x}) = s \cup {x}
      BY <2>1
    <3> QED
      BY <1>1, <2>1, <3>1, FirstOfOneMore DEF Has
  <2>2. CASE x \notin live
    <3>1. s \cup (live \cap {x}) = s
      BY <2>2
    <3> QED
      BY <1>1, <3>1
  <2> QED
    BY <2>1, <2>2
<1>2. Has({})
  BY DEF Has
<1>3. Has(s1)
  <2>1. s1 = {} \cup (live \cap {"swim"})
    OBVIOUS
  <2> QED
    BY <1>1, <1>2, <2>1
<1>4. Has(s2)
  <2>1. s2 = s1 \cup (live \cap {"surf"}) /\ s1 \in SUBSET live
    OBVIOUS
  <2> QED
    BY <1>1, <1>3, <2>1
<1>5. Has(s3)
  <2>1. s3 = s2 \cup (live \cap {"relax"}) /\ s2 \in SUBSET live
    OBVIOUS
  <2> QED
    BY <1>1, <1>4, <2>1
<1>6. Has(s4)
  <2>1. s4 = s3 \cup (live \cap {"onsen"}) /\ s3 \in SUBSET live
    OBVIOUS
  <2> QED
    BY <1>1, <1>5, <2>1
<1>7. Has(live)
  <2>1. live = s4 \cup (live \cap {"walk"}) /\ s4 \in SUBSET live
    BY FiveActivities
  <2> QED
    BY <1>1, <1>6, <2>1
<1> QED
  BY <1>7 DEF Has

\* The choice is one of the activities that are eligible, if there are any.
Scored(es) == \A a \in Activities : Score(es[a]) \in Int

LEMMA BestIsEligible ==
  ASSUME NEW es, Scored(es), NEW kind, NEW tide
  PROVE  /\ Eligible(es, kind) = {} => Best(es, kind, tide) = NoChoice
         /\ Eligible(es, kind) # {} => Best(es, kind, tide) \in Eligible(es, kind)
         /\ Eligible(es, kind) \in SUBSET Activities
<1> DEFINE live == Eligible(es, kind)
           rank == [a \in live |-> Rank(a, es[a], kind, tide)]
<1>1. live \in SUBSET Activities
  BY DEF Eligible
<1>2. Ranked(rank, live)
  <2>1. ASSUME NEW a \in live
        PROVE  IsRank(rank[a]) /\ rank[a][4] = Position(a)
    <3>1. a \in Activities /\ Score(es[a]) \in Int /\ Position(a) \in Int
      BY <1>1, FiveActivities DEF Scored
    <3>2. rank[a] = Rank(a, es[a], kind, tide)
      BY Zenon
    <3>3. rank[a][1] \in {0, 1} /\ rank[a][2] \in {0, 1} /\ rank[a][3] = -Score(es[a])
          /\ rank[a][4] = Position(a)
      BY <3>2 DEF Rank
    <3> QED
      BY <3>1, <3>3 DEF IsRank
  <2>2. ASSUME NEW a \in live, NEW b \in live, a # b PROVE Position(a) # Position(b)
    BY <1>1, <2>2, FiveActivities
  <2> QED
    BY <2>1, <2>2 DEF Ranked
<1>3. CASE live = {}
  BY <1>3 DEF Best, Eligible
<1>4. CASE live # {}
  <2>1. \E a \in live : \A b \in live \ {a} : Ahead(rank[a], rank[b])
    <3> HIDE DEF live, rank
    <3> QED
      BY <1>1, <1>2, <1>4, FirstExists DEF First
  <2>2. Best(es, kind, tide) = CHOOSE a \in live : \A b \in live \ {a} : Ahead(rank[a], rank[b])
    BY <1>4, Zenon DEF Best
  <2>3. Best(es, kind, tide) \in live
    BY <2>1, <2>2, Zenon
  <2> QED
    BY <1>1, <1>4, <2>3
<1> QED
  BY <1>1, <1>3, <1>4

----------------------------------------------------------------------------
(* What a request knows and has decided.                                   *)

Fields == {"at", "kind", "tide", "lost", "decided", "answer", "valleys", "valley"}
Before == {"place", "tide", "season", "decide"}
Decided == {"alternatives", "valley", "done"}

RequestTyped ==
  /\ world \in Worlds
  /\ DOMAIN request = Fields
  /\ request.at \in Before \cup Decided
  /\ request.decided \in BOOLEAN
  /\ request.kind \in {"unknown", world.kind}
  /\ request.tide \in {"unknown", world.tide}

\* It is decided once, from what is known then.
DecidedFromKnown ==
  /\ request.at \in Before => ~request.decided
  /\ request.at \in Decided =>
       /\ request.decided
       /\ request.answer.choice = Best(Conditions(world), request.kind, request.tide)
  /\ request.valley \in {NoChoice, Best(world.valley, "unknown", "unknown")}

\* What is not known has not been looked up yet, is not asked of a place of this
\* kind or is missing.
MissingIsNamed ==
  /\ request.at \in {"tide", "season"} => request.kind = "beach"
  /\ request.kind # world.kind =>
       request.at = "place" \/ {"place", "context"} \cap request.lost # {}
  /\ world.kind = "beach" /\ request.tide # world.tide =>
       request.at \in {"place", "tide"} \/ {"place", "tide", "context"} \cap request.lost # {}

ChoiceInv == RequestTyped /\ DecidedFromKnown /\ MissingIsNamed

\* Of all that is read the scores are numbers, and the authority's word is that
\* of the observation.
LEMMA WorldsAreScored ==
  ASSUME NEW w \in Worlds
  PROVE  /\ Scored(Conditions(w)) /\ Scored(w.valley)
         /\ \A a \in Activities :
              /\ Conditions(w)[a] \in {w.observed[a], w.forecast[a]}
              /\ Conditions(w)[a].kind = w.kind
              /\ Conditions(w)[a].word = w.observed[a].word
              /\ w.valley[a].kind = "inland"
<1>1. ASSUME NEW a \in Activities
      PROVE  /\ Conditions(w)[a] \in {w.observed[a], w.forecast[a]}
             /\ Conditions(w)[a].kind = w.kind
             /\ Conditions(w)[a].word = w.observed[a].word
             /\ w.valley[a].kind = "inland"
             /\ Score(Conditions(w)[a]) \in Int /\ Score(w.valley[a]) \in Int
  <2>1. /\ IsEvidence(w.observed[a], w.kind) /\ IsEvidence(w.forecast[a], w.kind)
        /\ w.forecast[a].word = w.observed[a].word
        /\ IsEvidence(w.valley[a], "inland")
    BY ChoiceAssumption
  <2>2. Conditions(w)[a] = ReadActivity(w.observed[a], w.forecast[a])
    BY DEF Conditions
  <2>3. Conditions(w)[a] \in {w.observed[a], w.forecast[a]}
    BY <2>2 DEF ReadActivity
  <2>4. /\ Score(w.observed[a]) \in Int /\ Score(w.forecast[a]) \in Int
        /\ Score(w.valley[a]) \in Int
    BY <2>1, ScoreIsNumber DEF IsEvidence
  <2> QED
    BY <2>1, <2>3, <2>4 DEF IsEvidence
<1> QED
  BY <1>1 DEF Scored

LEMMA ChoiceStart == ChoiceInit => ChoiceInv
BY DEF ChoiceInit, ChoiceInv, RequestTyped, DecidedFromKnown, MissingIsNamed, Fields, Before,
       Decided, NoChoice

\* What a decision leaves as it was.
LEMMA DecisionOf ==
  ASSUME NEW r, DOMAIN r = Fields
  PROVE  /\ DOMAIN WithDecision(r) = Fields
         /\ WithDecision(r).decided = TRUE
         /\ WithDecision(r).answer.choice = Best(Conditions(world), r.kind, r.tide)
         /\ \A f \in Fields \ {"decided", "answer"} : WithDecision(r)[f] = r[f]
<1>1. Decide(Conditions(world), r.kind, r.tide).choice
        = Best(Conditions(world), r.kind, r.tide)
  BY DEF Decide
<1> QED
  BY <1>1 DEF WithDecision, Fields

LEMMA ChoiceLookUps ==
  ASSUME ChoiceInv, LookUpPlace \/ LookUpTide \/ LookUpSeason
  PROVE  ChoiceInv'
<1> USE DEF ChoiceInv, RequestTyped, DecidedFromKnown, MissingIsNamed, Fields, Before, Decided,
            Unavailable
<1>1. CASE LookUpPlace
  BY <1>1 DEF LookUpPlace
<1>2. CASE LookUpTide
  BY <1>2 DEF LookUpTide
<1>3. CASE LookUpSeason
  BY <1>3 DEF LookUpSeason
<1> QED
  BY <1>1, <1>2, <1>3

LEMMA ChoiceAlternatives ==
  ASSUME ChoiceInv, LookUpAlternatives \/ LookUpValley
  PROVE  ChoiceInv'
<1> USE DEF ChoiceInv, RequestTyped, DecidedFromKnown, MissingIsNamed, Fields, Before, Decided,
            Unavailable
<1>1. CASE LookUpAlternatives
  BY <1>1 DEF LookUpAlternatives
<1>2. CASE LookUpValley
  BY <1>2 DEF LookUpValley
<1> QED
  BY <1>1, <1>2

LEMMA ChoiceDecides ==
  ASSUME ChoiceInv, DecideActivity
  PROVE  ChoiceInv'
<1>1. DOMAIN request = Fields /\ request.at = "decide" /\ world' = world
  BY DEF ChoiceInv, RequestTyped, DecideActivity
<1> DEFINE r == WithDecision(request)
<1>2. /\ DOMAIN r = Fields /\ r.decided = TRUE
      /\ r.answer.choice = Best(Conditions(world), request.kind, request.tide)
      /\ \A f \in Fields \ {"decided", "answer"} : r[f] = request[f]
  BY <1>1, DecisionOf
<1>3. PICK at \in Decided : request' = [r EXCEPT !.at = at]
  BY DEF DecideActivity, Decided
<1> HIDE DEF r
<1>4. /\ DOMAIN request' = Fields /\ request'.at = at /\ request'.decided = TRUE
      /\ request'.answer = r.answer
      /\ request'.kind = request.kind /\ request'.tide = request.tide
      /\ request'.lost = request.lost /\ request'.valley = request.valley
  BY <1>2, <1>3 DEF Fields
<1> QED
  BY <1>1, <1>2, <1>4 DEF ChoiceInv, RequestTyped, DecidedFromKnown, MissingIsNamed, Before, Decided

LEMMA ChoiceTimesOut ==
  ASSUME ChoiceInv, ContextTimesOut
  PROVE  ChoiceInv'
<1> DEFINE late == Unavailable(request, "context")
           r == IF late.decided THEN late ELSE WithDecision(late)
<1>1. DOMAIN request = Fields /\ request.at \notin {"decide", "done"} /\ world' = world
  BY DEF ChoiceInv, RequestTyped, ContextTimesOut
<1>2. /\ DOMAIN late = Fields /\ late.lost = request.lost \cup {"context"}
      /\ \A f \in Fields \ {"lost"} : late[f] = request[f]
  BY <1>1 DEF Unavailable, Fields
<1>3. request' = [r EXCEPT !.at = "done"]
  BY DEF ContextTimesOut
<1> HIDE DEF late
<1>4. /\ DOMAIN r = Fields /\ r.decided = TRUE
      /\ r.answer.choice = Best(Conditions(world), request.kind, request.tide)
      /\ \A f \in Fields \ {"decided", "answer"} : r[f] = late[f]
  <2>1. CASE late.decided
    <3>1. request.at \in Decided
      BY <1>2, <2>1 DEF ChoiceInv, RequestTyped, DecidedFromKnown, Fields
    <3> QED
      BY <1>2, <2>1, <3>1 DEF ChoiceInv, DecidedFromKnown, Fields
  <2>2. CASE ~late.decided
    <3>1. late.kind = request.kind /\ late.tide = request.tide
      BY <1>2 DEF Fields
    <3> QED
      BY <1>2, <2>2, <3>1, DecisionOf
  <2> QED
    BY <2>1, <2>2
<1> HIDE DEF r
<1>5. /\ DOMAIN request' = Fields /\ request'.at = "done" /\ request'.decided = TRUE
      /\ request'.answer = r.answer
      /\ request'.kind = request.kind /\ request'.tide = request.tide
      /\ request'.lost = request.lost \cup {"context"} /\ request'.valley = request.valley
  BY <1>2, <1>3, <1>4 DEF Fields
<1> QED
  BY <1>1, <1>4, <1>5 DEF ChoiceInv, RequestTyped, DecidedFromKnown, MissingIsNamed, Before, Decided

\* ChoiceInv is inductive.
THEOREM ChoiceInvariant == ChoiceSpec => []ChoiceInv
<1>1. ChoiceInit => ChoiceInv
  BY ChoiceStart
<1>2. ChoiceInv /\ [ChoiceNext]_choiceVars => ChoiceInv'
  <2> SUFFICES ASSUME ChoiceInv, [ChoiceNext]_choiceVars PROVE ChoiceInv'
    OBVIOUS
  <2>1. CASE ChoiceNext
    BY <2>1, ChoiceLookUps, ChoiceAlternatives, ChoiceDecides, ChoiceTimesOut DEF ChoiceNext
  <2>2. CASE UNCHANGED choiceVars
    BY <2>2 DEF choiceVars, ChoiceInv, RequestTyped, DecidedFromKnown, MissingIsNamed
  <2> QED
    BY <2>1, <2>2
<1> QED
  BY <1>1, <1>2, PTL DEF ChoiceSpec

----------------------------------------------------------------------------
\* The choice depends on the conditions through the ranks only.
Chosen(live, rank) ==
  IF live = {} THEN NoChoice
  ELSE CHOOSE a \in live : \A b \in live \ {a} : Ahead(rank[a], rank[b])

LEMMA BestIsChosen ==
  ASSUME NEW es, NEW kind, NEW tide
  PROVE  Best(es, kind, tide) =
           Chosen(Eligible(es, kind),
                  [a \in Eligible(es, kind) |-> Rank(a, es[a], kind, tide)])
BY Zenon DEF Best, Chosen

\* What is eligible does not depend on whether the kind of the place was looked up.
LEMMA KindIsKnown ==
  ASSUME NEW w \in Worlds, NEW kind \in {"unknown", w.kind}, NEW tide
  PROVE  /\ Eligible(Conditions(w), kind) = Eligible(Conditions(w), w.kind)
         /\ Best(Conditions(w), kind, tide) = Best(Conditions(w), w.kind, tide)
<1> DEFINE es == Conditions(w)
<1>1. \A a \in Activities : Inland(kind, es[a]) = Inland(w.kind, es[a])
  BY WorldsAreScored, ChoiceAssumption DEF Inland
<1>2. \A a \in Activities : Objection(a, es[a], kind) = Objection(a, es[a], w.kind)
  BY <1>1, Zenon DEF Objection
<1>3. \A a \in Activities : Rank(a, es[a], kind, tide) = Rank(a, es[a], w.kind, tide)
  <2>1. \A a \in Activities : Demoted(a, es[a], kind, tide) = Demoted(a, es[a], w.kind, tide)
    BY <1>1, <1>2, Zenon DEF Demoted
  <2> QED
    BY <2>1, Zenon DEF Rank
<1> HIDE DEF es
<1>4. Eligible(es, kind) = Eligible(es, w.kind)
  BY <1>2 DEF Eligible
<1>5. Eligible(es, kind) \in SUBSET Activities
  BY DEF Eligible
<1>6. [a \in Eligible(es, kind) |-> Rank(a, es[a], kind, tide)]
        = [a \in Eligible(es, w.kind) |-> Rank(a, es[a], w.kind, tide)]
  <2>1. \A a \in Eligible(es, kind) :
          Rank(a, es[a], kind, tide) = Rank(a, es[a], w.kind, tide)
    BY <1>3, <1>5
  <2> DEFINE f == [a \in Eligible(es, kind) |-> Rank(a, es[a], kind, tide)]
             g == [a \in Eligible(es, kind) |-> Rank(a, es[a], w.kind, tide)]
  <2>2. /\ DOMAIN f = Eligible(es, kind) /\ DOMAIN g = Eligible(es, kind)
        /\ \A a \in Eligible(es, kind) : f[a] = g[a]
    BY <2>1, Zenon
  <2>3. f = g
    <3>1. f = [a \in Eligible(es, kind) |-> f[a]] /\ g = [a \in Eligible(es, kind) |-> g[a]]
      OBVIOUS
    <3> HIDE DEF f, g
    <3> QED
      BY <2>2, <3>1
  <2> QED
    BY <1>4, <2>3, Zenon
<1>7. Best(es, kind, tide) = Best(es, w.kind, tide)
  BY <1>4, <1>6, BestIsChosen, Zenon
<1> QED
  BY <1>4, <1>7 DEF es

\* Inland the tide is of no account.
LEMMA NoTideInland ==
  ASSUME NEW es, NEW tide1, NEW tide2
  PROVE  Best(es, "inland", tide1) = Best(es, "inland", tide2)
<1>1. \A a \in Activities :
        Rank(a, es[a], "inland", tide1) = Rank(a, es[a], "inland", tide2)
  BY DEF Rank, Demoted, Inland
<1>2. Eligible(es, "inland") \in SUBSET Activities
  BY DEF Eligible
<1>3. [a \in Eligible(es, "inland") |-> Rank(a, es[a], "inland", tide1)]
        = [a \in Eligible(es, "inland") |-> Rank(a, es[a], "inland", tide2)]
  <2>1. \A a \in Eligible(es, "inland") :
          Rank(a, es[a], "inland", tide1) = Rank(a, es[a], "inland", tide2)
    BY <1>1, <1>2
  <2> DEFINE f == [a \in Eligible(es, "inland") |-> Rank(a, es[a], "inland", tide1)]
             g == [a \in Eligible(es, "inland") |-> Rank(a, es[a], "inland", tide2)]
  <2>2. /\ DOMAIN f = Eligible(es, "inland") /\ DOMAIN g = Eligible(es, "inland")
        /\ \A a \in Eligible(es, "inland") : f[a] = g[a]
    BY <2>1, Zenon
  <2>3. f = g
    <3>1. /\ f = [a \in Eligible(es, "inland") |-> f[a]]
          /\ g = [a \in Eligible(es, "inland") |-> g[a]]
      OBVIOUS
    <3> HIDE DEF f, g
    <3> QED
      BY <2>2, <3>1
  <2> QED
    BY <2>3
<1> QED
  BY <1>3, BestIsChosen, Zenon

\* What may not be recommended is objected to.
LEMMA EligibleIsPermitted ==
  ASSUME NEW es, NEW kind, NEW a \in Eligible(es, kind), NEW observed, NEW forecast,
         es[a].word = observed.word, forecast.word = observed.word,
         NEW real, Inland(kind, es[a]) <=> real = "inland"
  PROVE  Permitted(a, observed, forecast, real)
<1>1. Objection(a, es[a], kind) = "none"
  BY DEF Eligible
<1>2. ~Blocked(es[a])
      /\ ~(Inland(kind, es[a]) /\ a \in {"surf", "mudflat"})
      /\ ~(Inland(kind, es[a]) /\ a = "swim" /\ es[a].word # "supported")
      /\ ~(a = "onsen" /\ es[a].word # "supported")
  BY <1>1 DEF Objection
<1>3. ~Blocked(observed) /\ ~Blocked(forecast)
  BY <1>2 DEF Blocked
<1> QED
  BY <1>2, <1>3 DEF Permitted

\* No choice goes against what is officially known.
THEOREM OfficialWordHolds == ChoiceSpec => []OfficialWordIsFinal
<1>1. ChoiceInv => OfficialWordIsFinal
  <2> SUFFICES ASSUME ChoiceInv, request.at = "done" PROVE
        /\ request.answer.choice # NoChoice =>
             Permitted(request.answer.choice, world.observed[request.answer.choice],
                       world.forecast[request.answer.choice], world.kind)
        /\ request.valley # NoChoice =>
             Permitted(request.valley, world.valley[request.valley],
                       world.valley[request.valley], "inland")
    BY DEF OfficialWordIsFinal
  <2> DEFINE es == Conditions(world)
  <2>1. /\ world \in Worlds /\ request.kind \in {"unknown", world.kind}
        /\ request.answer.choice = Best(es, request.kind, request.tide)
        /\ request.valley \in {NoChoice, Best(world.valley, "unknown", "unknown")}
    BY DEF ChoiceInv, RequestTyped, DecidedFromKnown, Decided
  <2>2. /\ Scored(es) /\ Scored(world.valley)
        /\ \A a \in Activities : /\ es[a].kind = world.kind
                                 /\ es[a].word = world.observed[a].word
                                 /\ world.forecast[a].word = world.observed[a].word
                                 /\ world.valley[a].kind = "inland"
    BY <2>1, WorldsAreScored, ChoiceAssumption
  <2> HIDE DEF es
  <2>3. ASSUME request.answer.choice # NoChoice
        PROVE  Permitted(request.answer.choice, world.observed[request.answer.choice],
                         world.forecast[request.answer.choice], world.kind)
    <3> DEFINE a == request.answer.choice
    <3>1. a \in Eligible(es, request.kind) /\ a \in Activities
      BY <2>1, <2>2, <2>3, BestIsEligible
    <3>2. Inland(request.kind, es[a]) <=> world.kind = "inland"
      BY <2>1, <2>2, <3>1 DEF Inland
    <3> HIDE DEF a
    <3>3. Permitted(a, world.observed[a], world.forecast[a], world.kind)
      BY <2>2, <3>1, <3>2, EligibleIsPermitted
    <3> QED
      BY <3>3 DEF a
  <2>4. ASSUME request.valley # NoChoice
        PROVE  Permitted(request.valley, world.valley[request.valley],
                         world.valley[request.valley], "inland")
    <3> DEFINE a == request.valley
    <3>1. a \in Eligible(world.valley, "unknown") /\ a \in Activities
      BY <2>1, <2>2, <2>4, BestIsEligible
    <3>2. Inland("unknown", world.valley[a]) <=> "inland" = "inland"
      BY <2>2, <3>1 DEF Inland
    <3> HIDE DEF a
    <3>3. Permitted(a, world.valley[a], world.valley[a], "inland")
      BY <3>1, <3>2, EligibleIsPermitted
    <3> QED
      BY <3>3 DEF a
  <2> QED
    BY <2>3, <2>4
<1> QED
  BY <1>1, ChoiceInvariant, PTL

\* A recommendation degrades openly.
THEOREM DegradationIsOpen == ChoiceSpec => []DegradesOpenly
<1>1. ChoiceInv => DegradesOpenly
  <2> SUFFICES ASSUME ChoiceInv, request.at = "done" PROVE
        LET full == Best(Conditions(world), world.kind, world.tide)
            dry  == Best(Conditions(world), world.kind, "unknown")
        IN  /\ request.decided
            /\ request.answer.choice \in {full, dry}
            /\ request.answer.choice # full =>
                 {"place", "tide", "context"} \cap request.lost # {}
            /\ request.answer.choice = NoChoice => full = NoChoice
    BY DEF DegradesOpenly
  <2> DEFINE es == Conditions(world)
             choice == request.answer.choice
  <2>1. /\ world \in Worlds /\ request.decided
        /\ request.kind \in {"unknown", world.kind}
        /\ request.tide \in {"unknown", world.tide}
        /\ choice = Best(es, request.kind, request.tide)
    BY DEF ChoiceInv, RequestTyped, DecidedFromKnown, Decided
  <2>2. /\ choice = Best(es, world.kind, request.tide)
        /\ Scored(es) /\ world.kind \in {"beach", "inland"}
    BY <2>1, KindIsKnown, WorldsAreScored, ChoiceAssumption
  <2>3. Best(es, world.kind, request.tide) # Best(es, world.kind, world.tide) =>
          {"place", "tide", "context"} \cap request.lost # {}
    <3>1. CASE world.kind = "inland"
      BY <3>1, NoTideInland
    <3>2. CASE world.kind = "beach" /\ request.tide # world.tide
      BY <3>2 DEF ChoiceInv, MissingIsNamed
    <3>3. CASE request.tide = world.tide
      BY <3>3
    <3> QED
      BY <2>2, <3>1, <3>2, <3>3
  <2>4. choice = NoChoice => Best(es, world.kind, world.tide) = NoChoice
    <3>1. ASSUME choice = NoChoice PROVE Eligible(es, world.kind) = {}
      <4>1. NoChoice \notin Activities
        BY FiveActivities DEF NoChoice
      <4> QED
        BY <2>2, <3>1, <4>1, BestIsEligible
    <3> QED
      BY <2>2, <3>1, BestIsEligible
  <2> QED
    BY <2>1, <2>2, <2>3, <2>4
<1> QED
  BY <1>1, ChoiceInvariant, PTL

(***************************************************************************)
(* The page of a place: details and photo.                                 *)
(***************************************************************************)

\* What the provider tells now, and when it was modified.
Content == record.content
Now == record.modified

Steps == {"idle", "due", "common", "intro", "info", "store"}
Requested(step) == CASE step = "intro" -> 1 [] step = "info" -> 2 [] step = "store" -> 3
                     [] OTHER -> 0
Collection == [step : Steps, modified : Nat, parts : Seq(Tellings)]
Detail == [parts : Seq(Tellings), modified : Nat]

DetailsTyped ==
  /\ record \in [content : Tellings, modified : Nat \ {0}]
  /\ listed \in Nat /\ listed <= Now
  /\ details \in Seq(Detail)
  /\ active \in 0 .. Len(details)
  /\ attempt \in [state : {"none", "failed", "available"}, modified : Nat,
                  retry : {"now", "later", "never"}]
  /\ collector \in [Collectors -> Collection]

\* One collector at a time fetches a place.
OneFetches ==
  \A c, d \in Collectors :
    collector[c].step \notin {"idle", "due"} /\ collector[d].step \notin {"idle", "due"} => c = d

\* Parts that are all the same content.
AllOf(parts, content) == \A i \in 1 .. Len(parts) : parts[i] = content

\* What is fetched for the date of the record now is what the provider tells now.
FetchedNow ==
  \A c \in Collectors :
    /\ collector[c].modified <= Now
    /\ Len(collector[c].parts) = Requested(collector[c].step)
    /\ collector[c].modified = Now => AllOf(collector[c].parts, Content)

StoredNow ==
  \A i \in DOMAIN details :
    /\ details[i].modified <= Now
    /\ Len(details[i].parts) = 3
    /\ details[i].modified = Now => AllOf(details[i].parts, Content)

AttemptFits ==
  attempt.state = "available" =>
    active # 0 /\ details[active].modified = attempt.modified

\* Details of the date of the record now.
Fresh(i) == i \in DOMAIN details /\ details[i].modified = Now

\* Once there are such details nothing else is fetched or in force, although a
\* collector that was late may put an older date on it.
NothingOlderReturns ==
  (\E i \in DOMAIN details : Fresh(i)) =>
    /\ \A c \in Collectors : AllOf(collector[c].parts, Content)
    /\ active # 0 /\ AllOf(details[active].parts, Content)

DetailsInv == /\ DetailsTyped /\ OneFetches /\ FetchedNow /\ StoredNow /\ AttemptFits
              /\ NothingOlderReturns

Photo == [photo : Photos, modified : Nat]
Verdicts == {"available", "restricted", "no_image"}
WithPhoto == {"reuse", "download", "persist"}

PicturesTyped ==
  /\ files \in SUBSET Photos
  /\ attachment \in SUBSET [photo : Photos, modified : Nat, status : {"active", "superseded"}]
  /\ shown \in [Spots -> Photo \cup {NoPhoto}]
  /\ tried \in [Spots -> [state : Verdicts \cup {"none", "failed"}, detail : 0 .. Len(details),
                          retry : {"now", "later", "never"}]]
  /\ album \in [step : {"idle", "next", "find"} \cup WithPhoto, todo : SUBSET Spots,
                spot : Spots \cup {"none"}, detail : 0 .. Len(details),
                photo : Photo \cup {NoPhoto}]
  /\ album.step \notin {"idle", "next"} => album.spot \in Spots
  /\ album.step # "idle" => album.detail # 0
  /\ album.step \in WithPhoto => album.photo \in Photo
  /\ album.step = "persist" => album.photo.photo \in files

\* One row of the record is in force.
OneInForce ==
  \A a, b \in attachment : a.status = "active" /\ b.status = "active" => a = b

\* What is shown is there.
ShownIsThere ==
  \A s \in Spots : shown[s] # NoPhoto => InForce(shown[s]) /\ shown[s].photo \in files

\* Of places tried with fresh details.
TriedFresh(s) == Fresh(tried[s].detail)

FreshIsAllowed ==
  \A s \in Spots : TriedFresh(s) =>
    /\ tried[s].state = "available" =>
         shown[s].photo = Allowed(Content) /\ Allowed(Content) \in Photos
    /\ tried[s].state \in Verdicts \ {"available"} =>
         shown[s] = NoPhoto /\ Allowed(Content) = "none"

\* The photos are collected from what the provider tells now, once they have been
\* for one place.
AlbumIsFresh ==
  /\ (\E s \in Spots : TriedFresh(s)) /\ album.step # "idle" =>
       details[album.detail].parts[1] = Content
  /\ album.step \in WithPhoto /\ (\/ Fresh(album.detail)
                                  \/ \E s \in Spots : TriedFresh(s) /\ tried[s].state = "available")
       => album.photo.photo = Allowed(Content)

PicturesInv == PicturesTyped /\ OneInForce /\ ShownIsThere /\ FreshIsAllowed /\ AlbumIsFresh

PageInv == DetailsInv /\ PicturesInv

----------------------------------------------------------------------------
(* The details.                                                            *)

Resting == {"idle", "due"}

LEMMA IdleIsCollection ==
  /\ Idle \in Collection /\ Idle.step = "idle" /\ Idle.modified = 0 /\ Len(Idle.parts) = 0
  /\ Requested("idle") = 0 /\ Requested("due") = 0 /\ Requested("common") = 0
  /\ Requested("intro") = 1 /\ Requested("info") = 2 /\ Requested("store") = 3
BY DEF Idle, Collection, Steps, Requested

\* What a collector may turn to without harm to the others.
MayTurnTo(c, v) ==
  /\ v \in Collection
  /\ v.modified <= Now
  /\ Len(v.parts) = Requested(v.step)
  /\ v.modified = Now => AllOf(v.parts, Content)
  /\ (\E i \in DOMAIN details : Fresh(i)) => AllOf(v.parts, Content)
  /\ v.step \in Resting \/ collector[c].step \notin Resting \/ ~Locked

LEMMA MayRest ==
  ASSUME DetailsInv, NEW c \in Collectors PROVE MayTurnTo(c, Idle)
<1>1. Now \in Nat
  BY DEF DetailsInv, DetailsTyped, Now
<1> QED
  BY <1>1, IdleIsCollection DEF MayTurnTo, AllOf, Resting

LEMMA CollectorTurns ==
  ASSUME DetailsInv, NEW c \in Collectors, NEW v, MayTurnTo(c, v),
         collector' = [collector EXCEPT ![c] = v],
         UNCHANGED <<record, listed, details, active>>,
         attempt' \in [state : {"none", "failed", "available"}, modified : Nat,
                       retry : {"now", "later", "never"}],
         AttemptFits'
  PROVE  DetailsInv'
<1> USE DEF DetailsInv
<1>1. collector' \in [Collectors -> Collection]
  BY DEF DetailsTyped, MayTurnTo
<1>2. collector'[c] = v /\ \A d \in Collectors \ {c} : collector'[d] = collector[d]
  BY DEF DetailsTyped
<1>3. Now' = Now /\ Content' = Content
  BY DEF Now, Content
<1>4. \A i : Fresh(i)' <=> Fresh(i)
  BY <1>3 DEF Fresh
<1>5. DetailsTyped'
  BY <1>1, <1>3 DEF DetailsTyped
<1>6. OneFetches'
  <2> SUFFICES ASSUME NEW a \in Collectors, NEW b \in Collectors,
                      collector'[a].step \notin Resting, collector'[b].step \notin Resting
               PROVE  a = b
    BY DEF OneFetches, Resting
  <2>1. \A d \in Collectors : collector'[d].step \notin Resting =>
          collector[d].step \notin Resting \/ (d = c /\ ~Locked)
    BY <1>2 DEF MayTurnTo
  <2>2. ~Locked => \A d \in Collectors : collector[d].step \in Resting
    BY DEF Locked, Resting
  <2> QED
    BY <2>1, <2>2 DEF OneFetches, Resting
<1>7. FetchedNow'
  BY <1>2, <1>3 DEF FetchedNow, MayTurnTo
<1>8. StoredNow'
  BY <1>3 DEF StoredNow
<1>9. NothingOlderReturns'
  <2> SUFFICES ASSUME \E i \in DOMAIN details : Fresh(i)
               PROVE  /\ \A d \in Collectors : AllOf(collector'[d].parts, Content)
                      /\ active # 0 /\ AllOf(details[active].parts, Content)
    BY <1>3, <1>4 DEF NothingOlderReturns
  <2> QED
    BY <1>2 DEF NothingOlderReturns, MayTurnTo
<1> QED
  BY <1>5, <1>6, <1>7, <1>8, <1>9

LEMMA DetailAt ==
  ASSUME DetailsInv, NEW i \in DOMAIN details
  PROVE  details[i] \in Detail /\ i \in 1 .. Len(details)
<1>1. details \in Seq(Detail)
  BY DEF DetailsInv, DetailsTyped
<1>2. DOMAIN details = 1 .. Len(details)
  BY <1>1
<1> QED
  BY <1>1, <1>2

Attempts == [state : {"none", "failed", "available"}, modified : Nat,
             retry : {"now", "later", "never"}]

LEMMA DetailsKept ==
  ASSUME DetailsInv, UNCHANGED <<record, details, active, collector>>,
         listed' \in Nat, listed' <= Now, attempt' \in Attempts, AttemptFits'
  PROVE  DetailsInv'
<1>1. Now' = Now /\ Content' = Content
  BY DEF Now, Content
<1>2. \A i : Fresh(i)' <=> Fresh(i)
  BY <1>1 DEF Fresh
<1>3. DetailsTyped'
  BY <1>1 DEF DetailsInv, DetailsTyped, Attempts
<1>4. OneFetches' /\ FetchedNow' /\ StoredNow'
  BY <1>1 DEF DetailsInv, OneFetches, FetchedNow, StoredNow
<1>5. NothingOlderReturns'
  BY <1>1, <1>2 DEF DetailsInv, NothingOlderReturns
<1> QED
  BY <1>3, <1>4, <1>5 DEF DetailsInv

\* A change of the attempt's retry time alone.
LEMMA RetryKept ==
  ASSUME DetailsInv, UNCHANGED active, UNCHANGED details,
         attempt' = attempt \/ \E when \in {"now", "later", "never"} :
                                 attempt' = [attempt EXCEPT !.retry = when]
  PROVE  attempt' \in Attempts /\ AttemptFits'
BY DEF DetailsInv, DetailsTyped, Attempts, AttemptFits

LEMMA ListOrWait ==
  ASSUME DetailsInv, ListPlaces \/ Rematch \/ NextDay \/ DetailRetryDue
  PROVE  DetailsInv'
<1>1. UNCHANGED <<record, details, active, collector>>
  BY DEF ListPlaces, Rematch, NextDay, DetailRetryDue
<1>2. listed' \in Nat /\ listed' <= Now
  BY DEF ListPlaces, Rematch, NextDay, DetailRetryDue, DetailsInv, DetailsTyped, Now
<1>3. attempt' = attempt \/ \E when \in {"now", "later", "never"} :
                              attempt' = [attempt EXCEPT !.retry = when]
  BY DEF ListPlaces, Rematch, NextDay, DetailRetryDue
<1>4. attempt' \in Attempts /\ AttemptFits'
  BY <1>1, <1>3, RetryKept
<1> QED
  BY <1>1, <1>2, <1>4, DetailsKept

\* After a change at the provider nothing is of the new date.
LEMMA Revised ==
  ASSUME DetailsInv, Revise
  PROVE  DetailsInv' /\ Now' = Now + 1 /\ \A i : ~Fresh(i)'
<1> USE DEF DetailsInv
<1>1. PICK told \in Tellings : record' = [content |-> told, modified |-> record.modified + 1]
  BY DEF Revise
<1>2. Now \in Nat /\ Now' = Now + 1 /\ Now' \in Nat \ {0} /\ record' \in [content : Tellings, modified : Nat \ {0}]
  BY <1>1 DEF DetailsTyped, Now
<1>3. UNCHANGED <<listed, details, active, attempt, collector>>
  BY DEF Revise
<1>4. DetailsTyped'
  BY <1>2, <1>3 DEF DetailsTyped
<1>5. OneFetches' /\ AttemptFits'
  BY <1>3 DEF OneFetches, AttemptFits
<1>6. ASSUME NEW c \in Collectors
      PROVE  /\ collector[c].modified <= Now' /\ collector[c].modified # Now'
             /\ Len(collector[c].parts) = Requested(collector[c].step)
  <2>1. collector[c].modified \in Nat
    BY DEF DetailsTyped, Collection
  <2> QED
    BY <1>2, <2>1 DEF FetchedNow
<1>7. FetchedNow'
  BY <1>3, <1>6 DEF FetchedNow
<1>8. ASSUME NEW i \in DOMAIN details
      PROVE  /\ details[i].modified <= Now' /\ details[i].modified # Now'
             /\ Len(details[i].parts) = 3
  <2>1. details[i].modified \in Nat
    BY DetailAt DEF Detail
  <2> QED
    BY <1>2, <2>1 DEF StoredNow
<1>9. StoredNow'
  BY <1>3, <1>8 DEF StoredNow
<1>10. \A i : ~Fresh(i)'
  BY <1>3, <1>8 DEF Fresh
<1>11. NothingOlderReturns'
  BY <1>10 DEF NothingOlderReturns
<1> QED
  BY <1>2, <1>4, <1>5, <1>7, <1>9, <1>10, <1>11

LEMMA BatchStarts ==
  ASSUME DetailsInv, NEW c \in Collectors, StartBatch(c) \/ Lock(c)
  PROVE  DetailsInv'
<1>1. UNCHANGED <<record, listed, details, active, attempt>>
  BY DEF StartBatch, Lock
<1>2. attempt' \in Attempts /\ AttemptFits'
  BY <1>1 DEF DetailsInv, DetailsTyped, Attempts, AttemptFits
<1>3. collector \in [Collectors -> Collection] /\ listed \in Nat /\ listed <= Now /\ Now \in Nat
  BY DEF DetailsInv, DetailsTyped, Now
<1>4. \E v : MayTurnTo(c, v) /\ collector' = [collector EXCEPT ![c] = v]
  <2>1. CASE StartBatch(c)
    <3> DEFINE v == [Idle EXCEPT !.step = "due", !.modified = listed]
    <3>1. collector[c] = Idle
      BY <2>1 DEF StartBatch
    <3>2. v = [step |-> "due", modified |-> listed, parts |-> <<>>]
      <4>1. [Idle EXCEPT !.step = "due"] = [step |-> "due", modified |-> 0, parts |-> <<>>]
        BY DEF Idle
      <4>2. v = [[Idle EXCEPT !.step = "due"] EXCEPT !.modified = listed]
        BY Zenon
      <4>3. [[step |-> "due", modified |-> 0, parts |-> <<>>] EXCEPT !.modified = listed]
              = [step |-> "due", modified |-> listed, parts |-> <<>>]
        OBVIOUS
      <4> QED
        BY <4>1, <4>2, <4>3, Zenon
    <3>3. MayTurnTo(c, v)
      BY <1>3, <3>2, IdleIsCollection DEF MayTurnTo, Collection, Steps, AllOf, Resting
    <3>4. collector' = [collector EXCEPT ![c] = v] \/ collector' = [collector EXCEPT ![c] = Idle]
      BY <1>3, <2>1, <3>1 DEF StartBatch
    <3> QED
      BY <3>3, <3>4, MayRest
  <2>2. CASE Lock(c)
    <3> DEFINE v == [collector[c] EXCEPT !.step = "common"]
    <3>1. collector[c].step = "due" /\ collector[c] \in Collection
      BY <1>3, <2>2 DEF Lock
    <3>2. v = [step |-> "common", modified |-> collector[c].modified,
               parts |-> collector[c].parts]
      BY <3>1 DEF Collection
    <3>3. CASE ~Locked
      <4>1. /\ collector[c].modified <= Now
            /\ Len(collector[c].parts) = 0
        BY <3>1, IdleIsCollection DEF DetailsInv, FetchedNow
      <4>2. MayTurnTo(c, v)
        BY <3>1, <3>2, <3>3, <4>1, IdleIsCollection DEF MayTurnTo, Collection, Steps, AllOf, Resting
      <4>3. collector' = [collector EXCEPT ![c] = v] \/ collector' = [collector EXCEPT ![c] = Idle]
        BY <1>3, <2>2, <3>3 DEF Lock
      <4> QED
        BY <4>2, <4>3, MayRest
    <3>4. CASE Locked
      <4>1. collector' = [collector EXCEPT ![c] = Idle]
        BY <1>3, <2>2, <3>4 DEF Lock
      <4> QED
        BY <4>1, MayRest
    <3> QED
      BY <3>3, <3>4
  <2> QED
    BY <2>1, <2>2
<1> QED
  BY <1>1, <1>2, <1>4, CollectorTurns DEF Attempts

LEMMA PartRequested ==
  ASSUME DetailsInv, NEW c \in Collectors, Request(c)
  PROVE  DetailsInv'
<1>1. UNCHANGED <<record, listed, details, active, attempt>>
  BY DEF Request
<1>2. attempt' \in Attempts /\ AttemptFits'
  BY <1>1 DEF DetailsInv, DetailsTyped, Attempts, AttemptFits
<1>3. collector \in [Collectors -> Collection] /\ Content \in Tellings
  BY DEF DetailsInv, DetailsTyped, Content
<1> DEFINE old == collector[c]
           v == [step |-> Following(old.step), modified |-> old.modified,
                 parts |-> Append(old.parts, Content)]
<1>4. old \in Collection /\ old.step \in {"common", "intro", "info"}
  BY <1>3 DEF Request, Fetching
<1> DEFINE one == [step |-> Following(old.step), modified |-> old.modified, parts |-> old.parts]
           mid == [collector EXCEPT ![c].step = Following(@)]
<1>5. mid = [collector EXCEPT ![c] = one]
  <2>1. [old EXCEPT !.step = Following(@)] = one
    BY <1>4 DEF Collection
  <2>2. mid = [collector EXCEPT ![c] = [old EXCEPT !.step = Following(@)]]
    BY Zenon
  <2> QED
    BY <2>1, <2>2, Zenon
<1>6. collector' = [mid EXCEPT ![c].parts = Append(@, Content)]
  BY Zenon DEF Request, Content
<1>7. collector' = [collector EXCEPT ![c] = v]
  <2>1. mid \in [Collectors -> [step : {Following(old.step)} \cup Steps, modified : Nat,
                               parts : Seq(Tellings)]] /\ mid[c] = one
    BY <1>3, <1>4, <1>5 DEF Collection
  <2>2. \A d \in Collectors \ {c} : mid[d] = collector[d]
    BY <1>3, <1>5
  <2> HIDE DEF mid
  <2>3. collector' = [mid EXCEPT ![c] = [mid[c] EXCEPT !.parts = Append(@, Content)]]
    BY <1>6, Zenon
  <2>4. [mid[c] EXCEPT !.parts = Append(@, Content)] = v
    <3>1. [one EXCEPT !.parts = Append(@, Content)] = v
      OBVIOUS
    <3> QED
      BY <2>1, <3>1, Zenon
  <2>5. collector' = [mid EXCEPT ![c] = v]
    BY <2>3, <2>4, Zenon
  <2> QED
    BY <1>3, <2>1, <2>2, <2>5
<1>8. MayTurnTo(c, v)
  <2>1. /\ old.modified <= Now /\ Len(old.parts) = Requested(old.step)
        /\ old.modified = Now => AllOf(old.parts, Content)
        /\ (\E i \in DOMAIN details : Fresh(i)) => AllOf(old.parts, Content)
    BY DEF DetailsInv, FetchedNow, NothingOlderReturns
  <2>2. old.parts \in Seq(Tellings) /\ old.modified \in Nat
    BY <1>4 DEF Collection
  <2>3. /\ Following(old.step) \in Steps
        /\ Requested(Following(old.step)) = Requested(old.step) + 1
    BY <1>4, IdleIsCollection DEF Following, Steps
  <2> DEFINE parts == Append(old.parts, Content)
  <2>4. parts \in Seq(Tellings) /\ Len(parts) = Len(old.parts) + 1
        /\ parts[Len(parts)] = Content
        /\ \A i \in 1 .. Len(old.parts) : parts[i] = old.parts[i]
    BY <1>3, <2>2
  <2>5. AllOf(old.parts, Content) => AllOf(parts, Content)
    <3>1. Len(old.parts) \in Nat /\ \A i \in 1 .. Len(parts) : i = Len(parts) \/ i \in 1 .. Len(old.parts)
      BY <2>2, <2>4
    <3> HIDE DEF parts
    <3> QED
      BY <2>4, <3>1 DEF AllOf
  <2>6. v.step = Following(old.step) /\ v.modified = old.modified /\ v.parts = parts
    OBVIOUS
  <2>7. v \in Collection
    BY <2>2, <2>3, <2>4 DEF Collection
  <2>8. Len(v.parts) = Requested(v.step)
    BY <2>1, <2>3, <2>4
  <2>9. old.step \notin Resting
    BY <1>4 DEF Resting
  <2> HIDE DEF parts, v
  <2> QED
    BY <2>1, <2>5, <2>6, <2>7, <2>8, <2>9 DEF MayTurnTo
<1> HIDE DEF v
<1> QED
  BY <1>1, <1>2, <1>7, <1>8, CollectorTurns DEF Attempts

\* A collector that gives up, whatever it records.
LEMMA GivesUp ==
  ASSUME DetailsInv, NEW c \in Collectors, Exhausted(c) \/ RequestFails(c) \/ CollectorDies(c)
  PROVE  DetailsInv'
<1>1. UNCHANGED <<record, listed, details, active>> /\ collector' = [collector EXCEPT ![c] = Idle]
  BY DEF Exhausted, RequestFails, CollectorDies
<1>2. attempt' \in Attempts /\ AttemptFits'
  <2>1. CASE attempt' = attempt
    BY <1>1, <2>1 DEF DetailsInv, DetailsTyped, Attempts, AttemptFits
  <2>2. CASE RequestFails(c)
    <3>1. collector[c].modified \in Nat
      BY DEF DetailsInv, DetailsTyped, Collection
    <3>2. attempt' = [state |-> "failed", modified |-> collector[c].modified, retry |-> "later"]
      BY <2>2 DEF RequestFails, Attempted
    <3> QED
      BY <3>1, <3>2 DEF Attempts, AttemptFits
  <2> QED
    BY <2>1, <2>2 DEF Exhausted, CollectorDies
<1> QED
  BY <1>1, <1>2, MayRest, CollectorTurns DEF Attempts

\* Details are stored under the numbers they keep.
Grown ==
  /\ Len(details) <= Len(details')
  /\ \A i \in DOMAIN details : i \in DOMAIN details' /\ details'[i] = details[i]

LEMMA DetailsStored ==
  ASSUME DetailsInv, NEW c \in Collectors, StoreDetails(c)
  PROVE  DetailsInv' /\ Grown /\ UNCHANGED record
<1> DEFINE old == collector[c]
           detail == [parts |-> old.parts, modified |-> old.modified]
<1>1. /\ UNCHANGED <<record, listed>> /\ collector' = [collector EXCEPT ![c] = Idle]
      /\ old.step = "store"
      /\ attempt' = [state |-> "available", modified |-> old.modified, retry |-> "never"]
  BY DEF StoreDetails, Attempted
<1>2. collector \in [Collectors -> Collection] /\ old \in Collection /\ details \in Seq(Detail)
      /\ record \in [content : Tellings, modified : Nat \ {0}]
      /\ active \in 0 .. Len(details) /\ Len(details) \in Nat /\ DOMAIN details = 1 .. Len(details)
  BY DEF DetailsInv, DetailsTyped
<1>3. /\ old.modified <= Now /\ Len(old.parts) = 3
      /\ old.modified = Now => AllOf(old.parts, Content)
  BY <1>1, IdleIsCollection DEF DetailsInv, FetchedNow
<1>4. detail \in Detail /\ detail.modified = old.modified /\ detail.parts = old.parts
  BY <1>2 DEF Collection, Detail
<1>5. /\ details' \in Seq(Detail) /\ Grown
      /\ active' \in 1 .. Len(details') /\ details'[active'] = detail
      /\ \A i \in DOMAIN details' :
           (i \in DOMAIN details /\ details'[i] = details[i]) \/ details'[i] = detail
  <2> HIDE DEF detail
  <2>1. CASE Contains(details, detail)
    <3>1. UNCHANGED details /\ active' = CHOOSE i \in DOMAIN details : details[i] = detail
      BY <2>1 DEF StoreDetails, detail
    <3>2. \E i \in DOMAIN details : details[i] = detail
      BY <1>2, <2>1 DEF Contains
    <3>3. active' \in DOMAIN details /\ details[active'] = detail
      BY <3>1, <3>2, Zenon
    <3> QED
      BY <1>2, <3>1, <3>3 DEF Grown
  <2>2. CASE ~Contains(details, detail)
    <3>1. details' = Append(details, detail) /\ active' = Len(details) + 1
      BY <2>2 DEF StoreDetails, detail
    <3>2. /\ details' \in Seq(Detail) /\ Len(details') = Len(details) + 1
          /\ DOMAIN details' = 1 .. Len(details) + 1
          /\ details'[Len(details) + 1] = detail
          /\ \A i \in 1 .. Len(details) : details'[i] = details[i]
      BY <1>2, <1>4, <3>1
    <3>3. \A i \in DOMAIN details' : i = Len(details) + 1 \/ i \in DOMAIN details
      BY <1>2, <3>2
    <3> QED
      BY <1>2, <3>1, <3>2, <3>3 DEF Grown
  <2> QED
    BY <2>1, <2>2
<1> HIDE DEF detail
<1>6. Now' = Now /\ Content' = Content
  BY <1>1 DEF Now, Content
<1>7. collector' \in [Collectors -> Collection] /\ collector'[c] = Idle
      /\ \A d \in Collectors \ {c} : collector'[d] = collector[d]
  BY <1>1, <1>2, IdleIsCollection
<1>8. DetailsTyped'
  <2>1. attempt' \in Attempts
    BY <1>1, <1>2 DEF Attempts, Collection
  <2>2. active' \in 0 .. Len(details')
    BY <1>5
  <2> QED
    BY <1>1, <1>5, <1>6, <1>7, <2>1, <2>2 DEF DetailsInv, DetailsTyped, Attempts
<1>9. OneFetches'
  BY <1>7, IdleIsCollection DEF DetailsInv, OneFetches
<1>10. FetchedNow'
  <2>1. MayTurnTo(c, Idle)
    BY MayRest
  <2> QED
    BY <1>6, <1>7, <2>1 DEF DetailsInv, FetchedNow, MayTurnTo
<1>11. StoredNow'
  BY <1>3, <1>4, <1>5, <1>6 DEF DetailsInv, StoredNow
<1>12. AttemptFits'
  <2>1. active' # 0
    BY <1>5
  <2> QED
    BY <1>1, <1>4, <1>5, <2>1 DEF AttemptFits
<1>13. NothingOlderReturns'
  <2> SUFFICES ASSUME NEW i \in DOMAIN details', details'[i].modified = Now
               PROVE  /\ \A d \in Collectors : AllOf(collector'[d].parts, Content)
                      /\ active' # 0 /\ AllOf(detail.parts, Content)
    BY <1>5, <1>6 DEF NothingOlderReturns, Fresh
  <2>1. active' # 0
    BY <1>5
  <2>2. AllOf(collector'[c].parts, Content)
    BY <1>7, IdleIsCollection DEF AllOf
  <2>3. CASE i \in DOMAIN details /\ details'[i] = details[i]
    <3>1. Fresh(i)
      BY <2>3 DEF Fresh
    <3>2. \A d \in Collectors : AllOf(collector[d].parts, Content)
      BY <2>3, <3>1 DEF DetailsInv, NothingOlderReturns
    <3> QED
      BY <1>4, <1>7, <2>1, <2>2, <3>2
  <2>4. CASE details'[i] = detail
    <3>1. AllOf(old.parts, Content)
      BY <1>3, <1>4, <2>4
    <3>2. ASSUME NEW d \in Collectors \ {c} PROVE AllOf(collector[d].parts, Content)
      <4>1. collector[d].step \in Resting
        BY <1>1 DEF DetailsInv, OneFetches, Resting
      <4>2. Len(collector[d].parts) = 0
        BY <4>1, IdleIsCollection DEF DetailsInv, FetchedNow, Resting
      <4> QED
        BY <4>2 DEF AllOf
    <3> QED
      BY <1>4, <1>7, <2>1, <2>2, <3>1, <3>2
  <2> QED
    BY <1>5, <2>3, <2>4
<1> QED
  BY <1>1, <1>5, <1>8, <1>9, <1>10, <1>11, <1>12, <1>13 DEF DetailsInv

LEMMA DetailsStart == DetailsInit => DetailsInv
<1> SUFFICES ASSUME DetailsInit PROVE DetailsInv
  OBVIOUS
<1>1. /\ record \in [content : Tellings, modified : {1}] /\ listed = 1 /\ details = <<>>
      /\ active = 0 /\ attempt = NoAttempt /\ collector = [c \in Collectors |-> Idle]
  BY DEF DetailsInit
<1>2. Now = 1 /\ \A i : ~Fresh(i)
  BY <1>1 DEF Now, Fresh
<1>3. DetailsTyped
  <2>1. <<>> \in Seq(Detail) /\ Len(<<>>) = 0
    OBVIOUS
  <2>2. NoAttempt \in Attempts
    BY DEF NoAttempt, Attempts
  <2>3. collector \in [Collectors -> Collection]
    BY <1>1, IdleIsCollection
  <2> QED
    BY <1>1, <1>2, <2>1, <2>2, <2>3 DEF DetailsTyped, Attempts
<1>4. \A c \in Collectors : collector[c] = Idle
  BY <1>1
<1>5. OneFetches /\ FetchedNow
  BY <1>2, <1>4, IdleIsCollection DEF OneFetches, FetchedNow, AllOf
<1>6. StoredNow /\ AttemptFits /\ NothingOlderReturns
  BY <1>1, <1>2 DEF StoredNow, AttemptFits, NothingOlderReturns, NoAttempt, Fresh
<1> QED
  BY <1>3, <1>5, <1>6 DEF DetailsInv

\* What a step of the details does to those that are stored and to the record.
DetailsMove ==
  /\ DetailsInv' /\ Grown
  /\ UNCHANGED record \/ \A i : ~Fresh(i)'

LEMMA DetailStepMoves ==
  ASSUME DetailsInv, DetailStep
  PROVE  DetailsMove
<1>1. ASSUME UNCHANGED details PROVE Grown
  BY <1>1 DEF Grown, DetailsInv, DetailsTyped
<1>2. CASE Revise
  BY <1>1, <1>2, Revised DEF Revise, DetailsMove
<1>3. CASE ListPlaces \/ Rematch \/ NextDay \/ DetailRetryDue
  <2>1. UNCHANGED <<record, details>>
    BY <1>3 DEF ListPlaces, Rematch, NextDay, DetailRetryDue
  <2> QED
    BY <1>1, <1>3, <2>1, ListOrWait DEF DetailsMove
<1>4. ASSUME NEW c \in Collectors, StoreDetails(c) PROVE DetailsMove
  BY <1>4, DetailsStored DEF DetailsMove
<1>5. ASSUME NEW c \in Collectors,
             \/ StartBatch(c) \/ Lock(c) \/ Exhausted(c) \/ Request(c) \/ RequestFails(c)
             \/ CollectorDies(c)
      PROVE  DetailsMove
  <2>1. UNCHANGED <<record, details>>
    BY <1>5 DEF StartBatch, Lock, Exhausted, Request, RequestFails, CollectorDies
  <2> QED
    BY <1>1, <1>5, <2>1, BatchStarts, PartRequested, GivesUp DEF DetailsMove
<1> QED
  BY <1>2, <1>3, <1>4, <1>5 DEF DetailStep

----------------------------------------------------------------------------
(* The photos.                                                             *)

\* While the details move on the photos stay as they are.
LEMMA PicturesKept ==
  ASSUME DetailsInv, PicturesInv, DetailsMove, UNCHANGED pictureVars
  PROVE  PicturesInv'
<1>1. UNCHANGED <<files, attachment, shown, tried, album>>
  BY DEF pictureVars
<1>2. /\ Len(details) \in Nat /\ DOMAIN details = 1 .. Len(details)
      /\ Len(details') \in Nat /\ DOMAIN details' = 1 .. Len(details')
      /\ Len(details) <= Len(details')
      /\ \A i \in 1 .. Len(details) : details'[i] = details[i]
  BY DEF DetailsMove, DetailsInv, DetailsTyped, Grown
<1>3. ASSUME NEW i \in 0 .. Len(details), Fresh(i)'
      PROVE  Fresh(i) /\ record' = record
  <2>1. record' = record
    BY <1>3 DEF DetailsMove
  <2>2. i \in 1 .. Len(details)
    BY <1>2, <1>3 DEF Fresh
  <2> QED
    BY <1>2, <1>3, <2>1, <2>2 DEF Fresh, Now
<1>4. /\ album.detail \in 0 .. Len(details)
      /\ \A s \in Spots : tried[s].detail \in 0 .. Len(details)
  BY DEF PicturesInv, PicturesTyped
<1>5. 0 .. Len(details) \in SUBSET (0 .. Len(details'))
  BY <1>2
<1>6. PicturesTyped'
  <2>1. tried' \in [Spots -> [state : Verdicts \cup {"none", "failed"}, detail : 0 .. Len(details)',
                             retry : {"now", "later", "never"}]]
    BY <1>1, <1>5 DEF PicturesInv, PicturesTyped
  <2>2. album' \in [step : {"idle", "next", "find"} \cup WithPhoto, todo : SUBSET Spots,
                   spot : Spots \cup {"none"}, detail : 0 .. Len(details)',
                   photo : Photo \cup {NoPhoto}]
    BY <1>1, <1>5 DEF PicturesInv, PicturesTyped
  <2> QED
    BY <1>1, <2>1, <2>2 DEF PicturesInv, PicturesTyped
<1>7. OneInForce' /\ ShownIsThere'
  BY <1>1 DEF PicturesInv, OneInForce, ShownIsThere, InForce
<1>8. \A s \in Spots : TriedFresh(s)' => TriedFresh(s) /\ record' = record
  BY <1>1, <1>3, <1>4 DEF TriedFresh
<1>9. FreshIsAllowed'
  <2> SUFFICES ASSUME NEW s \in Spots, TriedFresh(s)'
               PROVE  /\ tried'[s].state = "available" =>
                           shown'[s].photo = Allowed(Content') /\ Allowed(Content') \in Photos
                      /\ tried'[s].state \in Verdicts \ {"available"} =>
                           shown'[s] = NoPhoto /\ Allowed(Content') = "none"
    BY DEF FreshIsAllowed
  <2>1. TriedFresh(s) /\ Content' = Content
    BY <1>8 DEF Content
  <2> QED
    BY <1>1, <2>1 DEF PicturesInv, FreshIsAllowed
<1>10. AlbumIsFresh'
  <2>1. ASSUME NEW s \in Spots, TriedFresh(s)', album.step # "idle"
        PROVE  details'[album.detail].parts[1] = Content'
    <3>1. TriedFresh(s) /\ Content' = Content
      BY <1>8, <2>1 DEF Content
    <3>2. album.detail \in 1 .. Len(details)
      BY <1>2, <1>4, <2>1 DEF PicturesInv, PicturesTyped
    <3> QED
      BY <1>2, <2>1, <3>1, <3>2 DEF PicturesInv, AlbumIsFresh
  <2>2. ASSUME album.step \in WithPhoto, Fresh(album.detail)'
        PROVE  album.photo.photo = Allowed(Content')
    <3>1. Fresh(album.detail) /\ Content' = Content
      BY <1>1, <1>3, <1>4, <2>2 DEF Content
    <3> QED
      BY <2>2, <3>1 DEF PicturesInv, AlbumIsFresh
  <2>3. ASSUME album.step \in WithPhoto, NEW s \in Spots, TriedFresh(s)',
               tried[s].state = "available"
        PROVE  album.photo.photo = Allowed(Content')
    <3>1. TriedFresh(s) /\ Content' = Content
      BY <1>8, <2>3 DEF Content
    <3> QED
      BY <2>3, <3>1 DEF PicturesInv, AlbumIsFresh
  <2> QED
    BY <1>1, <2>1, <2>2, <2>3 DEF AlbumIsFresh
<1> QED
  BY <1>6, <1>7, <1>9, <1>10 DEF PicturesInv

\* What a place may show of a content.
LEMMA AllowedIs ==
  ASSUME NEW c \in Tellings
  PROVE  /\ Picture[c] \in Photos => Allowed(c) = Picture[c]
         /\ Picture[c] \notin Photos /\ Picture[c] # "unlisted" => Allowed(c) = "none"
         /\ Picture[c] = "unlisted" /\ Gallery[c] \in Photos => Allowed(c) = Gallery[c]
         /\ Picture[c] = "unlisted" /\ Gallery[c] \notin Photos => Allowed(c) = "none"
BY PicturesAssumption DEF Allowed

\* Two photos that are in force are the same.
LEMMA InForceIsOne ==
  ASSUME PicturesInv, NEW p, NEW q, InForce(p), InForce(q)
  PROVE  p = q /\ p \in Photo
<1>1. PICK a \in attachment : a.status = "active" /\ [photo |-> a.photo, modified |-> a.modified] = p
  BY DEF InForce
<1>2. PICK b \in attachment : b.status = "active" /\ [photo |-> b.photo, modified |-> b.modified] = q
  BY DEF InForce
<1>3. a = b
  BY <1>1, <1>2 DEF PicturesInv, OneInForce
<1>4. a.photo \in Photos /\ a.modified \in Nat
  BY DEF PicturesInv, PicturesTyped
<1> QED
  BY <1>1, <1>2, <1>3, <1>4 DEF Photo

LEMMA NoPhotoIsNone == NoPhoto.photo \notin Photos /\ NoPhoto \notin Photo
BY PicturesAssumption DEF NoPhoto, Photo

\* The details the album is about, if there are fresh ones or a place tried with
\* such, say what the provider tells now.
SomeTriedFresh == \E s \in Spots : TriedFresh(s)
SomeFreshPhoto == \E s \in Spots : TriedFresh(s) /\ tried[s].state = "available"

LEMMA AlbumTellsNow ==
  ASSUME PageInv, album.step # "idle"
  PROVE  /\ album.detail \in DOMAIN details
         /\ details[album.detail].parts[1] \in Tellings
         /\ details[album.detail].modified \in Nat
         /\ Fresh(album.detail) \/ SomeTriedFresh => details[album.detail].parts[1] = Content
<1>1. album.detail \in DOMAIN details
  BY DEF PageInv, PicturesInv, PicturesTyped, DetailsInv, DetailsTyped
<1>2. details[album.detail] \in Detail /\ Len(details[album.detail].parts) = 3
  BY <1>1, DetailAt DEF PageInv, DetailsInv, StoredNow
<1>3. Fresh(album.detail) => AllOf(details[album.detail].parts, Content)
  BY <1>1 DEF PageInv, DetailsInv, StoredNow, Fresh
<1>4. SomeTriedFresh => details[album.detail].parts[1] = Content
  BY DEF PageInv, PicturesInv, AlbumIsFresh, SomeTriedFresh
<1> QED
  BY <1>1, <1>2, <1>3, <1>4 DEF Detail, AllOf

\* What is found.
FoundFits(found) ==
  /\ found.photo \in Photos => found \in Photo
  /\ found.photo \notin Photos => found.photo \in {"restricted", "no_image"}
  /\ Fresh(album.detail) =>
       IF found.photo \in Photos THEN found.photo = Allowed(Content)
       ELSE Allowed(Content) = "none"
  /\ SomeFreshPhoto /\ found.photo \in Photos => found.photo = Allowed(Content)

LEMMA WhatIsFound ==
  ASSUME PageInv, album.step = "find", NEW found \in Found
  PROVE  FoundFits(found)
<1> DEFINE told == details[album.detail].parts[1]
           date == details[album.detail].modified
           dated(photo) == [photo |-> photo, modified |-> date]
<1>1. told \in Tellings /\ date \in Nat /\ Content \in Tellings
      /\ (Fresh(album.detail) \/ SomeFreshPhoto => told = Content)
  BY AlbumTellsNow DEF PageInv, DetailsInv, DetailsTyped, Content, SomeFreshPhoto, SomeTriedFresh
<1>2. \A photo : dated(photo).photo = photo /\ (photo \in Photos => dated(photo) \in Photo)
  BY <1>1 DEF Photo
<1>3. CASE Picture[told] # "unlisted"
  <2>1. found = dated(Picture[told])
    BY <1>3 DEF Found
  <2>2. Picture[told] \in Photos \cup {"restricted"}
    BY <1>1, <1>3, PicturesAssumption
  <2> HIDE DEF told, date, dated
  <2>3. found.photo = Picture[told] /\ (found.photo \in Photos => found \in Photo)
    BY <1>2, <2>1
  <2> QED
    BY <1>1, <1>3, <2>2, <2>3, AllowedIs DEF FoundFits
<1>4. CASE Picture[told] = "unlisted" /\ Neighbours = {}
  <2>1. found = dated(Gallery[Content])
    BY <1>4 DEF Found, Content
  <2>2. Gallery[Content] \in Photos \cup {"restricted", "no_image"}
    BY <1>1, PicturesAssumption
  <2> HIDE DEF told, date, dated
  <2>3. found.photo = Gallery[Content] /\ (found.photo \in Photos => found \in Photo)
    BY <1>2, <2>1
  <2> QED
    BY <1>1, <1>4, <2>2, <2>3, AllowedIs DEF FoundFits
<1>5. CASE Picture[told] = "unlisted" /\ Neighbours # {}
  <2>1. PICK t \in Neighbours :
          found = IF tried[t].state = "available" THEN shown[t] ELSE dated(tried[t].state)
    BY <1>5 DEF Found
  <2>2. /\ t \in Spots /\ tried[t].detail = album.detail /\ tried[t].state \notin {"none", "failed"}
        /\ tried[t].state = "available" => shown[t].photo \in ActivePhotos
    BY DEF Neighbours
  <2>3. tried[t].state \in Verdicts
    BY <2>2 DEF PageInv, PicturesInv, PicturesTyped
  <2>4. Fresh(album.detail) => TriedFresh(t)
    BY <2>2 DEF TriedFresh
  <2>5. CASE tried[t].state = "available"
    <3>1. found = shown[t]
      BY <2>1, <2>5
    <3>2. shown[t].photo \in Photos
      BY <2>2, <2>5 DEF ActivePhotos, PageInv, PicturesInv, PicturesTyped
    <3>3. InForce(shown[t]) /\ shown[t] \in Photo
      <4>1. shown[t] # NoPhoto
        BY <3>2, NoPhotoIsNone
      <4>2. InForce(shown[t])
        BY <2>2, <4>1 DEF PageInv, PicturesInv, ShownIsThere
      <4> QED
        BY <4>2, InForceIsOne DEF PageInv
    <3>4. Fresh(album.detail) => shown[t].photo = Allowed(Content)
      BY <2>2, <2>4, <2>5 DEF PageInv, PicturesInv, FreshIsAllowed
    <3>5. ASSUME NEW s \in Spots, TriedFresh(s), tried[s].state = "available"
          PROVE  shown[t].photo = Allowed(Content)
      <4>1. shown[s].photo = Allowed(Content) /\ Allowed(Content) \in Photos
        BY <3>5 DEF PageInv, PicturesInv, FreshIsAllowed
      <4>2. InForce(shown[s])
        BY <4>1, NoPhotoIsNone DEF PageInv, PicturesInv, ShownIsThere
      <4> QED
        BY <3>3, <4>1, <4>2, InForceIsOne DEF PageInv
    <3> QED
      BY <3>1, <3>2, <3>3, <3>4, <3>5 DEF FoundFits, SomeFreshPhoto
  <2>6. CASE tried[t].state # "available"
    <3>1. found = dated(tried[t].state) /\ tried[t].state \in {"restricted", "no_image"}
      BY <2>1, <2>3, <2>6 DEF Verdicts
    <3>2. found.photo = tried[t].state /\ found.photo \notin Photos
      <4> HIDE DEF dated
      <4> QED
        BY <1>2, <3>1, PicturesAssumption
    <3>3. Fresh(album.detail) => Allowed(Content) = "none"
      BY <2>2, <2>3, <2>4, <2>6 DEF PageInv, PicturesInv, FreshIsAllowed
    <3> QED
      BY <3>1, <3>2, <3>3 DEF FoundFits
  <2> QED
    BY <2>5, <2>6
<1> QED
  BY <1>3, <1>4, <1>5

Tries == [state : Verdicts \cup {"none", "failed"}, detail : 0 .. Len(details),
          retry : {"now", "later", "never"}]
Albums == [step : {"idle", "next", "find"} \cup WithPhoto, todo : SUBSET Spots,
           spot : Spots \cup {"none"}, detail : 0 .. Len(details), photo : Photo \cup {NoPhoto}]

\* While the details stay as they are.
LEMMA DetailsStay ==
  ASSUME UNCHANGED <<record, details>>
  PROVE  /\ Content' = Content /\ Now' = Now
         /\ \A i : Fresh(i)' <=> Fresh(i)
         /\ Tries' = Tries /\ Albums' = Albums
BY DEF Content, Now, Fresh, Tries, Albums

\* A check that is asked for or due again.
LEMMA RetriesAgain ==
  ASSUME PageInv, UNCHANGED <<record, details, files, attachment, shown, album>>,
         NEW s \in Spots, tried' = tried \/ tried' = [tried EXCEPT ![s].retry = "now"]
  PROVE  PicturesInv'
<1> USE DEF PageInv, PicturesInv
<1>1. tried \in [Spots -> Tries]
  BY DEF PicturesTyped, Tries
<1>2. tried' \in [Spots -> Tries]
      /\ \A t \in Spots : tried'[t].state = tried[t].state /\ tried'[t].detail = tried[t].detail
  <2> DEFINE again == [tried[s] EXCEPT !.retry = "now"]
  <2>1. again \in Tries /\ again.state = tried[s].state /\ again.detail = tried[s].detail
    BY <1>1 DEF Tries
  <2>2. tried' = tried \/ tried' = [tried EXCEPT ![s] = again]
    BY Zenon
  <2> HIDE DEF again
  <2> QED
    BY <1>1, <2>1, <2>2
<1>3. PicturesTyped'
  BY <1>2, DetailsStay DEF PicturesTyped, Tries
<1>4. OneInForce' /\ ShownIsThere'
  BY DEF OneInForce, ShownIsThere, InForce
<1>5. \A t \in Spots : TriedFresh(t)' <=> TriedFresh(t)
  BY <1>2, DetailsStay DEF TriedFresh
<1>6. FreshIsAllowed'
  BY <1>2, <1>5, DetailsStay DEF FreshIsAllowed
<1>7. Fresh(album.detail)' <=> Fresh(album.detail)
  BY DetailsStay
<1>8. AlbumIsFresh'
  BY <1>2, <1>5, <1>7, DetailsStay DEF AlbumIsFresh
<1> QED
  BY <1>3, <1>4, <1>6, <1>8

\* The album goes on, and nothing else changes.
LEMMA AlbumMoves ==
  ASSUME PageInv, UNCHANGED <<record, details, attachment, shown, tried>>,
         files' \in SUBSET Photos, files \in SUBSET files',
         album' \in Albums,
         album'.step \notin {"idle", "next"} => album'.spot \in Spots,
         album'.step # "idle" => album'.detail # 0,
         album'.step \in WithPhoto => album'.photo \in Photo,
         album'.step = "persist" => album'.photo.photo \in files',
         SomeTriedFresh /\ album'.step # "idle" => details[album'.detail].parts[1] = Content,
         album'.step \in WithPhoto /\ (Fresh(album'.detail) \/ SomeFreshPhoto) =>
           album'.photo.photo = Allowed(Content)
  PROVE  PicturesInv'
<1> USE DEF PageInv, PicturesInv
<1>1. PicturesTyped'
  BY DetailsStay DEF PicturesTyped, Albums
<1>2. OneInForce' /\ ShownIsThere'
  BY DEF OneInForce, ShownIsThere, InForce
<1>3. \A t \in Spots : TriedFresh(t)' <=> TriedFresh(t)
  BY DetailsStay DEF TriedFresh
<1>4. FreshIsAllowed'
  BY <1>3, DetailsStay DEF FreshIsAllowed
<1>5. Fresh(album.detail)' <=> Fresh(album'.detail)
  BY DetailsStay
<1>6. AlbumIsFresh'
  BY <1>3, <1>5, DetailsStay DEF AlbumIsFresh, SomeTriedFresh, SomeFreshPhoto
<1> QED
  BY <1>1, <1>2, <1>4, <1>6

LEMMA AlbumStarts ==
  ASSUME PageInv, StartAlbum, UNCHANGED detailVars
  PROVE  PicturesInv'
<1> DEFINE todo == {s \in Spots : PhotoDue(s)}
<1>1. album' = [step |-> "next", todo |-> todo, spot |-> "none", detail |-> active,
                photo |-> NoPhoto]
  <2>1. album' = [[[Closed EXCEPT !.step = "next"] EXCEPT !.detail = active] EXCEPT !.todo = todo]
    BY Zenon DEF StartAlbum
  <2> HIDE DEF todo
  <2> QED
    BY <2>1 DEF Closed
<1>2. active # 0 /\ active \in 0 .. Len(details) /\ UNCHANGED <<record, details>>
  <2>1. \E s \in Spots : PhotoDue(s)
    BY DEF StartAlbum
  <2>2. active # 0
    BY <2>1 DEF PhotoDue
  <2> QED
    BY <2>2 DEF detailVars, PageInv, DetailsInv, DetailsTyped
<1>3. UNCHANGED <<files, attachment, shown, tried>> /\ files \in SUBSET Photos
  BY DEF StartAlbum, PageInv, PicturesInv, PicturesTyped
<1>4. album' \in Albums
  BY <1>1, <1>2 DEF Albums
<1>5. SomeTriedFresh => details[active].parts[1] = Content
  <2> SUFFICES ASSUME SomeTriedFresh PROVE details[active].parts[1] = Content
    OBVIOUS
  <2>1. \E i \in DOMAIN details : Fresh(i)
    BY DEF SomeTriedFresh, TriedFresh, Fresh
  <2>2. AllOf(details[active].parts, Content)
    BY <2>1 DEF PageInv, DetailsInv, NothingOlderReturns
  <2>3. active \in DOMAIN details
    BY <1>2 DEF PageInv, DetailsInv, DetailsTyped
  <2> QED
    BY <2>2, <2>3 DEF PageInv, DetailsInv, StoredNow, AllOf
<1> HIDE DEF todo
<1> QED
  BY <1>1, <1>2, <1>3, <1>4, <1>5, AlbumMoves DEF WithPhoto

LEMMA AlbumTakesSpot ==
  ASSUME PageInv, NEW s \in Spots, NextSpot(s), UNCHANGED detailVars
  PROVE  PicturesInv'
<1>1. UNCHANGED <<record, details, files, attachment, shown, tried>> /\ files \in SUBSET Photos
  BY DEF NextSpot, detailVars, PageInv, PicturesInv, PicturesTyped
<1>2. album \in Albums /\ album.step = "next" /\ album.detail # 0
  BY DEF NextSpot, PageInv, PicturesInv, PicturesTyped, Albums
<1>3. album' = [step |-> "find", todo |-> album.todo \ {s}, spot |-> s,
                detail |-> album.detail, photo |-> album.photo]
  <2>1. album' = [[[album EXCEPT !.step = "find"] EXCEPT !.spot = s] EXCEPT !.todo = album.todo \ {s}]
    BY <1>2 DEF NextSpot, Albums
  <2> QED
    BY <1>2, <2>1 DEF Albums
<1>4. album' \in Albums
  BY <1>2, <1>3 DEF Albums
<1>5. SomeTriedFresh => details[album.detail].parts[1] = Content
  BY <1>2, AlbumTellsNow
<1> QED
  BY <1>1, <1>2, <1>3, <1>4, <1>5, AlbumMoves DEF WithPhoto

LEMMA AlbumCloses ==
  ASSUME PageInv, AlbumDies, UNCHANGED <<record, details>>
  PROVE  PicturesInv'
<1>1. UNCHANGED <<files, attachment, shown, tried>> /\ files \in SUBSET Photos
      /\ album' = Closed
  BY DEF AlbumDies, PageInv, PicturesInv, PicturesTyped
<1>2. Closed \in Albums /\ Closed.step = "idle"
  <2>1. Len(details) \in Nat
    BY DEF PageInv, DetailsInv, DetailsTyped
  <2> QED
    BY <2>1 DEF Closed, Albums
<1> QED
  BY <1>1, <1>2, AlbumMoves DEF WithPhoto

LEMMA FileSaved ==
  ASSUME PageInv, SaveFile, UNCHANGED detailVars
  PROVE  PicturesInv'
<1>1. UNCHANGED <<record, details, attachment, shown, tried>>
      /\ files' = files \cup {album.photo.photo}
  BY DEF SaveFile, detailVars
<1>2. album \in Albums /\ album.step = "download" /\ album.detail # 0 /\ album.spot \in Spots
      /\ album.photo \in Photo /\ files \in SUBSET Photos
  BY DEF SaveFile, PageInv, PicturesInv, PicturesTyped, Albums, WithPhoto
<1>3. album' = [step |-> "persist", todo |-> album.todo, spot |-> album.spot,
                detail |-> album.detail, photo |-> album.photo]
  BY <1>2 DEF SaveFile, Albums
<1>4. album' \in Albums
  BY <1>2, <1>3 DEF Albums, WithPhoto
<1>5. /\ SomeTriedFresh => details[album.detail].parts[1] = Content
      /\ Fresh(album.detail) \/ SomeFreshPhoto => album.photo.photo = Allowed(Content)
  BY <1>2, AlbumTellsNow DEF PageInv, PicturesInv, AlbumIsFresh, SomeFreshPhoto, WithPhoto
<1>6. files' \in SUBSET Photos /\ files \in SUBSET files' /\ album.photo.photo \in files'
  BY <1>1, <1>2 DEF Photo
<1> QED
  BY <1>1, <1>2, <1>3, <1>4, <1>5, <1>6, AlbumMoves

\* What is recorded of the place the album is about, and what the album goes on with.
LEMMA PlaceRecorded ==
  ASSUME PageInv, album.step \notin {"idle", "next"}, UNCHANGED <<record, details>>,
         NEW state \in Verdicts \cup {"failed"},
         tried' = [tried EXCEPT ![album.spot] = Tried(state)], album' = Continued
  PROVE  /\ album.spot \in Spots
         /\ tried' \in [Spots -> Tries] /\ album' \in Albums
         /\ album'.step \in {"idle", "next"} /\ (album'.step = "next" => album'.detail # 0)
         /\ tried'[album.spot].state = state /\ tried'[album.spot].detail = album.detail
         /\ \A s \in Spots \ {album.spot} : tried'[s] = tried[s]
         /\ \A s \in Spots \ {album.spot} : TriedFresh(s)' <=> TriedFresh(s)
         /\ \A s \in Spots : s = album.spot => (TriedFresh(s)' <=> Fresh(album.detail))
         /\ AlbumIsFresh'
<1>1. /\ album \in Albums /\ album.spot \in Spots /\ album.detail # 0
      /\ tried \in [Spots -> Tries]
  BY DEF PageInv, PicturesInv, PicturesTyped, Albums, Tries
<1>2. Tried(state) \in Tries /\ Tried(state).state = state /\ Tried(state).detail = album.detail
  BY <1>1 DEF Tried, Tries, Albums
<1>3. /\ tried' \in [Spots -> Tries] /\ tried'[album.spot] = Tried(state)
      /\ \A s \in Spots \ {album.spot} : tried'[s] = tried[s]
  BY <1>1, <1>2
<1>4. album' = [step |-> IF album.todo = {} THEN "idle" ELSE "next", todo |-> album.todo,
                spot |-> "none", detail |-> IF album.todo = {} THEN 0 ELSE album.detail,
                photo |-> NoPhoto]
  <2> DEFINE step == IF album.todo = {} THEN "idle" ELSE "next"
             detail == IF album.todo = {} THEN 0 ELSE album.detail
  <2>1. album' = [[[[album EXCEPT !.step = step] EXCEPT !.spot = "none"]
                     EXCEPT !.photo = NoPhoto] EXCEPT !.detail = detail]
    BY <1>1 DEF Continued, Albums
  <2> HIDE DEF step, detail
  <2>2. album' = [step |-> step, todo |-> album.todo, spot |-> "none", detail |-> detail,
                  photo |-> NoPhoto]
    BY <1>1, <2>1 DEF Albums
  <2> QED
    BY <2>2 DEF step, detail
<1>5. /\ album' \in Albums /\ album'.step \in {"idle", "next"}
      /\ album'.step = "next" => album'.detail = album.detail
  <2>1. Len(details) \in Nat
    BY DEF PageInv, DetailsInv, DetailsTyped
  <2> QED
    BY <1>1, <1>4, <2>1 DEF Albums
<1>6. \A s \in Spots \ {album.spot} : TriedFresh(s)' <=> TriedFresh(s)
  BY <1>3, DetailsStay DEF TriedFresh
<1>7. \A s \in Spots : s = album.spot => (TriedFresh(s)' <=> Fresh(album.detail))
  BY <1>2, <1>3, DetailsStay DEF TriedFresh
<1>8. AlbumIsFresh'
  <2>1. album'.step \notin WithPhoto
    BY <1>5 DEF WithPhoto
  <2>2. ASSUME NEW s \in Spots, TriedFresh(s)', album'.step # "idle"
        PROVE  details[album'.detail].parts[1] = Content
    <3>1. Fresh(album.detail) \/ SomeTriedFresh
      BY <1>6, <1>7, <2>2 DEF SomeTriedFresh
    <3> QED
      BY <1>5, <2>2, <3>1, AlbumTellsNow
  <2> QED
    BY <2>1, <2>2, DetailsStay DEF AlbumIsFresh
<1> QED
  BY <1>1, <1>2, <1>3, <1>5, <1>6, <1>7, <1>8

LEMMA PicturesTypedThen ==
  ASSUME PageInv, UNCHANGED <<record, details>>, files' = files,
         tried' \in [Spots -> Tries], album' \in Albums,
         album'.step \in {"idle", "next"}, album'.step = "next" => album'.detail # 0,
         shown' \in [Spots -> Photo \cup {NoPhoto}],
         attachment' \in SUBSET [photo : Photos, modified : Nat,
                                 status : {"active", "superseded"}]
  PROVE  PicturesTyped'
BY DetailsStay DEF PageInv, PicturesInv, PicturesTyped, Tries, Albums, WithPhoto

LEMMA PhotoFailed ==
  ASSUME PageInv, PhotoFails, UNCHANGED <<record, details>>
  PROVE  PicturesInv'
<1>1. /\ album.step \notin {"idle", "next"} /\ UNCHANGED <<files, attachment, shown>>
      /\ tried' = [tried EXCEPT ![album.spot] = Tried("failed")] /\ album' = Continued
  BY DEF PhotoFails
<1>2. /\ album.spot \in Spots
      /\ tried' \in [Spots -> Tries] /\ album' \in Albums
      /\ album'.step \in {"idle", "next"} /\ (album'.step = "next" => album'.detail # 0)
      /\ tried'[album.spot].state = "failed"
      /\ \A s \in Spots \ {album.spot} : tried'[s] = tried[s]
      /\ \A s \in Spots \ {album.spot} : TriedFresh(s)' <=> TriedFresh(s)
      /\ AlbumIsFresh'
  BY <1>1, PlaceRecorded
<1>3. PicturesTyped'
  BY <1>1, <1>2, PicturesTypedThen DEF PageInv, PicturesInv, PicturesTyped
<1>4. OneInForce' /\ ShownIsThere'
  BY <1>1 DEF PageInv, PicturesInv, OneInForce, ShownIsThere, InForce
<1>5. "failed" \notin Verdicts
  BY DEF Verdicts
<1>6. FreshIsAllowed'
  BY <1>1, <1>2, <1>5, DetailsStay DEF PageInv, PicturesInv, FreshIsAllowed, Verdicts
<1> QED
  BY <1>2, <1>3, <1>4, <1>6 DEF PicturesInv

LEMMA PhotoLookedFor ==
  ASSUME PageInv, Find, UNCHANGED detailVars
  PROVE  PicturesInv'
<1>1. UNCHANGED <<record, details, files, attachment>> /\ album.step = "find"
  BY DEF Find, detailVars
<1>2. PICK found \in Found :
        IF found.photo \in Photos
        THEN /\ album' = [album EXCEPT !.step = "reuse", !.photo = found]
             /\ UNCHANGED <<shown, tried>>
        ELSE /\ shown' = [shown EXCEPT ![album.spot] = NoPhoto]
             /\ tried' = [tried EXCEPT ![album.spot] = Tried(found.photo)]
             /\ album' = Continued
  BY Zenon DEF Find
<1>3. FoundFits(found)
  BY <1>1, WhatIsFound
<1>4. CASE found.photo \in Photos
  <2>1. album \in Albums /\ album.detail # 0 /\ album.spot \in Spots /\ files \in SUBSET Photos
    BY <1>1 DEF PageInv, PicturesInv, PicturesTyped, Albums
  <2>2. album' = [step |-> "reuse", todo |-> album.todo, spot |-> album.spot,
                  detail |-> album.detail, photo |-> found]
    <3>1. album' = [[album EXCEPT !.step = "reuse"] EXCEPT !.photo = found]
      BY <1>2, <1>4, <2>1 DEF Albums
    <3> QED
      BY <2>1, <3>1 DEF Albums
  <2>3. found \in Photo /\ (Fresh(album.detail) \/ SomeFreshPhoto => found.photo = Allowed(Content))
    BY <1>3, <1>4 DEF FoundFits
  <2>4. album' \in Albums
    BY <2>1, <2>2, <2>3 DEF Albums, WithPhoto
  <2>5. SomeTriedFresh => details[album.detail].parts[1] = Content
    BY <1>1, AlbumTellsNow
  <2>6. UNCHANGED <<shown, tried>>
    BY <1>2, <1>4
  <2> QED
    BY <1>1, <2>1, <2>2, <2>3, <2>4, <2>5, <2>6, AlbumMoves
<1>5. CASE found.photo \notin Photos
  <2> DEFINE state == found.photo
  <2>1. /\ state \in {"restricted", "no_image"}
        /\ Fresh(album.detail) => Allowed(Content) = "none"
    BY <1>3, <1>5 DEF FoundFits
  <2>2. /\ shown' = [shown EXCEPT ![album.spot] = NoPhoto]
        /\ tried' = [tried EXCEPT ![album.spot] = Tried(state)] /\ album' = Continued
    BY <1>2, <1>5
  <2> HIDE DEF state
  <2>3. /\ album.spot \in Spots
        /\ tried' \in [Spots -> Tries] /\ album' \in Albums
        /\ album'.step \in {"idle", "next"} /\ (album'.step = "next" => album'.detail # 0)
        /\ tried'[album.spot].state = state
        /\ \A s \in Spots \ {album.spot} : tried'[s] = tried[s]
        /\ \A s \in Spots \ {album.spot} : TriedFresh(s)' <=> TriedFresh(s)
        /\ \A s \in Spots : s = album.spot => (TriedFresh(s)' <=> Fresh(album.detail))
        /\ AlbumIsFresh'
    <3>1. state \in Verdicts \cup {"failed"} /\ album.step \notin {"idle", "next"}
      BY <1>1, <2>1 DEF Verdicts
    <3> QED
      BY <1>1, <2>2, <3>1, PlaceRecorded
  <2>4. /\ shown' \in [Spots -> Photo \cup {NoPhoto}] /\ shown'[album.spot] = NoPhoto
        /\ \A s \in Spots \ {album.spot} : shown'[s] = shown[s]
    BY <2>2, <2>3 DEF PageInv, PicturesInv, PicturesTyped
  <2>5. PicturesTyped'
    BY <1>1, <2>3, <2>4, PicturesTypedThen DEF PageInv, PicturesInv, PicturesTyped
  <2>6. OneInForce'
    BY <1>1 DEF PageInv, PicturesInv, OneInForce
  <2>7. \A p : InForce(p)' <=> InForce(p)
    BY <1>1 DEF InForce
  <2>8. ShownIsThere'
    <3> SUFFICES ASSUME NEW s \in Spots, shown'[s] # NoPhoto
                 PROVE  InForce(shown[s]) /\ shown'[s] = shown[s] /\ shown[s].photo \in files'
      BY <2>4, <2>7 DEF ShownIsThere, InForce
    <3> QED
      BY <1>1, <2>4 DEF PageInv, PicturesInv, ShownIsThere
  <2>9. FreshIsAllowed'
    <3> SUFFICES ASSUME NEW s \in Spots, TriedFresh(s)'
                 PROVE  /\ tried'[s].state = "available" =>
                             shown'[s].photo = Allowed(Content) /\ Allowed(Content) \in Photos
                        /\ tried'[s].state \in Verdicts \ {"available"} =>
                             shown'[s] = NoPhoto /\ Allowed(Content) = "none"
      BY <1>1, DetailsStay DEF FreshIsAllowed
    <3>1. CASE s = album.spot
      BY <2>1, <2>3, <2>4, <3>1
    <3>2. CASE s # album.spot
      BY <2>3, <2>4, <3>2 DEF PageInv, PicturesInv, FreshIsAllowed
    <3> QED
      BY <3>1, <3>2
  <2> QED
    BY <2>3, <2>5, <2>6, <2>8, <2>9 DEF PicturesInv
<1> QED
  BY <1>4, <1>5

\* The photo of the album becomes that of its place, and of those in links.
LEMMA PhotoLinked ==
  ASSUME PageInv, album.step \in WithPhoto, UNCHANGED <<record, details, files>>,
         NEW links, Link(links),
         \A s \in Spots : links[s] = shown[s] \/ (links[s] = album.photo /\ InForce(shown[s])),
         album.photo.photo \in files,
         attachment' \in SUBSET [photo : Photos, modified : Nat,
                                 status : {"active", "superseded"}],
         OneInForce', \E a \in attachment' : /\ a.status = "active"
                                             /\ [photo |-> a.photo, modified |-> a.modified]
                                                  = album.photo,
         \A s \in Spots : InForce(shown[s]) =>
           links[s] = album.photo \/ \E a \in attachment' :
             a.status = "active" /\ [photo |-> a.photo, modified |-> a.modified] = links[s]
  PROVE  PicturesInv'
<1> DEFINE photo == album.photo
           Stands(p) == \E a \in attachment' :
             a.status = "active" /\ [photo |-> a.photo, modified |-> a.modified] = p
<1>1. /\ album.step \notin {"idle", "next"}
      /\ tried' = [tried EXCEPT ![album.spot] = Tried("available")] /\ album' = Continued
      /\ shown' = [s \in Spots |-> IF s = album.spot THEN photo ELSE links[s]]
  BY DEF Link, WithPhoto
<1>2. /\ album.spot \in Spots
      /\ tried' \in [Spots -> Tries] /\ album' \in Albums
      /\ album'.step \in {"idle", "next"} /\ (album'.step = "next" => album'.detail # 0)
      /\ tried'[album.spot].state = "available"
      /\ \A s \in Spots \ {album.spot} : tried'[s] = tried[s]
      /\ \A s \in Spots \ {album.spot} : TriedFresh(s)' <=> TriedFresh(s)
      /\ \A s \in Spots : s = album.spot => (TriedFresh(s)' <=> Fresh(album.detail))
      /\ AlbumIsFresh'
  BY <1>1, PlaceRecorded DEF Verdicts
<1>3. photo \in Photo /\ photo.photo \in Photos
      /\ (Fresh(album.detail) \/ SomeFreshPhoto => photo.photo = Allowed(Content))
  BY DEF PageInv, PicturesInv, PicturesTyped, AlbumIsFresh, SomeFreshPhoto, Photo
<1>4. /\ \A s \in Spots : shown'[s] \in {photo, shown[s]}
      /\ shown'[album.spot] = photo
      /\ \A s \in Spots : shown'[s] = photo \/ (shown'[s] = shown[s] /\ links[s] = shown[s])
      /\ \A s \in Spots \ {album.spot} : shown[s] = NoPhoto => shown'[s] = NoPhoto
  <2>1. \A s \in Spots : shown[s] = NoPhoto => ~InForce(shown[s])
    BY InForceIsOne, NoPhotoIsNone DEF PageInv
  <2> QED
    BY <1>1, <1>2, <2>1
<1>5. shown' \in [Spots -> Photo \cup {NoPhoto}]
  <2>1. \A s \in Spots : shown'[s] \in Photo \cup {NoPhoto}
    BY <1>3, <1>4 DEF PageInv, PicturesInv, PicturesTyped
  <2> QED
    BY <1>1, <2>1
<1>6. PicturesTyped'
  BY <1>2, <1>5, PicturesTypedThen
<1>7. ShownIsThere'
  <2> SUFFICES ASSUME NEW s \in Spots, shown'[s] # NoPhoto
               PROVE  Stands(shown'[s]) /\ shown'[s].photo \in files'
    BY DEF ShownIsThere, InForce
  <2>1. CASE shown'[s] = photo
    BY <2>1
  <2>2. CASE shown'[s] # photo
    <3>1. shown'[s] = shown[s] /\ links[s] = shown[s]
      BY <1>4, <2>2
    <3>2. InForce(shown[s]) /\ shown[s].photo \in files
      BY <3>1 DEF PageInv, PicturesInv, ShownIsThere
    <3> QED
      BY <2>2, <3>1, <3>2
  <2> QED
    BY <2>1, <2>2
<1> HIDE DEF photo
<1>8. FreshIsAllowed'
  <2> SUFFICES ASSUME NEW s \in Spots, TriedFresh(s)'
               PROVE  /\ tried'[s].state = "available" =>
                           shown'[s].photo = Allowed(Content) /\ Allowed(Content) \in Photos
                      /\ tried'[s].state \in Verdicts \ {"available"} =>
                           shown'[s] = NoPhoto /\ Allowed(Content) = "none"
    BY DetailsStay DEF FreshIsAllowed
  <2>1. CASE s = album.spot
    BY <1>2, <1>3, <1>4, <2>1
  <2>2. CASE s # album.spot
    <3>1. TriedFresh(s) /\ tried'[s] = tried[s]
      BY <1>2, <2>2
    <3>2. CASE tried[s].state = "available"
      <4>1. SomeFreshPhoto
        BY <3>1, <3>2 DEF SomeFreshPhoto
      <4>2. shown[s].photo = Allowed(Content) /\ Allowed(Content) \in Photos
        BY <3>1, <3>2 DEF PageInv, PicturesInv, FreshIsAllowed
      <4> QED
        BY <1>3, <1>4, <3>1, <3>2, <4>1, <4>2
    <3>3. CASE tried[s].state \in Verdicts \ {"available"}
      <4>1. shown[s] = NoPhoto /\ Allowed(Content) = "none"
        BY <3>1, <3>3 DEF PageInv, PicturesInv, FreshIsAllowed
      <4> QED
        BY <1>4, <2>2, <3>1, <3>3, <4>1
    <3> QED
      BY <3>1, <3>2, <3>3
  <2> QED
    BY <2>1, <2>2
<1> QED
  BY <1>2, <1>6, <1>7, <1>8 DEF PicturesInv

LEMMA PhotoReused ==
  ASSUME PageInv, Reuse, UNCHANGED detailVars
  PROVE  PicturesInv'
<1>1. UNCHANGED <<record, details, files, attachment>> /\ album.step = "reuse"
  BY DEF Reuse, detailVars
<1>2. CASE InForce(album.photo) /\ album.photo.photo \in files
  <2>1. Link(shown)
    BY <1>2 DEF Reuse
  <2>2. attachment' \in SUBSET [photo : Photos, modified : Nat, status : {"active", "superseded"}]
        /\ OneInForce'
    BY <1>1 DEF PageInv, PicturesInv, PicturesTyped, OneInForce
  <2>3. \A p : InForce(p) => \E a \in attachment' :
          a.status = "active" /\ [photo |-> a.photo, modified |-> a.modified] = p
    BY <1>1 DEF InForce
  <2> QED
    BY <1>1, <1>2, <2>1, <2>2, <2>3, PhotoLinked DEF WithPhoto
<1>3. CASE ~(InForce(album.photo) /\ album.photo.photo \in files)
  <2>1. album' = [album EXCEPT !.step = "download"] /\ UNCHANGED <<shown, tried>>
    BY <1>3 DEF Reuse
  <2>2. album \in Albums /\ album.detail # 0 /\ album.spot \in Spots
        /\ album.photo \in Photo /\ files \in SUBSET Photos
    BY <1>1 DEF PageInv, PicturesInv, PicturesTyped, Albums, WithPhoto
  <2>3. album' = [step |-> "download", todo |-> album.todo, spot |-> album.spot,
                  detail |-> album.detail, photo |-> album.photo]
    BY <2>1, <2>2 DEF Albums
  <2>4. album' \in Albums
    BY <2>2, <2>3 DEF Albums, WithPhoto
  <2>5. /\ SomeTriedFresh => details[album.detail].parts[1] = Content
        /\ Fresh(album.detail) \/ SomeFreshPhoto => album.photo.photo = Allowed(Content)
    BY <1>1, AlbumTellsNow DEF PageInv, PicturesInv, AlbumIsFresh, SomeFreshPhoto, WithPhoto
  <2> QED
    BY <1>1, <2>1, <2>2, <2>3, <2>4, <2>5, AlbumMoves
<1> QED
  BY <1>2, <1>3

LEMMA PhotoPersists ==
  ASSUME PageInv, Persist, UNCHANGED detailVars
  PROVE  PicturesInv'
<1> DEFINE photo == album.photo
           row == [photo |-> photo.photo, modified |-> photo.modified, status |-> "active"]
           others == {b \in attachment : [photo |-> b.photo, modified |-> b.modified] # photo}
           links == [s \in Spots |-> IF InForce(shown[s]) THEN photo ELSE shown[s]]
           Photographs == [photo : Photos, modified : Nat, status : {"active", "superseded"}]
<1>1. /\ UNCHANGED <<record, details, files>> /\ album.step = "persist" /\ Link(links)
      /\ attachment' = {[a EXCEPT !.status = "superseded"] : a \in others} \cup {row}
  BY DEF Persist, detailVars
<1>2. photo \in Photo /\ photo.photo \in files /\ attachment \in SUBSET Photographs
  BY <1>1 DEF PageInv, PicturesInv, PicturesTyped, WithPhoto
<1>3. /\ row \in Photographs /\ row.status = "active"
      /\ [photo |-> row.photo, modified |-> row.modified] = photo
  BY <1>2 DEF Photo
<1> HIDE DEF row
<1>4. \A a \in attachment' : a \in Photographs /\ (a.status = "active" => a = row)
  <2> SUFFICES ASSUME NEW a \in attachment' PROVE a \in Photographs /\ (a.status = "active" => a = row)
    OBVIOUS
  <2>1. CASE a = row
    BY <1>3, <2>1
  <2>2. CASE a # row
    <3>1. PICK b \in others : a = [b EXCEPT !.status = "superseded"]
      BY <1>1, <2>2
    <3>2. b \in Photographs
      BY <1>2
    <3> QED
      BY <3>1, <3>2
  <2> QED
    BY <2>1, <2>2
<1>5. attachment' \in SUBSET Photographs /\ OneInForce'
  BY <1>4 DEF OneInForce
<1>6. \A s \in Spots : /\ links[s] = shown[s] \/ (links[s] = photo /\ InForce(shown[s]))
                       /\ InForce(shown[s]) => links[s] = photo
  OBVIOUS
<1>7. \E a \in attachment' : /\ a.status = "active"
                             /\ [photo |-> a.photo, modified |-> a.modified] = photo
  BY <1>1, <1>3
<1> HIDE DEF links, others
<1> QED
  BY <1>1, <1>2, <1>5, <1>6, <1>7, PhotoLinked DEF WithPhoto

LEMMA PageStart == DetailsInit /\ PicturesInit => PageInv
<1> SUFFICES ASSUME DetailsInit, PicturesInit PROVE PageInv
  OBVIOUS
<1>1. DetailsInv
  BY DetailsStart
<1>2. details = <<>> /\ Len(details) = 0 /\ \A i : ~Fresh(i)
  BY DEF DetailsInit, Fresh
<1>3. /\ files = {} /\ attachment = {} /\ shown = [s \in Spots |-> NoPhoto]
      /\ tried = [s \in Spots |-> NotTried] /\ album = Closed
  BY DEF PicturesInit
<1>4. PicturesTyped
  BY <1>2, <1>3 DEF PicturesTyped, NotTried, Closed, WithPhoto
<1>5. OneInForce /\ ShownIsThere /\ FreshIsAllowed /\ AlbumIsFresh
  BY <1>2, <1>3 DEF OneInForce, ShownIsThere, FreshIsAllowed, AlbumIsFresh, TriedFresh, Closed,
                    WithPhoto
<1> QED
  BY <1>1, <1>4, <1>5 DEF PageInv, PicturesInv

LEMMA PictureSteps ==
  ASSUME PageInv, PictureStep
  PROVE  PageInv'
<1>1. CASE /\ \/ StartAlbum \/ Find \/ Reuse \/ SaveFile \/ Persist
              \/ \E s \in Spots : PhotoRetryDue(s) \/ NextSpot(s)
           /\ UNCHANGED detailVars
  <2>1. DetailsInv'
    <3>1. UNCHANGED <<record, listed, details, active, attempt, collector>>
      BY <1>1 DEF detailVars
    <3>2. listed' \in Nat /\ listed' <= Now
      BY <3>1 DEF PageInv, DetailsInv, DetailsTyped
    <3>3. attempt' \in Attempts /\ AttemptFits'
      BY <3>1, RetryKept DEF PageInv
    <3> QED
      BY <3>1, <3>2, <3>3, DetailsKept DEF PageInv
  <2>2. ASSUME NEW s \in Spots, PhotoRetryDue(s) PROVE PicturesInv'
    <3>1. UNCHANGED <<record, details, files, attachment, shown, album>>
          /\ tried' = [tried EXCEPT ![s].retry = "now"]
      BY <1>1, <2>2 DEF PhotoRetryDue, detailVars
    <3> QED
      BY <3>1, RetriesAgain
  <2>3. PicturesInv'
    BY <1>1, <2>2, AlbumStarts, PhotoLookedFor, PhotoReused, FileSaved, PhotoPersists,
       AlbumTakesSpot
  <2> QED
    BY <2>1, <2>3 DEF PageInv
<1>2. CASE (PhotoFails \/ AlbumDies) /\ UNCHANGED OthersOfDetails
  <2>1. UNCHANGED <<record, listed, details, active, attempt, collector>>
    BY <1>2 DEF OthersOfDetails
  <2>2. listed' \in Nat /\ listed' <= Now
    BY <2>1 DEF PageInv, DetailsInv, DetailsTyped
  <2>3. attempt' \in Attempts /\ AttemptFits'
    BY <2>1, RetryKept DEF PageInv
  <2>4. DetailsInv'
    BY <2>1, <2>2, <2>3, DetailsKept DEF PageInv
  <2>5. PicturesInv'
    BY <1>2, <2>1, PhotoFailed, AlbumCloses
  <2> QED
    BY <2>4, <2>5 DEF PageInv
<1>3. ASSUME NEW s \in Spots, Recheck(s) PROVE PageInv'
  <2>1. /\ UNCHANGED <<record, listed, details, active, collector>>
        /\ UNCHANGED <<files, attachment, shown, album>>
        /\ attempt' = attempt \/ attempt' = [attempt EXCEPT !.retry = "now"]
        /\ tried' = tried \/ tried' = [tried EXCEPT ![s].retry = "now"]
    BY <1>3 DEF Recheck
  <2>2. listed' \in Nat /\ listed' <= Now
    BY <2>1 DEF PageInv, DetailsInv, DetailsTyped
  <2>3. attempt' \in Attempts /\ AttemptFits'
    BY <2>1, RetryKept DEF PageInv
  <2>4. DetailsInv'
    BY <2>1, <2>2, <2>3, DetailsKept DEF PageInv
  <2>5. PicturesInv'
    BY <2>1, RetriesAgain
  <2> QED
    BY <2>4, <2>5 DEF PageInv
<1> QED
  BY <1>1, <1>2, <1>3 DEF PictureStep

\* PageInv is inductive.
THEOREM PageInvariant == PageSpec => []PageInv
<1>1. DetailsInit /\ PicturesInit => PageInv
  BY PageStart
<1>2. PageInv /\ [PageStep]_<<detailVars, pictureVars>> => PageInv'
  <2> SUFFICES ASSUME PageInv, [PageStep]_<<detailVars, pictureVars>> PROVE PageInv'
    OBVIOUS
  <2>1. CASE DetailStep /\ UNCHANGED pictureVars
    <3>1. DetailsMove
      BY <2>1, DetailStepMoves DEF PageInv
    <3> QED
      BY <2>1, <3>1, PicturesKept DEF PageInv, DetailsMove
  <2>2. CASE PictureStep
    BY <2>2, PictureSteps
  <2>3. CASE UNCHANGED <<detailVars, pictureVars>>
    <3>1. UNCHANGED <<record, listed, details, active, attempt, collector>>
          /\ UNCHANGED pictureVars
      BY <2>3 DEF detailVars
    <3>2. listed' \in Nat /\ listed' <= Now
      BY <3>1 DEF PageInv, DetailsInv, DetailsTyped
    <3>3. attempt' \in Attempts /\ AttemptFits'
      BY <3>1, RetryKept DEF PageInv
    <3>4. DetailsInv'
      BY <3>1, <3>2, <3>3, DetailsKept DEF PageInv
    <3>5. DetailsMove
      BY <3>1, <3>4 DEF DetailsMove, Grown, PageInv, DetailsInv, DetailsTyped
    <3> QED
      BY <3>1, <3>4, <3>5, PicturesKept DEF PageInv
  <2> QED
    BY <2>1, <2>2, <2>3 DEF PageStep
<1> QED
  BY <1>1, <1>2, PTL DEF PageSpec

\* A page on which nothing is left to do shows what the provider says now.
THEOREM SettledPagesHold == PageSpec => []SettledPagesAreCurrent
<1>1. PageInv => SettledPagesAreCurrent
  <2> SUFFICES ASSUME PageInv PROVE SettledPagesAreCurrent
    OBVIOUS
  <2>1. ASSUME DetailsSettled, listed = record.modified
        PROVE  active \in DOMAIN details /\ Fresh(active)
    <3>1. attempt.state = "available" /\ attempt.modified = listed
      BY <2>1 DEF DetailsSettled, NeedsDetails
    <3>2. active # 0 /\ details[active].modified = Now
      BY <2>1, <3>1 DEF PageInv, DetailsInv, AttemptFits, Now
    <3> QED
      BY <3>2 DEF PageInv, DetailsInv, DetailsTyped, Fresh
  <2>2. SettledDetailsAreCurrent
    <3> SUFFICES ASSUME DetailsSettled, listed = record.modified
                 PROVE  details[active] = [parts |-> <<Content, Content, Content>>,
                                           modified |-> Now]
      BY DEF SettledDetailsAreCurrent, Content, Now
    <3> DEFINE parts == details[active].parts
    <3>1. /\ details[active] \in Detail /\ details[active].modified = Now
          /\ Len(parts) = 3 /\ AllOf(parts, Content)
      BY <2>1, DetailAt DEF PageInv, DetailsInv, StoredNow, Fresh
    <3>2. parts \in Seq(Tellings) /\ details[active] = [parts |-> parts, modified |-> Now]
      BY <3>1 DEF Detail
    <3> HIDE DEF parts
    <3>3. parts[1] = Content /\ parts[2] = Content /\ parts[3] = Content
      BY <3>1 DEF AllOf
    <3>4. parts = <<Content, Content, Content>>
      BY <3>1, <3>2, <3>3
    <3> QED
      BY <3>2, <3>4
  <2>3. ASSUME NEW s \in Spots
        PROVE  /\ DetailsSettled /\ listed = record.modified /\ PhotoSettled(s) =>
                    shown[s].photo = Allowed(record.content)
               /\ shown[s] # NoPhoto => InForce(shown[s]) /\ shown[s].photo \in files
    <3>1. shown[s] # NoPhoto => InForce(shown[s]) /\ shown[s].photo \in files
      BY DEF PageInv, PicturesInv, ShownIsThere
    <3>2. ASSUME DetailsSettled, listed = record.modified, PhotoSettled(s)
          PROVE  shown[s].photo = Allowed(record.content)
      <4>1. active # 0
        BY <2>1, <3>2 DEF PageInv, DetailsInv, DetailsTyped
      <4>2. tried[s].detail = active /\ tried[s].state \notin {"none", "failed"}
        BY <3>2, <4>1 DEF PhotoSettled, PhotoDue
      <4>3. TriedFresh(s) /\ tried[s].state \in Verdicts
        BY <2>1, <3>2, <4>2 DEF TriedFresh, PageInv, PicturesInv, PicturesTyped
      <4> QED
        BY <4>3 DEF PageInv, PicturesInv, FreshIsAllowed, NoPhoto, Content
    <3> QED
      BY <3>1, <3>2
  <2> QED
    BY <2>2, <2>3 DEF SettledPagesAreCurrent, PhotosFollowDetails
<1> QED
  BY <1>1, PageInvariant, PTL
=============================================================================
