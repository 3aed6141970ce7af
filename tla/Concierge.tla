----------------------------- MODULE Concierge -----------------------------
(***************************************************************************)
(* Requests that use the language model: conversations (ai/chat.py, with   *)
(* the tools of ai/tools.py and travel/chat.py) and explanations           *)
(* (ai/service.py), over the tables of AiBudget.                           *)
(*                                                                         *)
(* A conversation is admitted, lets the model interpret the question, and  *)
(* only when the question is relevant reads data: the planned reads of an  *)
(* interpretation, or the tools that further model calls ask for.  All of  *)
(* it happens within one timeout, which may cut it off at every await; a   *)
(* client may go away anywhere.  A statement that a thread executes goes   *)
(* on when nobody waits for it any longer, and any statement may fail: a   *)
(* process that dies does no more than disconnect its clients, lose its    *)
(* threads and not release its leases.                                     *)
(*                                                                         *)
(* The model's answers, the tools' data and the words of a response are    *)
(* left out; their outcomes are choices.                                   *)
(***************************************************************************)
EXTENDS AiBudget, Functions, Sequences

CONSTANTS
  Chats,           \* the requests of POST /chat; the others are explanations
  MaxModelCalls,   \* ai_max_model_calls
  MaxToolCalls,    \* ai_max_tool_calls
  Sizes,           \* what a call may reserve
  Usages,          \* what the provider may report as used
  Interpretations, \* actions the model may choose for a relevant question
  ReadPlans        \* reads that an interpretation or a model call may ask for

ASSUME ConciergeAssumption ==
  /\ Chats \subseteq Requests
  /\ {MaxModelCalls, MaxToolCalls} \subseteq Nat \ {0}
  /\ Sizes \cup Usages \subseteq Nat
  /\ Interpretations \subseteq {"clarify", "read", "loop", "recommend", "route"}
  /\ ReadPlans \subseteq Seq({"search", "feature", "travel"}) \ {<<>>}

VARIABLES
  req,       \* each request
  threads    \* statements and calls that nobody waits for any longer

vars == <<clock, tables, req, threads>>

New == [at |-> "new", since |-> 0, leased |-> FALSE, calls |-> 0, tools |-> 0,
        used |-> 0, action |-> "none", retried |-> FALSE, model |-> FALSE,
        todo |-> <<>>, features |-> {}, facts |-> {}, read |-> FALSE,
        plan |-> "none", timedOut |-> FALSE]

Awaiting == {"admission", "reserve", "call", "usage", "read"}

Init ==
  /\ BudgetInit
  /\ req = [r \in Requests |-> New]
  /\ threads = {}

\* Mutant: only the calls of the provider have a timeout.
OverdueUnlessReading(r) ==
  r \in Chats /\ req[r].at \in Awaiting \ {"read"} /\ clock >= req[r].since + RequestTimeout

\* The timer of a conversation is served at once.
Overdue(r) == r \in Chats /\ req[r].at \in Awaiting /\ clock >= req[r].since + RequestTimeout

Tick ==
  /\ clock < MaxTime
  /\ \A r \in Requests : ~Overdue(r)
  /\ clock' = clock + 1
  /\ UNCHANGED <<tables, req, threads>>

Attempt(r) == <<r, req[r].calls>>

-----------------------------------------------------------------------------
(* How a conversation goes on.  Each operator maps what is known of it to  *)
(* what it is after the next steps that no await separates.                *)

Accepted(q) == q.action \in Interpretations
Denied(q)   == q.action = "reject"

\* The request is over and nothing of it is needed any longer.
Done == [New EXCEPT !.at = "done"]

\* The response is settled; a lease is given back before it is sent.
Ended(q) ==
  IF q.leased THEN [q EXCEPT !.at = "release", !.todo = <<>>, !.since = 0, !.calls = 0,
                             !.tools = 0, !.used = 0, !.retried = FALSE]
  ELSE Done

\* A ProviderError or ToolError.
Failed(q) == Ended([q EXCEPT !.model = FALSE])

Planned(q, plan) == Ended([q EXCEPT !.plan = plan])

\* Storage and ownership errors reach the client as they are.
HttpError(q) == Planned(q, "http_error")

NextTurn(q) ==
  IF q.calls < MaxModelCalls THEN [q EXCEPT !.at = "reserve", !.todo = <<>>]
  ELSE Planned(q, IF Accepted(q) /\ q.features # {} THEN "explain" ELSE "none")

\* read_completed
ReadSomething(q) == q.features \ {"search"} # {}

\* The planned reads, or those of one model call, are done.
Finished(q) ==
  IF q.action \in {"loop", "route"} THEN NextTurn(q)
  ELSE Planned([q EXCEPT !.read = ReadSomething(q)], "explain")

\* ToolSession.execute: a tool is listed before it runs, one of travel after.
Begun(q, todo) ==
  [q EXCEPT !.at = "read", !.todo = todo, !.tools = @ + 1,
            !.features = @ \cup ({Head(todo)} \ {"travel"})]

\* Also a repeated or malformed call and a time without data end it.
Reads(q, todo) ==
  IF q.tools >= MaxToolCalls THEN {Failed(q)}
  ELSE {Begun(q, todo), Failed(q),
        [Failed(q) EXCEPT !.plan = "clarify"]}

\* The next read of the list, or what follows the last one.
Onward(q) == IF Tail(q.todo) # <<>> THEN Reads(q, Tail(q.todo)) ELSE {Finished(q)}

\* The answer to the question what the request means.
ScopeOutcomes(q) ==
  LET known(action) == [q EXCEPT !.action = action, !.model = TRUE]
      started(action) ==
        CASE action = "clarify" -> {Planned(known(action), "clarify")}
          [] action \in {"loop", "route"} -> {NextTurn(known(action))}
          [] action = "recommend" -> Reads(known(action), <<"travel">>)
          [] action = "read" ->
               {Planned(known(action), "clarify"), Failed(known(action))}
               \cup UNION {Reads(known(action), todo) : todo \in ReadPlans}
  IN {Failed(q), Planned(known("reject"), "unsupported"),
      IF q.retried \/ q.calls >= MaxModelCalls THEN Failed(q)
      ELSE [q EXCEPT !.at = "reserve", !.retried = TRUE]}
     \cup UNION {started(action) \cup {HttpError(known(action))} : action \in Interpretations}

\* validate_plan: an explanation rests on reads, of a travel question on a
\* result of the travel tools.
Explainable(q) ==
  /\ q.features # {}
  /\ q.action = "route" => "travel" \in q.features

\* The answer to a question that is known to be relevant.
ResponseOutcomes(q) ==
  {Failed(q), Planned([q EXCEPT !.read = ReadSomething(q)], "clarify")}
  \cup {Planned([q EXCEPT !.read = ReadSomething(q)], p) : p \in IF Explainable(q) THEN {"explain"} ELSE {}}
  \cup UNION {Reads(q, todo) : todo \in ReadPlans \cup {<<"travel">>}}

Outcomes(r) ==
  LET q == req[r]
  IN IF r \in Chats THEN IF Accepted(q) THEN ResponseOutcomes(q) ELSE ScopeOutcomes(q)
     ELSE {Planned([q EXCEPT !.model = TRUE], "ordered"), Failed(q)}

-----------------------------------------------------------------------------
(* Steps.                                                                  *)

Becomes(r, q) == req' = [req EXCEPT ![r] = q]

\* Requests arrive while the clock has time for a lease to end.
Ask(r) ==
  /\ req[r].at = "new"
  /\ clock + LeaseLife <= MaxTime
  /\ Becomes(r, [New EXCEPT !.at = "admission", !.since = clock])
  /\ UNCHANGED <<clock, tables, threads>>

\* An explanation without admission is given without the model.
Unadmitted(r) ==
  IF r \in Chats THEN Failed(req[r])
  ELSE [req[r] EXCEPT !.at = "view"]

Admit(r) ==
  /\ req[r].at = "admission"
  /\ AcquireRequest(r)
  /\ IF ~Admissible(r) THEN Becomes(r, Unadmitted(r))
     ELSE LET q == [req[r] EXCEPT !.leased = TRUE]
          IN \/ Becomes(r, [q EXCEPT !.at = IF r \in Chats THEN "reserve" ELSE "view"])
             \/ r \in Chats /\ Becomes(r, Failed(q))
  /\ UNCHANGED <<clock, threads>>

\* The database does not answer.
AdmissionFails(r) ==
  /\ req[r].at = "admission"
  /\ Becomes(r, Unadmitted(r))
  /\ UNCHANGED <<clock, tables, threads>>

\* An explanation reads its facts, which may fail, suffice or be ordered.
View(r) ==
  /\ req[r].at = "view"
  /\ \/ Becomes(r, HttpError(req[r]))
     \/ Becomes(r, Planned(req[r], "facts"))
     \/ req[r].leased /\ Becomes(r, [req[r] EXCEPT !.at = "reserve"])
  /\ UNCHANGED <<clock, tables, threads>>

Reserve(r, tokens) ==
  /\ req[r].at = "reserve"
  /\ ReserveAttempt(<<r, req[r].calls + 1>>, tokens)
  /\ Becomes(r, [req[r] EXCEPT !.at = "call", !.calls = @ + 1])
  /\ UNCHANGED <<clock, threads>>

\* The input is too long, the budget used up or the database away.
ReserveFails(r) ==
  /\ req[r].at = "reserve"
  /\ Becomes(r, Failed(req[r]))
  /\ UNCHANGED <<clock, tables, threads>>

\* The provider answers; it may not say what it used.
Respond(r) ==
  /\ req[r].at = "call"
  /\ \/ \E used \in Usages : Becomes(r, [req[r] EXCEPT !.at = "usage", !.used = used])
     \/ \E q \in Outcomes(r) : Becomes(r, q)
     \/ Becomes(r, Failed(req[r]))
  /\ UNCHANGED <<clock, tables, threads>>

\* An explanation waits for the thread that calls the provider, not for ever.
GiveUp(r) ==
  /\ r \notin Chats
  /\ req[r].at = "call"
  /\ Becomes(r, Failed(req[r]))
  /\ threads' = threads \cup {[op |-> "call", request |-> r, id |-> Attempt(r), used |-> 0]}
  /\ UNCHANGED <<clock, tables>>

\* A usage that cannot be written fails an explanation but no conversation.
Recorded(r) ==
  /\ req[r].at = "usage"
  /\ \/ /\ RecordUsage(Attempt(r), req[r].used) \/ UsageRefused(Attempt(r))
        /\ \E q \in Outcomes(r) : Becomes(r, q)
     \/ /\ IF r \in Chats THEN \E q \in Outcomes(r) : Becomes(r, q)
           ELSE Becomes(r, Failed(req[r]))
        /\ UNCHANGED tables
  /\ UNCHANGED <<clock, threads>>

\* A tool has found part of what it looks for and awaits more.
ReadMore(r) ==
  /\ req[r].at = "read"
  /\ Head(req[r].todo) # "travel"
  /\ Becomes(r, [req[r] EXCEPT !.facts = @ \cup {"partial"}])
  /\ UNCHANGED <<clock, tables, threads>>

\* A search that an interpretation asked for must find one place.
ReadDone(r) ==
  LET name == Head(req[r].todo)
      q == [req[r] EXCEPT !.facts = (@ \ {"partial"}) \cup {name}]
  IN /\ req[r].at = "read"
     /\ name # "travel"
     /\ \/ \E next \in Onward(q) : Becomes(r, next)
        \/ q.action = "read" /\ name = "search" /\ Becomes(r, Planned(q, "clarify"))
     /\ UNCHANGED <<clock, tables, threads>>

\* A failed read leaves the facts there were and the one that it failed.
RolledBack(facts) == (facts \ {"partial"}) \cup {"failed"}

ReadFails(r) ==
  LET name == Head(req[r].todo)
      q == [req[r] EXCEPT !.facts = RolledBack(@)]
  IN /\ req[r].at = "read"
     /\ name # "travel"
     /\ IF q.action = "read" /\ name = "search" THEN Becomes(r, Finished(q))
        ELSE \E next \in Onward(q) : Becomes(r, next)
     /\ UNCHANGED <<clock, tables, threads>>

\* TravelToolSession.execute: one result or, on any failure, an error.
TravelRead(r) ==
  /\ req[r].at = "read"
  /\ Head(req[r].todo) = "travel"
  /\ \/ Becomes(r, Failed(req[r]))
     \/ \E next \in Onward([req[r] EXCEPT !.facts = @ \cup {"travel"}, !.features = @ \cup {"travel"}]) :
          Becomes(r, next)
  /\ UNCHANGED <<clock, tables, threads>>

\* What goes on when nobody waits for the present statement of r any longer.
Loose(r) ==
  CASE req[r].at = "admission" -> {[op |-> "acquire", request |-> r, id |-> Attempt(r), used |-> 0]}
    [] req[r].at = "reserve" ->
         {[op |-> "reserve", request |-> r, id |-> <<r, req[r].calls + 1>>, used |-> 0]}
    [] req[r].at = "usage" ->
         {[op |-> "usage", request |-> r, id |-> Attempt(r), used |-> req[r].used]}
    [] OTHER -> {}

\* The timeout cancels whatever is awaited; what was found so far stays.
TimesOut(r) ==
  /\ Overdue(r)
  /\ Becomes(r, Ended([req[r] EXCEPT !.timedOut = TRUE]))
  /\ threads' = threads \cup Loose(r)
  /\ UNCHANGED <<clock, tables>>

\* The client of a conversation is gone; the lease is released all the same.
Disconnect(r) ==
  /\ r \in Chats
  /\ req[r].at \in Awaiting
  /\ Becomes(r, Planned(req[r], "disconnected"))
  /\ threads' = threads \cup Loose(r)
  /\ UNCHANGED <<clock, tables>>

Release(r) ==
  /\ req[r].at = "release"
  /\ ReleaseRequest(r)
  /\ Becomes(r, Done)
  /\ UNCHANGED <<clock, threads>>

\* The row stays until it expires.
ReleaseFails(r) ==
  /\ req[r].at = "release"
  /\ Becomes(r, Done)
  /\ UNCHANGED <<clock, tables, threads>>

\* A thread finishes although its request is over, or fails.
ThreadEnds(t) ==
  /\ \/ t.op = "acquire" /\ AcquireRequest(t.request)
     \/ t.op = "reserve" /\ \E tokens \in Sizes : ReserveAttempt(t.id, tokens)
     \/ t.op = "usage" /\ (RecordUsage(t.id, t.used) \/ UsageRefused(t.id))
     \/ UNCHANGED tables
  /\ threads' = threads \ {t}
  /\ UNCHANGED <<clock, req>>

Step(r) ==
  \/ Admit(r) \/ AdmissionFails(r) \/ View(r)
  \/ \E tokens \in Sizes : Reserve(r, tokens)
  \/ ReserveFails(r) \/ Recorded(r)
  \/ Release(r) \/ ReleaseFails(r)

Next ==
  \/ Tick
  \/ \E t \in threads : ThreadEnds(t)
  \/ \E r \in Requests :
       \/ Ask(r) \/ Step(r) \/ Respond(r) \/ GiveUp(r)
       \/ ReadMore(r) \/ ReadDone(r) \/ ReadFails(r) \/ TravelRead(r)
       \/ TimesOut(r) \/ Disconnect(r)

Spec == Init /\ [][Next]_vars

\* Statements of the database end and timers are served; nothing is assumed of
\* the provider, the clients or the data.
FairSpec ==
  /\ Spec
  /\ WF_vars(Tick)
  /\ \A r \in Requests : WF_vars(Step(r)) /\ WF_vars(TimesOut(r)) /\ WF_vars(GiveUp(r))

-----------------------------------------------------------------------------
(* What a conversation is answered (assemble, and the end of converse).    *)

\* The response that the client is going to get.
Answered(r) ==
  /\ r \in Chats
  /\ req[r].at = "release"
  /\ req[r].plan \notin {"http_error", "disconnected"}

\* assemble
Assembled(q) ==
  IF q.facts = {} /\ q.timedOut THEN "limited"
  ELSE IF q.plan = "clarify" THEN "clarification"
  ELSE IF "failed" \in q.facts THEN "query_failed"
  ELSE IF q.model THEN "available"
  ELSE "deterministic_fallback"

\* Mutant: a read that was begun counts as one.
IncompleteUnlessListed(q) ==
  q.action \in {"read", "loop"} /\ q.features \ {"search"} = {} /\ q.plan # "clarify"

Incomplete(q) == q.action \in {"read", "loop"} /\ ~q.read /\ q.plan # "clarify"

Status(q) ==
  IF Denied(q) THEN "out_of_scope"
  ELSE IF \/ ~Accepted(q)
          \/ q.features = {} /\ q.plan # "clarify"
          \/ Incomplete(q) /\ Assembled(q) # "query_failed"
       THEN "unavailable"
  ELSE Assembled(q)

-----------------------------------------------------------------------------
TypeOK ==
  /\ clock \in 0 .. MaxTime
  /\ ledger \in [Days -> [calls : 0 .. MaxDailyCalls, reserved : Nat, observed : Nat, actual : Nat]]
  /\ attempts \subseteq [id : Requests \X (1 .. MaxModelCalls), day : Days, tokens : Sizes,
                         used : Usages \cup {0}, observed : BOOLEAN]
  /\ leases \in [Requests -> 0 .. MaxTime + LeaseLife]
  /\ rate \in [Principals -> [minute : Nat, count : 0 .. RequestsPerMinute]]
  /\ \A r \in Requests :
       /\ req[r].at \in Awaiting \cup {"new", "view", "release", "done"}
       /\ req[r].action \in Interpretations \cup {"none", "reject"}
       /\ req[r].features \subseteq {"search", "feature", "travel"}
       /\ req[r].facts \subseteq req[r].features \cup {"partial", "failed"}
       /\ req[r].at = "read" => req[r].todo # <<>>

\* The cap on conversations holds across processes: leases are released late,
\* lost with a process or left by a cancelled admission, never given out twice.
Running == {r \in Chats : req[r].leased /\ req[r].at \in Awaiting}
CapHolds == Cardinality(Live \cup Running) <= MaxConcurrency

\* The ledger of a day is the sum of its attempts, each at what it reserved or,
\* when more was observed, at that; whatever was cancelled, lost or finished
\* after midnight.  What they reserve never exceeds the limit of the day, however
\* many calls are in flight whose usage is not known.
AttemptsOf(d) == {a \in attempts : a.day = d}
Tokens(S)   == SumFunction([a \in S |-> a.tokens])
Usage(S)    == SumFunction([a \in S |-> a.used])
Reserved(S) == SumFunction([a \in S |-> Max({a.tokens, a.used})])
LedgerAddsUp ==
  \A d \in Days : d >= Today - AttemptMemory =>
    LET S == AttemptsOf(d) IN
    /\ ledger[d].calls = Cardinality(S)
    /\ ledger[d].reserved = Reserved(S)
    /\ ledger[d].observed = Cardinality({a \in S : a.observed})
    /\ ledger[d].actual = Usage(S)
    /\ Tokens(S) <= MaxDailyTokens

\* A response to a request for data is presented as a result only when a read
\* of it, not only the search for the place, was completed and none failed.
\* Half of a read is shown only after the timeout of the whole request, and with
\* its reason.
AvailableMeansRead ==
  \A r \in Chats : Answered(r) =>
    /\ req[r].action \in {"read", "loop"}
         /\ Status(req[r]) \in {"available", "deterministic_fallback"} =>
           req[r].facts \cap {"feature", "travel"} # {} /\ "failed" \notin req[r].facts
    /\ "partial" \in req[r].facts => req[r].timedOut

\* Every conversation ends within its timeout, whatever the provider, the data
\* and the client do.
EveryRequestEnds == \A r \in Chats : req[r].at = "admission" ~> req[r].at = "done"
=============================================================================
