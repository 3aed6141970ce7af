------------------------------ MODULE AiBudget ------------------------------
(***************************************************************************)
(* The tables of ai/budget.py, which every process that calls the model    *)
(* shares: a ledger of each UTC day, the paid attempts, the leases of the  *)
(* requests that are admitted and the requests of each caller's minute.    *)
(* Every operation below is one short transaction.                         *)
(*                                                                         *)
(* Tokens and cost have the same arithmetic and the same two limits; the   *)
(* model counts one of them.  The clock counts a unit in which a request   *)
(* times out after RequestTimeout and its lease LeaseLife after admission, *)
(* five seconds later.                                                     *)
(***************************************************************************)
EXTENDS Integers, FiniteSets, FiniteSetsExt

CONSTANTS
  Requests,            \* requests that may ever be made
  Principals, Owner,   \* who makes each of them
  MaxConcurrency,      \* ai_max_concurrency
  RequestsPerMinute,   \* ai_principal_requests_per_minute
  MaxDailyCalls,       \* ai_max_daily_calls
  MaxDailyTokens,      \* ai_max_daily_tokens, ai_daily_budget_microusd
  RequestTimeout,      \* ai_request_timeout_seconds
  LeaseLife,           \* the timeout and five seconds
  MinuteLength, DayLength,
  AttemptMemory,       \* attempts are forgotten after 90 days
  MaxTime              \* bound: the clock stops here

ASSUME BudgetAssumption ==
  /\ IsFiniteSet(Requests)
  /\ Owner \in [Requests -> Principals]
  /\ {MaxConcurrency, RequestsPerMinute, MaxDailyCalls, MaxDailyTokens,
      RequestTimeout, LeaseLife, AttemptMemory, MaxTime} \subseteq Nat
  /\ {MinuteLength, DayLength} \subseteq Nat \ {0}

\* A lease outlives the request it was given to.
ASSUME LeaseAssumption == RequestTimeout < LeaseLife

VARIABLES
  clock,
  ledger,     \* ai_daily_budget
  attempts,   \* ai_budget_attempts
  leases,     \* ai_request_leases: when each request's row expires, 0 without
  rate        \* ai_principal_rate, the newest minute of each caller

tables == <<ledger, attempts, leases, rate>>

Days  == 0 .. MaxTime \div DayLength
Today == clock \div DayLength
Minute == clock \div MinuteLength

NoCalls == [calls |-> 0, reserved |-> 0, observed |-> 0, actual |-> 0]

BudgetInit ==
  /\ clock = 0
  /\ ledger = [d \in Days |-> NoCalls]
  /\ attempts = {}
  /\ leases = [r \in Requests |-> 0]
  /\ rate = [p \in Principals |-> [minute |-> 0, count |-> 0]]

-----------------------------------------------------------------------------
(* Admission.                                                              *)

\* Rows that have not expired; the others are deleted first.
Live == {r \in Requests : leases[r] > clock}

RequestsOfMinute(p) == IF rate[p].minute = Minute THEN rate[p].count ELSE 0

Admissible(r) ==
  /\ Cardinality(Live) < MaxConcurrency
  /\ RequestsOfMinute(Owner[r]) < RequestsPerMinute

\* Mutant: a lease ends with the timeout, before the request has noticed it.
ExpiryAtTimeout == clock + RequestTimeout

Expiry == clock + LeaseLife

AcquireRequest(r) ==
  /\ leases' = [s \in Requests |->
       IF s = r /\ Admissible(r) THEN Expiry ELSE IF s \in Live THEN leases[s] ELSE 0]
  /\ rate' = IF Admissible(r)
             THEN [rate EXCEPT ![Owner[r]] = [minute |-> Minute,
                                              count |-> RequestsOfMinute(Owner[r]) + 1]]
             ELSE rate
  /\ UNCHANGED <<ledger, attempts>>

ReleaseRequest(r) ==
  /\ leases' = [leases EXCEPT ![r] = 0]
  /\ UNCHANGED <<ledger, attempts, rate>>

-----------------------------------------------------------------------------
(* The daily budget.  A row of attempts has its day and whether its usage  *)
(* was observed; the reservation and the usage are kept as history.        *)

Affordable(tokens) ==
  /\ ledger[Today].calls < MaxDailyCalls
  /\ ledger[Today].reserved + tokens <= MaxDailyTokens

\* reserve_attempt, when the day can afford it.
ReserveAttempt(id, tokens) ==
  /\ Affordable(tokens)
  /\ ledger' = [ledger EXCEPT ![Today].calls = @ + 1, ![Today].reserved = @ + tokens]
  /\ attempts' = {a \in attempts : a.day >= Today - AttemptMemory}
       \cup {[id |-> id, day |-> Today, tokens |-> tokens, used |-> 0, observed |-> FALSE]}
  /\ UNCHANGED <<leases, rate>>

\* Only an overage of the reservation changes what is reserved.
Observed(row, tokens, used) ==
  [row EXCEPT !.observed = @ + 1, !.actual = @ + used, !.reserved = @ + Max({0, used - tokens})]

\* Mutant: the usage is written to the day it is observed on.
RecordUsageToday(id, used) ==
  /\ \E a \in attempts :
       /\ a.id = id
       /\ ~a.observed
       /\ attempts' = (attempts \ {a}) \cup {[a EXCEPT !.observed = TRUE, !.used = used]}
       /\ ledger' = [ledger EXCEPT ![Today] = Observed(@, a.tokens, used)]
  /\ UNCHANGED <<leases, rate>>

\* record_usage: the attempt is claimed once, at the day of its reservation.
RecordUsage(id, used) ==
  /\ \E a \in attempts :
       /\ a.id = id
       /\ ~a.observed
       /\ attempts' = (attempts \ {a}) \cup {[a EXCEPT !.observed = TRUE, !.used = used]}
       /\ ledger' = [ledger EXCEPT ![a.day] = Observed(@, a.tokens, used)]
  /\ UNCHANGED <<leases, rate>>

\* The attempt is forgotten or its usage known: nothing is written.
UsageRefused(id) ==
  /\ ~\E a \in attempts : a.id = id /\ ~a.observed
  /\ UNCHANGED tables
=============================================================================
