----------------------------- MODULE PlaceDetails -----------------------------
(***************************************************************************)
(* What the tourism provider tells about one place (place_details/):       *)
(* collectors fetch it in several requests when the list of places says    *)
(* that it has changed, under a daily budget and a lock of the place.      *)
(*                                                                         *)
(* A retry time is now, later or never.  Left out: foreign languages, and  *)
(* with them the budgets of the other services; the order of the places;   *)
(* the time limit of a batch; how names are matched.                       *)
(***************************************************************************)
EXTENDS Integers, Sequences, FiniteSets, SequencesExt

CONSTANTS
  Spots,          \* places of the map that may be this one
  Collectors,     \* processes: the job, and the command that forces it
  Tellings,       \* what the provider may tell
  DailyBudget,    \* requests a day
  MaxRevisions,   \* bound: changes at the provider
  MaxTroubles,    \* bound: failures, deaths of a process, rechecks asked for and
                  \* changes of the places the provider's record matches
  MaxDays         \* bound

ASSUME DetailsAssumption ==
  {DailyBudget, MaxRevisions, MaxTroubles, MaxDays} \subseteq Nat

VARIABLES
  record,      \* at the provider: the content and when it was modified
  listed,      \* collection_place: when it was modified, as last listed
  matched,     \* the places its name and position fit
  linked,      \* place_detail_link
  day,
  calls,       \* place_detail_budget of the day
  details,     \* place_detail: revisions, as content of the parts and as listed
  active,      \* the one in force, 0 when there is none
  attempt,     \* place_detail_collection
  collector,
  troubles     \* how many there have been

detailVars == <<record, listed, matched, linked, day, calls, details, active, attempt,
                collector, troubles>>

Idle == [step |-> "idle", modified |-> 0, parts |-> <<>>]
NoAttempt == [state |-> "none", modified |-> 0, retry |-> "never"]

DetailsInit ==
  /\ record \in [content : Tellings, modified : {1}]
  /\ listed = 1
  /\ matched = Spots
  /\ linked = {}
  /\ day = 1
  /\ calls = 0
  /\ details = <<>>
  /\ active = 0
  /\ attempt = NoAttempt
  /\ collector = [c \in Collectors |-> Idle]
  /\ troubles = 0

Trouble ==
  /\ troubles < MaxTroubles
  /\ troubles' = troubles + 1

----------------------------------------------------------------------------
(* The provider and the list of places (ingestion/storage.py).             *)

\* The provider dates its changes.
Revise ==
  /\ record.modified < MaxRevisions
  /\ \E c \in Tellings : record' = [content |-> c, modified |-> record.modified + 1]
  /\ UNCHANGED <<listed, matched, linked, day, calls, details, active, attempt, collector, troubles>>

ListPlaces ==
  /\ listed # record.modified
  /\ listed' = record.modified
  /\ UNCHANGED <<record, matched, linked, day, calls, details, active, attempt, collector, troubles>>

\* A place is moved, renamed or has a namesake now, or no longer.
Rematch ==
  /\ Trouble
  /\ \E s \in Spots : matched' = (matched \ {s}) \cup ({s} \ matched)
  /\ UNCHANGED <<record, listed, linked, day, calls, details, active, attempt, collector>>

NextDay ==
  /\ day < MaxDays
  /\ day' = day + 1
  /\ calls' = 0
  /\ UNCHANGED <<record, listed, matched, linked, details, active, attempt, collector, troubles>>

\* The time of a retry has come.
DetailRetryDue ==
  /\ attempt.retry = "later"
  /\ attempt' = [attempt EXCEPT !.retry = "now"]
  /\ UNCHANGED <<record, listed, matched, linked, day, calls, details, active, collector, troubles>>

----------------------------------------------------------------------------
(* collect_details.                                                        *)

\* needs_details and the condition of due_places, for the place as listed at
\* some time.
NeedsDetails(modified) ==
  \/ attempt.state = "none"
  \/ attempt.modified # modified
  \/ attempt.retry = "now"

Fetching(c) == collector[c].step \in {"common", "intro", "info"}
Locked == \E c \in Collectors : collector[c].step \notin {"idle", "due"}

\* link_places, then due_places: a place for which the budget of the day is not
\* enough is left for another day.
StartBatch(c) ==
  /\ collector[c] = Idle
  /\ linked' = matched
  /\ collector' = [collector EXCEPT ![c] =
       IF NeedsDetails(listed) /\ calls + 3 <= DailyBudget
       THEN [@ EXCEPT !.step = "due", !.modified = listed] ELSE Idle]
  /\ linked' # linked \/ collector' # collector
  /\ UNCHANGED <<record, listed, matched, day, calls, details, active, attempt, troubles>>

\* The lock of the place is taken, unless another collector has it; whether
\* there is something to do is looked up again.
Lock(c) ==
  /\ collector[c].step = "due"
  /\ collector' = [collector EXCEPT ![c] =
       IF Locked \/ ~NeedsDetails(collector[c].modified) THEN Idle
       ELSE [@ EXCEPT !.step = "common"]]
  /\ UNCHANGED <<record, listed, matched, linked, day, calls, details, active, attempt, troubles>>

\* reserve_request: each request counts before it is sent.  When the day has
\* none left the place stays as it is.
Exhausted(c) ==
  /\ Fetching(c) /\ calls >= DailyBudget
  /\ collector' = [collector EXCEPT ![c] = Idle]
  /\ UNCHANGED <<record, listed, matched, linked, day, calls, details, active, attempt, troubles>>

Following(step) ==
  CASE step = "common" -> "intro" [] step = "intro" -> "info" [] OTHER -> "store"

\* One of the requests of TourDetails.fetch.
Request(c) ==
  /\ Fetching(c) /\ calls < DailyBudget
  /\ calls' = calls + 1
  /\ collector' = [collector EXCEPT
       ![c].step = Following(@), ![c].parts = Append(@, record.content)]
  /\ UNCHANGED <<record, listed, matched, linked, day, details, active, attempt, troubles>>

\* record_attempt, with the place as the batch read it.
Attempted(state, modified) ==
  attempt' = [state |-> state, modified |-> modified,
              retry |-> IF state = "failed" THEN "later" ELSE "never"]

\* A request fails.
RequestFails(c) ==
  /\ Fetching(c) /\ calls < DailyBudget
  /\ Trouble
  /\ calls' = calls + 1
  /\ Attempted("failed", collector[c].modified)
  /\ collector' = [collector EXCEPT ![c] = Idle]
  /\ UNCHANGED <<record, listed, matched, linked, day, details, active>>

\* persist_details and record_attempt in one transaction.  The provider's text
\* with the date of the list identifies a revision; one that comes back is put
\* in force again.
StoreDetails(c) ==
  LET detail == [parts |-> collector[c].parts, modified |-> collector[c].modified]
  IN  /\ collector[c].step = "store"
      /\ IF Contains(details, detail)
         THEN UNCHANGED details /\ active' = CHOOSE i \in DOMAIN details : details[i] = detail
         ELSE details' = Append(details, detail) /\ active' = Len(details) + 1
      /\ Attempted("available", collector[c].modified)
      /\ collector' = [collector EXCEPT ![c] = Idle]
      /\ UNCHANGED <<record, listed, matched, linked, day, calls, troubles>>

\* The lock goes with the session.
CollectorDies(c) ==
  /\ collector[c].step \notin {"idle", "due"}
  /\ Trouble
  /\ collector' = [collector EXCEPT ![c] = Idle]
  /\ UNCHANGED <<record, listed, matched, linked, day, calls, details, active, attempt>>

DetailStep ==
  \/ Revise \/ ListPlaces \/ Rematch \/ NextDay \/ DetailRetryDue
  \/ \E c \in Collectors :
       \/ StartBatch(c) \/ Lock(c) \/ Exhausted(c) \/ Request(c) \/ RequestFails(c)
       \/ StoreDetails(c) \/ CollectorDies(c)

----------------------------------------------------------------------------

\* Nothing is left to do about the details of the listed revision.
DetailsSettled == attempt.state = "available" /\ ~NeedsDetails(listed)

\* place_details/collector.py:1 "missing/revised sources only": when the list is
\* up to date and nothing is due, the details shown are what the provider says
\* now, in all their parts, however the fetching was interrupted and overtaken.
SettledDetailsAreCurrent ==
  DetailsSettled /\ listed = record.modified =>
    details[active] = [parts |-> <<record.content, record.content, record.content>>,
                       modified |-> record.modified]
=============================================================================
