------------------------------ MODULE TripPlans ------------------------------
(***************************************************************************)
(* A traveller's preferences and one saved plan (travel/storage.py,        *)
(* plans.py, route_snapshot.py, api.py).  A plan is edited by reading it,  *)
(* drafting a new one, which asks the catalogue and takes a while, and     *)
(* saving it under the row lock; the star of a plan is set at any time.    *)
(* What a draft calculates besides is left out: a plan is its stops, a     *)
(* flag for conflicts and the route it was given.                          *)
(***************************************************************************)
EXTENDS Integers, FiniteSets

CONSTANTS
  Editors,       \* requests that may be under way at once
  Items,         \* identifiers of the stops of a plan, numbered in their order
  Places,        \* what a stop may be set to
  ReceiptLife,   \* validity of a calculated route (1800 s)
  Tags,          \* what a traveller likes or wants to avoid
  MaxTags,       \* tags one row may hold (30)
  Fields,        \* preferences that hold one value, the region or the intensity, say
  MoodFields,    \* those of them a mood may name: intensity and minutes of travel
  Values,        \* what a field may be set to
  Unset,         \* a field without a value
  MaxEdits,      \* bound: saved edits of the plan
  MaxClock,      \* bound: the clock
  MaxChanges     \* bound: changes of the preferences

ASSUME TripAssumption ==
  /\ Items \subseteq Nat \ {0}
  /\ ReceiptLife \in Nat \ {0}
  /\ MaxTags \in Nat /\ MoodFields \subseteq Fields /\ Unset \notin Values
  /\ MaxEdits \in Nat /\ MaxClock \in Nat /\ MaxChanges \in Nat

VARIABLES
  clock,
  plan,       \* the row of travel_plan, its revision 0 when there is none
  editor,     \* requests in progress that write a plan
  receipts,   \* calculated routes handed to the traveller
  profile,    \* the row of travel_preference, its revision 0 when there is none
  form        \* a form of the preferences the traveller has open

planVars == <<plan, editor, receipts>>
profileVars == <<profile, form>>

Absent == [place |-> "none", fixed |-> FALSE]
Stop   == [place : Places, fixed : BOOLEAN]
Stops  == [Items -> Stop \cup {Absent}]
NoStops == [i \in Items |-> Absent]

\* What a route was calculated for; NoStops when there is no route.
NoPlan == [revision |-> 0, stops |-> NoStops, favorite |-> FALSE, conflict |-> FALSE,
           route |-> NoStops, deleted |-> FALSE]

Saved(p) == p.revision # 0

\* A request: the plan it has read, what it wants instead and with which route.
NoRequest == [at |-> "none", previous |-> NoPlan, stops |-> NoStops, unlock |-> {},
              route |-> NoStops]

\* TravelPreference.model_validate: what a row may hold.
Preferences ==
  {x \in [tags : SUBSET Tags, fields : [Fields -> Values \cup {Unset}]] :
     Cardinality(x.tags) <= MaxTags}

\* Mood: one that names no intensity, for instance, leaves it unset.
Moods == {x \in Preferences : \A f \in Fields \ MoodFields : x.fields[f] = Unset}

NoPreferences == [tags |-> {}, fields |-> [f \in Fields |-> Unset]]

\* The preferences as a form shows them, and what it is about to save.
NoForm == [at |-> "none", revision |-> 0, shown |-> NoPreferences, base |-> NoPreferences,
           mood |-> NoPreferences]

TripInit ==
  /\ clock = 0
  /\ plan = NoPlan
  /\ editor = [e \in Editors |-> NoRequest]
  /\ receipts = {}
  /\ profile = [revision |-> 0, preference |-> NoPreferences]
  /\ form = [e \in Editors |-> NoForm]

-----------------------------------------------------------------------------
(* Drafting and saving.                                                    *)

\* recommend_route: a route is bound to the stops it was calculated for.
CalculateRoute ==
  /\ \E stops \in Stops \ {NoStops} : receipts' = {[stops |-> stops, at |-> clock]}
  /\ UNCHANGED <<clock, plan, editor, profile, form>>

\* route_snapshot.decode: the receipt must fit the stops and be fresh.
RouteOf(stops) ==
  {r.stops : r \in {s \in receipts : s.stops = stops /\ clock < s.at + ReceiptLife}}

\* preserve_fixed
PreserveFixed(previous, stops, unlock) ==
  /\ unlock \subseteq {i \in Items : previous.stops[i] # Absent}
  /\ \A i \in Items : previous.stops[i].fixed /\ i \notin unlock =>
                        stops[i] = previous.stops[i]

\* POST /plans and the first half of PUT /plans/{id}: the plan is read, the
\* expected revision and the fixed stops are checked, then the draft begins.  A
\* POST that ends after another one makes a plan of its own, of no concern here.
BeginEdit(e) ==
  /\ editor[e] = NoRequest /\ ~plan.deleted
  /\ plan.revision < MaxEdits
  /\ \E stops \in Stops \ {NoStops}, unlock \in SUBSET Items :
       /\ IF Saved(plan) THEN PreserveFixed(plan, stops, unlock) ELSE unlock = {}
       /\ \E route \in {NoStops} \cup RouteOf(stops) :
            editor' = [editor EXCEPT ![e] =
              [at |-> "drafting", previous |-> plan, stops |-> stops, unlock |-> unlock,
               route |-> route]]
  /\ UNCHANGED <<clock, plan, receipts, profile, form>>

\* Mutant: the route of the former plan is kept.
KeptAlways(q) == IF q.route # NoStops THEN q.route ELSE q.previous.route

\* Without a new route the former one is kept if nothing it rests on changed.
KeptRoute(q) ==
  IF q.route # NoStops THEN q.route
  ELSE IF q.stops = q.previous.stops THEN q.previous.route
  ELSE NoStops

\* Mutant: the revision was checked before the draft, that the plan is there
\* suffices now.
StillThere(q) == Saved(plan) <=> Saved(q.previous)

\* save_plan, under the row lock: the revision must still be the one the
\* request has read.
Expected(q) == plan.revision = q.previous.revision

\* The star is the one of the row, not of the plan the request has read.
Star(q) == plan.favorite

SavePlan(e) ==
  LET q == editor[e] IN
  /\ q.at = "drafting"
  /\ editor' = [editor EXCEPT ![e] = NoRequest]
  /\ \/ /\ Expected(q) /\ ~plan.deleted
        /\ \E conflict \in BOOLEAN :
             plan' = [plan EXCEPT !.revision = q.previous.revision + 1, !.stops = q.stops,
                                  !.favorite = Star(q), !.conflict = conflict,
                                  !.route = KeptRoute(q)]
     \/ /\ ~Expected(q) \/ plan.deleted
        /\ UNCHANGED plan
  /\ UNCHANGED <<clock, receipts, profile, form>>

\* set_plan_favorite: neither the revision nor the order of the list changes.
SetFavorite ==
  /\ Saved(plan) /\ ~plan.deleted
  /\ plan' = [plan EXCEPT !.favorite = ~@]
  /\ UNCHANGED <<clock, editor, receipts, profile, form>>

-----------------------------------------------------------------------------
(* Preferences.                                                            *)

OpenForm(e) ==
  /\ form[e].at = "none"
  /\ form' = [form EXCEPT ![e] = [NoForm EXCEPT !.at = "open", !.revision = profile.revision,
                                                !.shown = profile.preference]]
  /\ UNCHANGED <<clock, profile, planVars>>

\* save_profile, under the advisory lock of the owner; what is not valid ends the
\* request before anything is written.
Unchanged(e) == profile.revision = form[e].revision

Save(e, preference) ==
  /\ profile' = IF preference \in Preferences /\ Unchanged(e)
                THEN [revision |-> form[e].revision + 1, preference |-> preference]
                ELSE profile
  /\ form' = [form EXCEPT ![e] = NoForm]

SubmitForm(e) ==
  /\ form[e].at = "open" /\ profile.revision < MaxChanges
  /\ \E preference \in Preferences : Save(e, preference)
  /\ UNCHANGED <<clock, planVars>>

\* promote_mood: the tags of a mood are added, the values it names replace those
\* of the preferences.
Promoted(base, mood) ==
  [tags |-> base.tags \cup mood.tags,
   fields |-> [f \in Fields |-> IF mood.fields[f] # Unset THEN mood.fields[f]
                                ELSE base.fields[f]]]

\* It reads the preferences without a lock.
ReadMood(e) ==
  /\ form[e].at = "open" /\ profile.revision < MaxChanges
  /\ \E mood \in Moods :
       form' = [form EXCEPT ![e].at = "promoting", ![e].base = profile.preference,
                            ![e].mood = mood]
  /\ UNCHANGED <<clock, profile, planVars>>

PromoteMood(e) ==
  /\ form[e].at = "promoting"
  /\ Save(e, Promoted(form[e].base, form[e].mood))
  /\ UNCHANGED <<clock, planVars>>

\* Mutant: a reset starts the revisions anew.
ResetRevision(p) == [p EXCEPT !.preference = NoPreferences]

\* reset_history with the profile; an owner without a row has nothing to reset.
ResetProfile(p) ==
  IF p.revision = 0 THEN p ELSE [p EXCEPT !.revision = @ + 1, !.preference = NoPreferences]

ResetHistory ==
  /\ profile.revision < MaxChanges
  /\ profile' = ResetProfile(profile)
  /\ UNCHANGED <<clock, form, planVars>>

PlanStep ==
  \/ CalculateRoute
  \/ \E e \in Editors : BeginEdit(e) \/ SavePlan(e)
  \/ SetFavorite

ProfileStep ==
  \/ \E e \in Editors : OpenForm(e) \/ SubmitForm(e) \/ ReadMood(e) \/ PromoteMood(e)
  \/ ResetHistory

-----------------------------------------------------------------------------
\* api.py:386-411 and storage.py:166-206, nothing of a plan is lost to a request
\* that read it earlier: an edit replaces the plan it was made from, changes a
\* fixed stop only if that was asked for, and leaves the star as it is.
EditsBuildOnThePlan ==
  [][plan'.revision # plan.revision \/ plan'.stops # plan.stops =>
       \E e \in Editors :
         LET q == editor[e] IN
         /\ q.at = "drafting" /\ editor'[e] = NoRequest
         /\ q.previous.stops = plan.stops /\ q.previous.revision = plan.revision
         /\ \A i \in Items : plan.stops[i].fixed /\ plan'.stops[i] # plan.stops[i] =>
                               i \in q.unlock
         /\ plan'.favorite = plan.favorite]_plan

\* route_snapshot.py:61-92 and api.py:395-401, the road evidence of a saved plan
\* was calculated for the stops it has now.
RouteFitsStops == plan.route \in {NoStops, plan.stops}

\* A mood takes nothing from the tags and changes only the fields it names.
AddsMood(old, mood, new) ==
  /\ new.tags = old.tags \cup mood.tags
  /\ \A f \in Fields : new.fields[f] # old.fields[f] =>
                        new.fields[f] = mood.fields[f] /\ mood.fields[f] # Unset

\* storage.py:30-52 and 131-138 and api.py:273-291, preferences the traveller has
\* not seen are never overwritten: those who save have been shown what they
\* replace, a mood is promoted into what is stored now, keeping every tag and
\* every field it does not name, and a form opened before a reset does not bring
\* the old preferences back.
NothingUnseenLost ==
  [][profile'.revision # profile.revision =>
       \/ profile'.preference = NoPreferences /\ form' = form
       \/ \E e \in Editors :
            /\ form[e].at # "none" /\ form'[e].at = "none"
            /\ form[e].shown = profile.preference
            /\ form[e].at = "promoting" =>
                 AddsMood(profile.preference, form[e].mood, profile'.preference)]_profile
=============================================================================
