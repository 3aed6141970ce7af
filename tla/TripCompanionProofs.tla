------------------------- MODULE TripCompanionProofs -------------------------
(***************************************************************************)
(* Proofs about a trip: what a saved plan and the preferences of a         *)
(* traveller rest on, for any number of requests under way, and that a     *)
(* trip that has ended is quiet, for any number of devices.                *)
(***************************************************************************)
EXTENDS TripCompanion, NumberSets, SequenceTheorems

-----------------------------------------------------------------------------
(* Types.                                                                  *)

PlanRow ==
  [revision : Nat, stops : Stops, favorite : BOOLEAN, conflict : BOOLEAN,
   route : Stops, deleted : BOOLEAN]

PlanRequest ==
  [at : {"none", "drafting"}, previous : PlanRow, stops : Stops,
   unlock : SUBSET Items, route : Stops]

PreferenceForm ==
  [at : {"none", "open", "promoting"}, revision : Nat, shown : Preferences,
   base : Preferences, mood : Preferences]

TypeOK ==
  /\ plan \in PlanRow
  /\ editor \in [Editors -> PlanRequest]
  /\ profile \in [revision : Nat, preference : Preferences]
  /\ form \in [Editors -> PreferenceForm]

-----------------------------------------------------------------------------
(* The inductive invariant.                                                *)

\* What was never saved has no stops.
UnsavedIsEmpty == plan.revision = 0 => plan.stops = NoStops

\* The former plan of a request, as the request has read it, and what it may
\* do about its fixed stops.
Reads(q) ==
  /\ q.previous.revision <= plan.revision
  /\ q.previous.revision = plan.revision => q.previous.stops = plan.stops
  /\ q.previous.route \in {NoStops, q.previous.stops}
  /\ q.route \in {NoStops, q.stops}
  /\ \A i \in Items : q.previous.stops[i].fixed /\ q.stops[i] # q.previous.stops[i]
                        => i \in q.unlock

RequestsRead == \A e \in Editors : editor[e].at = "drafting" => Reads(editor[e])

\* A form shows the preferences of its revision.
FormsShow ==
  \A e \in Editors : form[e].at # "none" =>
    /\ form[e].revision <= profile.revision
    /\ form[e].revision = profile.revision => form[e].shown = profile.preference
    /\ form[e].at = "promoting" /\ form[e].revision = profile.revision =>
         form[e].base = profile.preference

IInv == TypeOK /\ UnsavedIsEmpty /\ RouteFitsStops /\ RequestsRead /\ FormsShow

-----------------------------------------------------------------------------
(* Steps.                                                                  *)

tripVars == <<plan, editor, profile, form>>

LEMMA NoStopsType == NoStops \in Stops
  BY DEF NoStops, Stops

LEMMA NoPreferencesType == NoPreferences \in Preferences
<1> DEFINE none == [f \in Fields |-> Unset]
<1>1. none \in [Fields -> Values \cup {Unset}]
  OBVIOUS
<1>2. Cardinality({}) <= MaxTags
  BY FS_EmptySet, TripAssumption
<1> HIDE DEF none
<1>3. [tags |-> {}, fields |-> none] \in Preferences
  BY <1>1, <1>2 DEF Preferences
<1> QED
  BY <1>3 DEF NoPreferences, none

LEMMA InitStep == Init => IInv
<1> SUFFICES ASSUME Init PROVE IInv
  OBVIOUS
<1>1. TypeOK
  BY NoStopsType, NoPreferencesType DEF Init, TripInit, NoPlan, NoRequest, NoForm, TypeOK, PlanRow,
                     PlanRequest, PreferenceForm
<1> QED
  BY <1>1 DEF Init, TripInit, NoPlan, NoRequest, NoForm, IInv, UnsavedIsEmpty,
              RouteFitsStops, RequestsRead, FormsShow

LEMMA UnchangedStep == IInv /\ UNCHANGED tripVars => IInv'
  BY DEF IInv, tripVars, TypeOK, UnsavedIsEmpty, RouteFitsStops, RequestsRead, Reads,
         FormsShow

\* A draft begins with the plan as it is, and takes a route only if it fits.
LEMMA BeginEditStep ==
  ASSUME IInv, NEW e \in Editors, BeginEdit(e)
  PROVE  IInv'
<1>1. PICK stops \in Stops \ {NoStops}, unlock \in SUBSET Items :
        /\ IF Saved(plan) THEN PreserveFixed(plan, stops, unlock) ELSE unlock = {}
        /\ \E route \in {NoStops} \cup RouteOf(stops) :
             editor' = [editor EXCEPT ![e] =
               [at |-> "drafting", previous |-> plan, stops |-> stops, unlock |-> unlock,
                route |-> route]]
  BY DEF BeginEdit
<1>2. PICK route \in {NoStops} \cup RouteOf(stops) :
        editor' = [editor EXCEPT ![e] =
          [at |-> "drafting", previous |-> plan, stops |-> stops, unlock |-> unlock,
           route |-> route]]
  BY <1>1
<1> DEFINE q == [at |-> "drafting", previous |-> plan, stops |-> stops,
                 unlock |-> unlock, route |-> route]
<1>3. route \in {NoStops, stops}
  BY DEF RouteOf
<1>4. UNCHANGED <<plan, profile, form>>
  BY DEF BeginEdit
<1>5. TypeOK'
  BY <1>2, <1>3, <1>4, NoStopsType DEF IInv, TypeOK, PlanRequest
<1>6. \A i \in Items : plan.stops[i].fixed /\ stops[i] # plan.stops[i] => i \in unlock
  <2>1. CASE Saved(plan)
    BY <1>1, <2>1 DEF PreserveFixed
  <2>2. CASE ~Saved(plan)
    BY <2>2 DEF IInv, UnsavedIsEmpty, Saved, NoStops, Absent
  <2> QED
    BY <2>1, <2>2
<1>7. Reads(q)
  BY <1>3, <1>6 DEF Reads, IInv, TypeOK, PlanRow, RouteFitsStops
<1>8. RequestsRead'
  <2> SUFFICES ASSUME NEW f \in Editors, editor'[f].at = "drafting"
               PROVE  Reads(editor[f])'
    BY DEF RequestsRead
  <2>1. CASE f = e
    BY <1>2, <1>4, <1>7, <2>1 DEF IInv, TypeOK, Reads
  <2>2. CASE f # e
    BY <1>2, <1>4, <2>2 DEF IInv, TypeOK, RequestsRead, Reads
  <2> QED
    BY <2>1, <2>2
<1> QED
  BY <1>4, <1>5, <1>8 DEF IInv, UnsavedIsEmpty, RouteFitsStops, FormsShow

\* A plan is saved only over the plan it was made from.
SavedOver(e) ==
  LET q == editor[e] IN
  /\ q.at = "drafting" /\ editor'[e] = NoRequest
  /\ q.previous.stops = plan.stops /\ q.previous.revision = plan.revision
  /\ \A i \in Items : plan.stops[i].fixed /\ plan'.stops[i] # plan.stops[i] => i \in q.unlock
  /\ plan'.favorite = plan.favorite

LEMMA SavePlanStep ==
  ASSUME IInv, NEW e \in Editors, SavePlan(e)
  PROVE  /\ IInv'
         /\ plan'.revision # plan.revision \/ plan'.stops # plan.stops => SavedOver(e)
<1> DEFINE q == editor[e]
<1>1. /\ q.at = "drafting"
      /\ editor' = [editor EXCEPT ![e] = NoRequest]
      /\ UNCHANGED <<profile, form>>
  BY DEF SavePlan
<1>2. Reads(q) /\ q \in PlanRequest /\ plan \in PlanRow
  BY <1>1 DEF IInv, TypeOK, RequestsRead
<1>3. NoRequest \in PlanRequest /\ NoRequest.at # "drafting"
  BY NoStopsType DEF NoRequest, PlanRequest, PlanRow, NoPlan
<1>4. CASE UNCHANGED plan
  BY <1>1, <1>3, <1>4 DEF IInv, TypeOK, UnsavedIsEmpty, RouteFitsStops, RequestsRead, Reads,
                          FormsShow
<1>5. CASE Expected(q) /\ \E conflict \in BOOLEAN :
             plan' = [plan EXCEPT !.revision = q.previous.revision + 1, !.stops = q.stops,
                                  !.favorite = Star(q), !.conflict = conflict,
                                  !.route = KeptRoute(q)]
  <2>1. /\ plan'.revision = plan.revision + 1 /\ plan'.stops = q.stops
        /\ plan'.favorite = plan.favorite /\ plan'.route = KeptRoute(q)
    BY <1>2, <1>5 DEF PlanRow, Expected, Star
  <2>2. KeptRoute(q) \in {NoStops, q.stops}
    BY <1>2 DEF KeptRoute, Reads
  <2>3. plan' \in PlanRow
    <3>1. q.stops \in Stops /\ KeptRoute(q) \in Stops /\ q.previous.revision + 1 \in Nat
      BY <1>2, <2>2, NoStopsType DEF PlanRow, PlanRequest
    <3> QED
      BY <1>2, <1>5, <3>1 DEF PlanRow, Star
  <2>4. SavedOver(e)
    BY <1>1, <1>2, <1>5, <2>1 DEF SavedOver, Reads, Expected, IInv, TypeOK
  <2>5. RequestsRead'
    BY <1>1, <1>2, <1>3, <2>1, <2>3 DEF RequestsRead, Reads, IInv, TypeOK, PlanRow, PlanRequest
  <2> QED
    BY <1>1, <1>2, <1>3, <2>1, <2>2, <2>3, <2>4, <2>5
       DEF IInv, TypeOK, UnsavedIsEmpty, RouteFitsStops, FormsShow, PlanRow
<1> QED
  BY <1>4, <1>5 DEF SavePlan

-----------------------------------------------------------------------------
(* The preferences.                                                        *)

\* What the request of a form writes, it writes over preferences it has shown.
SeenBefore(e) ==
  /\ form[e].at # "none" /\ form'[e].at = "none"
  /\ form[e].shown = profile.preference
  /\ form[e].at = "promoting" =>
       AddsMood(profile.preference, form[e].mood, profile'.preference)

NothingUnseen ==
  profile'.revision # profile.revision =>
    \/ profile'.preference = NoPreferences /\ form' = form
    \/ \E e \in Editors : SeenBefore(e)

LEMMA PromotedAdds ==
  ASSUME NEW base, NEW mood
  PROVE  AddsMood(base, mood, Promoted(base, mood))
  BY DEF AddsMood, Promoted

\* A request of a form saves what is valid at the revision the form has shown.
LEMMA SaveStep ==
  ASSUME IInv, NEW e \in Editors, form[e].at # "none", NEW preference,
         form[e].at = "promoting" => preference = Promoted(form[e].base, form[e].mood),
         Save(e, preference), UNCHANGED <<plan, editor>>
  PROVE  IInv' /\ NothingUnseen
<1>1. NoForm \in PreferenceForm /\ NoForm.at = "none"
  BY NoPreferencesType DEF NoForm, PreferenceForm
<1>2. form' = [form EXCEPT ![e] = NoForm] /\ form[e] \in PreferenceForm
  BY DEF Save, IInv, TypeOK
<1>3. CASE ~(preference \in Preferences /\ Unchanged(e))
  <2>1. UNCHANGED profile
    BY <1>3 DEF Save
  <2> QED
    BY <1>1, <1>2, <2>1 DEF IInv, TypeOK, UnsavedIsEmpty, RouteFitsStops, RequestsRead, Reads,
                            FormsShow, NothingUnseen
<1>4. CASE preference \in Preferences /\ Unchanged(e)
  <2>1. profile' = [revision |-> profile.revision + 1, preference |-> preference]
    BY <1>4 DEF Save, Unchanged
  <2>2. TypeOK'
    BY <1>1, <1>2, <1>4, <2>1 DEF IInv, TypeOK
  <2>3. FormsShow'
    BY <1>1, <1>2, <2>1 DEF IInv, TypeOK, PreferenceForm, FormsShow
  <2>4. SeenBefore(e)
    <3>1. form[e].revision = profile.revision
      BY <1>4 DEF Unchanged
    <3>2. /\ form[e].shown = profile.preference
          /\ form[e].at = "promoting" => form[e].base = profile.preference
      BY <3>1 DEF IInv, FormsShow
    <3>3. profile'.preference = preference /\ form'[e] = NoForm
      BY <1>2, <2>1 DEF IInv, TypeOK
    <3>4. form[e].at = "promoting" =>
            AddsMood(profile.preference, form[e].mood, profile'.preference)
      BY <3>2, <3>3, PromotedAdds
    <3> QED
      BY <1>1, <3>2, <3>3, <3>4 DEF SeenBefore
  <2> QED
    BY <2>2, <2>3, <2>4 DEF IInv, UnsavedIsEmpty, RouteFitsStops, RequestsRead, Reads,
                            NothingUnseen
<1> QED
  BY <1>3, <1>4

LEMMA ProfileStepKeeps ==
  ASSUME IInv, ProfileStep
  PROVE  IInv' /\ NothingUnseen
<1>1. UNCHANGED <<plan, editor>>
  BY DEF ProfileStep, OpenForm, SubmitForm, ReadMood, PromoteMood, ResetHistory, planVars
<1>2. ASSUME NEW e \in Editors, OpenForm(e) PROVE IInv' /\ NothingUnseen
  <2> DEFINE new == [NoForm EXCEPT !.at = "open", !.revision = profile.revision,
                                   !.shown = profile.preference]
  <2>1. UNCHANGED profile /\ form' = [form EXCEPT ![e] = new]
    BY <1>2 DEF OpenForm
  <2>2. /\ new \in PreferenceForm /\ new.at = "open"
        /\ new.revision = profile.revision /\ new.shown = profile.preference
    BY NoPreferencesType DEF NoForm, PreferenceForm, IInv, TypeOK
  <2> HIDE DEF new
  <2> QED
    BY <1>1, <2>1, <2>2 DEF IInv, TypeOK, PreferenceForm, UnsavedIsEmpty, RouteFitsStops,
                      RequestsRead, Reads, FormsShow, NothingUnseen
<1>3. ASSUME NEW e \in Editors, SubmitForm(e) PROVE IInv' /\ NothingUnseen
  <2>1. PICK preference \in Preferences : Save(e, preference)
    BY <1>3 DEF SubmitForm
  <2> QED
    BY <1>1, <1>3, <2>1, SaveStep DEF SubmitForm
<1>4. ASSUME NEW e \in Editors, ReadMood(e) PROVE IInv' /\ NothingUnseen
  <2>1. PICK mood \in Moods :
          form' = [form EXCEPT ![e].at = "promoting", ![e].base = profile.preference,
                               ![e].mood = mood]
    BY <1>4 DEF ReadMood
  <2>2. UNCHANGED profile /\ form[e].at = "open"
    BY <1>4 DEF ReadMood
  <2> DEFINE new == [form[e] EXCEPT !.at = "promoting", !.base = profile.preference,
                                  !.mood = mood]
  <2>3. form' = [form EXCEPT ![e] = new]
    BY <2>1
  <2>5. /\ new \in PreferenceForm /\ new.at = "promoting" /\ new.base = profile.preference
        /\ new.revision = form[e].revision /\ new.shown = form[e].shown
    BY DEF PreferenceForm, IInv, TypeOK, Moods
  <2> HIDE DEF new
  <2>4. FormsShow'
    BY <2>2, <2>3, <2>5 DEF IInv, TypeOK, PreferenceForm, FormsShow
  <2> QED
    BY <1>1, <2>2, <2>3, <2>4, <2>5 DEF IInv, TypeOK, UnsavedIsEmpty, RouteFitsStops,
                                  RequestsRead, Reads, NothingUnseen
<1>5. ASSUME NEW e \in Editors, PromoteMood(e) PROVE IInv' /\ NothingUnseen
  <2>1. form[e].at = "promoting" /\ Save(e, Promoted(form[e].base, form[e].mood))
    BY <1>5 DEF PromoteMood
  <2> QED
    BY <1>1, <1>5, <2>1, SaveStep
<1>6. CASE ResetHistory
  <2>1. UNCHANGED form
    BY <1>6 DEF ResetHistory
  <2>2. \/ UNCHANGED profile
        \/ profile' = [revision |-> profile.revision + 1, preference |-> NoPreferences]
    BY <1>6 DEF ResetHistory, ResetProfile, IInv, TypeOK
  <2> QED
    BY <1>1, <2>1, <2>2, NoPreferencesType
       DEF IInv, TypeOK, PreferenceForm, UnsavedIsEmpty, RouteFitsStops, RequestsRead, Reads,
           FormsShow, NothingUnseen
<1> QED
  BY <1>2, <1>3, <1>4, <1>5, <1>6 DEF ProfileStep

-----------------------------------------------------------------------------
(* Theorems about the plan and the preferences.                            *)

EditBuilds ==
  plan'.revision # plan.revision \/ plan'.stops # plan.stops => \E e \in Editors : SavedOver(e)

LEMMA PlanStepKeeps ==
  ASSUME IInv, PlanStep
  PROVE  IInv' /\ EditBuilds /\ UNCHANGED profile
<1>1. CASE CalculateRoute
  BY <1>1, UnchangedStep DEF CalculateRoute, tripVars, EditBuilds
<1>2. ASSUME NEW e \in Editors, BeginEdit(e) PROVE IInv' /\ EditBuilds /\ UNCHANGED profile
  BY <1>2, BeginEditStep DEF BeginEdit, EditBuilds
<1>3. ASSUME NEW e \in Editors, SavePlan(e) PROVE IInv' /\ EditBuilds /\ UNCHANGED profile
  BY <1>3, SavePlanStep DEF SavePlan, EditBuilds
<1>4. CASE SetFavorite
  <2>1. plan' = [plan EXCEPT !.favorite = ~@] /\ UNCHANGED <<editor, profile, form>>
    BY <1>4 DEF SetFavorite
  <2>2. /\ plan' \in PlanRow /\ plan'.revision = plan.revision
        /\ plan'.stops = plan.stops /\ plan'.route = plan.route
    BY <2>1 DEF IInv, TypeOK, PlanRow
  <2> QED
    BY <2>1, <2>2 DEF IInv, TypeOK, UnsavedIsEmpty, RouteFitsStops, RequestsRead, Reads,
                      FormsShow, EditBuilds
<1> QED
  BY <1>1, <1>2, <1>3, <1>4 DEF PlanStep

LEMMA DeletePlanKeeps ==
  ASSUME IInv, DeletePlan
  PROVE  IInv' /\ EditBuilds /\ UNCHANGED profile
<1>1. plan' = [plan EXCEPT !.deleted = TRUE] /\ UNCHANGED <<editor, profile, form>>
  BY DEF DeletePlan, profileVars
<1>2. /\ plan' \in PlanRow /\ plan'.revision = plan.revision
      /\ plan'.stops = plan.stops /\ plan'.route = plan.route
  BY <1>1 DEF IInv, TypeOK, PlanRow
<1> QED
  BY <1>1, <1>2 DEF IInv, TypeOK, UnsavedIsEmpty, RouteFitsStops, RequestsRead, Reads,
                    FormsShow, EditBuilds

\* The trip itself leaves plan and preferences alone.
LEMMA CompanionLeavesPlan ==
  ASSUME CompanionStep \/ Tick \/ \E s \in Range(Subjects) : Publish(s) \/ Expire(s)
  PROVE  UNCHANGED tripVars
  BY Zenon DEF CompanionStep, Tick, Publish, Expire, StartSession, ChangeSettings, EndSession,
     BeginRefresh, Ask, BeginWrite, FinishWrite, Crash, Acknowledge, planVars, profileVars,
     tripVars

LEMMA NextStep ==
  IInv /\ [Next]_vars => IInv' /\ [EditBuilds]_plan /\ [NothingUnseen]_profile
<1> SUFFICES ASSUME IInv, [Next]_vars
             PROVE  IInv' /\ [EditBuilds]_plan /\ [NothingUnseen]_profile
  OBVIOUS
<1>1. CASE UNCHANGED tripVars
  BY <1>1, UnchangedStep DEF tripVars
<1>2. CASE UNCHANGED vars
  BY <1>1, <1>2 DEF vars, planVars, profileVars, tripVars
<1>3. CASE PlanStep
  BY <1>3, PlanStepKeeps
<1>4. CASE ProfileStep
  <2>1. UNCHANGED plan
    BY <1>4 DEF ProfileStep, OpenForm, SubmitForm, ReadMood, PromoteMood, ResetHistory, planVars
  <2> QED
    BY <1>4, <2>1, ProfileStepKeeps
<1>5. CASE DeletePlan
  BY <1>5, DeletePlanKeeps
<1> QED
  BY <1>1, <1>2, <1>3, <1>4, <1>5, CompanionLeavesPlan DEF Next

LEMMA Invariant == Spec => []IInv
  BY InitStep, NextStep, PTL DEF Spec

\* The route of a saved plan fits the stops it has now, however many requests
\* draft, save and recalculate at once.
THEOREM RoutesFit == Spec => []RouteFitsStops
<1>1. IInv => RouteFitsStops
  BY DEF IInv
<1> QED
  BY <1>1, Invariant, PTL

\* An edit replaces the plan it was made from, with the star the plan has now
\* and its fixed stops unless they were released.
THEOREM EditsBuild == Spec => EditsBuildOnThePlan
<1>1. IInv /\ [Next]_vars => [EditBuilds]_plan
  BY NextStep
<1> QED
  BY <1>1, Invariant, PTL DEF Spec, EditsBuildOnThePlan, EditBuilds, SavedOver

\* Preferences are replaced only by who has seen them, or emptied by a reset.
THEOREM PreferencesSeen == Spec => NothingUnseenLost
<1>1. IInv /\ [Next]_vars => [NothingUnseen]_profile
  BY NextStep
<1> QED
  BY <1>1, Invariant, PTL DEF Spec, NothingUnseenLost, NothingUnseen, SeenBefore

-----------------------------------------------------------------------------
(* The companion: types.                                                   *)

Kinds == {"observation", "restriction", "tide", "updated", "corrected"}

Fact == {f \in [subject : Range(Subjects), version : Nat] : f.version <= MaxVersion[f.subject]}

ProposalRow == [subject : Range(Subjects), version : Nat, corrects : Int, kind : Kinds]

EventRow ==
  [subject : Range(Subjects), version : Nat, kind : Kinds, status : {"confirmed", "superseded"},
   at : Nat, notifiedAt : Nat \cup {Never}, acknowledged : BOOLEAN]

SessionRow ==
  [state : {"none", "active", "ended", "deleted"}, revision : Nat, stops : Stops, position : Nat,
   location : {"off", "reported"}, seenAt : Nat \cup {Never}, refreshedAt : Nat \cup {Never},
   pause : Nat, facts : SUBSET Fact]

Proposals == UNION {[S -> ProposalRow] : S \in SUBSET Range(Subjects)}

RefreshRow ==
  [at : {"idle", "asking", "found", "writing"}, revision : Nat, facts : SUBSET Fact, now : Nat,
   position : Nat, fetched : BOOLEAN, foreground : BOOLEAN, found : SUBSET Fact,
   proposed : Proposals, prior : SUBSET EventRow]

WorldOK ==
  /\ world \in [Range(Subjects) -> [version : Nat, last : Nat]]
  /\ \A s \in Range(Subjects) :
       world[s].version <= world[s].last /\ world[s].last <= MaxVersion[s]

CompanionTypes ==
  /\ clock \in Nat
  /\ WorldOK
  /\ session \in SessionRow
  /\ events \in SUBSET EventRow
  /\ device \in [Devices -> RefreshRow]

-----------------------------------------------------------------------------
(* The companion: the inductive invariant.                                 *)

\* A record is told of once.
OneKey(es) == \A e, f \in es : KeyOf(e) = KeyOf(f) => e = f

\* The same notice, though it may have been corrected or confirmed since.
Twin(e, f) == KeyOf(e) = KeyOf(f) /\ e.kind = f.kind /\ e.notifiedAt = f.notifiedAt

\* A refresh that writes holds the session, and what it is about to correct is
\* still there.
Writes(q) ==
  q.at = "writing" =>
    /\ session.state = "active"
    /\ OneKey(q.prior)
    /\ \A e \in q.prior : \E f \in events : Twin(e, f)

OneWrites ==
  \A c, d \in Devices : device[c].at = "writing" /\ device[d].at = "writing" => c = d

SessionShape ==
  /\ session.state = "active" => session.pause # 0
  /\ session.state = "ended" =>
       session.location = "off" /\ session.position = 0 /\ session.seenAt = Never

CompanionInv ==
  /\ CompanionTypes
  /\ OneKey(events)
  /\ \A d \in Devices : Writes(device[d])
  /\ OneWrites
  /\ SessionShape

LEMMA NoProposals == <<>> \in Proposals
<1>1. <<>> \in [{} -> ProposalRow] /\ {} \in SUBSET Range(Subjects)
  OBVIOUS
<1> QED
  BY <1>1 DEF Proposals

LEMMA IdleType == Idle \in RefreshRow /\ Idle.at = "idle"
  BY NoProposals DEF Idle, RefreshRow

LEMMA CompanionInit == Init => CompanionInv
<1> SUFFICES ASSUME Init PROVE CompanionInv
  OBVIOUS
<1>1. clock \in Nat /\ events \in SUBSET EventRow /\ events = {}
  BY DEF Init, TripInit
<1>2. WorldOK
  BY CompanionAssumption DEF Init, WorldOK
<1>3. session \in SessionRow /\ session.state = "none"
  BY NoStopsType DEF Init, NoSession, SessionRow
<1>4. device \in [Devices -> RefreshRow] /\ \A d \in Devices : device[d].at = "idle"
  BY IdleType DEF Init
<1> QED
  BY <1>1, <1>2, <1>3, <1>4 DEF CompanionInv, CompanionTypes, OneKey, Writes, OneWrites,
     SessionShape

-----------------------------------------------------------------------------
(* The companion: what a writing refresh makes of the events.              *)

\* What a new notice keeps apart from all others of its kind.
Apart(d, es) ==
  \A e \in es :
    e.notifiedAt # Never /\ (\A f \in events : KeyOf(f) # KeyOf(e)) =>
      /\ e.notifiedAt = device[d].now
      /\ \A f \in es : f # e /\ f.kind = e.kind /\ f.notifiedAt # Never =>
                       e.notifiedAt - f.notifiedAt >= session.pause

\* The events a refresh may have got to, one proposal after the other.
Good(d) ==
  {es \in SUBSET EventRow :
     /\ OneKey(es)
     /\ \A f \in events : \E e \in es : Twin(e, f)
     /\ Apart(d, es)}

LEMMA ToldGood ==
  ASSUME CompanionInv, NEW d \in Devices, device[d].at = "writing", NEW es \in Good(d),
         NEW p \in ProposalRow
  PROVE  Told(d, es, p) \in Good(d)
<1> DEFINE now == device[d].now
           former == {e \in device[d].prior : e.subject = p.subject /\ e.version = p.corrects}
           kept == {e \in es : \A f \in former : KeyOf(e) # KeyOf(f)}
           rewritten == {[e EXCEPT !.status = "superseded"] : e \in former}
           corrected == kept \cup rewritten
           new == Event(p, now, IF Quiet(p, corrected, now) THEN now ELSE Never)
<1>1. /\ now \in Nat /\ session.pause \in Nat \ {0} /\ former \in SUBSET EventRow
      /\ OneKey(former) /\ \A e \in former : \E f \in events : Twin(e, f)
  BY DEF CompanionInv, CompanionTypes, RefreshRow, SessionRow, SessionShape, Writes, OneKey
<1>2. /\ es \in SUBSET EventRow /\ OneKey(es) /\ Apart(d, es)
      /\ \A f \in events : \E e \in es : Twin(e, f)
  BY DEF Good
<1>3. CASE Known(p, es)
  BY <1>3 DEF Told
<1>4. CASE ~Known(p, es)
  <2>1. Told(d, es, p) = corrected \cup {new}
    BY <1>4 DEF Told
  <2>2. \A e \in former : /\ [e EXCEPT !.status = "superseded"] \in EventRow
                         /\ Twin([e EXCEPT !.status = "superseded"], e)
    BY <1>1 DEF EventRow, Twin, KeyOf
  <2>3. /\ new \in EventRow /\ KeyOf(new) = KeyOf(p) /\ new.kind = p.kind
        /\ new.notifiedAt # Never => new.notifiedAt = now /\ Quiet(p, corrected, now)
    BY <1>1 DEF Event, EventRow, ProposalRow, KeyOf
  <2> HIDE DEF new, former, now
  <2>4. \A e \in rewritten : e \in EventRow /\ \E f \in former : Twin(e, f)
    BY <2>2
  <2>5. \A e \in former : \E f \in es : Twin(e, f)
    <3> SUFFICES ASSUME NEW e \in former PROVE \E f \in es : Twin(e, f)
      OBVIOUS
    <3>1. PICK f \in events : Twin(e, f)
      BY <1>1
    <3>2. PICK g \in es : Twin(g, f)
      BY <1>2
    <3> QED
      BY <3>1, <3>2 DEF Twin
  <2>6. \A e \in former : \E f \in rewritten : Twin(e, f)
    BY <2>2 DEF Twin
  <2>7. OneKey(corrected)
    <3>1. ASSUME NEW e \in rewritten, NEW f \in rewritten, KeyOf(e) = KeyOf(f) PROVE e = f
      <4>1. PICK a \in former : e = [a EXCEPT !.status = "superseded"]
        OBVIOUS
      <4>2. PICK b \in former : f = [b EXCEPT !.status = "superseded"]
        OBVIOUS
      <4>3. KeyOf(a) = KeyOf(b)
        BY <2>2, <3>1, <4>1, <4>2 DEF Twin
      <4> QED
        BY <1>1, <4>1, <4>2, <4>3 DEF OneKey
    <3>2. ASSUME NEW e \in kept, NEW f \in rewritten PROVE KeyOf(e) # KeyOf(f)
      BY <2>4 DEF Twin
    <3> QED
      BY <1>2, <3>1, <3>2 DEF OneKey
  <2>8. \A e \in es : \E f \in corrected : Twin(e, f)
    <3> SUFFICES ASSUME NEW e \in es PROVE \E f \in corrected : Twin(e, f)
      OBVIOUS
    <3>1. CASE e \in kept
      BY <3>1 DEF Twin
    <3>2. CASE e \notin kept
      <4>1. PICK a \in former : KeyOf(e) = KeyOf(a)
        BY <3>2
      <4>2. PICK f \in es : Twin(a, f)
        BY <2>5
      <4>3. e = f
        BY <1>2, <4>1, <4>2 DEF OneKey, Twin
      <4>4. PICK g \in rewritten : Twin(a, g)
        BY <2>6
      <4> QED
        BY <4>2, <4>3, <4>4 DEF Twin
    <3> QED
      BY <3>1, <3>2
  <2>9. \A e \in corrected : \E f \in es : Twin(e, f)
    <3> SUFFICES ASSUME NEW e \in rewritten PROVE \E f \in es : Twin(e, f)
      BY DEF Twin
    <3>1. PICK a \in former : Twin(e, a)
      BY <2>4
    <3>2. PICK f \in es : Twin(a, f)
      BY <2>5
    <3> QED
      BY <3>1, <3>2 DEF Twin
  <2>10. corrected \in SUBSET EventRow
    BY <1>2, <2>4
  <2> HIDE DEF corrected
  <2>11. \A e \in corrected : KeyOf(e) # KeyOf(new)
    BY <1>4, <2>3, <2>9 DEF Known, Twin
  <2>12. OneKey(corrected \cup {new})
    BY <2>7, <2>11 DEF OneKey
  <2>13. \A f \in events : \E e \in corrected \cup {new} : Twin(e, f)
    <3> SUFFICES ASSUME NEW f \in events PROVE \E e \in corrected : Twin(e, f)
      OBVIOUS
    <3>1. PICK e \in es : Twin(e, f)
      BY <1>2
    <3>2. PICK g \in corrected : Twin(e, g)
      BY <2>8
    <3> QED
      BY <3>1, <3>2 DEF Twin
  <2>14. Apart(d, corrected \cup {new})
    <3> SUFFICES ASSUME NEW e \in corrected \cup {new}, e.notifiedAt # Never,
                        \A f \in events : KeyOf(f) # KeyOf(e)
                 PROVE  /\ e.notifiedAt = device[d].now
                        /\ \A f \in corrected \cup {new} :
                             f # e /\ f.kind = e.kind /\ f.notifiedAt # Never =>
                               e.notifiedAt - f.notifiedAt >= session.pause
      BY DEF Apart
    <3>1. CASE e = new
      BY <2>3, <3>1 DEF Quiet, now
    <3>2. CASE e \in corrected
      <4>1. PICK a \in es : Twin(e, a)
        BY <2>9, <3>2
      <4>2. /\ a.notifiedAt = now
            /\ \A f \in es : f # a /\ f.kind = a.kind /\ f.notifiedAt # Never =>
                             a.notifiedAt - f.notifiedAt >= session.pause
        BY <1>2, <4>1 DEF Apart, Twin, now
      <4>3. ASSUME NEW f \in corrected, f # e, f.kind = e.kind, f.notifiedAt # Never
            PROVE  e.notifiedAt - f.notifiedAt >= session.pause
        <5>1. PICK b \in es : Twin(f, b)
          BY <2>9, <4>3
        <5>2. KeyOf(e) # KeyOf(f)
          BY <2>7, <3>2, <4>3 DEF OneKey
        <5>3. b # a
          BY <4>1, <5>1, <5>2 DEF Twin
        <5> QED
          BY <4>1, <4>2, <4>3, <5>1, <5>3 DEF Twin
      <4>4. ~(new.kind = e.kind /\ new.notifiedAt # Never)
        <5>1. ASSUME new.kind = e.kind, new.notifiedAt # Never PROVE FALSE
          <6>1. now - e.notifiedAt >= session.pause
            BY <2>3, <3>2, <5>1 DEF Quiet
          <6>2. e.notifiedAt = now
            BY <4>1, <4>2 DEF Twin
          <6> QED
            BY <1>1, <6>1, <6>2
        <5> QED
          BY <5>1
      <4> QED
        BY <4>1, <4>2, <4>3, <4>4 DEF Twin, now
    <3> QED
      BY <3>1, <3>2
  <2> QED
    BY <2>1, <2>3, <2>10, <2>12, <2>13, <2>14 DEF Good
<1> QED
  BY <1>3, <1>4

LEMMA AllToldGood ==
  ASSUME CompanionInv, NEW d \in Devices, device[d].at = "writing"
  PROVE  AllTold(d) \in Good(d)
<1> DEFINE proposed == device[d].proposed
           Step(es, s) == IF s \in DOMAIN proposed THEN Told(d, es, proposed[s]) ELSE es
           n == Len(Subjects)
           step == [x \in Good(d) \X (1 .. n) |-> Step(x[1], Subjects[x[2]])]
           Fold(g) == g = [S \in SUBSET (1 .. n) |->
                             IF S = {} THEN events
                             ELSE Step(g[S \ {Max(S)}], Subjects[Max(S)])]
<1>1. n \in Nat /\ DOMAIN Subjects = 1 .. n
  BY CompanionAssumption
<1>2. AllTold(d) = (CHOOSE g : Fold(g))[1 .. n]
  BY <1>1 DEF AllTold, FoldLeft, MapThenFoldSet
<1>3. \A s \in DOMAIN proposed : proposed[s] \in ProposalRow
  BY DEF CompanionInv, CompanionTypes, RefreshRow, Proposals
<1> HIDE DEF proposed
<1>4. \A es \in Good(d), i \in 1 .. n : Step(es, Subjects[i]) \in Good(d)
  BY <1>3, ToldGood
<1>5. events \in Good(d)
  BY DEF Good, CompanionInv, CompanionTypes, Twin, Apart
<1> HIDE DEF n, Step
<1>6. step \in [Good(d) \X (1 .. n) -> Good(d)]
  BY <1>4
<1>7. PICK h \in [SUBSET (1 .. n) -> Good(d)] : Iterates(n, events, step, h)
  <2> HIDE DEF step
  <2> QED
    BY <1>1, <1>5, <1>6, IterationExists
<1>8. Fold(h)
  <2> SUFFICES ASSUME NEW S \in SUBSET (1 .. n), S # {}
               PROVE  h[S] = Step(h[S \ {Max(S)}], Subjects[Max(S)])
    BY <1>7 DEF Iterates
  <2>1. Max(S) \in 1 .. n /\ S \ {Max(S)} \in SUBSET (1 .. n)
    BY <1>1, LargestIndex
  <2>2. h[S \ {Max(S)}] \in Good(d)
    BY <1>7, <2>1
  <2> QED
    BY <1>7, <2>1, <2>2 DEF Iterates
<1> DEFINE g == CHOOSE f : Fold(f)
<1>9. Fold(g)
  <2> HIDE DEF Fold
  <2> QED
    BY <1>8
<1> HIDE DEF g
<1>10. g[{}] \in Good(d)
  BY <1>5, <1>9
<1>11. \A S \in SUBSET (1 .. n) : S # {} /\ g[S \ {Max(S)}] \in Good(d) => g[S] \in Good(d)
  <2> SUFFICES ASSUME NEW S \in SUBSET (1 .. n), S # {}, g[S \ {Max(S)}] \in Good(d)
               PROVE  g[S] \in Good(d)
    OBVIOUS
  <2>1. Max(S) \in 1 .. n
    BY <1>1, LargestIndex
  <2> QED
    BY <1>4, <1>9, <2>1
<1>12. g[1 .. n] \in Good(d)
  BY <1>1, <1>10, <1>11, IterationInduction
<1> QED
  BY <1>2, <1>12 DEF g

-----------------------------------------------------------------------------
(* The companion: steps.                                                   *)

\* What the theorems say of a step that leaves CompanionInv.
Quietly ==
  session.state \in {"ended", "deleted"} =>
    /\ \A e \in events' : \E f \in events : KeyOf(e) = KeyOf(f)
    /\ session'.state = "ended" =>
         session'.location = "off" /\ session'.position = 0 /\ session'.seenAt = Never

Sparingly ==
  \A e \in events' :
    e.notifiedAt # Never /\ (\A f \in events : KeyOf(f) # KeyOf(e)) =>
      \A f \in events' : f # e /\ f.kind = e.kind /\ f.notifiedAt # Never =>
        KeyOf(f) # KeyOf(e) /\ e.notifiedAt - f.notifiedAt >= session.pause

Kept == CompanionInv' /\ Quietly /\ Sparingly

\* Steps of the world.
LEMMA WorldStep ==
  ASSUME CompanionInv, clock' \in Nat, WorldOK', UNCHANGED <<session, events, device>>
  PROVE  Kept
<1>1. CompanionTypes'
  BY DEF CompanionInv, CompanionTypes
<1>2. CompanionInv'
  BY <1>1 DEF CompanionInv, OneKey, Writes, OneWrites, SessionShape
<1> QED
  BY <1>2 DEF Kept, Quietly, Sparingly, CompanionInv, SessionShape

LEMMA PublishStep ==
  ASSUME CompanionInv, NEW s \in Range(Subjects), Publish(s) \/ Expire(s)
  PROVE  Kept
<1>1. WorldOK /\ MaxVersion[s] \in Nat
  BY CompanionAssumption DEF CompanionInv, CompanionTypes
<1>2. WorldOK'
  BY <1>1 DEF Publish, Expire, WorldOK
<1>3. clock' \in Nat /\ UNCHANGED <<session, events, device>>
  BY DEF Publish, Expire, companionVars, CompanionInv, CompanionTypes
<1> QED
  BY <1>2, <1>3, WorldStep

\* Steps of the session, while nothing is being written.
LEMMA SessionStep ==
  ASSUME CompanionInv, UNCHANGED <<clock, world, device>>, session' \in SessionRow, SessionShape',
         Unlocked \/ session'.state = session.state,
         events' = events \/ events' = {},
         Unlocked \/ events' = events
  PROVE  Kept
<1>1. CompanionTypes'
  BY DEF CompanionInv, CompanionTypes, WorldOK
<1>2. \A d \in Devices : Writes(device[d])'
  BY DEF CompanionInv, Writes, Unlocked
<1>3. CompanionInv'
  BY <1>1, <1>2 DEF CompanionInv, OneKey, OneWrites
<1> QED
  BY <1>3 DEF Kept, Quietly, Sparingly, SessionShape

LEMMA SessionSteps ==
  ASSUME IInv, CompanionInv, StartSession \/ ChangeSettings \/ EndSession \/ DeletePlan
  PROVE  Kept
<1>1. session \in SessionRow /\ SessionShape /\ UNCHANGED <<clock, world, device>>
  BY DEF CompanionInv, CompanionTypes, StartSession, ChangeSettings, EndSession, DeletePlan
<1>2. CASE StartSession
  <2>1. PICK pause \in PauseLengths :
          session' = [NoSession EXCEPT !.state = "active", !.revision = 1, !.stops = plan.stops,
                                       !.location = "reported", !.pause = pause]
    BY <1>2 DEF StartSession
  <2>2. plan.stops \in Stops /\ pause \in Nat /\ pause # 0
    BY CompanionAssumption DEF IInv, TypeOK, PlanRow
  <2>3. session' \in SessionRow /\ SessionShape'
    BY <2>1, <2>2 DEF NoSession, SessionRow, SessionShape
  <2>4. Unlocked /\ UNCHANGED events
    BY <1>2 DEF StartSession, NoSession, CompanionInv, Writes, Unlocked
  <2> QED
    BY <1>1, <2>3, <2>4, SessionStep
<1>3. CASE ChangeSettings
  <2>1. PICK pause \in PauseLengths : session' = [session EXCEPT !.pause = pause, !.revision = @ + 1]
    BY <1>3 DEF ChangeSettings
  <2>2. pause \in Nat /\ pause # 0 /\ session.state = "active"
    BY <1>3, CompanionAssumption DEF ChangeSettings, Active
  <2>4. session.revision + 1 \in Nat
    BY <1>1 DEF SessionRow
  <2>3. session' \in SessionRow /\ session'.state = "active" /\ session'.pause = pause
    BY <1>1, <2>1, <2>2, <2>4 DEF SessionRow
  <2>5. SessionShape'
    BY <2>2, <2>3 DEF SessionShape
  <2> QED
    BY <1>1, <1>3, <2>2, <2>3, <2>5, SessionStep DEF ChangeSettings
<1>4. CASE EndSession
  <2>2. /\ session' = [session EXCEPT !.state = "ended", !.revision = @ + 1, !.position = 0,
                                      !.location = "off", !.seenAt = Never]
        /\ session.revision + 1 \in Nat
    BY <1>1, <1>4 DEF EndSession, SessionRow
  <2>3. /\ session' \in SessionRow /\ session'.state = "ended" /\ session'.position = 0
        /\ session'.location = "off" /\ session'.seenAt = Never
    BY <1>1, <2>2 DEF SessionRow
  <2>1. session' \in SessionRow /\ SessionShape'
    BY <2>3 DEF SessionShape
  <2> QED
    BY <1>1, <1>4, <2>1, SessionStep DEF EndSession
<1>5. CASE DeletePlan
  <2>1. session' = [session EXCEPT !.state = IF @ = "none" THEN @ ELSE "deleted"]
    BY <1>5 DEF DeletePlan
  <2>2. session' \in SessionRow /\ SessionShape'
    BY <1>1, <2>1 DEF SessionRow, SessionShape
  <2> QED
    BY <1>1, <1>5, <2>2, SessionStep DEF DeletePlan
<1> QED
  BY <1>2, <1>3, <1>4, <1>5

\* Steps of a refresh that leave session and events alone.
LEMMA DeviceStep ==
  ASSUME CompanionInv, NEW d \in Devices, NEW q \in RefreshRow, device' = [device EXCEPT ![d] = q],
         UNCHANGED <<clock, world, session, events>>, Writes(q),
         q.at = "writing" => Unlocked
  PROVE  Kept
<1>1. /\ device'[d] = q /\ \A c \in Devices \ {d} : device'[c] = device[c]
      /\ device' \in [Devices -> RefreshRow]
  BY DEF CompanionInv, CompanionTypes
<1>2. CompanionTypes'
  BY <1>1 DEF CompanionInv, CompanionTypes, WorldOK
<1>3. \A c \in Devices : Writes(device[c])'
  BY <1>1 DEF CompanionInv, Writes
<1>4. OneWrites'
  BY <1>1 DEF CompanionInv, OneWrites, Unlocked
<1>5. CompanionInv'
  BY <1>2, <1>3, <1>4 DEF CompanionInv, OneKey, SessionShape
<1> QED
  BY <1>5 DEF Kept, Quietly, Sparingly, CompanionInv, SessionShape

LEMMA BeginRefreshStep == ASSUME CompanionInv, NEW d \in Devices, BeginRefresh(d) PROVE Kept
<1>1. PICK position \in Positions, foreground \in BOOLEAN :
        LET fetches == foreground /\ ~Fresh(position)
        IN device' = [device EXCEPT ![d] =
            [Idle EXCEPT !.at = IF fetches THEN "asking" ELSE "found",
                         !.revision = session.revision, !.facts = session.facts,
                         !.now = clock, !.position = position, !.fetched = fetches,
                         !.foreground = foreground]]
  BY DEF BeginRefresh
<1> DEFINE fetches == foreground /\ ~Fresh(position)
           q == [Idle EXCEPT !.at = IF fetches THEN "asking" ELSE "found",
                         !.revision = session.revision, !.facts = session.facts,
                         !.now = clock, !.position = position, !.fetched = fetches,
                         !.foreground = foreground]
<1>2. position \in Nat
  BY <1>1, TripAssumption DEF Positions
<1>3. fetches \in BOOLEAN
  BY DEF Fresh
<1>4. device' = [device EXCEPT ![d] = q]
  BY <1>1
<1> HIDE DEF fetches
<1>5. q \in RefreshRow /\ q.at # "writing"
  BY <1>2, <1>3, IdleType DEF RefreshRow, CompanionInv, CompanionTypes, SessionRow
<1>6. UNCHANGED <<clock, world, session, events>>
  BY DEF BeginRefresh
<1> HIDE DEF q
<1> QED
  BY <1>4, <1>5, <1>6, DeviceStep DEF Writes

\* What the queries bring are proposals.
LEMMA ProposalType ==
  ASSUME CompanionInv, NEW d \in Devices, NEW s \in Range(Subjects)
  PROVE  Proposal(d, s) \in ProposalRow
<1>1. Corrects(d, s) \in Int
  <2> DEFINE V == {f.version : f \in {g \in device[d].facts :
                                        g.subject = s /\ g.version # world[s].version}}
  <2>1. {0} \cup V \in SUBSET (0 .. MaxVersion[s]) /\ {0} \cup V # {} /\ MaxVersion[s] \in Nat
    BY CompanionAssumption DEF CompanionInv, CompanionTypes, RefreshRow, Fact
  <2>2. Max({0} \cup V) \in {0} \cup V
    <3> HIDE DEF V
    <3> QED
      BY <2>1, MaxOfNaturals
  <2>3. Max({0} \cup V) \in Int
    BY <2>1, <2>2
  <2>4. world[s].version - 1 \in Int
    BY DEF CompanionInv, CompanionTypes, WorldOK
  <2> HIDE DEF V
  <2> QED
    BY <2>3, <2>4 DEF Corrects, V
<1>2. world[s].version \in Nat
  BY DEF CompanionInv, CompanionTypes, WorldOK
<1>3. KindOf[s] \in {"observation", "restriction", "tide"}
  BY CompanionAssumption
<1> QED
  BY <1>1, <1>2, <1>3 DEF Proposal, ProposalRow, Kinds

LEMMA AskStep == ASSUME CompanionInv, NEW d \in Devices, Ask(d) PROVE Kept
<1> DEFINE visible == {s \in Range(Subjects) :
                         SpotOf[s] \in Focus(device[d].position) /\ world[s].version # 0}
           Found(answered) == {[subject |-> s, version |-> world[s].version] :
                                 s \in {a \in answered : KindOf[a] # "restriction"}}
           Proposed(answered, gaveUp) ==
             IF gaveUp THEN <<>> ELSE [s \in answered |-> Proposal(d, s)]
           q(answered, gaveUp) ==
             [device[d] EXCEPT !.at = "found", !.found = Found(answered),
                               !.proposed = Proposed(answered, gaveUp)]
<1>1. PICK answered \in SUBSET visible, gaveUp \in BOOLEAN :
        device' = [device EXCEPT ![d] = q(answered, gaveUp)]
  <2>1. PICK answered \in SUBSET visible, gaveUp \in BOOLEAN :
          device' = [device EXCEPT ![d].at = "found", ![d].found = Found(answered),
                                   ![d].proposed = Proposed(answered, gaveUp)]
    BY DEF Ask
  <2> HIDE DEF Found, Proposed, visible
  <2>2. device' = [device EXCEPT ![d] = q(answered, gaveUp)]
    BY <2>1
  <2> QED
    BY <2>2
<1>2. Found(answered) \in SUBSET Fact
  <2>1. answered \in SUBSET Range(Subjects)
    BY <1>1
  <2>2. \A s \in Range(Subjects) : [subject |-> s, version |-> world[s].version] \in Fact
    BY CompanionAssumption DEF Fact, CompanionInv, CompanionTypes, WorldOK
  <2> QED
    BY <2>1, <2>2
<1>3. Proposed(answered, gaveUp) \in Proposals
  <2>1. CASE gaveUp
    BY <2>1, NoProposals
  <2>2. CASE ~gaveUp
    <3>1. answered \in SUBSET Range(Subjects)
      BY <1>1
    <3>2. [s \in answered |-> Proposal(d, s)] \in [answered -> ProposalRow]
      BY <3>1, ProposalType
    <3> QED
      BY <2>2, <3>1, <3>2 DEF Proposals
  <2> QED
    BY <2>1, <2>2
<1> HIDE DEF Found, Proposed, visible
<1>4. q(answered, gaveUp) \in RefreshRow /\ q(answered, gaveUp).at = "found"
  BY <1>2, <1>3 DEF RefreshRow, CompanionInv, CompanionTypes
<1>5. UNCHANGED <<clock, world, session, events>>
  BY DEF Ask
<1> HIDE DEF q
<1> QED
  BY <1>1, <1>4, <1>5, DeviceStep DEF Writes

LEMMA BeginWriteStep == ASSUME CompanionInv, NEW d \in Devices, BeginWrite(d) PROVE Kept
<1> DEFINE prior == {e \in events : \E s \in DOMAIN device[d].proposed :
                                   /\ ~Known(device[d].proposed[s], events)
                                   /\ e.subject = s
                                   /\ e.version = device[d].proposed[s].corrects}
           q == [device[d] EXCEPT !.at = "writing", !.prior = prior]
<1>1. UNCHANGED <<clock, world, session, events>> /\ Unlocked
  BY DEF BeginWrite
<1>2. CASE Current(d)
  <2>1. device' = [device EXCEPT ![d] = q]
    BY <1>2 DEF BeginWrite
  <2>2. q \in RefreshRow /\ q.prior = prior
    BY DEF RefreshRow, CompanionInv, CompanionTypes
  <2>3. Writes(q)
    <3>1. session.state = "active"
      BY <1>2 DEF Current, Active
    <3>2. OneKey(prior) /\ \A e \in prior : \E f \in events : Twin(e, f)
      BY DEF CompanionInv, OneKey, Twin
    <3> HIDE DEF prior
    <3> QED
      BY <2>2, <3>1, <3>2 DEF Writes
  <2> HIDE DEF q
  <2> QED
    BY <1>1, <2>1, <2>2, <2>3, DeviceStep
<1>3. CASE ~Current(d)
  <2>1. device' = [device EXCEPT ![d] = Idle]
    BY <1>3 DEF BeginWrite
  <2> QED
    BY <1>1, <2>1, IdleType, DeviceStep DEF Writes
<1> QED
  BY <1>2, <1>3

LEMMA CrashKeeps == ASSUME CompanionInv, NEW d \in Devices, Crash(d) PROVE Kept
  BY IdleType, DeviceStep DEF Crash, Writes

LEMMA FinishWriteStep == ASSUME CompanionInv, NEW d \in Devices, FinishWrite(d) PROVE Kept
<1> DEFINE q == device[d]
<1>1. q.at = "writing" /\ q \in RefreshRow /\ session \in SessionRow /\ Writes(q)
  BY DEF FinishWrite, CompanionInv, CompanionTypes
<1>2. events' \in Good(d)
  BY <1>1, AllToldGood DEF FinishWrite
<1>3. session.state = "active"
  BY <1>1 DEF Writes
<1>4. /\ session' = [session EXCEPT !.revision = @ + 1, !.position = q.position,
                                !.location = "reported",
                                !.seenAt = IF q.foreground THEN q.now ELSE Never,
                                !.refreshedAt = IF q.fetched THEN q.now ELSE @,
                                !.facts = IF q.fetched THEN q.found ELSE @]
      /\ device' = [device EXCEPT ![d] = Idle]
      /\ UNCHANGED <<clock, world>>
  BY DEF FinishWrite
<1>5. /\ session' \in SessionRow /\ session'.state = "active" /\ session'.pause = session.pause
  <2>1. /\ q.position \in Nat /\ q.now \in Nat /\ q.found \in SUBSET Fact
        /\ session.revision + 1 \in Nat
    BY <1>1 DEF RefreshRow, SessionRow
  <2> HIDE DEF q
  <2> QED
    BY <1>1, <1>3, <1>4, <2>1 DEF SessionRow
<1>6. /\ \A c \in Devices : device'[c].at # "writing"
      /\ device' \in [Devices -> RefreshRow]
  BY <1>1, <1>4, IdleType DEF CompanionInv, CompanionTypes, OneWrites
<1>7. CompanionInv'
  BY <1>2, <1>3, <1>4, <1>5, <1>6 DEF CompanionInv, CompanionTypes, WorldOK, Good, Writes, OneWrites,
     SessionShape
<1>8. Sparingly
  BY <1>2 DEF Good, Apart, OneKey, Sparingly
<1> QED
  BY <1>3, <1>7, <1>8 DEF Kept, Quietly

LEMMA AcknowledgeStep == ASSUME CompanionInv, Acknowledge PROVE Kept
<1>1. PICK e \in events :
        events' = (events \ {e}) \cup {[e EXCEPT !.acknowledged = TRUE]}
  BY DEF Acknowledge
<1> DEFINE seen == [e EXCEPT !.acknowledged = TRUE]
<1>2. UNCHANGED <<clock, world, session, device>>
  BY DEF Acknowledge
<1>3. seen \in EventRow /\ Twin(seen, e)
  BY DEF CompanionInv, CompanionTypes, EventRow, Twin, KeyOf
<1> HIDE DEF seen
<1>4. events' = (events \ {e}) \cup {seen}
  BY <1>1 DEF seen
<1>5. /\ \A f \in events : \E g \in events' : Twin(f, g)
      /\ \A g \in events' : \E f \in events : Twin(f, g)
  BY <1>3, <1>4 DEF Twin
<1>6. events' \in SUBSET EventRow /\ OneKey(events')
  BY <1>3, <1>4 DEF CompanionInv, CompanionTypes, OneKey, Twin
<1>7. ASSUME NEW d \in Devices PROVE Writes(device[d])'
  <2> SUFFICES ASSUME device[d].at = "writing"
               PROVE  /\ session.state = "active" /\ OneKey(device[d].prior)
                      /\ \A f \in device[d].prior : \E g \in events' : Twin(f, g)
    BY <1>2 DEF Writes
  <2>1. /\ session.state = "active" /\ OneKey(device[d].prior)
        /\ \A f \in device[d].prior : \E g \in events : Twin(f, g)
    BY DEF CompanionInv, Writes
  <2> QED
    BY <1>5, <2>1 DEF Twin
<1>8. CompanionInv'
  BY <1>2, <1>6, <1>7 DEF CompanionInv, CompanionTypes, WorldOK, OneWrites, SessionShape
<1>9. \A g \in events' : \E f \in events : KeyOf(g) = KeyOf(f)
  BY <1>5 DEF Twin
<1> QED
  BY <1>2, <1>8, <1>9 DEF Kept, Quietly, Sparingly, SessionShape, CompanionInv

LEMMA CompanionNext == IInv /\ CompanionInv /\ [Next]_vars => CompanionInv' /\ [Quietly]_vars /\ [Sparingly]_vars
<1> SUFFICES ASSUME IInv, CompanionInv, [Next]_vars PROVE Kept
  BY DEF Kept
<1>1. clock \in Nat /\ WorldOK
  BY DEF CompanionInv, CompanionTypes
<1>2. ASSUME UNCHANGED <<world, companionVars>>, clock' \in Nat PROVE Kept
  <2>1. UNCHANGED <<world, session, events, device>>
    BY <1>2 DEF companionVars
  <2>3. WorldOK'
    BY <1>1, <2>1 DEF WorldOK
  <2> QED
    BY <1>2, <2>1, <2>3, WorldStep
<1>7. CASE Tick
  BY <1>1, <1>2, <1>7 DEF Tick
<1>8. CASE PlanStep /\ UNCHANGED <<world, companionVars>>
  <2>1. UNCHANGED clock
    BY <1>8 DEF PlanStep, CalculateRoute, BeginEdit, SavePlan, SetFavorite
  <2> QED
    BY <1>1, <1>2, <1>8, <2>1
<1>9. CASE ProfileStep /\ UNCHANGED <<world, companionVars>>
  <2>1. UNCHANGED clock
    BY <1>9 DEF ProfileStep, OpenForm, SubmitForm, ReadMood, PromoteMood, ResetHistory
  <2> QED
    BY <1>1, <1>2, <1>9, <2>1
<1>10. CASE UNCHANGED vars
  BY <1>1, <1>2, <1>10 DEF vars
<1>3. CASE DeletePlan \/ StartSession \/ ChangeSettings \/ EndSession
  BY <1>3, SessionSteps
<1>4. ASSUME NEW d \in Devices,
             BeginRefresh(d) \/ Ask(d) \/ BeginWrite(d) \/ FinishWrite(d) \/ Crash(d)
      PROVE  Kept
  BY <1>4, BeginRefreshStep, AskStep, BeginWriteStep, FinishWriteStep, CrashKeeps
<1>5. CASE Acknowledge
  BY <1>5, AcknowledgeStep
<1>6. CASE \E s \in Range(Subjects) : Publish(s) \/ Expire(s)
  BY <1>6, PublishStep
<1>11. CASE CompanionStep
  BY <1>3, <1>4, <1>5, <1>11 DEF CompanionStep
<1> QED
  BY <1>3, <1>6, <1>7, <1>8, <1>9, <1>10, <1>11 DEF Next

LEMMA CompanionInvariant == Spec => []CompanionInv
  BY CompanionInit, CompanionNext, Invariant, PTL DEF Spec

\* A trip that has ended tells of nothing new and locates nobody, though
\* refreshes that were under way come back.
THEOREM EndedTripsAreQuiet == Spec => EndedIsQuiet
<1>1. IInv /\ CompanionInv /\ [Next]_vars => [Quietly]_vars
  BY CompanionNext
<1> QED
  BY <1>1, Invariant, CompanionInvariant, PTL DEF Spec, EndedIsQuiet, Quietly

\* Whatever a refresh proposes, in whatever order the proposals stand and
\* whatever was corrected or confirmed meanwhile, the notices of one kind keep
\* the pause that was set, and a record is told of once.
THEOREM NoticesKeepThePause == Spec => NotifiedSparingly
<1>1. IInv /\ CompanionInv /\ [Next]_vars => [Sparingly]_vars
  BY CompanionNext
<1> QED
  BY <1>1, Invariant, CompanionInvariant, PTL DEF Spec, NotifiedSparingly, Sparingly

=============================================================================
