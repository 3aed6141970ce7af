--------------------------- MODULE MCTripCompanion ---------------------------
(* Model-checking instance of TripCompanion. *)
EXTENDS TripCompanion

\* An observation of the first stop and a restriction of the second.
Records2 == <<"wave", "closed">>
Spots    == ("wave" :> 1) @@ ("closed" :> 2)
Kinds    == ("wave" :> "observation") @@ ("closed" :> "restriction")
Versions == ("wave" :> 2) @@ ("closed" :> 2)

Untouched == profile.revision = 0 /\ \A e \in Editors : form[e] = NoForm
AtHome    == plan.revision = 0 /\ receipts = {} /\ \A e \in Editors : editor[e] = NoRequest
NoTrip    == session = NoSession

\* Plans of a stop that may be fixed and of one that is not, with a route of
\* free stops at most.
Editing ==
  /\ Untouched /\ NoTrip
  /\ \/ Tick /\ clock' <= 1
     \/ PlanStep /\ UNCHANGED <<world, companionVars>>
  /\ ~plan'.conflict
  /\ \A r \in receipts' : ~r.stops[1].fixed /\ ~r.stops[2].fixed
  /\ \A e \in Editors : ~editor'[e].stops[2].fixed /\ editor'[e].unlock \subseteq {1}

Preferring ==
  /\ AtHome /\ NoTrip /\ clock = 0
  /\ ProfileStep /\ UNCHANGED <<world, companionVars>>

\* A plan of two free stops, saved once.
Planning ==
  /\ Untouched /\ NoTrip /\ plan.revision = 0 /\ clock = 0 /\ receipts = {}
  /\ \E e \in Editors : BeginEdit(e) \/ SavePlan(e)
  /\ UNCHANGED <<world, companionVars>>
  /\ \A e \in Editors : editor'[e] # NoRequest =>
       \A i \in Items : editor'[e].stops[i] # Absent /\ ~editor'[e].stops[i].fixed
  /\ \E e \in Editors : \A f \in Editors \ {e} : editor'[f] = NoRequest

\* A trip of a traveller who is always at a stop and confirms the first event of
\* the observation; three appear and
\* only the restriction ends early.
Travelling ==
  /\ plan.revision = 1 /\ ~plan.favorite /\ plan.route = NoStops /\ receipts = {}
  /\ \A i \in Items : plan.stops[i] # Absent /\ ~plan.stops[i].fixed
  /\ session = NoSession => clock = 0
  /\ \A e \in Editors : editor[e] = NoRequest
  /\ \/ DeletePlan
     \/ CompanionStep
     \/ Active /\ (Tick \/ \E s \in Range(Subjects) : Publish(s))
          /\ world'["wave"].last + world'["closed"].last <= 3
     \/ Active /\ Expire("closed")
  /\ \A d \in Devices : device'[d] # Idle => device'[d].position # 0
  /\ \A e \in events' : e.acknowledged => e.subject = "wave" /\ e.version = 1

\* Bound: plans are edited, preferences are changed or a trip is made.
Scenario == Editing \/ Preferring \/ Planning \/ Travelling

ScenarioSpec == Init /\ [][Scenario]_vars

Alike == Permutations(Editors) \cup Permutations(Devices)
=============================================================================
