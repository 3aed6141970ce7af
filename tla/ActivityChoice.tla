--------------------------- MODULE ActivityChoice ---------------------------
(***************************************************************************)
(* The recommendation of an activity (water_index/recommendation.py) and   *)
(* the request that asks for it (recommendation_api.py): the conditions of *)
(* the place are read first; the kind of the place, its tide and season    *)
(* and places to go instead are looked up afterwards, each of which may    *)
(* fail or take too long, and all of them together may take too long.      *)
(*                                                                         *)
(* A condition is the authority's word, the scores of its components and   *)
(* whether the water is too cold; wording, distances and the minutes of    *)
(* the tide are left out.                                                  *)
(***************************************************************************)
EXTENDS Integers, Sequences, FiniteSets, FiniteSetsExt

CONSTANTS
  Worlds,    \* what there is: the kind of the place, the tide, the conditions
             \* of each activity observed and forecast, and those of a valley
  MaxLost    \* bound: lookups of a request that fail or time out

\* RECOMMENDED_ACTIVITIES, in the order that settles ties.
Order == <<"swim", "surf", "relax", "onsen", "walk">>
Activities == {Order[i] : i \in 1 .. Len(Order)}
Position(a) == CHOOSE i \in 1 .. Len(Order) : Order[i] = a

SeaActivities   == {"swim", "surf"}
WaterActivities == {"swim", "surf", "rafting", "mudflat"}
PreferenceMinimum == 40

VARIABLES
  world,
  request    \* what is known so far, what could not be looked up, the answer

choiceVars == <<world, request>>

NoScore == -1
NoChoice == "none"

\* The scores of components are 0 .. 100.
IsEvidence(e, kind) ==
  /\ e.kind = kind
  /\ IsFiniteSet(DOMAIN e.points) /\ \A m \in DOMAIN e.points : e.points[m] \in 0 .. 100

\* What is read of a place says of what kind it is, and an authority's word is
\* for the place and the activity, whether observed or forecast.
ASSUME ChoiceAssumption ==
  \A w \in Worlds :
    /\ w.kind \in {"beach", "inland"}
    /\ \A a \in Activities :
         /\ IsEvidence(w.observed[a], w.kind) /\ IsEvidence(w.forecast[a], w.kind)
         /\ w.forecast[a].word = w.observed[a].word
         /\ IsEvidence(w.valley[a], "inland")

----------------------------------------------------------------------------
(* aggregate_activity_score.  e.points: the components that were evaluated. *)

Blocked(e) == e.word \in {"restricted", "unsupported"}

Score(e) ==
  IF Blocked(e) \/ DOMAIN e.points = {} THEN NoScore
  ELSE FoldSet(LAMBDA m, sum : sum + e.points[m], 0, DOMAIN e.points)
         \div Cardinality(DOMAIN e.points)

\* read_activity: an observation without a score gives way to the forecast,
\* unless an authority has spoken.
ReadActivity(observed, forecast) ==
  IF Blocked(observed) \/ Score(observed) # NoScore THEN observed ELSE forecast

----------------------------------------------------------------------------
(* activity_eligibility.  A place whose kind could not be looked up is what *)
(* its conditions say it is.                                                *)

\* Mutant: a place is inland when the lookup says so.
InlandIfLookedUp(kind, e) == kind = "inland"

Inland(kind, e) == (IF kind = "unknown" THEN e.kind ELSE kind) = "inland"

\* Each of these groups needs a component that was evaluated.
Essentials(a, inland) ==
  IF a \in SeaActivities
  THEN {{"water"}, {IF a = "swim" /\ inland THEN "rain" ELSE "wave"}}
  ELSE IF a = "walk" THEN {{"air"}, {"wind"}, {"rain"}} ELSE {{"air"}}

Objection(a, e, kind) ==
  LET inland == Inland(kind, e)
  IN  IF Blocked(e) \/ (inland /\ a \in {"surf", "mudflat"}) \/ Score(e) = NoScore
      THEN "activity_blocked"
      ELSE IF inland /\ a = "swim" /\ e.word # "supported"
      THEN "inland_swimming_authorization_unconfirmed"
      ELSE IF a = "onsen" /\ e.word # "supported"
      THEN "activity_not_offered_at_place"
      ELSE IF \E group \in Essentials(a, inland) : group \cap DOMAIN e.points = {}
      THEN "essential_measurement_missing"
      ELSE IF a \in SeaActivities /\ e.cold
      THEN "water_too_cold_for_immersion"
      ELSE "none"

Demoted(a, e, kind, tide) ==
  /\ Objection(a, e, kind) = "none"
  /\ a \in SeaActivities
  /\ ~Inland(kind, e)
  /\ tide = "near"

----------------------------------------------------------------------------
(* decide, for the conditions es of the activities.                        *)

Eligible(es, kind) == {a \in Activities : Objection(a, es[a], kind) = "none"}

Preferred(a, e) == a \in WaterActivities /\ Score(e) >= PreferenceMinimum

\* The order of the candidates: the tide, the preference for water, the score.
Rank(a, e, kind, tide) ==
  <<IF Demoted(a, e, kind, tide) THEN 1 ELSE 0, IF Preferred(a, e) THEN 0 ELSE 1,
    -Score(e), Position(a)>>

Ahead(r, s) == \E i \in 1 .. 4 : r[i] < s[i] /\ \A j \in 1 .. i - 1 : r[j] = s[j]

Best(es, kind, tide) ==
  LET live == Eligible(es, kind)
      rank == [a \in live |-> Rank(a, es[a], kind, tide)]
  IN  IF live = {} THEN NoChoice
      ELSE CHOOSE a \in live : \A b \in live \ {a} : Ahead(rank[a], rank[b])

Wave(e) == IF "wave" \in DOMAIN e.points THEN e.points["wave"] ELSE NoScore

\* The reasons a choice is given with, and the activity it is compared with.
Because(best, es, kind, tide) ==
  LET e == es[best]
      better == {a \in Eligible(es, kind) \ WaterActivities : Score(es[a]) > Score(e)}
      rival == IF best = "swim" THEN "surf" ELSE "swim"
  IN  (IF Preferred(best, e) /\ ~Demoted(best, e, kind, tide) /\ better # {}
       THEN {<<"water_activity_preferred", a>> : a \in
               {a \in better : \A b \in better : \/ Score(es[b]) < Score(es[a])
                                                 \/ /\ Score(es[b]) = Score(es[a])
                                                    /\ Position(a) <= Position(b)}}
       ELSE {<<"condition_score_preferred", best>>})
      \cup
      (IF /\ best \in SeaActivities
          /\ kind # "inland"
          /\ rival \in Eligible(es, kind)
          /\ ~Demoted(rival, es[rival], kind, tide)
          /\ Wave(e) > Wave(es[rival])
       THEN {<<"wave_favours", rival>>} ELSE {})

\* Kinds of places to go to instead.
Instead(best, es, kind, tide) ==
  LET cold == \E a \in Activities : Objection(a, es[a], kind) = "water_too_cold_for_immersion"
      late == \E a \in Activities : Demoted(a, es[a], kind, tide)
  IN  (IF best = "onsen" THEN {"onsen"} ELSE {})
      \cup (IF cold \/ (best = NoChoice /\ ~late) THEN {"onsen", "meal", "visit"} ELSE {})
      \cup (IF late THEN {"valley"} ELSE {})
      \cup (IF best = "relax" THEN {"meal", "visit"} ELSE {})

Decide(es, kind, tide) ==
  LET best == Best(es, kind, tide)
  IN  [choice |-> best,
       because |-> IF best = NoChoice THEN {<<"no_water_activity_today", NoChoice>>}
                   ELSE Because(best, es, kind, tide),
       instead |-> Instead(best, es, kind, tide)]

Undecided == [choice |-> NoChoice, because |-> {}, instead |-> {}]

----------------------------------------------------------------------------
(* read_recommendation.                                                    *)

Conditions(w) == [a \in Activities |-> ReadActivity(w.observed[a], w.forecast[a])]

\* Every lookup that fails is named in the answer.
Unavailable(r, code) == [r EXCEPT !.lost = @ \cup {code}]

ChoiceInit ==
  /\ world \in Worlds
  /\ request = [at |-> "place", kind |-> "unknown", tide |-> "unknown", lost |-> {},
                decided |-> FALSE, answer |-> Undecided, valleys |-> FALSE,
                valley |-> NoChoice]

\* Of the season nothing depends.
LookUpPlace ==
  /\ request.at = "place"
  /\ \/ request' = [request EXCEPT !.kind = world.kind,
                                   !.at = IF world.kind = "beach" THEN "tide" ELSE "decide"]
     \/ /\ Cardinality(request.lost) < MaxLost
        /\ request' = [Unavailable(request, "place") EXCEPT !.at = "decide"]
  /\ UNCHANGED world

LookUpTide ==
  /\ request.at = "tide"
  /\ \/ request' = [request EXCEPT !.tide = world.tide, !.at = "season"]
     \/ /\ Cardinality(request.lost) < MaxLost
        /\ request' = [Unavailable(request, "tide") EXCEPT !.at = "season"]
  /\ UNCHANGED world

LookUpSeason ==
  /\ request.at = "season"
  /\ \/ request' = [request EXCEPT !.at = "decide"]
     \/ /\ Cardinality(request.lost) < MaxLost
        /\ request' = [Unavailable(request, "season") EXCEPT !.at = "decide"]
  /\ UNCHANGED world

\* Nobody asks.
ChoiceRests ==
  /\ world = "nowhere"
  /\ request = [at |-> "rest", kind |-> "unknown", tide |-> "unknown", lost |-> {},
                decided |-> FALSE, answer |-> Undecided, valleys |-> FALSE,
                valley |-> NoChoice]

WithDecision(r) ==
  [r EXCEPT !.decided = TRUE, !.answer = Decide(Conditions(world), r.kind, r.tide)]

DecideActivity ==
  /\ request.at = "decide"
  /\ request' = [WithDecision(request) EXCEPT
       !.at = IF request.kind # "unknown" /\ WithDecision(request).answer.instead # {}
              THEN "alternatives" ELSE "done"]
  /\ UNCHANGED world

\* Valleys, and what the catalogue has of the other kinds.
LookUpAlternatives ==
  /\ request.at = "alternatives"
  /\ \/ request' = [request EXCEPT !.valleys = "valley" \in request.answer.instead,
                                   !.at = "valley"]
     \/ /\ Cardinality(request.lost) < MaxLost
        /\ request' = [Unavailable(request, "alternatives") EXCEPT !.at = "done"]
  /\ UNCHANGED world

\* Of a valley nothing but its conditions is looked up, and of these nothing
\* but the observations.
LookUpValley ==
  /\ request.at = "valley"
  /\ \/ request' = [request EXCEPT
          !.at = "done",
          !.valley = IF request.valleys THEN Best(world.valley, "unknown", "unknown")
                     ELSE NoChoice]
     \/ /\ Cardinality(request.lost) < MaxLost /\ request.valleys
        /\ request' = [Unavailable(request, "valley") EXCEPT !.at = "done"]
  /\ UNCHANGED world

\* Mutant: after the time is up what was looked up is not used.
ForgetsPlace ==
  /\ request.at \notin {"decide", "done"}
  /\ Cardinality(request.lost) < MaxLost
  /\ LET late == Unavailable(request, "context")
     IN  request' = [(IF late.decided THEN late
                      ELSE [late EXCEPT !.decided = TRUE]) EXCEPT !.at = "done"]
  /\ UNCHANGED world

\* The time of all lookups together is up: the answer is decided from what is
\* known, unless it has been.
ContextTimesOut ==
  /\ request.at \notin {"decide", "done"}
  /\ Cardinality(request.lost) < MaxLost
  /\ LET late == Unavailable(request, "context")
     IN  request' = [(IF late.decided THEN late ELSE WithDecision(late)) EXCEPT !.at = "done"]
  /\ UNCHANGED world

ChoiceNext ==
  \/ LookUpPlace \/ LookUpTide \/ LookUpSeason \/ DecideActivity
  \/ LookUpAlternatives \/ LookUpValley \/ ContextTimesOut

ChoiceSpec == ChoiceInit /\ [][ChoiceNext]_choiceVars

----------------------------------------------------------------------------
(* Properties.                                                             *)

\* What may be recommended, whoever fails to answer: no authority restricts it,
\* observed or forecast, and it is possible and offered at a place of this kind.
Permitted(a, observed, forecast, kind) ==
  /\ \A e \in {observed, forecast} : ~Blocked(e)
  /\ kind = "inland" => /\ a # "surf"
                        /\ a = "swim" => observed.word = "supported"
  /\ a = "onsen" => observed.word = "supported"

\* A choice never goes against what is officially known, neither by falling back
\* from an observation to a forecast nor by a lookup that fails, also not the
\* choice named for a valley.
OfficialWordIsFinal ==
  request.at = "done" =>
    /\ request.answer.choice # NoChoice =>
         LET a == request.answer.choice
         IN  Permitted(a, world.observed[a], world.forecast[a], world.kind)
    /\ request.valley # NoChoice =>
         Permitted(request.valley, world.valley[request.valley],
                   world.valley[request.valley], "inland")

\* A recommendation degrades openly.  With every lookup answered it is the one for
\* what there is; otherwise it names what is missing, and the only thing that can
\* then be different is that the tide has not been considered.
DegradesOpenly ==
  request.at = "done" =>
    LET full == Best(Conditions(world), world.kind, world.tide)
        dry  == Best(Conditions(world), world.kind, "unknown")
    IN  /\ request.decided
        /\ request.answer.choice \in {full, dry}
        /\ request.answer.choice # full =>
             {"place", "tide", "context"} \cap request.lost # {}
        /\ request.answer.choice = NoChoice => full = NoChoice
=============================================================================
