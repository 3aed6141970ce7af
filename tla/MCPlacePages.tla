----------------------------- MODULE MCPlacePages -----------------------------
(***************************************************************************)
(* What the page of a place is made of.  The parts share no state, so each *)
(* behaviour is one of one part: the intervals of the published conditions *)
(* are merged, the records of stations are read, an activity is            *)
(* recommended, details and a photo are fetched.                           *)
(***************************************************************************)
EXTENDS MCResultIntervals, ConditionEvidence, ActivityChoice, PlacePictures, TLC

VARIABLE part

vars == <<mergeVars, sourceVars, choiceVars, detailVars, pictureVars, part>>

Init ==
  /\ part \in {"merge", "evidence", "choice", "details"}
  /\ IF part = "merge" THEN MergeInit ELSE MergeRests
  /\ SourceInit
  /\ IF part = "choice" THEN ChoiceInit ELSE ChoiceRests
  /\ DetailsInit /\ PicturesInit
  /\ part # "details" => record.content = "open"

Next ==
  /\ UNCHANGED part
  /\ \/ /\ part = "merge" /\ MergeNext
        /\ UNCHANGED <<sourceVars, choiceVars, detailVars, pictureVars>>
     \/ /\ part = "evidence" /\ EvidenceNext
        /\ UNCHANGED <<mergeVars, choiceVars, detailVars, pictureVars>>
     \/ /\ part = "choice" /\ ChoiceNext
        /\ UNCHANGED <<mergeVars, sourceVars, detailVars, pictureVars>>
     \/ /\ part = "details" /\ DetailStep
        /\ UNCHANGED <<mergeVars, sourceVars, choiceVars, pictureVars>>
     \/ /\ part = "details" /\ PictureStep
        /\ UNCHANGED <<mergeVars, sourceVars, choiceVars>>

Spec == Init /\ [][Next]_vars

Identical == Permutations(Spots) \cup Permutations(Collectors)

----------------------------------------------------------------------------
(* Records: the first two of station 1, the last of station 2; the later   *)
(* ones are of the same target.                                            *)

StationsOfRecords == <<1, 1, 2>>
TargetStarts == <<0, 1, 1>>
TargetEnds   == <<2, 3, 3>>

Around(first, second, near, far, weather) ==
  [relation |-> <<first, second>>, distance |-> <<near, far>>, weather |-> weather]

Places ==
  {Around("mapped", "mapped", 0, 0, FALSE), Around("mapped", "nearby", 0, 0, FALSE),
   Around("mapped", "nearby", 0, 1, FALSE), Around("nearby", "nearby", 1, 2, FALSE),
   Around("nearby", "nearby", 2, 1, FALSE), Around("nearby", "grid", 1, 0, TRUE),
   Around("grid", "nearby", 0, 1, TRUE),    Around("nearby", "grid", 1, 0, FALSE)}

----------------------------------------------------------------------------
(* Conditions of the activities at a place of some kind.                   *)

NoPoints == <<>>
Calm  == [water |-> 60, wave |-> 30]
Rough == [water |-> 30, wave |-> 60]
Wet   == [water |-> 60, rain |-> 60]

E(kind, word, points, cold) ==
  [kind |-> kind, word |-> word, points |-> points, cold |-> cold]

Swims(k) ==
  {E(k, w, p, FALSE) : w \in {"supported", "unknown"}, p \in {Calm, Rough, Wet, NoPoints}}
  \cup {E(k, "unknown", Calm, TRUE), E(k, "restricted", Calm, FALSE)}

Surfs(k) ==
  {E(k, "unknown", Calm, FALSE), E(k, "unknown", Rough, FALSE),
   E(k, "unknown", NoPoints, FALSE), E(k, "unsupported", Rough, FALSE)}

\* On land: the air and, where it is known, wind and rain.
Ashore(k) ==
  {<<E(k, "unknown", [air |-> 70], FALSE),
     E(k, "unknown", [air |-> 50, wind |-> 50, rain |-> 50], FALSE)>>,
   <<E(k, "unknown", NoPoints, FALSE), E(k, "unknown", [air |-> 90], FALSE)>>}

Onsens(k) == {E(k, w, [air |-> 70], FALSE) : w \in {"supported", "unknown"}}

Sky(swim, surf, ashore, onsen) ==
  [swim |-> swim, surf |-> surf, relax |-> ashore[1], onsen |-> onsen, walk |-> ashore[2]]

Skies(k) == {Sky(m, s, a, o) : m \in Swims(k), s \in Surfs(k), a \in Ashore(k), o \in Onsens(k)}

\* An authority says the same of every mode.
Foreseen(sky, points) ==
  [a \in Activities |-> E(sky[a].kind, sky[a].word, points, FALSE)]

Valley(word) == [a \in Activities |-> E("inland", word, Wet, FALSE)]

WorldsOf(kind, tide) ==
  {[kind |-> kind, tide |-> tide, observed |-> sky, forecast |-> Foreseen(sky, points),
    valley |-> Valley(word)] :
     sky \in Skies(kind), points \in {NoPoints, Rough},
     word \in IF tide = "near" THEN {"supported", "unknown"} ELSE {"unknown"}}

PossibleWorlds ==
  WorldsOf("beach", "near") \cup WorldsOf("beach", "clear") \cup WorldsOf("inland", "clear")

----------------------------------------------------------------------------
(* What the provider tells of a place: a photo that may be used, one that  *)
(* may not, or none, so that its list of images is asked.                  *)

PictureOf == [open |-> "p", closed |-> "restricted", plain |-> "unlisted"]
GalleryOf == [open |-> "no_image", closed |-> "no_image", plain |-> "q"]
===============================================================================
