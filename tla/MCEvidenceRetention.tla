------------------------ MODULE MCEvidenceRetention ------------------------
(* Instances of EvidenceRetention for TLC.                                 *)
EXTENDS EvidenceRetention, TLC

\* Record 1 ends within the first day, record 2 lies across the midnight after
\* it; both are forecasts of one product.
From == <<0, 1>>
To   == <<1, 3>>
Key  == <<1, 2>>
One  == [r \in Records |-> 1]

\* The station's own place, and one it is mapped to for the later record.
Parts == <<{1, 2}, {2}>>

Turns == {{"water_index_evaluation"}, {"forecast_projection", "condition_projection"}}

\* Values are compared for equality only.
Same == Permutations(Contents)
=============================================================================
