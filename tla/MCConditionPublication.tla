----------------------- MODULE MCConditionPublication -----------------------
(* Model-checking instances of ConditionPublication. *)
EXTENDS ConditionPublication, TLC

Identical == Permutations(Writers)

\* A source change concerns everything or what lies after the first day.
WholeOrLater == {Slots, DayLength..(MaxTime + Window)}
WholeOnly == {Slots}
=============================================================================
