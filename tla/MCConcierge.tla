---------------------------- MODULE MCConcierge ----------------------------
(* Instances of Concierge for TLC.                                         *)
EXTENDS Concierge

\* One caller makes every request.
OneCaller == [r \in Requests |-> "anyone"]

\* The place has to be found before its data is read.
Plans == {<<"search", "feature">>}
=============================================================================
