----------------------- MODULE MCNotificationDelivery -----------------------
(* Instances of NotificationDelivery for TLC.                              *)
EXTENDS NotificationDelivery, TLC

Identical == Permutations(Senders)

\* Bound: users and imports act before the last instant, and the provider is
\* configured by the end of the first one.
BoundedNext ==
  /\ Next
  /\ <<subscription, reading>>' # <<subscription, reading>> => clock < MaxTime
  /\ \A s \in Senders :
       sender'[s].step = "read" /\ sender'[s].plan = "not_configured" => clock = 0

BoundedSpec == Init /\ [][BoundedNext]_vars
=============================================================================
