-------------------------- MODULE MCCollectionWorker --------------------------
(***************************************************************************)
(* Instances of CollectionWorker for TLC.  Configurations are written as   *)
(* the set of the enabled jobs and one interval for all of them.           *)
(***************************************************************************)
EXTENDS CollectionWorker

Identical == Permutations(Workers)

Configured(enabled, interval) ==
  [j \in Jobs |-> [enabled |-> j \in enabled, interval |-> interval]]

OneSource == <<"khoa_beach">>

\* One source and the scores.
ScoresOnly == {Configured(Sources \cup {Condition}, 2)}

\* Racing workers: one source, the scores and the evaluation, which may leave
\* work for a continuation.
Racing == Configured({"khoa_beach", Condition, "water_index_evaluation"}, 1)

\* A restart may lose the scores and change the intervals.
Restarted == {Configured(Sources \cup {Condition}, 1), Configured({"khoa_beach"}, 2)}

\* A worker that is not there.
Absent == Configured({}, 1)

RacingOrRestarted == {Racing, Absent} \cup Restarted

\* Bound for safety: either all workers race under one configuration and one dies
\* or loses a session at the start, or one worker is alone, restarts at instant 1
\* with another configuration and is asked for a refresh then or later.  When a
\* session was lost, no automatic pass starts after the request.
ScenarioInit ==
  /\ Init
  /\ \/ \A w \in Workers : config[w] = Racing
     \/ \E w \in Workers : config[w] \in Restarted /\ \A v \in Workers \ {w} : config[v] = Absent

WorksAlone(w) == config[w] \in Restarted

ScenarioNext ==
  /\ Next
  /\ losses' # losses => crashes = 0 /\ clock = 0
  /\ disturbed /\ requests > 0 => \A w \in Workers : pass[w] = 0 => pass'[w] = 0
  /\ crashes' # crashes => losses = 0 /\ clock = IF \E w \in Workers : WorksAlone(w) THEN 1 ELSE 0
  /\ \A w \in Workers :
       /\ WorksAlone(w) => config'[w] \in Restarted
       /\ ~WorksAlone(w) => config'[w] = config[w]
       /\ config[w] = Absent => UNCHANGED <<pass[w], refresh[w], run[w]>>
       /\ WorksAlone(w) /\ requests' # requests => clock > 0
       /\ run[w] # NoRun => row'[run[w].job].state # IF WorksAlone(w) THEN "partial" ELSE "failed"
       /\ ~WorksAlone(w) /\ config[w] # Absent => clock' < MaxTime

ScenarioSpec == ScenarioInit /\ [][ScenarioNext]_vars

\* Bound for liveness: a behaviour sees requests or withdrawals of evidence, and
\* one crash or lost session, always of the same worker (they are alike) and with
\* a request while it serves it; once a request is made, no automatic run fails.
Faulty == CHOOSE w \in Workers : TRUE

EitherNext ==
  /\ Next
  /\ requests' = 0 \/ revocations' = 0
  /\ crashes' + losses' < 2
  /\ <<crashes, losses>>' # <<crashes, losses>> =>
       /\ revocations > 0 \/ refresh[Faulty] # NoRefresh
       /\ clock = 0
       /\ \A w \in Workers \ {Faulty} : UNCHANGED <<pass[w], refresh[w], run[w]>>
  /\ \A w \in Workers :
       requests > 0 /\ run'[w] # run[w] /\ run[w].job \in Jobs /\ ~run[w].manual
         => row'[run[w].job].state # "failed"

EitherSpec == Init /\ [][EitherNext]_vars /\ Fairness
=============================================================================
