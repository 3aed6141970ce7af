----------------------------- MODULE Deployment -----------------------------
(***************************************************************************)
(* Deployments of main (ops/pongdang-deploy-watch, pongdang-deploy-local,  *)
(* pongdang-deploy) beside the mode controller.  The watch waits for the   *)
(* images of the latest commit, records the attempt and hands it to the    *)
(* gate; the gate and the controller exclude each other by deploy.lock,    *)
(* and the gate refuses while the marker of the archive exists.            *)
(*                                                                         *)
(* Commits are numbered in the order main gets them.  What GitHub answers  *)
(* is one state per commit, that of its newest run and attempt.            *)
(***************************************************************************)
EXTENDS ArchiveMode

CONSTANTS
  MaxCommit,   \* bound on the commits of main
  MaxAttempt   \* bound on the CI attempts of a commit

ASSUME DeploymentAssumption == {MaxCommit, MaxAttempt} \subseteq Nat \ {0}

VARIABLES
  main,      \* external: the latest commit
  builds,    \* external: the newest attempt of each commit and how it stands
  current,   \* the commit the link "current" names
  attempt,   \* deploy-watch-state.json: the attempt recorded last
  watch,     \* the deployment watch
  gate,      \* the gate it has called
  handed     \* attempts that have been handed to the gate

deployVars == <<main, builds, current, attempt, watch, gate, handed>>
vars == <<host, mode, deployVars>>

Commits == 1 .. MaxCommit
Away == [at |-> None, sha |-> 0, number |-> 0]
NoGate == [at |-> None, sha |-> 0]

InGate == gate.at \in {"check", "initialize", "up", "undo", "link"}
Locked == mode # Idle \/ InGate

----------------------------------------------------------------------------
(* GitHub.                                                                 *)

Push ==
  /\ main < MaxCommit
  /\ main' = main + 1
  /\ UNCHANGED <<host, mode, builds, current, attempt, watch, gate, handed>>

\* Of earlier commits nobody asks.
Build ==
  /\ \E s \in Commits :
       \/ /\ s = main /\ builds[s].state # "running"
          /\ builds[s].number < MaxAttempt
          /\ builds' = [builds EXCEPT ![s] = [number |-> @.number + 1,
                                              state |-> "running"]]
       \/ /\ builds[s].state = "running"
          /\ \E r \in {"success", "failure"} :
               builds' = [builds EXCEPT ![s].state = r]
  /\ UNCHANGED <<host, mode, main, current, attempt, watch, gate, handed>>

----------------------------------------------------------------------------
(* The watch.                                                              *)

\* select_run and jobs_succeeded: the newest attempt, completed with success.
Candidate(s) == [sha |-> s, number |-> builds[s].number]
Eligible(s)  == builds[s].state = "success"

AlreadyAttempted(c) == attempt.sha = c.sha /\ attempt.number = c.number

WatchStart ==
  /\ host.watching
  /\ watch = Away
  /\ current # main /\ Eligible(main) /\ ~AlreadyAttempted(Candidate(main))
  /\ watch' = [at |-> "verify", sha |-> main, number |-> builds[main].number]
  /\ UNCHANGED <<host, mode, main, builds, current, attempt, gate, handed>>

Chosen == [sha |-> watch.sha, number |-> watch.number]

\* How it came out is recorded too, for the reader of the log only.
Recorded == attempt' = Chosen

\* Mutant: the attempt is recorded when it is over.
DeployUnrecorded ==
  /\ watch' = [watch EXCEPT !.at = "deploy"]
  /\ UNCHANGED attempt

\* The attempt is recorded before it is handed over.
RecordAttempt ==
  /\ watch' = [watch EXCEPT !.at = "deploy"]
  /\ Recorded

\* Everything is read once more.
WatchVerify ==
  /\ watch.at = "verify"
  /\ IF /\ main = watch.sha /\ Eligible(main) /\ Candidate(main) = Chosen
        /\ current # main /\ ~AlreadyAttempted(Chosen)
     THEN RecordAttempt
     ELSE watch' = Away /\ UNCHANGED attempt
  /\ UNCHANGED <<host, mode, main, builds, current, gate, handed>>

\* pongdang-deploy-local: the gate is not called for what is current.
WatchDeploy ==
  /\ watch.at = "deploy"
  /\ IF current = watch.sha
     THEN /\ watch' = Away /\ Recorded
          /\ UNCHANGED <<gate, handed>>
     ELSE /\ watch' = [watch EXCEPT !.at = "wait"]
          /\ gate' = [at |-> "lock", sha |-> watch.sha]
          /\ handed' = handed \cup {Chosen}
          /\ UNCHANGED attempt
  /\ UNCHANGED <<host, mode, main, builds, current>>

\* The gate has ended.
WatchEnd ==
  /\ watch.at = "wait" /\ gate.at = "ended"
  /\ watch' = Away
  /\ gate' = NoGate
  /\ Recorded
  /\ UNCHANGED <<host, mode, main, builds, current, handed>>

----------------------------------------------------------------------------
(* The gate.                                                               *)

Gate(at) == gate' = [gate EXCEPT !.at = at]
GateOnly == UNCHANGED <<mode, main, builds, attempt, watch, handed>>

\* Mutant: a lock that the controller does not hold.
GateOwnLock ==
  /\ gate.at = "lock"
  /\ Gate("check")
  /\ UNCHANGED <<host, current>>

\* It waits for deploy.lock, for twenty minutes at most.
GateLock ==
  /\ gate.at = "lock"
  /\ \/ ~Locked /\ Gate("check")
     \/ Locked /\ Gate("ended")
  /\ UNCHANGED <<host, current>>

\* The marker, and main as it is now; getting and building the commit may
\* fail and changes nothing that runs.
GateCheck ==
  /\ gate.at = "check"
  /\ \/ host.marker = NoMarker /\ main = gate.sha /\ Gate("initialize")
     \/ Gate("ended")
  /\ UNCHANGED <<host, current>>

\* The database is started and the schema added to.
GateInitialize ==
  /\ gate.at = "initialize"
  /\ \/ host' = WithDatabase(host) /\ Gate("up")
     \/ host' \in {host, WithDatabase(host)} /\ Gate("ended")
  /\ UNCHANGED current

\* Any of the services; the website after the backend and unless the name is
\* taken.
Partly(h, services) ==
  LET started(some) == [h EXCEPT !.up = @ \cup some]
      website(some) == [started(some) EXCEPT !.web = "live", !.by = "deployed"]
  IN  {started(some) : some \in SUBSET services}
        \cup {website(some) : some \in {x \in SUBSET services :
                                       "backend" \in x /\ h.web # "archive"}}

AllUp(h, services) ==
  {g \in Partly(h, services) : services \subseteq g.up /\ g.web = "live"}

GateUp ==
  /\ gate.at = "up"
  /\ \/ host' \in AllUp(host, Services) /\ Gate("link")
     \/ host' \in Partly(host, Services) /\ Gate("undo")
  /\ UNCHANGED current

\* The previous release, with the same schema.
GateUndo ==
  /\ gate.at = "undo"
  /\ host' \in Partly(host, {"backend", "collector"})
  /\ Gate("ended")
  /\ UNCHANGED current

GateLink ==
  /\ gate.at = "link"
  /\ current' = gate.sha
  /\ Gate("ended")
  /\ UNCHANGED host

GateStep ==
  /\ \/ GateLock \/ GateCheck \/ GateInitialize \/ GateUp \/ GateUndo \/ GateLink
  /\ GateOnly

\* The service is stopped, with the gate, by its timeout or a restart.
WatchKilled ==
  /\ watch # Away
  /\ watch' = Away
  /\ gate' = NoGate
  /\ UNCHANGED <<host, mode, main, builds, current, attempt, handed>>

----------------------------------------------------------------------------
DeploymentInit ==
  /\ main = 1
  /\ builds = [s \in Commits |-> [number |-> IF s = 1 THEN 1 ELSE 0,
                                  state |-> IF s = 1 THEN "success" ELSE None]]
  /\ current = 1
  /\ attempt = [sha |-> 1, number |-> 1]
  /\ watch = Away
  /\ gate = NoGate
  /\ handed = {}

Init == HostInit /\ ModeInit /\ DeploymentInit

OperatorStep ==
  /\ ~Locked
  /\ \/ (\E remove \in BOOLEAN : Archive(remove)) /\ UNCHANGED host
     \/ Resume /\ UNCHANGED host
     \/ Prepare /\ UNCHANGED mode

ModeStep == mode # Idle /\ (Complete \/ Fail \/ Killed)

Next ==
  \/ OperatorStep /\ UNCHANGED deployVars
  \/ ModeStep /\ UNCHANGED deployVars
  \/ Write /\ UNCHANGED <<mode, deployVars>>
  \/ Push \/ Build
  \/ WatchStart \/ WatchVerify \/ WatchDeploy \/ WatchEnd \/ WatchKilled
  \/ GateStep

Spec == Init /\ [][Next]_vars
----------------------------------------------------------------------------
(* Properties.                                                             *)

\* Backend and collector never run on a database that is empty or half
\* restored, whatever failed or was killed before: "do not replace real data
\* by an empty database" (archive-recovery.md).
LiveOnRealData ==
  host.up \cap {"backend", "collector"} # {} => Real(host)

\* What was written since a resume brought the live website back is never
\* deleted, not even with the old backup at hand and after more failures.
ResumedDataKept == "resumed" \notin host.lost

\* What the live website wrote that a failed activation brought back is not
\* deleted either: "Reusing an archive generation after live operation may
\* discard newer real data. A new, quiesced preparation is required instead."
\* (pongdang-mode:394).  It does not hold.
RolledBackDataKept == "rolledback" \notin host.lost

\* A command that finds a website served leaves one served, the saved or the
\* live one, even if one of its commands fails; but not the renewal of a saved
\* website, which has nothing to go back to.
OneFailureKeepsTheSite ==
  [][/\ mode # Idle /\ mode' = Idle
     /\ mode.served /\ ~mode.already
     /\ \/ Complete /\ mode.failures <= 1
        \/ Fail /\ mode.failures = 0
     => Served(host')]_vars

\* "The mode controller holds this same lock and removes the marker only after
\* the restored live stack is healthy" (pongdang-deploy:27): archive mode ends
\* with the whole live stack on real data, under the monitor, and until then no
\* deployment changes the host, however long it has waited for its turn.
ArchiveEndsLive ==
  [][/\ host.marker # NoMarker /\ host'.marker = NoMarker =>
          /\ host.up = Services /\ host.web = "live" /\ Real(host)
          /\ ~host.retired /\ host.lastLive
     /\ gate' # gate /\ host' # host => host.marker = NoMarker /\ mode = Idle]_vars

\* No CI attempt is handed to the gate twice, also when the watch was stopped
\* or the gate failed, and however often main moves on (ci.md:74).
AttemptOnce ==
  [][watch.at = "deploy" /\ gate' # gate => Chosen \notin handed]_vars
=============================================================================
