---------------------------- MODULE TripCompanion ----------------------------
(***************************************************************************)
(* A trip with its foreground companion (travel/companion.py): a session   *)
(* started from a saved plan, refreshed by the traveller's devices, each   *)
(* of which reads the session, asks for evidence without any lock and then *)
(* writes what it found.  The evidence is a world of subjects whose record *)
(* is published, corrected and withdrawn at any time.                      *)
(***************************************************************************)
EXTENDS TripPlans, SequencesExt, FiniteSetsExt

CONSTANTS
  Devices,       \* refreshes that may be under way at once
  Subjects,      \* the records there may be news of, in the order of a refresh
  SpotOf,        \* the place (stop) each of them is about
  KindOf,        \* "observation", "restriction" or "tide"
  CacheLife,     \* 60 s
  PauseLengths,  \* settings of the shortest pause between two notifications
  MaxVersion,    \* bound: versions of each record
  MaxRefreshes,  \* bound: refreshes
  MaxSettings    \* bound: changes of the settings

ASSUME CompanionAssumption ==
  /\ Subjects \in Seq(Range(Subjects))
  /\ KindOf \in [Range(Subjects) -> {"observation", "restriction", "tide"}]
  /\ CacheLife \in Nat \ {0} /\ PauseLengths \subseteq Nat \ {0}
  /\ MaxVersion \in [Range(Subjects) -> Nat] /\ MaxRefreshes \in Nat /\ MaxSettings \in Nat

VARIABLES
  world,      \* per subject the version in force, 0 for none, and the former one
  session,    \* the row of travel_session
  events,     \* the rows of travel_event
  device,     \* refreshes in progress
  refreshes,
  settings    \* how often the settings were changed

companionVars == <<session, events, device, refreshes, settings>>
vars == <<clock, planVars, profileVars, world, companionVars>>

Never == -1

NoSession == [state |-> "none", revision |-> 0, stops |-> NoStops, position |-> 0,
              location |-> "off", seenAt |-> Never, refreshedAt |-> Never, pause |-> 0,
              facts |-> {}]

Idle == [at |-> "idle", revision |-> 0, facts |-> {}, now |-> 0, position |-> 0,
         fetched |-> FALSE, foreground |-> FALSE, found |-> {}, proposed |-> <<>>, prior |-> {}]

\* An event; acknowledged is when the traveller has confirmed it.
Event(p, at, notified) ==
  [subject |-> p.subject, version |-> p.version, kind |-> p.kind, status |-> "confirmed",
   at |-> at, notifiedAt |-> notified, acknowledged |-> FALSE]

Init ==
  /\ TripInit
  /\ world = [s \in Range(Subjects) |-> [version |-> 0, last |-> 0]]
  /\ session = NoSession
  /\ events = {}
  /\ device = [d \in Devices |-> Idle]
  /\ refreshes = 0
  /\ settings = 0

Tick ==
  /\ clock < MaxClock
  /\ clock' = clock + 1
  /\ UNCHANGED <<planVars, profileVars, world, companionVars>>

\* The records: a new version takes the place of the former one, or a record
\* is no longer in force.
Publish(s) ==
  /\ world[s].last < MaxVersion[s]
  /\ world' = [world EXCEPT ![s] = [version |-> world[s].last + 1, last |-> world[s].last + 1]]
  /\ UNCHANGED <<clock, planVars, profileVars, companionVars>>

Expire(s) ==
  /\ world[s].version # 0
  /\ world' = [world EXCEPT ![s].version = 0]
  /\ UNCHANGED <<clock, planVars, profileVars, companionVars>>

-----------------------------------------------------------------------------
(* The session.                                                            *)

Active == session.state = "active"

\* The row of the session is locked while a refresh is being written.
Unlocked == \A d \in Devices : device[d].at # "writing"

\* start_session: a plan of the revision the traveller knows, without conflicts.
Startable == Saved(plan) /\ ~plan.deleted /\ ~plan.conflict

StartSession ==
  /\ session = NoSession
  /\ Startable
  /\ \E pause \in PauseLengths :
       session' = [NoSession EXCEPT !.state = "active", !.revision = 1, !.stops = plan.stops,
                                    !.location = "reported", !.pause = pause]
  /\ UNCHANGED <<clock, planVars, profileVars, world, events, device, refreshes, settings>>

ChangeSettings ==
  /\ Active /\ Unlocked /\ settings < MaxSettings
  /\ settings' = settings + 1
  /\ \E pause \in PauseLengths \ {session.pause} :
       session' = [session EXCEPT !.pause = pause, !.revision = @ + 1]
  /\ UNCHANGED <<clock, planVars, profileVars, world, events, device, refreshes>>

\* change_session with end: where the traveller is, is forgotten.
EndSession ==
  /\ Active /\ Unlocked
  /\ session' = [session EXCEPT !.state = "ended", !.revision = @ + 1, !.position = 0,
                                !.location = "off", !.seenAt = Never]
  /\ UNCHANGED <<clock, planVars, profileVars, world, events, device, refreshes, settings>>

\* delete_plan: sessions and events go with the plan (ON DELETE CASCADE).
DeletePlan ==
  /\ Saved(plan) /\ ~plan.deleted /\ Unlocked
  /\ plan' = [plan EXCEPT !.deleted = TRUE]
  /\ session' = [session EXCEPT !.state = IF @ = "none" THEN @ ELSE "deleted"]
  /\ events' = {}
  /\ UNCHANGED <<clock, editor, receipts, profileVars, world, device, refreshes, settings>>

-----------------------------------------------------------------------------
(* A refresh.                                                              *)

Positions == {i \in Items : session.stops[i] # Absent} \cup {0}

\* The place the traveller is at, and the next one.
Focus(position) ==
  {i \in Positions \ {0} : i = position \/ (i > position /\ position + 1 .. i - 1 \cap Positions = {})}

Fresh(position) ==
  /\ session.refreshedAt # Never
  /\ clock - session.refreshedAt < CacheLife
  /\ position = session.position

\* refresh, up to the first query: the session is read and left unlocked.  A
\* device in the background asks for nothing.
BeginRefresh(d) ==
  /\ device[d] = Idle
  /\ Active
  /\ refreshes < MaxRefreshes
  /\ refreshes' = refreshes + 1
  /\ \E position \in Positions, foreground \in BOOLEAN :
       LET fetches == foreground /\ ~Fresh(position)
       IN device' = [device EXCEPT ![d] =
            [Idle EXCEPT !.at = IF fetches THEN "asking" ELSE "found",
                         !.revision = session.revision, !.facts = session.facts,
                         !.now = clock, !.position = position, !.fetched = fetches,
                         !.foreground = foreground]]
  /\ UNCHANGED <<clock, planVars, profileVars, world, session, events, settings>>

\* What a record corrects: a restriction or a tide names it, an observation
\* is compared with the facts of the session that was read.
Corrects(d, s) ==
  IF KindOf[s] = "observation"
  THEN Max({0} \cup {f.version : f \in {g \in device[d].facts :
                                          g.subject = s /\ g.version # world[s].version}})
  ELSE world[s].version - 1

Proposal(d, s) ==
  LET former == Corrects(d, s) IN
  [subject |-> s, version |-> world[s].version, corrects |-> former,
   kind |-> IF KindOf[s] # "observation" THEN KindOf[s]
            ELSE IF former = 0 THEN "updated" ELSE "corrected"]

\* The queries, for the restrictions first.  One of the others may fail, which
\* leaves what the rest found; or all is given up, which keeps the facts there
\* were so far and tells nothing.
Ask(d) ==
  LET visible == {s \in Range(Subjects) :
                    SpotOf[s] \in Focus(device[d].position) /\ world[s].version # 0}
  IN /\ device[d].at = "asking"
     /\ \E answered \in SUBSET visible, gaveUp \in BOOLEAN :
          /\ \A s \in visible : KindOf[s] = "restriction" => (s \in answered) = ~gaveUp
          /\ device' = [device EXCEPT
            ![d].at = "found",
            ![d].found = {[subject |-> s, version |-> world[s].version] :
                            s \in {a \in answered : KindOf[a] # "restriction"}},
            ![d].proposed = IF gaveUp THEN <<>>
              ELSE [s \in answered |-> Proposal(d, s)]]
     /\ UNCHANGED <<clock, planVars, profileVars, world, session, events, refreshes, settings>>

\* Mutant: the state the session was read with is trusted.
StillActive(d) == session.state # "deleted"

\* _persist_refresh takes the row lock and looks again: a session that is gone or
\* has ended refuses (404, 409), one that was changed meanwhile is left as it is.
Current(d) == Active /\ session.revision = device[d].revision

KeyOf(p) == [subject |-> p.subject, version |-> p.version]
Known(p, es) == \E e \in es : KeyOf(e) = KeyOf(p)

\* Under the lock, the events to be corrected are read first.
BeginWrite(d) ==
  LET q == device[d] IN
  /\ q.at = "found" /\ Unlocked
  /\ device' = [device EXCEPT ![d] =
       IF Current(d)
       THEN [q EXCEPT !.at = "writing",
                      !.prior = {e \in events : \E s \in DOMAIN q.proposed :
                                   /\ ~Known(q.proposed[s], events)
                                   /\ e.subject = s
                                   /\ e.version = q.proposed[s].corrects}]
       ELSE Idle]
  /\ UNCHANGED <<clock, planVars, profileVars, world, session, events, refreshes, settings>>

\* Mutant: a notice that was corrected since does not count.
QuietStanding(p, es, now) ==
  \A e \in es : e.kind = p.kind /\ e.status = "confirmed" /\ e.notifiedAt # Never =>
                  now - e.notifiedAt >= session.pause

\* The traveller is notified unless something of the same kind was lately.
Quiet(p, es, now) ==
  \A e \in es : e.kind = p.kind /\ e.notifiedAt # Never => now - e.notifiedAt >= session.pause

\* One proposal: nothing if its event exists, else a new event, and the one it
\* corrects is written again as it was read, as superseded.
Told(d, es, p) ==
  IF Known(p, es) THEN es
  ELSE LET former == {e \in device[d].prior :
                        e.subject = p.subject /\ e.version = p.corrects}
           corrected == {e \in es : \A f \in former : KeyOf(e) # KeyOf(f)}
                          \cup {[e EXCEPT !.status = "superseded"] : e \in former}
           now == device[d].now
       IN corrected \cup {Event(p, now, IF Quiet(p, corrected, now) THEN now ELSE Never)}

\* The proposals of a refresh, one after the other.
AllTold(d) ==
  LET proposed == device[d].proposed
  IN FoldLeft(LAMBDA es, s : IF s \in DOMAIN proposed THEN Told(d, es, proposed[s]) ELSE es,
              events, Subjects)

FinishWrite(d) ==
  LET q == device[d] IN
  /\ q.at = "writing"
  /\ events' = AllTold(d)
  /\ session' = [session EXCEPT !.revision = @ + 1, !.position = q.position,
                                !.location = "reported",
                                !.seenAt = IF q.foreground THEN q.now ELSE Never,
                                !.refreshedAt = IF q.fetched THEN q.now ELSE @,
                                !.facts = IF q.fetched THEN q.found ELSE @]
  /\ device' = [device EXCEPT ![d] = Idle]
  /\ UNCHANGED <<clock, planVars, profileVars, world, refreshes, settings>>

\* acknowledge, under the lock of the event alone.
Acknowledge ==
  /\ \E e \in events :
       events' = (events \ {e}) \cup {[e EXCEPT !.acknowledged = TRUE]}
  /\ UNCHANGED <<clock, planVars, profileVars, world, session, device, refreshes, settings>>

\* The process of a refresh dies; its transaction is rolled back.
Crash(d) ==
  /\ device[d] # Idle
  /\ device' = [device EXCEPT ![d] = Idle]
  /\ UNCHANGED <<clock, planVars, profileVars, world, session, events, refreshes, settings>>

CompanionStep ==
  \/ StartSession \/ ChangeSettings \/ EndSession
  \/ \E d \in Devices : \/ BeginRefresh(d) \/ Ask(d) \/ BeginWrite(d) \/ FinishWrite(d)
                        \/ Crash(d)
  \/ Acknowledge

Next ==
  \/ Tick
  \/ PlanStep /\ UNCHANGED <<world, companionVars>>
  \/ ProfileStep /\ UNCHANGED <<world, companionVars>>
  \/ DeletePlan
  \/ CompanionStep
  \/ \E s \in Range(Subjects) : Publish(s) \/ Expire(s)

Spec == Init /\ [][Next]_vars

-----------------------------------------------------------------------------
\* companion.py:113-151 and 441-475, a trip that has ended tells nothing more and
\* keeps no place: no event appears and nobody is located, though a refresh that
\* was under way comes back.
EndedIsQuiet ==
  [][session.state \in {"ended", "deleted"} =>
       /\ \A e \in events' : \E f \in events : KeyOf(e) = KeyOf(f)
       /\ session'.state = "ended" =>
            session'.location = "off" /\ session'.position = 0 /\ session'.seenAt = Never]_vars

\* companion.py:493-540, notices of one kind keep the pause that was set, however
\* many devices refresh at once and whatever was corrected meanwhile; a record
\* is told of once.
NotifiedSparingly ==
  [][\A e \in events' :
       e.notifiedAt # Never /\ (\A f \in events : KeyOf(f) # KeyOf(e)) =>
         \A f \in events' : f # e /\ f.kind = e.kind /\ f.notifiedAt # Never =>
           KeyOf(f) # KeyOf(e) /\ e.notifiedAt - f.notifiedAt >= session.pause]_vars

\* group-b-backend.md:67, "ack: marks that the notice was seen": an event that was
\* acknowledged stays acknowledged.
AcknowledgedStays ==
  [][\A e \in events : e.acknowledged =>
       \A f \in events' : KeyOf(f) = KeyOf(e) => f.acknowledged]_vars
=============================================================================
