--------------------------- MODULE DeploymentProofs ---------------------------
(***************************************************************************)
(* Proofs about the host under the mode controller and the deployment      *)
(* watch: the live services run on real data only, what was written after  *)
(* a resume is not deleted, one failure leaves the site up, archive mode   *)
(* ends with the whole live stack, and no attempt is made twice.           *)
(*                                                                         *)
(* What holds of the host depends on how far the controller has come with  *)
(* its list.  Commands do not recur in a list, so the command that is next *)
(* says how far it is: the inductive invariant states for each list what   *)
(* holds before which commands, and that the commands left follow each     *)
(* other as they do in the list.                                           *)
(***************************************************************************)
EXTENDS Deployment, TLAPS, SequenceTheorems

Commands == {"mark", "mark_kept", "mark_removed", "mark_restoring", "mark_failed",
             "mark_complete", "unmark", "mark_live", "watchdogs_off", "watchdogs_on",
             "retire", "unretire", "remove_all", "remove_web", "static_up", "web_up",
             "db_up", "backend_up", "collector_up", "pg_restore", "volume_rm",
             "ready_archive", "ready_live"}

Restores == {None, "restoring", "failed", "complete"}
Markers  == {NoMarker} \cup [removed : BOOLEAN, restore : Restores]
Webs     == {None, "live", "archive"}
Givers   == {None, "resumed", "rolledback", "deployed"}

Host ==
  [up : SUBSET Services, web : Webs, volume : {"absent", "empty", "saved", "newer"},
   marker : Markers, lastLive : BOOLEAN, retired : BOOLEAN, watching : BOOLEAN,
   by : Givers, unsaved : SUBSET Givers, lost : SUBSET Givers]

\* A database that cannot be trusted is known from the marker.
MarkerTells(h) ==
  /\ h.marker = NoMarker => Real(h)
  /\ h.volume # "absent" => Real(h) \/ h.marker.restore \in {"restoring", "failed"}

\* While the record of live operation is missing, nothing was written after a
\* resume.
Unrecorded(h) == ~h.lastLive => h.by # "resumed" /\ "resumed" \notin h.unsaved

\* The host is in order: the marker tells the truth, and the properties hold.
InOrder(h) ==
  /\ h \in Host /\ MarkerTells(h) /\ Unrecorded(h)
  /\ h.up \cap {"backend", "collector"} # {} => Real(h)
  /\ "resumed" \notin h.lost

\* What is left of a list is the end of it.
EndOf(s, program) ==
  /\ s \in Seq(Commands) /\ s # <<>>
  /\ \E n \in Nat : /\ n + Len(s) = Len(program)
                    /\ \A j \in 1 .. Len(s) : s[j] = program[n + j]

\* The list after a restore that failed; after other failures, all but the
\* first of it.
Returning == <<"mark_failed">> \o ReturnToArchive

LiveUp(h) == h.web = "live" /\ {"db", "backend"} \subseteq h.up

\* What holds of the host h before command c of the controller m.
ArchiveHolds(m, c, h) ==
  /\ m.failures = 0
  /\ m.remove => ~h.lastLive
  /\ ~m.already => m.kept
  /\ c # "mark" => h.marker # NoMarker
  /\ c = "volume_rm" => m.remove
  /\ c \in {"mark", "watchdogs_off", "retire"} /\ m.served => Served(h)
  /\ c \in {"mark", "watchdogs_off", "retire"} \cup Activation /\ ~m.already => Real(h)
  /\ c \notin {"mark", "watchdogs_off", "retire", "remove_all"} => h.up = {}
  /\ c \in {"mark_kept", "mark_removed", "volume_rm"} => h.web = "archive"

RollbackHolds(m, c, h) ==
  /\ m.failures = 1
  /\ Real(h)
  /\ c \in {"ready_live", "unretire", "mark"} => LiveUp(h)

ResumeHolds(m, c, h) ==
  /\ m.failures = 0
  /\ c \in {"watchdogs_off", "mark"} /\ m.served => Served(h)
  /\ m.kept => Real(h)
  /\ c \in {"db_up", "pg_restore"} /\ ~m.kept => h.marker.restore = "restoring"
  /\ c \notin {"watchdogs_off", "mark", "mark_restoring", "db_up", "pg_restore"} => Real(h)
  /\ c \in {"web_up", "ready_live", "collector_up", "unretire", "unmark", "watchdogs_on"} =>
       h.lastLive
  /\ c \in {"ready_live", "collector_up", "unretire", "unmark", "watchdogs_on"} => LiveUp(h)
  /\ c \in {"unretire", "unmark", "watchdogs_on"} => "collector" \in h.up
  /\ c \in {"unmark", "watchdogs_on"} => ~h.retired

ReturnHolds(m, c, h) ==
  /\ m.failures \in {1, 2}
  /\ c = "mark" => h.web = "archive"

EndedHolds(m) ==
  /\ m.left \in {<<"mark">>, <<"mark_kept">>, <<"mark_removed">>}
  /\ m.already \/ m.failures = 2

ListHolds(m, h) ==
  \/ m.list = "archive" /\ EndOf(m.left, ArchiveList(m.kept, m.remove))
     /\ ArchiveHolds(m, Head(m.left), h)
  \/ m.list = "rollback" /\ EndOf(m.left, LiveAgain) /\ RollbackHolds(m, Head(m.left), h)
  \/ m.list = "resume" /\ EndOf(m.left, ResumeList(m.kept)) /\ ResumeHolds(m, Head(m.left), h)
  \/ m.list = "return" /\ EndOf(m.left, Returning) /\ ReturnHolds(m, Head(m.left), h)
  \/ m.list = "ended" /\ EndedHolds(m)

Controller ==
  [list : {None, "archive", "rollback", "resume", "return", "ended"},
   left : Seq(Commands), already : BOOLEAN, kept : BOOLEAN, remove : BOOLEAN,
   served : BOOLEAN, failures : 0 .. 2]

ModeInv == mode \in Controller /\ (mode = Idle \/ ListHolds(mode, host))

GateStates == {None, "lock", "check", "initialize", "up", "undo", "link", "ended"}

\* The gate and the controller exclude each other, and what the gate does to
\* the host it does in live operation.
GateInv ==
  /\ gate \in [at : GateStates, sha : Nat]
  /\ InGate => mode = Idle /\ (gate.at # "check" => host.marker = NoMarker)

ControlInv == InOrder(host) /\ ModeInv /\ GateInv

\* Attempts are handed over in the order of commits and their attempts, and
\* none before it is recorded.
UpTo(a, b) == a.sha < b.sha \/ (a.sha = b.sha /\ a.number <= b.number)
Attempts == [sha : Commits, number : Nat]
Known(a) == a.sha <= main /\ a.number <= builds[a.sha].number

Watch == [at : {"verify", "deploy", "wait"}, sha : Commits, number : Nat]

AttemptInv ==
  /\ main \in Commits
  /\ builds \in [Commits -> [number : Nat, state : {None, "running", "success", "failure"}]]
  /\ attempt \in Attempts /\ Known(attempt)
  /\ handed \subseteq Attempts /\ \A a \in handed : UpTo(a, attempt)
  /\ watch = Away \/ (watch \in Watch /\ Known(Chosen))
  /\ watch.at = "deploy" => attempt = Chosen /\ Chosen \notin handed
  /\ watch.at = "wait" => attempt = Chosen

-----------------------------------------------------------------------------
(* The commands.                                                           *)

LEMMA Effects ==
  ASSUME NEW h, NEW who
  PROVE  /\ Completed("mark", h, who) = Marked(h, MarkerOf(h).removed, MarkerOf(h).restore)
         /\ Completed("mark_kept", h, who) = Marked(h, FALSE, MarkerOf(h).restore)
         /\ Completed("mark_removed", h, who) = Marked(h, TRUE, MarkerOf(h).restore)
         /\ Completed("mark_restoring", h, who) = Marked(h, MarkerOf(h).removed, "restoring")
         /\ Completed("mark_failed", h, who) = Marked(h, MarkerOf(h).removed, "failed")
         /\ Completed("mark_complete", h, who) = Marked(h, FALSE, "complete")
         /\ Completed("unmark", h, who) = [h EXCEPT !.marker = NoMarker]
         /\ Completed("mark_live", h, who) = [h EXCEPT !.lastLive = TRUE]
         /\ Completed("watchdogs_off", h, who) = [h EXCEPT !.watching = FALSE]
         /\ Completed("watchdogs_on", h, who) = [h EXCEPT !.watching = TRUE]
         /\ Completed("retire", h, who) = [h EXCEPT !.retired = TRUE]
         /\ Completed("unretire", h, who) = [h EXCEPT !.retired = FALSE]
         /\ Completed("remove_all", h, who) = WithoutFirst(h, Len(Removal))
         /\ Completed("remove_web", h, who) = [h EXCEPT !.web = None]
         /\ Completed("static_up", h, who) = [h EXCEPT !.web = "archive"]
         /\ Completed("web_up", h, who) = [h EXCEPT !.web = "live", !.by = who]
         /\ Completed("db_up", h, who) = WithDatabase(h)
         /\ Completed("backend_up", h, who) = [h EXCEPT !.up = @ \cup {"backend"}]
         /\ Completed("collector_up", h, who) = [h EXCEPT !.up = @ \cup {"collector"}]
         /\ Completed("pg_restore", h, who) = [h EXCEPT !.volume = "saved"]
         /\ Completed("volume_rm", h, who) =
              [h EXCEPT !.volume = "absent", !.unsaved = {}, !.lost = @ \cup h.unsaved]
         /\ Completed("ready_archive", h, who) = h
         /\ Completed("ready_live", h, who) = h
BY DEF Completed

\* What is asked of the host before a command that might do harm.
Safe(c, h, who) ==
  /\ c \in Commands /\ who \in {None, "resumed", "rolledback"}
  /\ c \in {"backend_up", "collector_up", "mark_complete", "unmark"} => Real(h)
  /\ c = "db_up" => Real(h) \/ h.marker.restore = "restoring"
  /\ c = "web_up" /\ who = "resumed" => h.lastLive
  /\ c = "volume_rm" => h.up = {} /\ ~h.lastLive /\ h.marker # NoMarker

LEMMA RemovalKeeps ==
  ASSUME NEW h, InOrder(h), NEW n \in 0 .. Len(Removal)
  PROVE  /\ InOrder(WithoutFirst(h, n))
         /\ WithoutFirst(h, n).up \subseteq h.up
         /\ WithoutFirst(h, n).volume = h.volume /\ WithoutFirst(h, n).marker = h.marker
         /\ WithoutFirst(h, n).lastLive = h.lastLive
         /\ n = Len(Removal) => WithoutFirst(h, n).up = {}
<1> DEFINE gone == {Removal[i] : i \in 1 .. n}
           g == WithoutFirst(h, n)
<1>1. g = [h EXCEPT !.up = @ \ gone, !.web = IF "web" \in gone THEN None ELSE @]
  BY DEF WithoutFirst
<1>2. n = Len(Removal) => Services \subseteq gone
  <2>1. Len(Removal) = 4 /\ Removal[1] = "collector" /\ Removal[2] = "backend"
        /\ Removal[3] = "web" /\ Removal[4] = "db"
    BY DEF Removal
  <2> QED
    BY <2>1 DEF Services
<1> HIDE DEF gone
<1>3. /\ g \in Host
      /\ g.up = h.up \ gone /\ g.volume = h.volume /\ g.marker = h.marker
      /\ g.lastLive = h.lastLive /\ g.by = h.by /\ g.unsaved = h.unsaved /\ g.lost = h.lost
  BY <1>1 DEF InOrder, Host, Webs
<1> HIDE DEF g
<1>4. h.up \subseteq Services
  BY DEF InOrder, Host
<1>5. InOrder(g)
  BY <1>3 DEF InOrder, MarkerTells, Unrecorded, Real
<1> QED
  BY <1>2, <1>3, <1>4, <1>5 DEF g

\* The marker as it is taken, and a new one.
LEMMA MarkerFacts ==
  ASSUME NEW h, InOrder(h)
  PROVE  /\ MarkerOf(h) \in [removed : BOOLEAN, restore : Restores]
         /\ h.volume # "absent" => Real(h) \/ MarkerOf(h).restore \in {"restoring", "failed"}
         /\ NoMarker \notin [removed : BOOLEAN, restore : Restores]
<1>1. h.marker \in Markers
  BY DEF InOrder, Host
<1>2. NoMarker \notin [removed : BOOLEAN, restore : Restores]
  BY DEF NoMarker, Restores, None
<1>3. CASE h.marker = NoMarker
  <2>1. Real(h)
    BY <1>3 DEF InOrder, MarkerTells
  <2> QED
    BY <1>2, <1>3, <2>1 DEF MarkerOf, Unmarked, Restores
<1>4. CASE h.marker # NoMarker
  <2>1. MarkerOf(h) = h.marker /\ h.marker \in [removed : BOOLEAN, restore : Restores]
    BY <1>1, <1>4 DEF MarkerOf, Markers
  <2> QED
    BY <1>2, <2>1 DEF InOrder, MarkerTells
<1> QED
  BY <1>3, <1>4

LEMMA MarkingKeeps ==
  ASSUME NEW h, InOrder(h), NEW removed \in BOOLEAN, NEW restore \in Restores,
         restore \in {"restoring", "failed", MarkerOf(h).restore} \/ Real(h)
  PROVE  /\ InOrder(Marked(h, removed, restore))
         /\ Marked(h, removed, restore).marker # NoMarker
<1> DEFINE g == Marked(h, removed, restore)
           m == [removed |-> removed, restore |-> restore]
<1>1. g = [h EXCEPT !.marker = m] /\ m \in [removed : BOOLEAN, restore : Restores]
      /\ m.restore = restore
  BY DEF Marked
<1>2. m # NoMarker /\ m \in Markers
  BY <1>1, MarkerFacts DEF Markers
<1> HIDE DEF m
<1>3. /\ g \in Host /\ g.marker = m
      /\ g.up = h.up /\ g.volume = h.volume /\ g.lastLive = h.lastLive /\ g.by = h.by
      /\ g.unsaved = h.unsaved /\ g.lost = h.lost
  BY <1>1, <1>2 DEF InOrder, Host
<1> HIDE DEF g
<1>4. g.volume # "absent" => Real(g) \/ g.marker.restore \in {"restoring", "failed"}
  BY <1>1, <1>3, MarkerFacts DEF Real
<1>5. InOrder(g)
  BY <1>2, <1>3, <1>4 DEF InOrder, MarkerTells, Unrecorded, Real
<1> QED
  BY <1>2, <1>3, <1>5 DEF g

Marks == {"mark", "mark_kept", "mark_removed", "mark_restoring", "mark_failed",
          "mark_complete"}

\* What the commands write that mark the host.
LEMMA Markings ==
  ASSUME NEW h, InOrder(h), NEW c \in Marks, NEW who
  PROVE  \E removed \in BOOLEAN, restore \in Restores :
           /\ Completed(c, h, who) = Marked(h, removed, restore)
           /\ restore \in {"restoring", "failed", MarkerOf(h).restore} \/ c = "mark_complete"
           /\ c = "mark_restoring" => restore = "restoring"
<1>1. MarkerOf(h).removed \in BOOLEAN /\ MarkerOf(h).restore \in Restores
  BY MarkerFacts
<1>2. "restoring" \in Restores /\ "failed" \in Restores /\ "complete" \in Restores
  BY DEF Restores
<1>3. CASE c = "mark"
  <2>1. Completed(c, h, who) = Marked(h, MarkerOf(h).removed, MarkerOf(h).restore)
    BY <1>3, Effects
  <2> QED
    BY <1>1, <1>2, <1>3, <2>1, Zenon
<1>4. CASE c = "mark_kept"
  <2>1. Completed(c, h, who) = Marked(h, FALSE, MarkerOf(h).restore)
    BY <1>4, Effects
  <2> QED
    BY <1>1, <1>2, <1>4, <2>1, Zenon
<1>5. CASE c = "mark_removed"
  <2>1. Completed(c, h, who) = Marked(h, TRUE, MarkerOf(h).restore)
    BY <1>5, Effects
  <2> QED
    BY <1>1, <1>2, <1>5, <2>1, Zenon
<1>6. CASE c = "mark_restoring"
  <2>1. Completed(c, h, who) = Marked(h, MarkerOf(h).removed, "restoring")
    BY <1>6, Effects
  <2> QED
    BY <1>1, <1>2, <1>6, <2>1, Zenon
<1>7. CASE c = "mark_failed"
  <2>1. Completed(c, h, who) = Marked(h, MarkerOf(h).removed, "failed")
    BY <1>7, Effects
  <2> QED
    BY <1>1, <1>2, <1>7, <2>1, Zenon
<1>8. CASE c = "mark_complete"
  <2>1. Completed(c, h, who) = Marked(h, FALSE, "complete")
    BY <1>8, Effects
  <2> QED
    BY <1>1, <1>2, <1>8, <2>1, Zenon
<1> QED
  BY <1>3, <1>4, <1>5, <1>6, <1>7, <1>8 DEF Marks

LEMMA CommandKeeps ==
  ASSUME NEW h, InOrder(h), NEW c, NEW who, Safe(c, h, who)
  PROVE  InOrder(Completed(c, h, who))
<1>1. CASE c \in Marks
  <2>1. PICK removed \in BOOLEAN, restore \in Restores :
          /\ Completed(c, h, who) = Marked(h, removed, restore)
          /\ restore \in {"restoring", "failed", MarkerOf(h).restore} \/ c = "mark_complete"
    BY <1>1, Markings
  <2>2. c = "mark_complete" => Real(h)
    BY DEF Safe
  <2> QED
    BY <2>1, <2>2, MarkingKeeps
<1>2. CASE c = "unmark"
  <2> DEFINE g == [h EXCEPT !.marker = NoMarker]
  <2>1. /\ g \in Host /\ g.marker = NoMarker
        /\ g.up = h.up /\ g.volume = h.volume /\ g.lastLive = h.lastLive /\ g.by = h.by
        /\ g.unsaved = h.unsaved /\ g.lost = h.lost
    BY DEF InOrder, Host, Markers
  <2>2. Real(h)
    BY <1>2 DEF Safe
  <2> HIDE DEF g
  <2>3. InOrder(g)
    BY <2>1, <2>2 DEF InOrder, MarkerTells, Unrecorded, Real
  <2> QED
    BY <1>2, <2>3, Effects DEF g
<1>3. CASE c \in {"mark_live", "watchdogs_off", "watchdogs_on", "retire", "unretire",
                  "remove_web", "static_up", "ready_archive", "ready_live"}
  <2> DEFINE g == Completed(c, h, who)
  <2>1. \/ g = [h EXCEPT !.lastLive = TRUE]
        \/ g = [h EXCEPT !.watching = FALSE] \/ g = [h EXCEPT !.watching = TRUE]
        \/ g = [h EXCEPT !.retired = TRUE] \/ g = [h EXCEPT !.retired = FALSE]
        \/ g = [h EXCEPT !.web = None] \/ g = [h EXCEPT !.web = "archive"]
        \/ g = h
    <3> HIDE DEF g
    <3>1. CASE c = "mark_live"
      BY <3>1, Effects DEF g
    <3>2. CASE c = "watchdogs_off"
      BY <3>2, Effects DEF g
    <3>3. CASE c = "watchdogs_on"
      BY <3>3, Effects DEF g
    <3>4. CASE c = "retire"
      BY <3>4, Effects DEF g
    <3>5. CASE c = "unretire"
      BY <3>5, Effects DEF g
    <3>6. CASE c = "remove_web"
      BY <3>6, Effects DEF g
    <3>7. CASE c = "static_up"
      BY <3>7, Effects DEF g
    <3>8. CASE c = "ready_archive"
      BY <3>8, Effects DEF g
    <3>9. CASE c = "ready_live"
      BY <3>9, Effects DEF g
    <3> QED
      BY <1>3, <3>1, <3>2, <3>3, <3>4, <3>5, <3>6, <3>7, <3>8, <3>9
  <2> HIDE DEF g
  <2>2. /\ g \in Host /\ g.marker = h.marker
        /\ g.up = h.up /\ g.volume = h.volume /\ (g.lastLive = h.lastLive \/ g.lastLive = TRUE)
        /\ g.by = h.by /\ g.unsaved = h.unsaved /\ g.lost = h.lost
    <3>1. h \in Host
      BY DEF InOrder
    <3> QED
      BY <2>1, <3>1 DEF Host, Webs
  <2>3. InOrder(g)
    BY <2>2 DEF InOrder, MarkerTells, Unrecorded, Real
  <2> QED
    BY <2>3 DEF g
<1>4. CASE c = "remove_all"
  <2>1. Len(Removal) \in 0 .. Len(Removal)
    BY DEF Removal
  <2>2. Completed(c, h, who) = WithoutFirst(h, Len(Removal))
    BY <1>4, Effects
  <2> QED
    BY <2>1, <2>2, RemovalKeeps
<1>5. CASE c = "web_up"
  <2> DEFINE g == [h EXCEPT !.web = "live", !.by = who]
  <2>1. who \in Givers /\ (who = "resumed" => h.lastLive)
    BY <1>5 DEF Safe, Givers
  <2>2. /\ g \in Host /\ g.marker = h.marker
        /\ g.up = h.up /\ g.volume = h.volume /\ g.lastLive = h.lastLive
        /\ g.by = who /\ g.unsaved = h.unsaved /\ g.lost = h.lost
    BY <2>1 DEF InOrder, Host, Webs
  <2> HIDE DEF g
  <2>3. InOrder(g)
    BY <2>1, <2>2 DEF InOrder, MarkerTells, Unrecorded, Real
  <2>4. Completed(c, h, who) = g
    BY <1>5, Effects DEF g
  <2> QED
    BY <2>3, <2>4
<1>6. CASE c = "db_up"
  <2> DEFINE g == WithDatabase(h)
  <2>1. /\ g \in Host /\ g.marker = h.marker
        /\ g.up = h.up \cup {"db"}
        /\ g.volume = (IF h.volume = "absent" THEN "empty" ELSE h.volume)
        /\ g.lastLive = h.lastLive
        /\ g.by = h.by /\ g.unsaved = h.unsaved /\ g.lost = h.lost
    BY DEF InOrder, Host, WithDatabase, Services
  <2>2. Real(h) \/ h.marker.restore = "restoring"
    BY <1>6 DEF Safe
  <2> HIDE DEF g
  <2>3. InOrder(g)
    BY <2>1, <2>2 DEF InOrder, MarkerTells, Unrecorded, Real
  <2> QED
    BY <1>6, <2>3, Effects DEF g
<1>7. CASE c \in {"backend_up", "collector_up"}
  <2> DEFINE g == Completed(c, h, who)
  <2>1. \/ g = [h EXCEPT !.up = @ \cup {"backend"}]
        \/ g = [h EXCEPT !.up = @ \cup {"collector"}]
    <3>1. CASE c = "backend_up"
      BY <3>1, Effects
    <3>2. CASE c = "collector_up"
      BY <3>2, Effects
    <3> QED
      BY <1>7, <3>1, <3>2
  <2>2. Real(h)
    BY <1>7 DEF Safe
  <2> HIDE DEF g
  <2>3. /\ g \in Host /\ g.marker = h.marker
        /\ g.volume = h.volume /\ g.lastLive = h.lastLive
        /\ g.by = h.by /\ g.unsaved = h.unsaved /\ g.lost = h.lost
    BY <2>1 DEF InOrder, Host, Services
  <2>4. InOrder(g)
    BY <2>2, <2>3 DEF InOrder, MarkerTells, Unrecorded, Real
  <2> QED
    BY <2>4 DEF g
<1>8. CASE c = "pg_restore"
  <2> DEFINE g == [h EXCEPT !.volume = "saved"]
  <2>1. /\ g \in Host /\ g.marker = h.marker /\ g.up = h.up
        /\ g.volume = "saved" /\ g.lastLive = h.lastLive
        /\ g.by = h.by /\ g.unsaved = h.unsaved /\ g.lost = h.lost
    BY DEF InOrder, Host
  <2> HIDE DEF g
  <2>2. InOrder(g)
    BY <2>1 DEF InOrder, MarkerTells, Unrecorded, Real
  <2> QED
    BY <1>8, <2>2, Effects DEF g
<1>9. CASE c = "volume_rm"
  <2> DEFINE g == [h EXCEPT !.volume = "absent", !.unsaved = {}, !.lost = @ \cup h.unsaved]
  <2>1. /\ g \in Host /\ g.marker = h.marker /\ g.up = h.up
        /\ g.volume = "absent" /\ g.lastLive = h.lastLive
        /\ g.by = h.by /\ g.unsaved = {} /\ g.lost = h.lost \cup h.unsaved
    BY DEF InOrder, Host
  <2>2. h.up = {} /\ ~h.lastLive /\ h.marker # NoMarker
    BY <1>9 DEF Safe
  <2> HIDE DEF g
  <2>3. InOrder(g)
    BY <2>1, <2>2 DEF InOrder, MarkerTells, Unrecorded
  <2> QED
    BY <1>9, <2>3, Effects DEF g
<1> QED
  BY <1>1, <1>2, <1>3, <1>4, <1>5, <1>6, <1>7, <1>8, <1>9 DEF Safe, Commands, Marks

\* A command that fails leaves the host in order, whatever was done of it.
LEMMA FailureKeeps ==
  ASSUME NEW h, InOrder(h), NEW c, NEW who, Safe(c, h, who), NEW g \in Interrupted(c, h, who)
  PROVE  InOrder(g)
<1>1. \/ g = h \/ g = Completed(c, h, who)
      \/ c = "remove_all" /\ \E n \in 1 .. Len(Removal) : g = WithoutFirst(h, n)
  BY DEF Interrupted
<1>2. \A n \in 1 .. Len(Removal) : n \in 0 .. Len(Removal)
  OBVIOUS
<1> QED
  BY <1>1, <1>2, CommandKeeps, RemovalKeeps

-----------------------------------------------------------------------------
(* The lists.                                                              *)

LEMMA NotEmpty == ASSUME NEW S, NEW s \in Seq(S), Len(s) # 0 PROVE s # <<>>
<1>1. Len(<<>>) = 0
  OBVIOUS
<1> QED
  BY <1>1

LEMMA SecondIs == ASSUME NEW S, NEW s \in Seq(S), Len(s) >= 2 PROVE Head(Tail(s)) = s[2]
<1>1. s # <<>>
  BY NotEmpty
<1>2. /\ Tail(s) \in Seq(S) /\ Len(Tail(s)) = Len(s) - 1
      /\ \A i \in 1 .. Len(Tail(s)) : Tail(s)[i] = s[i + 1]
  BY <1>1, HeadTailProperties
<1>3. Tail(s)[1] = s[2]
  BY <1>2
<1>4. Head(Tail(s)) = Tail(s)[1]
  BY <1>2
<1> QED
  BY <1>3, <1>4

LEMMA WholeList ==
  ASSUME NEW program \in Seq(Commands), program # <<>>
  PROVE  EndOf(program, program)
BY DEF EndOf

LEMMA ListGoesOn ==
  ASSUME NEW program \in Seq(Commands), NEW s, EndOf(s, program)
  PROVE  \E i \in 1 .. Len(program) :
           /\ Head(s) = program[i]
           /\ i = Len(program) => Tail(s) = <<>>
           /\ i < Len(program) => /\ EndOf(Tail(s), program)
                                  /\ Head(Tail(s)) = program[i + 1]
<1>1. s \in Seq(Commands) /\ s # <<>> /\ Len(s) \in Nat \ {0}
  BY DEF EndOf
<1>2. PICK n \in Nat : /\ n + Len(s) = Len(program)
                       /\ \A j \in 1 .. Len(s) : s[j] = program[n + j]
  BY DEF EndOf
<1>3. Len(program) \in Nat
  OBVIOUS
<1>4. n + 1 \in 1 .. Len(program)
  BY <1>1, <1>2, <1>3
<1>5. Head(s) = program[n + 1]
  BY <1>1, <1>2
<1>6. /\ Tail(s) \in Seq(Commands) /\ Len(Tail(s)) = Len(s) - 1
      /\ \A j \in 1 .. Len(s) - 1 : Tail(s)[j] = s[j + 1]
  BY <1>1
<1>7. CASE n + 1 = Len(program)
  <2>1. Len(Tail(s)) = 0
    BY <1>1, <1>2, <1>3, <1>6, <1>7
  <2>2. Tail(s) = <<>>
    BY <1>6, <2>1, EmptySeq
  <2> QED
    BY <1>4, <1>5, <1>7, <2>2
<1>8. CASE n + 1 < Len(program)
  <2>1. Len(Tail(s)) >= 1
    BY <1>1, <1>2, <1>3, <1>6, <1>8
  <2>2. n + 1 + Len(Tail(s)) = Len(program)
    BY <1>1, <1>2, <1>3, <1>6
  <2>3. \A j \in 1 .. Len(Tail(s)) : Tail(s)[j] = program[n + 1 + j]
    <3> SUFFICES ASSUME NEW j \in 1 .. Len(Tail(s)) PROVE Tail(s)[j] = program[n + 1 + j]
      OBVIOUS
    <3>1. j \in 1 .. Len(s) - 1 /\ j + 1 \in 1 .. Len(s) /\ n + (j + 1) = n + 1 + j
      BY <1>1, <1>6
    <3> QED
      BY <1>2, <1>6, <3>1
  <2>4. EndOf(Tail(s), program)
    <3>1. n + 1 \in Nat
      OBVIOUS
    <3>2. Tail(s) # <<>>
      <4>1. Len(Tail(s)) # 0
        BY <1>6, <2>1
      <4> QED
        BY <1>6, <4>1, NotEmpty
    <3> QED
      BY <1>6, <2>2, <2>3, <3>1, <3>2 DEF EndOf
  <2>5. Head(Tail(s)) = program[n + 1 + 1]
    <3>1. 1 \in 1 .. Len(Tail(s)) /\ Head(Tail(s)) = Tail(s)[1]
      BY <1>6, <2>1
    <3> QED
      BY <2>3, <3>1
  <2>6. n + 1 # Len(program) /\ n + 1 + 1 = (n + 1) + 1
    BY <1>3, <1>8
  <2> HIDE DEF EndOf
  <2> QED
    BY <1>4, <1>5, <2>4, <2>5, <2>6
<1> QED
  BY <1>1, <1>2, <1>3, <1>7, <1>8

\* Which command follows which.
ArchiveOrder(remove) ==
  {<<"mark", "watchdogs_off">>, <<"watchdogs_off", "retire">>, <<"retire", "remove_all">>,
   <<"remove_all", "static_up">>, <<"static_up", "ready_archive">>,
   <<"ready_archive", "mark_kept">>, <<"ready_archive", "mark_removed">>}
    \cup (IF remove THEN {<<"mark_kept", "volume_rm">>, <<"volume_rm", "mark_removed">>}
          ELSE {})

RollbackOrder ==
  {<<"remove_web", "db_up">>, <<"db_up", "backend_up">>, <<"backend_up", "web_up">>,
   <<"web_up", "ready_live">>, <<"ready_live", "unretire">>, <<"unretire", "mark">>}

ResumeOrder(kept) ==
  {<<"watchdogs_off", "mark">>, <<"backend_up", "remove_web">>, <<"remove_web", "mark_live">>,
   <<"mark_live", "web_up">>, <<"web_up", "ready_live">>, <<"ready_live", "collector_up">>,
   <<"collector_up", "unretire">>, <<"unretire", "unmark">>, <<"unmark", "watchdogs_on">>}
    \cup (IF kept THEN {<<"mark", "db_up">>, <<"db_up", "backend_up">>}
          ELSE {<<"mark", "mark_restoring">>, <<"mark_restoring", "db_up">>,
                <<"db_up", "pg_restore">>, <<"pg_restore", "mark_complete">>,
                <<"mark_complete", "backend_up">>})

ReturnOrder ==
  {<<"mark_failed", "watchdogs_off">>, <<"watchdogs_off", "retire">>,
   <<"retire", "remove_all">>, <<"remove_all", "static_up">>,
   <<"static_up", "ready_archive">>, <<"ready_archive", "mark">>}

\* A list is in an order, from its first command to one of the last.
Ordered(program, first, order, last) ==
  /\ program \in Seq(Commands) /\ program # <<>> /\ Head(program) = first
  /\ program[Len(program)] \in last
  /\ \A i \in 1 .. Len(program) - 1 : <<program[i], program[i + 1]>> \in order

LEMMA ArchiveOrdered ==
  ASSUME NEW kept \in BOOLEAN, NEW remove \in BOOLEAN
  PROVE  Ordered(ArchiveList(kept, remove), "mark", ArchiveOrder(remove),
                 {"mark_kept", "mark_removed"})
<1> DEFINE p == ArchiveList(kept, remove)
<1>0. p \in Seq(Commands)
  <2>1. <<"mark", "watchdogs_off", "retire", "remove_all", "static_up", "ready_archive">>
          \in Seq(Commands)
    BY DEF Commands
  <2>2. /\ <<"mark_kept">> \in Seq(Commands) /\ <<"mark_removed">> \in Seq(Commands)
        /\ <<"volume_rm", "mark_removed">> \in Seq(Commands) /\ <<>> \in Seq(Commands)
    BY DEF Commands
  <2> QED
    BY <2>1, <2>2, ConcatProperties DEF ArchiveList
<1>1. /\ p[1] = "mark" /\ p[2] = "watchdogs_off" /\ p[3] = "retire"
      /\ p[4] = "remove_all" /\ p[5] = "static_up" /\ p[6] = "ready_archive"
      /\ p[7] \in {"mark_kept", "mark_removed"}
  BY DEF ArchiveList
<1>2. CASE remove /\ kept
  <2>1. Len(p) = 9 /\ p[7] = "mark_kept" /\ p[8] = "volume_rm" /\ p[9] = "mark_removed"
    BY <1>2 DEF ArchiveList
  <2> HIDE DEF p
  <2>2. \A i \in 1 .. 8 : <<p[i], p[i + 1]>> \in ArchiveOrder(remove)
    BY <1>1, <1>2, <2>1 DEF ArchiveOrder
  <2> QED
    BY <1>0, <1>1, <2>1, <2>2 DEF p, Ordered
<1>3. CASE ~(remove /\ kept)
  <2>1. Len(p) = 7
    BY <1>3 DEF ArchiveList
  <2> HIDE DEF p
  <2>2. \A i \in 1 .. 6 : <<p[i], p[i + 1]>> \in ArchiveOrder(remove)
    BY <1>1, <2>1 DEF ArchiveOrder
  <2> QED
    BY <1>0, <1>1, <2>1, <2>2 DEF p, Ordered
<1> QED
  BY <1>2, <1>3

LEMMA RollbackOrdered == Ordered(LiveAgain, "remove_web", RollbackOrder, {"mark"})
<1> DEFINE p == LiveAgain
<1>1. /\ p \in Seq(Commands) /\ Len(p) = 7
      /\ p[1] = "remove_web" /\ p[2] = "db_up" /\ p[3] = "backend_up" /\ p[4] = "web_up"
      /\ p[5] = "ready_live" /\ p[6] = "unretire" /\ p[7] = "mark"
  BY DEF LiveAgain, Commands
<1> HIDE DEF p
<1>2. \A i \in 1 .. 6 : <<p[i], p[i + 1]>> \in RollbackOrder
  BY <1>1 DEF RollbackOrder
<1> QED
  BY <1>1, <1>2 DEF p, Ordered

LEMMA ReturnOrdered ==
  /\ Ordered(Returning, "mark_failed", ReturnOrder, {"mark"})
  /\ EndOf(ReturnToArchive, Returning) /\ Head(ReturnToArchive) = "watchdogs_off"
<1> DEFINE p == Returning
           q == ReturnToArchive
<1>1. /\ p \in Seq(Commands) /\ Len(p) = 7
      /\ p[1] = "mark_failed" /\ p[2] = "watchdogs_off" /\ p[3] = "retire"
      /\ p[4] = "remove_all" /\ p[5] = "static_up" /\ p[6] = "ready_archive" /\ p[7] = "mark"
  BY DEF Returning, ReturnToArchive, Commands
<1>2. /\ q \in Seq(Commands) /\ Len(q) = 6 /\ q # <<>>
      /\ q[1] = "watchdogs_off" /\ q[2] = "retire"
      /\ q[3] = "remove_all" /\ q[4] = "static_up" /\ q[5] = "ready_archive" /\ q[6] = "mark"
  BY DEF ReturnToArchive, Commands
<1> HIDE DEF p, q
<1>3. \A i \in 1 .. 6 : <<p[i], p[i + 1]>> \in ReturnOrder
  BY <1>1 DEF ReturnOrder
<1>4. Ordered(p, "mark_failed", ReturnOrder, {"mark"})
  BY <1>1, <1>3 DEF Ordered
<1>5. \A j \in 1 .. 6 : q[j] = p[1 + j]
  BY <1>1, <1>2
<1>6. EndOf(q, p)
  BY <1>1, <1>2, <1>5 DEF EndOf
<1> QED
  BY <1>2, <1>4, <1>6 DEF p, q

LEMMA ResumeOrdered ==
  ASSUME NEW kept \in BOOLEAN
  PROVE  /\ Ordered(ResumeList(kept), "watchdogs_off", ResumeOrder(kept), {"watchdogs_on"})
         /\ Head(Tail(ResumeList(kept))) = "mark"
<1> DEFINE p == ResumeList(kept)
<1>1. CASE kept
  <2>1. /\ p \in Seq(Commands) /\ Len(p) = 12
        /\ p[1] = "watchdogs_off" /\ p[2] = "mark" /\ p[3] = "db_up" /\ p[4] = "backend_up"
        /\ p[5] = "remove_web" /\ p[6] = "mark_live" /\ p[7] = "web_up"
        /\ p[8] = "ready_live" /\ p[9] = "collector_up" /\ p[10] = "unretire"
        /\ p[11] = "unmark" /\ p[12] = "watchdogs_on"
    BY <1>1 DEF ResumeList, GoLive, Commands
  <2> HIDE DEF p
  <2>2. \A i \in 1 .. 11 : <<p[i], p[i + 1]>> \in ResumeOrder(kept)
    BY <1>1, <2>1 DEF ResumeOrder
  <2>3. Ordered(p, "watchdogs_off", ResumeOrder(kept), {"watchdogs_on"})
    BY <2>1, <2>2 DEF Ordered
  <2>4. Head(Tail(p)) = "mark"
    <3>1. p \in Seq(Commands) /\ Len(p) >= 2 /\ p[2] = "mark"
      BY <2>1
    <3> QED
      BY <3>1, SecondIs
  <2> QED
    BY <2>3, <2>4 DEF p
<1>2. CASE ~kept
  <2>1. /\ p \in Seq(Commands) /\ Len(p) = 15
        /\ p[1] = "watchdogs_off" /\ p[2] = "mark" /\ p[3] = "mark_restoring"
        /\ p[4] = "db_up" /\ p[5] = "pg_restore" /\ p[6] = "mark_complete"
        /\ p[7] = "backend_up"
        /\ p[8] = "remove_web" /\ p[9] = "mark_live" /\ p[10] = "web_up"
        /\ p[11] = "ready_live" /\ p[12] = "collector_up" /\ p[13] = "unretire"
        /\ p[14] = "unmark" /\ p[15] = "watchdogs_on"
    BY <1>2 DEF ResumeList, RestoreList, GoLive, Commands
  <2> HIDE DEF p
  <2>2. \A i \in 1 .. 14 : <<p[i], p[i + 1]>> \in ResumeOrder(kept)
    BY <1>2, <2>1 DEF ResumeOrder
  <2>3. Ordered(p, "watchdogs_off", ResumeOrder(kept), {"watchdogs_on"})
    BY <2>1, <2>2 DEF Ordered
  <2>4. Head(Tail(p)) = "mark"
    <3>1. p \in Seq(Commands) /\ Len(p) >= 2 /\ p[2] = "mark"
      BY <2>1
    <3> QED
      BY <3>1, SecondIs
  <2> QED
    BY <2>3, <2>4 DEF p
<1> QED
  BY <1>1, <1>2

\* After a command of a list comes the next, or the list is over.
LEMMA NextInOrder ==
  ASSUME NEW program, NEW first, NEW order, NEW last, Ordered(program, first, order, last),
         NEW s, EndOf(s, program)
  PROVE  \/ Tail(s) = <<>> /\ Head(s) \in last
         \/ /\ EndOf(Tail(s), program) /\ Tail(s) # <<>>
            /\ <<Head(s), Head(Tail(s))>> \in order
<1>1. PICK i \in 1 .. Len(program) :
        /\ Head(s) = program[i]
        /\ i = Len(program) => Tail(s) = <<>>
        /\ i < Len(program) => /\ EndOf(Tail(s), program)
                               /\ Head(Tail(s)) = program[i + 1]
  BY ListGoesOn DEF Ordered
<1>2. Len(program) \in Nat
  BY DEF Ordered
<1>3. CASE i = Len(program)
  BY <1>1, <1>3 DEF Ordered
<1>4. CASE i < Len(program)
  <2>1. i \in 1 .. Len(program) - 1
    BY <1>2, <1>4
  <2> QED
    BY <1>1, <1>4, <2>1 DEF Ordered, EndOf
<1> QED
  BY <1>2, <1>3, <1>4

-----------------------------------------------------------------------------
(* What a command changes.                                                 *)

Changes(c, h, g) ==
  /\ c \notin {"remove_all", "db_up", "backend_up", "collector_up"} => g.up = h.up
  /\ c = "remove_all" => g.up = {}
  /\ c \in {"db_up", "backend_up", "collector_up"} => h.up \subseteq g.up
  /\ c = "collector_up" => "collector" \in g.up
  /\ c \notin {"remove_all", "remove_web", "static_up", "web_up"} => g.web = h.web
  /\ c = "static_up" => g.web = "archive"
  /\ c = "web_up" => g.web = "live"
  /\ c \notin {"pg_restore", "volume_rm"} /\ Real(h) => Real(g)
  /\ c = "pg_restore" => Real(g)
  /\ c # "mark_live" => g.lastLive = h.lastLive
  /\ c = "mark_live" => g.lastLive
  /\ c \notin {"retire", "unretire"} => g.retired = h.retired
  /\ c = "unretire" => ~g.retired
  /\ c \notin Marks \cup {"unmark"} => g.marker = h.marker
  /\ c \in Marks => g.marker # NoMarker
  /\ c = "mark_restoring" => g.marker.restore = "restoring"

LEMMA CommandChanges ==
  ASSUME NEW h, InOrder(h), NEW who, NEW c \in Commands
  PROVE  Changes(c, h, Completed(c, h, who))
<1> DEFINE g == Completed(c, h, who)
<1>1. h \in Host
  BY DEF InOrder
<1> SUFFICES Changes(c, h, g)
  OBVIOUS
<1> HIDE DEF g
<1>2. CASE c \in Marks
  <2>1. PICK removed \in BOOLEAN, restore \in Restores :
          /\ g = Marked(h, removed, restore)
          /\ c = "mark_restoring" => restore = "restoring"
    BY <1>2, Markings DEF g
  <2> DEFINE m == [removed |-> removed, restore |-> restore]
  <2>2. m \in [removed : BOOLEAN, restore : Restores] /\ m.restore = restore
    OBVIOUS
  <2>3. m # NoMarker
    BY <2>2, MarkerFacts
  <2>4. g = [h EXCEPT !.marker = m]
    BY <2>1 DEF Marked
  <2> HIDE DEF m
  <2>5. /\ g.up = h.up /\ g.web = h.web /\ g.volume = h.volume
        /\ g.lastLive = h.lastLive /\ g.retired = h.retired /\ g.marker = m
    BY <1>1, <2>4 DEF Host
  <2> QED
    BY <1>2, <2>1, <2>2, <2>3, <2>5 DEF Changes, Marks, Real
<1>3. CASE c = "unmark"
  <2>1. g = [h EXCEPT !.marker = NoMarker]
    BY <1>3, Effects DEF g
  <2>2. /\ g.up = h.up /\ g.web = h.web /\ g.volume = h.volume
        /\ g.lastLive = h.lastLive /\ g.retired = h.retired /\ g.marker = NoMarker
    BY <1>1, <2>1 DEF Host
  <2> QED
    BY <1>3, <2>2 DEF Changes, Marks, Real
<1>4. CASE c = "mark_live"
  <2>1. g = [h EXCEPT !.lastLive = TRUE]
    BY <1>4, Effects DEF g
  <2>2. /\ g.up = h.up /\ g.web = h.web /\ g.volume = h.volume
        /\ g.lastLive = TRUE /\ g.retired = h.retired /\ g.marker = h.marker
    BY <1>1, <2>1 DEF Host
  <2> QED
    BY <1>4, <2>2 DEF Changes, Marks, Real
<1>5. CASE c = "watchdogs_off"
  <2>1. g = [h EXCEPT !.watching = FALSE]
    BY <1>5, Effects DEF g
  <2>2. /\ g.up = h.up /\ g.web = h.web /\ g.volume = h.volume
        /\ g.lastLive = h.lastLive /\ g.retired = h.retired /\ g.marker = h.marker
    BY <1>1, <2>1 DEF Host
  <2> QED
    BY <1>5, <2>2 DEF Changes, Marks, Real
<1>6. CASE c = "watchdogs_on"
  <2>1. g = [h EXCEPT !.watching = TRUE]
    BY <1>6, Effects DEF g
  <2>2. /\ g.up = h.up /\ g.web = h.web /\ g.volume = h.volume
        /\ g.lastLive = h.lastLive /\ g.retired = h.retired /\ g.marker = h.marker
    BY <1>1, <2>1 DEF Host
  <2> QED
    BY <1>6, <2>2 DEF Changes, Marks, Real
<1>7. CASE c = "retire"
  <2>1. g = [h EXCEPT !.retired = TRUE]
    BY <1>7, Effects DEF g
  <2>2. /\ g.up = h.up /\ g.web = h.web /\ g.volume = h.volume
        /\ g.lastLive = h.lastLive /\ g.retired = TRUE /\ g.marker = h.marker
    BY <1>1, <2>1 DEF Host
  <2> QED
    BY <1>7, <2>2 DEF Changes, Marks, Real
<1>8. CASE c = "unretire"
  <2>1. g = [h EXCEPT !.retired = FALSE]
    BY <1>8, Effects DEF g
  <2>2. /\ g.up = h.up /\ g.web = h.web /\ g.volume = h.volume
        /\ g.lastLive = h.lastLive /\ g.retired = FALSE /\ g.marker = h.marker
    BY <1>1, <2>1 DEF Host
  <2> QED
    BY <1>8, <2>2 DEF Changes, Marks, Real
<1>9. CASE c = "remove_all"
  <2>1. Len(Removal) \in 0 .. Len(Removal)
    BY DEF Removal
  <2>2. g = WithoutFirst(h, Len(Removal))
    BY <1>9, Effects DEF g
  <2>3. g.up = {} /\ g.volume = h.volume /\ g.marker = h.marker /\ g.lastLive = h.lastLive
    BY <2>1, <2>2, RemovalKeeps
  <2>4. g.retired = h.retired
    BY <1>1, <2>2 DEF WithoutFirst, Host
  <2> QED
    BY <1>9, <2>3, <2>4 DEF Changes, Marks, Real
<1>10. CASE c = "remove_web"
  <2>1. g = [h EXCEPT !.web = None]
    BY <1>10, Effects DEF g
  <2>2. /\ g.up = h.up /\ g.web = None /\ g.volume = h.volume
        /\ g.lastLive = h.lastLive /\ g.retired = h.retired /\ g.marker = h.marker
    BY <1>1, <2>1 DEF Host
  <2> QED
    BY <1>10, <2>2 DEF Changes, Marks, Real
<1>11. CASE c = "static_up"
  <2>1. g = [h EXCEPT !.web = "archive"]
    BY <1>11, Effects DEF g
  <2>2. /\ g.up = h.up /\ g.web = "archive" /\ g.volume = h.volume
        /\ g.lastLive = h.lastLive /\ g.retired = h.retired /\ g.marker = h.marker
    BY <1>1, <2>1 DEF Host
  <2> QED
    BY <1>11, <2>2 DEF Changes, Marks, Real
<1>12. CASE c = "web_up"
  <2>1. g = [h EXCEPT !.web = "live", !.by = who]
    <3>1. Completed("web_up", h, who) = [h EXCEPT !.web = "live", !.by = who]
      BY DEF Completed
    <3>2. g = Completed("web_up", h, who)
      BY <1>12 DEF g
    <3> QED
      BY <3>1, <3>2, Zenon
  <2>2. /\ g.up = h.up /\ g.web = "live" /\ g.volume = h.volume
        /\ g.lastLive = h.lastLive /\ g.retired = h.retired /\ g.marker = h.marker
    BY <1>1, <2>1 DEF Host
  <2> QED
    BY <1>12, <2>2 DEF Changes, Marks, Real
<1>13. CASE c = "db_up"
  <2>1. g = WithDatabase(h)
    BY <1>13, Effects DEF g
  <2>2. /\ h.up \subseteq g.up /\ g.web = h.web /\ (Real(h) => Real(g))
        /\ g.lastLive = h.lastLive /\ g.retired = h.retired /\ g.marker = h.marker
    BY <1>1, <2>1 DEF WithDatabase, Host, Real
  <2> QED
    BY <1>13, <2>2 DEF Changes, Marks
<1>14. CASE c = "backend_up"
  <2>1. g = [h EXCEPT !.up = @ \cup {"backend"}]
    BY <1>14, Effects DEF g
  <2>2. /\ g.up = h.up \cup {"backend"} /\ g.web = h.web /\ g.volume = h.volume
        /\ g.lastLive = h.lastLive /\ g.retired = h.retired /\ g.marker = h.marker
    BY <1>1, <2>1 DEF Host
  <2> QED
    BY <1>14, <2>2 DEF Changes, Marks, Real
<1>15. CASE c = "collector_up"
  <2>1. g = [h EXCEPT !.up = @ \cup {"collector"}]
    BY <1>15, Effects DEF g
  <2>2. /\ g.up = h.up \cup {"collector"} /\ g.web = h.web /\ g.volume = h.volume
        /\ g.lastLive = h.lastLive /\ g.retired = h.retired /\ g.marker = h.marker
    BY <1>1, <2>1 DEF Host
  <2> QED
    BY <1>15, <2>2 DEF Changes, Marks, Real
<1>16. CASE c = "pg_restore"
  <2>1. g = [h EXCEPT !.volume = "saved"]
    BY <1>16, Effects DEF g
  <2>2. /\ g.up = h.up /\ g.web = h.web /\ g.volume = "saved"
        /\ g.lastLive = h.lastLive /\ g.retired = h.retired /\ g.marker = h.marker
    BY <1>1, <2>1 DEF Host
  <2> QED
    BY <1>16, <2>2 DEF Changes, Marks, Real
<1>17. CASE c = "volume_rm"
  <2>1. g = [h EXCEPT !.volume = "absent", !.unsaved = {}, !.lost = @ \cup h.unsaved]
    BY <1>17, Effects DEF g
  <2>2. /\ g.up = h.up /\ g.web = h.web /\ g.volume = "absent"
        /\ g.lastLive = h.lastLive /\ g.retired = h.retired /\ g.marker = h.marker
    BY <1>1, <2>1 DEF Host
  <2> QED
    BY <1>17, <2>2 DEF Changes, Marks, Real
<1>18. CASE c = "ready_archive"
  <2>1. g = h
    BY <1>18, Effects DEF g
  <2>2. /\ g.up = h.up /\ g.web = h.web /\ g.volume = h.volume
        /\ g.lastLive = h.lastLive /\ g.retired = h.retired /\ g.marker = h.marker
    BY <1>1, <2>1 DEF Host
  <2> QED
    BY <1>18, <2>2 DEF Changes, Marks, Real
<1>19. CASE c = "ready_live"
  <2>1. g = h
    BY <1>19, Effects DEF g
  <2>2. /\ g.up = h.up /\ g.web = h.web /\ g.volume = h.volume
        /\ g.lastLive = h.lastLive /\ g.retired = h.retired /\ g.marker = h.marker
    BY <1>1, <2>1 DEF Host
  <2> QED
    BY <1>19, <2>2 DEF Changes, Marks, Real
<1>20. c \in Commands
  OBVIOUS
<1> QED
  BY <1>2, <1>3, <1>4, <1>5, <1>6, <1>7, <1>8, <1>9, <1>10, <1>11, <1>12, <1>13, <1>14,
     <1>15, <1>16, <1>17, <1>18, <1>19, <1>20 DEF Commands, Marks

-----------------------------------------------------------------------------
(* From one command of a list to the next.                                 *)

\* The records of one run of the controller.
Alike(m, n) ==
  /\ n.already = m.already /\ n.kept = m.kept /\ n.remove = m.remove
  /\ n.served = m.served /\ n.failures = m.failures

Within(c, order, last) == c \in last \/ \E d : <<c, d>> \in order

LEMMA ArchiveSafe ==
  ASSUME NEW m, NEW c, NEW h, ArchiveHolds(m, c, h),
         Within(c, ArchiveOrder(m.remove), {"mark_kept", "mark_removed"})
  PROVE  c \in Commands /\ Safe(c, h, None)
<1>1. c \in {"mark", "watchdogs_off", "retire", "remove_all", "static_up", "ready_archive",
             "mark_kept", "mark_removed", "volume_rm"}
  BY DEF Within, ArchiveOrder
<1>2. c = "volume_rm" => h.up = {} /\ ~h.lastLive /\ h.marker # NoMarker
  BY DEF ArchiveHolds
<1> QED
  BY <1>1, <1>2 DEF Safe, Commands, None

LEMMA ArchiveGoesOn ==
  ASSUME NEW m, NEW n, Alike(m, n), NEW c, NEW d, NEW h, NEW g,
         <<c, d>> \in ArchiveOrder(m.remove), ArchiveHolds(m, c, h), Completes(c, h),
         Changes(c, h, g)
  PROVE  ArchiveHolds(n, d, g)
<1>1. /\ c \in {"mark", "watchdogs_off", "retire", "remove_all", "static_up", "ready_archive",
                "mark_kept", "volume_rm"}
      /\ c = "mark" => d = "watchdogs_off"
      /\ c = "watchdogs_off" => d = "retire"
      /\ c = "retire" => d = "remove_all"
      /\ c = "remove_all" => d = "static_up"
      /\ c = "static_up" => d = "ready_archive"
      /\ c = "ready_archive" => d \in {"mark_kept", "mark_removed"}
      /\ c = "mark_kept" => d = "volume_rm" /\ m.remove
      /\ c = "volume_rm" => d = "mark_removed"
  BY DEF ArchiveOrder
<1>2. /\ n.failures = 0
      /\ n.remove => ~g.lastLive
      /\ ~n.already => n.kept
      /\ g.marker # NoMarker
      /\ d = "volume_rm" => n.remove
  BY <1>1 DEF ArchiveHolds, Changes, Alike, Marks
<1>3. d \in {"mark", "watchdogs_off", "retire"} /\ n.served => Served(g)
  <2>1. d \in {"mark", "watchdogs_off", "retire"} => c \in {"mark", "watchdogs_off"}
    BY <1>1
  <2>2. c \in {"mark", "watchdogs_off"} => g.up = h.up /\ g.web = h.web
    BY DEF Changes
  <2> QED
    BY <2>1, <2>2 DEF ArchiveHolds, Alike, Served
<1>4. d \in {"mark", "watchdogs_off", "retire"} \cup Activation /\ ~n.already => Real(g)
  BY <1>1 DEF ArchiveHolds, Alike, Changes, Activation
<1>5. d \notin {"mark", "watchdogs_off", "retire", "remove_all"} => g.up = {}
  BY <1>1 DEF ArchiveHolds, Changes
<1>6. d \in {"mark_kept", "mark_removed", "volume_rm"} => g.web = "archive"
  BY <1>1 DEF ArchiveHolds, Changes, Completes
<1> QED
  BY <1>1, <1>2, <1>3, <1>4, <1>5, <1>6 DEF ArchiveHolds

LEMMA RollbackSafe ==
  ASSUME NEW m, NEW c, NEW h, RollbackHolds(m, c, h), Within(c, RollbackOrder, {"mark"})
  PROVE  c \in Commands /\ Safe(c, h, "rolledback")
BY DEF RollbackHolds, RollbackOrder, Within, Safe, Commands, None

LEMMA RollbackGoesOn ==
  ASSUME NEW m, NEW n, Alike(m, n), NEW c, NEW d, NEW h, NEW g,
         <<c, d>> \in RollbackOrder, RollbackHolds(m, c, h), Completes(c, h), Changes(c, h, g)
  PROVE  RollbackHolds(n, d, g)
<1>1. /\ c \in {"remove_web", "db_up", "backend_up", "web_up", "ready_live", "unretire"}
      /\ d \in {"ready_live", "unretire", "mark"} => c \in {"web_up", "ready_live", "unretire"}
  BY DEF RollbackOrder
<1>2. n.failures = 1 /\ Real(g)
  BY <1>1 DEF RollbackHolds, Alike, Changes
<1>3. c \in {"web_up", "ready_live", "unretire"} => LiveUp(g)
  BY DEF RollbackHolds, Changes, Completes, LiveUp
<1> QED
  BY <1>1, <1>2, <1>3 DEF RollbackHolds

LEMMA ResumeSafe ==
  ASSUME NEW m, m.kept \in BOOLEAN, NEW c, NEW h, ResumeHolds(m, c, h),
         Within(c, ResumeOrder(m.kept), {"watchdogs_on"})
  PROVE  c \in Commands /\ Safe(c, h, "resumed")
<1>1. c \in {"watchdogs_off", "mark", "mark_restoring", "db_up", "pg_restore", "mark_complete",
             "backend_up", "remove_web", "mark_live", "web_up", "ready_live", "collector_up",
             "unretire", "unmark", "watchdogs_on"}
  BY DEF Within, ResumeOrder
<1>2. /\ c \in {"backend_up", "collector_up", "mark_complete", "unmark"} => Real(h)
      /\ c = "db_up" => Real(h) \/ h.marker.restore = "restoring"
      /\ c = "web_up" => h.lastLive
  BY DEF ResumeHolds
<1> QED
  BY <1>1, <1>2 DEF Safe, Commands

LEMMA ResumeGoesOn ==
  ASSUME NEW m, m.kept \in BOOLEAN, NEW n, Alike(m, n), NEW c, NEW d, NEW h, NEW g,
         <<c, d>> \in ResumeOrder(m.kept), ResumeHolds(m, c, h), Completes(c, h),
         Changes(c, h, g)
  PROVE  ResumeHolds(n, d, g)
<1>1. /\ c \in {"watchdogs_off", "mark", "mark_restoring", "db_up", "pg_restore",
                "mark_complete", "backend_up", "remove_web", "mark_live", "web_up",
                "ready_live", "collector_up", "unretire", "unmark"}
      /\ c = "watchdogs_off" => d = "mark"
      /\ c = "mark" => d = IF m.kept THEN "db_up" ELSE "mark_restoring"
      /\ c = "mark_restoring" => d = "db_up" /\ ~m.kept
      /\ c = "db_up" => d = IF m.kept THEN "backend_up" ELSE "pg_restore"
      /\ c = "pg_restore" => d = "mark_complete"
      /\ c = "mark_complete" => d = "backend_up"
      /\ c = "backend_up" => d = "remove_web"
      /\ c = "remove_web" => d = "mark_live"
      /\ c = "mark_live" => d = "web_up"
      /\ c = "web_up" => d = "ready_live"
      /\ c = "ready_live" => d = "collector_up"
      /\ c = "collector_up" => d = "unretire"
      /\ c = "unretire" => d = "unmark"
      /\ c = "unmark" => d = "watchdogs_on"
  BY DEF ResumeOrder
<1>2. n.failures = 0 /\ (n.kept => Real(g))
  BY <1>1 DEF ResumeHolds, Alike, Changes
<1>3. d \in {"watchdogs_off", "mark"} /\ n.served => Served(g)
  <2>1. d \in {"watchdogs_off", "mark"} => c = "watchdogs_off"
    BY <1>1
  <2>2. c = "watchdogs_off" => g.up = h.up /\ g.web = h.web
    BY DEF Changes
  <2> QED
    BY <2>1, <2>2 DEF ResumeHolds, Alike, Served
<1>4. d \in {"db_up", "pg_restore"} /\ ~n.kept => g.marker.restore = "restoring"
  BY <1>1 DEF ResumeHolds, Alike, Changes, Marks
<1>5. d \notin {"watchdogs_off", "mark", "mark_restoring", "db_up", "pg_restore"} => Real(g)
  BY <1>1 DEF ResumeHolds, Changes
<1>6. d \in {"web_up", "ready_live", "collector_up", "unretire", "unmark", "watchdogs_on"} =>
        g.lastLive
  BY <1>1 DEF ResumeHolds, Changes
<1>7. d \in {"ready_live", "collector_up", "unretire", "unmark", "watchdogs_on"} => LiveUp(g)
  BY <1>1 DEF ResumeHolds, Changes, Completes, LiveUp
<1>8. /\ d \in {"unretire", "unmark", "watchdogs_on"} => "collector" \in g.up
      /\ d \in {"unmark", "watchdogs_on"} => ~g.retired
  BY <1>1 DEF ResumeHolds, Changes
<1> QED
  BY <1>2, <1>3, <1>4, <1>5, <1>6, <1>7, <1>8 DEF ResumeHolds

LEMMA ReturnSafe ==
  ASSUME NEW c, NEW h, Within(c, ReturnOrder, {"mark"})
  PROVE  c \in Commands /\ Safe(c, h, None)
BY DEF ReturnOrder, Within, Safe, Commands, None

LEMMA ReturnGoesOn ==
  ASSUME NEW m, NEW n, Alike(m, n), NEW c, NEW d, NEW h, NEW g,
         <<c, d>> \in ReturnOrder, ReturnHolds(m, c, h), Completes(c, h), Changes(c, h, g)
  PROVE  ReturnHolds(n, d, g)
<1>1. d = "mark" => c = "ready_archive"
  BY DEF ReturnOrder
<1> QED
  BY <1>1 DEF ReturnHolds, Alike, Changes, Completes

-----------------------------------------------------------------------------
(* The controller.                                                         *)

LEMMA IdleType == Idle \in Controller
<1>1. <<>> \in Seq(Commands)
  OBVIOUS
<1> QED
  BY <1>1 DEF Idle, Controller, None

\* The controller goes on with its list.
Continued(m) == [m EXCEPT !.list = m.list, !.left = Tail(m.left)]

LEMMA ContinuedIs ==
  ASSUME NEW m \in Controller, m.left # <<>>
  PROVE  /\ Continued(m) \in Controller /\ Alike(m, Continued(m))
         /\ Continued(m).list = m.list /\ Continued(m).left = Tail(m.left)
<1>1. m.left \in Seq(Commands)
  BY DEF Controller
<1>2. Tail(m.left) \in Seq(Commands)
  BY <1>1, HeadTailProperties
<1> QED
  BY <1>2 DEF Continued, Controller, Alike

\* It goes over to another one.
Switched(m, list, left) ==
  [m EXCEPT !.list = list, !.left = left, !.failures = IF @ < 2 THEN @ + 1 ELSE @]

LEMMA SwitchedIs ==
  ASSUME NEW m \in Controller, NEW list \in {"rollback", "return", "ended"},
         NEW left \in Seq(Commands)
  PROVE  LET n == Switched(m, list, left)
         IN  /\ n \in Controller /\ n.list = list /\ n.left = left
             /\ n.already = m.already /\ n.kept = m.kept
             /\ n.failures = IF m.failures < 2 THEN m.failures + 1 ELSE m.failures
<1>1. m.failures \in 0 .. 2
  BY DEF Controller
<1>2. (IF m.failures < 2 THEN m.failures + 1 ELSE m.failures) \in 0 .. 2
  BY <1>1
<1> QED
  BY <1>2 DEF Switched, Controller

WhoIs(m) == CASE m.list = "resume" -> "resumed"
              [] m.list = "rollback" -> "rolledback"
              [] OTHER -> None

\* What a list needs of the host is enough for its next command.
LEMMA ListSafe ==
  ASSUME NEW m \in Controller, NEW h, ListHolds(m, h)
  PROVE  /\ Head(m.left) \in Commands /\ Safe(Head(m.left), h, WhoIs(m))
         /\ m.left # <<>>
         /\ m.list = "archive" =>
              \/ Tail(m.left) = <<>> /\ Head(m.left) \in {"mark_kept", "mark_removed"}
              \/ /\ EndOf(Tail(m.left), ArchiveList(m.kept, m.remove)) /\ Tail(m.left) # <<>>
                 /\ <<Head(m.left), Head(Tail(m.left))>> \in ArchiveOrder(m.remove)
         /\ m.list = "rollback" =>
              \/ Tail(m.left) = <<>> /\ Head(m.left) = "mark"
              \/ /\ EndOf(Tail(m.left), LiveAgain) /\ Tail(m.left) # <<>>
                 /\ <<Head(m.left), Head(Tail(m.left))>> \in RollbackOrder
         /\ m.list = "resume" =>
              \/ Tail(m.left) = <<>> /\ Head(m.left) = "watchdogs_on"
              \/ /\ EndOf(Tail(m.left), ResumeList(m.kept)) /\ Tail(m.left) # <<>>
                 /\ <<Head(m.left), Head(Tail(m.left))>> \in ResumeOrder(m.kept)
         /\ m.list = "return" =>
              \/ Tail(m.left) = <<>> /\ Head(m.left) = "mark"
              \/ /\ EndOf(Tail(m.left), Returning) /\ Tail(m.left) # <<>>
                 /\ <<Head(m.left), Head(Tail(m.left))>> \in ReturnOrder
         /\ m.list = "ended" =>
              Tail(m.left) = <<>> /\ Head(m.left) \in {"mark", "mark_kept", "mark_removed"}
<1> DEFINE s == m.left
<1>1. m.kept \in BOOLEAN /\ m.remove \in BOOLEAN
  BY DEF Controller
<1>2. CASE m.list = "archive"
  <2>1. EndOf(s, ArchiveList(m.kept, m.remove)) /\ ArchiveHolds(m, Head(s), h)
    BY <1>2 DEF ListHolds
  <2>2. \/ Tail(s) = <<>> /\ Head(s) \in {"mark_kept", "mark_removed"}
        \/ /\ EndOf(Tail(s), ArchiveList(m.kept, m.remove)) /\ Tail(s) # <<>>
           /\ <<Head(s), Head(Tail(s))>> \in ArchiveOrder(m.remove)
    BY <1>1, <2>1, ArchiveOrdered, NextInOrder, Zenon
  <2>3. Within(Head(s), ArchiveOrder(m.remove), {"mark_kept", "mark_removed"})
    BY <2>2 DEF Within
  <2>4. Head(s) \in Commands /\ Safe(Head(s), h, None)
    BY <2>1, <2>3, ArchiveSafe
  <2> QED
    BY <1>2, <2>1, <2>2, <2>4 DEF EndOf, WhoIs
<1>3. CASE m.list = "rollback"
  <2>1. EndOf(s, LiveAgain) /\ RollbackHolds(m, Head(s), h)
    BY <1>3 DEF ListHolds
  <2>2. \/ Tail(s) = <<>> /\ Head(s) \in {"mark"}
        \/ /\ EndOf(Tail(s), LiveAgain) /\ Tail(s) # <<>>
           /\ <<Head(s), Head(Tail(s))>> \in RollbackOrder
    BY <2>1, RollbackOrdered, NextInOrder, Zenon
  <2>3. Within(Head(s), RollbackOrder, {"mark"})
    BY <2>2 DEF Within
  <2>4. Head(s) \in Commands /\ Safe(Head(s), h, "rolledback")
    BY <2>1, <2>3, RollbackSafe
  <2> QED
    BY <1>3, <2>1, <2>2, <2>4 DEF EndOf, WhoIs
<1>4. CASE m.list = "resume"
  <2>1. EndOf(s, ResumeList(m.kept)) /\ ResumeHolds(m, Head(s), h)
    BY <1>4 DEF ListHolds
  <2>2. \/ Tail(s) = <<>> /\ Head(s) \in {"watchdogs_on"}
        \/ /\ EndOf(Tail(s), ResumeList(m.kept)) /\ Tail(s) # <<>>
           /\ <<Head(s), Head(Tail(s))>> \in ResumeOrder(m.kept)
    BY <1>1, <2>1, ResumeOrdered, NextInOrder, Zenon
  <2>3. Within(Head(s), ResumeOrder(m.kept), {"watchdogs_on"})
    BY <2>2 DEF Within
  <2>4. Head(s) \in Commands /\ Safe(Head(s), h, "resumed")
    BY <1>1, <2>1, <2>3, ResumeSafe
  <2> QED
    BY <1>4, <2>1, <2>2, <2>4 DEF EndOf, WhoIs
<1>5. CASE m.list = "return"
  <2>1. EndOf(s, Returning) /\ ReturnHolds(m, Head(s), h)
    BY <1>5 DEF ListHolds
  <2>2. \/ Tail(s) = <<>> /\ Head(s) \in {"mark"}
        \/ /\ EndOf(Tail(s), Returning) /\ Tail(s) # <<>>
           /\ <<Head(s), Head(Tail(s))>> \in ReturnOrder
    BY <2>1, ReturnOrdered, NextInOrder, Zenon
  <2>3. Within(Head(s), ReturnOrder, {"mark"})
    BY <2>2 DEF Within
  <2>4. Head(s) \in Commands /\ Safe(Head(s), h, None)
    BY <2>3, ReturnSafe
  <2> QED
    BY <1>5, <2>1, <2>2, <2>4 DEF EndOf, WhoIs
<1>6. CASE m.list = "ended"
  <2>1. PICK c \in {"mark", "mark_kept", "mark_removed"} : s = <<c>>
    BY <1>6 DEF ListHolds, EndedHolds
  <2>2. Head(s) = c /\ Tail(s) = <<>> /\ s # <<>>
    <3>1. <<c>> \in Seq({c}) /\ Len(<<c>>) = 1 /\ Head(<<c>>) = c
      OBVIOUS
    <3>2. Tail(<<c>>) \in Seq({c}) /\ Len(Tail(<<c>>)) = 0
      BY <3>1
    <3> QED
      BY <2>1, <3>1, <3>2, EmptySeq, NotEmpty
  <2>3. c \in Commands /\ Safe(c, h, None)
    BY <2>1 DEF Safe, Commands
  <2> QED
    BY <1>6, <2>1, <2>2, <2>3 DEF WhoIs
<1> QED
  BY <1>2, <1>3, <1>4, <1>5, <1>6 DEF ListHolds

\* A command that completes.
LEMMA CompleteKeeps ==
  ASSUME NEW m \in Controller, NEW h, InOrder(h), ListHolds(m, h),
         Completes(Head(m.left), h),
         NEW g, g = Completed(Head(m.left), h, WhoIs(m))
  PROVE  /\ InOrder(g)
         /\ Tail(m.left) # <<>> => ListHolds(Continued(m), g)
         /\ Tail(m.left) = <<>> /\ m.served /\ ~m.already /\ m.failures <= 1 => Served(g)
<1> DEFINE c == Head(m.left)
           n == Continued(m)
<1>1. c \in Commands /\ Safe(c, h, WhoIs(m)) /\ m.left # <<>>
  BY ListSafe
<1>2. InOrder(g)
  BY <1>1, CommandKeeps
<1>3. Changes(c, h, g)
  BY <1>1, CommandChanges
<1>4. /\ n \in Controller /\ Alike(m, n) /\ n.list = m.list /\ n.left = Tail(m.left)
      /\ n.kept = m.kept /\ n.remove = m.remove
  BY <1>1, ContinuedIs DEF Alike
<1>5. m.kept \in BOOLEAN
  BY DEF Controller
<1> DEFINE d == Head(Tail(m.left))
<1>11. Completes(c, h)
  OBVIOUS
<1> HIDE DEF n, c, d
<1>6. CASE m.list = "archive"
  <2>1. ArchiveHolds(m, c, h)
    BY <1>6 DEF ListHolds, c
  <2>2. CASE Tail(m.left) = <<>>
    <3>1. c \in {"mark_kept", "mark_removed"}
      BY <1>6, <2>2, ListSafe DEF c
    <3>2. g.web = "archive"
      BY <2>1, <3>1, <1>3 DEF ArchiveHolds, Changes
    <3> QED
      BY <1>2, <2>2, <3>2 DEF Served
  <2>3. CASE Tail(m.left) # <<>>
    <3>1. /\ EndOf(Tail(m.left), ArchiveList(m.kept, m.remove))
          /\ <<c, d>> \in ArchiveOrder(m.remove)
      BY <1>6, <2>3, ListSafe DEF c, d
    <3>2. ArchiveHolds(n, d, g)
      BY <1>3, <1>11, <1>4, <2>1, <3>1, ArchiveGoesOn
    <3> QED
      BY <1>2, <1>4, <1>6, <2>3, <3>1, <3>2 DEF ListHolds, n, d
  <2> QED
    BY <2>2, <2>3
<1>7. CASE m.list = "rollback"
  <2>1. RollbackHolds(m, c, h)
    BY <1>7 DEF ListHolds, c
  <2>2. CASE Tail(m.left) = <<>>
    <3>1. c = "mark"
      BY <1>7, <2>2, ListSafe DEF c
    <3>2. LiveUp(g)
      BY <2>1, <3>1, <1>3 DEF RollbackHolds, Changes, LiveUp
    <3> QED
      BY <1>2, <2>2, <3>2 DEF Served, LiveUp
  <2>3. CASE Tail(m.left) # <<>>
    <3>1. /\ EndOf(Tail(m.left), LiveAgain)
          /\ <<c, d>> \in RollbackOrder
      BY <1>7, <2>3, ListSafe DEF c, d
    <3>2. RollbackHolds(n, d, g)
      BY <1>3, <1>11, <1>4, <2>1, <3>1, RollbackGoesOn
    <3> QED
      BY <1>2, <1>4, <1>7, <2>3, <3>1, <3>2 DEF ListHolds, n, d
  <2> QED
    BY <2>2, <2>3
<1>8. CASE m.list = "resume"
  <2>1. ResumeHolds(m, c, h)
    BY <1>8 DEF ListHolds, c
  <2>2. CASE Tail(m.left) = <<>>
    <3>1. c = "watchdogs_on"
      BY <1>8, <2>2, ListSafe DEF c
    <3>2. LiveUp(g)
      BY <2>1, <3>1, <1>3 DEF ResumeHolds, Changes, LiveUp
    <3> QED
      BY <1>2, <2>2, <3>2 DEF Served, LiveUp
  <2>3. CASE Tail(m.left) # <<>>
    <3>1. /\ EndOf(Tail(m.left), ResumeList(m.kept))
          /\ <<c, d>> \in ResumeOrder(m.kept)
      BY <1>8, <2>3, ListSafe DEF c, d
    <3>2. ResumeHolds(n, d, g)
      BY <1>3, <1>11, <1>4, <1>5, <2>1, <3>1, ResumeGoesOn
    <3> QED
      BY <1>2, <1>4, <1>8, <2>3, <3>1, <3>2 DEF ListHolds, n, d
  <2> QED
    BY <2>2, <2>3
<1>9. CASE m.list = "return"
  <2>1. ReturnHolds(m, c, h)
    BY <1>9 DEF ListHolds, c
  <2>2. CASE Tail(m.left) = <<>>
    <3>1. c = "mark"
      BY <1>9, <2>2, ListSafe DEF c
    <3>2. g.web = "archive"
      BY <2>1, <3>1, <1>3 DEF ReturnHolds, Changes
    <3> QED
      BY <1>2, <2>2, <3>2 DEF Served
  <2>3. CASE Tail(m.left) # <<>>
    <3>1. /\ EndOf(Tail(m.left), Returning)
          /\ <<c, d>> \in ReturnOrder
      BY <1>9, <2>3, ListSafe DEF c, d
    <3>2. ReturnHolds(n, d, g)
      BY <1>3, <1>11, <1>4, <2>1, <3>1, ReturnGoesOn
    <3> QED
      BY <1>2, <1>4, <1>9, <2>3, <3>1, <3>2 DEF ListHolds, n, d
  <2> QED
    BY <2>2, <2>3
<1>10. CASE m.list = "ended"
  <2>1. Tail(m.left) = <<>>
    BY <1>10, ListSafe
  <2>2. m.already \/ m.failures = 2
    BY <1>10 DEF ListHolds, EndedHolds
  <2> QED
    BY <1>2, <2>1, <2>2
<1> QED
  BY <1>6, <1>7, <1>8, <1>9, <1>10 DEF ListHolds

\* Where a command that fails leaves the host.
LEMMA FailureChanges ==
  ASSUME NEW h, InOrder(h), NEW c \in Commands, NEW who, NEW g \in Interrupted(c, h, who)
  PROVE  /\ c \notin {"pg_restore", "volume_rm"} /\ Real(h) => Real(g)
         /\ c \notin {"remove_all", "db_up", "backend_up", "collector_up"} => g.up = h.up
         /\ c \notin {"remove_all", "remove_web", "static_up", "web_up"} => g.web = h.web
         /\ c # "unmark" /\ h.marker # NoMarker => g.marker # NoMarker
<1>1. CASE g = h
  BY <1>1
<1>2. CASE g = Completed(c, h, who)
  BY <1>2, CommandChanges DEF Changes
<1>3. CASE c = "remove_all" /\ \E n \in 1 .. Len(Removal) : g = WithoutFirst(h, n)
  <2>1. PICK n \in 1 .. Len(Removal) : g = WithoutFirst(h, n)
    BY <1>3
  <2>2. n \in 0 .. Len(Removal)
    BY DEF Removal
  <2>3. g.volume = h.volume /\ g.marker = h.marker
    BY <2>1, <2>2, RemovalKeeps
  <2> QED
    BY <1>3, <2>3 DEF Real
<1> QED
  BY <1>1, <1>2, <1>3 DEF Interrupted

\* A list that has failed twice, or found the archive in place, is given up.
LEMMA GivenUp ==
  ASSUME NEW m \in Controller, m.already \/ m.failures \in {1, 2}, NEW h,
         NEW c \in {"mark", "mark_kept", "mark_removed"}
  PROVE  /\ <<c>> # <<>>
         /\ LET n == Switched(m, "ended", <<c>>)
            IN  n \in Controller /\ n # Idle /\ ListHolds(n, h)
<1>1. PICK left \in Seq(Commands) : left = <<c>> /\ left # <<>>
  <2>1. <<c>> \in Seq(Commands) /\ Len(<<c>>) = 1
    BY DEF Commands
  <2> QED
    BY <2>1, NotEmpty
<1> DEFINE n == Switched(m, "ended", left)
<1>3. /\ n \in Controller /\ n.list = "ended" /\ n.left = left /\ n.already = m.already
      /\ n.failures = IF m.failures < 2 THEN m.failures + 1 ELSE m.failures
  BY SwitchedIs
<1> HIDE DEF n
<1>4. n.already \/ n.failures = 2
  BY <1>3
<1>5. n # Idle
  BY <1>3 DEF Idle, None
<1>6. n.left \in {<<"mark">>, <<"mark_kept">>, <<"mark_removed">>}
  BY <1>1, <1>3
<1>7. ListHolds(n, h)
  BY <1>3, <1>4, <1>6 DEF ListHolds, EndedHolds
<1> QED
  BY <1>1, <1>3, <1>5, <1>7 DEF n

\* The archive is brought back, from the start of the list or without its mark
\* of a failed restore.
LEMMA Returns ==
  ASSUME NEW m \in Controller, NEW h,
         NEW left \in {Returning, ReturnToArchive}
  PROVE  /\ left # <<>>
         /\ LET n == Switched(m, "return", left)
            IN  n \in Controller /\ n # Idle /\ ListHolds(n, h)
<1> DEFINE n == Switched(m, "return", left)
<1>1. EndOf(Returning, Returning) /\ Head(Returning) = "mark_failed"
  BY ReturnOrdered, WholeList DEF Ordered
<1>2. EndOf(left, Returning) /\ Head(left) \in {"mark_failed", "watchdogs_off"}
  BY <1>1, ReturnOrdered
<1>3. left \in Seq(Commands) /\ left # <<>>
  BY <1>2 DEF EndOf
<1>4. /\ n \in Controller /\ n.list = "return" /\ n.left = left
      /\ n.failures = IF m.failures < 2 THEN m.failures + 1 ELSE m.failures
  BY <1>3, SwitchedIs
<1> HIDE DEF n
<1>5. n.failures \in {1, 2}
  BY <1>4 DEF Controller
<1>6. n # Idle
  BY <1>4 DEF Idle, None
<1>7. ReturnHolds(n, Head(n.left), h)
  BY <1>2, <1>4, <1>5 DEF ReturnHolds
<1> QED
  BY <1>2, <1>3, <1>4, <1>6, <1>7 DEF ListHolds, n

\* The live website is brought back.
LEMMA RollsBack ==
  ASSUME NEW m \in Controller, m.failures = 0, NEW h, Real(h)
  PROVE  /\ LiveAgain # <<>>
         /\ LET n == Switched(m, "rollback", LiveAgain)
            IN  n \in Controller /\ n # Idle /\ ListHolds(n, h)
<1> DEFINE n == Switched(m, "rollback", LiveAgain)
<1>1. EndOf(LiveAgain, LiveAgain) /\ Head(LiveAgain) = "remove_web"
  BY RollbackOrdered, WholeList DEF Ordered
<1>2. LiveAgain \in Seq(Commands) /\ LiveAgain # <<>>
  BY <1>1 DEF EndOf
<1>3. n \in Controller /\ n.list = "rollback" /\ n.left = LiveAgain /\ n.failures = 1
  BY <1>2, SwitchedIs
<1> HIDE DEF n
<1>4. n # Idle
  BY <1>3 DEF Idle, None
<1>5. RollbackHolds(n, Head(n.left), h)
  BY <1>1, <1>3 DEF RollbackHolds
<1> QED
  BY <1>1, <1>2, <1>3, <1>4, <1>5 DEF ListHolds, n

\* What the controller does after a failure, by list.
Turn ==
  CASE mode.list = "archive"  -> ArchiveFails
    [] mode.list = "rollback" -> <<"ended", <<"mark">>>>
    [] mode.list = "resume"   -> ResumeFails
    [] mode.list = "return"   -> ReturnFails
    [] OTHER                  -> <<"ended", <<>>>>

LEMMA TurnTaken ==
  ASSUME Fail, NEW list, NEW left, Turn = <<list, left>>
  PROVE  mode' = IF left = <<>> THEN Idle ELSE Switched(mode, list, left)
<1>1. mode' = IF Turn[2] = <<>> THEN Idle ELSE Switched(mode, Turn[1], Turn[2])
  BY DEF Fail, Turn, Switched
<1>2. Turn[1] = list /\ Turn[2] = left
  OBVIOUS
<1> QED
  BY <1>1, <1>2

\* A command that fails.
LEMMA FailKeeps ==
  ASSUME InOrder(host), mode \in Controller, ListHolds(mode, host), Fail
  PROVE  /\ InOrder(host') /\ mode' \in Controller
         /\ mode' = Idle \/ ListHolds(mode', host')
         /\ mode' = Idle /\ mode.served /\ ~mode.already /\ mode.failures = 0 =>
              Served(host')
<1>1. PICK c : c = Command
  OBVIOUS
<1>2. /\ c \in Commands /\ Safe(c, host, Who) /\ host' \in Interrupted(c, host, Who)
      /\ c = Head(mode.left)
  <2>1. Head(mode.left) \in Commands /\ Safe(Head(mode.left), host, WhoIs(mode))
    BY ListSafe
  <2> QED
    BY <1>1, <2>1 DEF Fail, Command, Who, WhoIs
<1>3. InOrder(host')
  BY <1>2, FailureKeeps
<1>4. /\ c \notin {"pg_restore", "volume_rm"} /\ Real(host) => Real(host')
      /\ c \notin {"remove_all", "db_up", "backend_up", "collector_up"} => host'.up = host.up
      /\ c \notin {"remove_all", "remove_web", "static_up", "web_up"} => host'.web = host.web
  BY <1>2, FailureChanges
<1>5. mode.kept \in BOOLEAN /\ mode.already \in BOOLEAN
  BY DEF Controller
<1>6. CASE mode.list = "archive"
  <2>1. ArchiveHolds(mode, c, host)
    BY <1>2, <1>6 DEF ListHolds
  <2>2. Turn = ArchiveFails
    BY <1>6 DEF Turn
  <2>3. CASE c \notin Activation
    <3>1. Turn = <<"archive", <<>>>>
      BY <1>1, <2>2, <2>3 DEF ArchiveFails
    <3>2. mode' = Idle
      BY <3>1, TurnTaken
    <3>3. c \in {"mark", "watchdogs_off", "retire", "mark_kept", "mark_removed", "volume_rm"}
      <4>1. Within(c, ArchiveOrder(mode.remove), {"mark_kept", "mark_removed"})
        BY <1>2, <1>6, ListSafe DEF Within
      <4> QED
        BY <2>3, <4>1 DEF Within, ArchiveOrder, Activation
    <3>4. mode.served => Served(host')
      BY <1>4, <2>1, <3>3 DEF ArchiveHolds, Served
    <3> QED
      BY <1>3, <3>2, <3>4, IdleType
  <2>4. CASE c \in Activation /\ (mode.already \/ ~mode.kept)
    <3>1. mode.already
      BY <2>1, <2>4 DEF ArchiveHolds
    <3>2. PICK d \in {"mark_kept", "mark_removed"} : Turn = <<"ended", <<d>>>>
      BY <1>1, <2>2, <2>4 DEF ArchiveFails
    <3>3. PICK left : left = <<d>>
      OBVIOUS
    <3>4. d \in {"mark", "mark_kept", "mark_removed"}
      OBVIOUS
    <3>5. left # <<>> /\ mode' = Switched(mode, "ended", left)
      BY <3>1, <3>2, <3>3, <3>4, GivenUp, TurnTaken
    <3> QED
      BY <1>3, <3>1, <3>3, <3>4, <3>5, GivenUp
  <2>5. CASE c \in Activation /\ ~mode.already /\ mode.kept
    <3>1. Real(host')
      BY <1>4, <2>1, <2>5 DEF ArchiveHolds, Activation
    <3>2. Turn = <<"rollback", LiveAgain>>
      BY <1>1, <2>2, <2>5 DEF ArchiveFails
    <3>3. mode.failures = 0
      BY <2>1 DEF ArchiveHolds
    <3>4. mode' = Switched(mode, "rollback", LiveAgain)
      BY <3>1, <3>2, <3>3, RollsBack, TurnTaken
    <3> QED
      BY <1>3, <3>1, <3>3, <3>4, RollsBack
  <2> QED
    BY <1>5, <2>3, <2>4, <2>5
<1>7. CASE mode.list = "rollback"
  <2>1. mode.failures = 1
    BY <1>7 DEF ListHolds, RollbackHolds
  <2>2. PICK left : left = <<"mark">> /\ Turn = <<"ended", left>>
    BY <1>7 DEF Turn
  <2>3. left # <<>> /\ mode' = Switched(mode, "ended", left)
    BY <2>1, <2>2, GivenUp, TurnTaken
  <2> QED
    BY <1>3, <2>1, <2>2, <2>3, GivenUp
<1>8. CASE mode.list = "resume"
  <2>1. ResumeHolds(mode, c, host)
    BY <1>2, <1>8 DEF ListHolds
  <2>2. Turn = ResumeFails
    BY <1>8 DEF Turn
  <2>3. CASE mode.left \in {ResumeList(mode.kept), Tail(ResumeList(mode.kept))}
    <3>0. c \in {"watchdogs_off", "mark"}
      BY <1>2, <1>5, <2>3, ResumeOrdered DEF Ordered
    <3>1. Turn = <<"resume", <<>>>>
      <4>1. Command # "pg_restore"
        BY <1>1, <3>0
      <4> QED
        BY <2>2, <2>3, <4>1 DEF ResumeFails
    <3>2. mode' = Idle
      BY <3>1, TurnTaken
    <3>4. mode.served => Served(host')
      BY <1>4, <2>1, <3>0 DEF ResumeHolds, Served
    <3> QED
      BY <1>3, <3>2, <3>4, IdleType
  <2>4. CASE mode.left \notin {ResumeList(mode.kept), Tail(ResumeList(mode.kept))}
    <3>1. PICK left \in {Returning, ReturnToArchive} : Turn = <<"return", left>>
      BY <2>2, <2>4 DEF ResumeFails, Returning
    <3>3. left # <<>> /\ mode' = Switched(mode, "return", left)
      BY <3>1, Returns, TurnTaken
    <3> QED
      BY <1>3, <3>3, Returns
  <2> QED
    BY <2>3, <2>4
<1>9. CASE mode.list = "return"
  <2>1. mode.failures \in {1, 2}
    BY <1>9 DEF ListHolds, ReturnHolds
  <2>2. Turn = ReturnFails
    BY <1>9 DEF Turn
  <2>3. CASE c = "mark_failed"
    <3>1. Turn = <<"return", ReturnToArchive>>
      BY <1>1, <2>2, <2>3 DEF ReturnFails
    <3>2. PICK left \in {Returning, ReturnToArchive} : left = ReturnToArchive
      OBVIOUS
    <3>3. left # <<>> /\ mode' = Switched(mode, "return", left)
      BY <3>1, <3>2, Returns, TurnTaken
    <3> QED
      BY <1>3, <3>3, Returns
  <2>4. CASE c # "mark_failed"
    <3>1. PICK left : left = <<"mark">> /\ Turn = <<"ended", left>>
      BY <1>1, <2>2, <2>4 DEF ReturnFails
    <3>2. left # <<>> /\ mode' = Switched(mode, "ended", left)
      BY <2>1, <3>1, GivenUp, TurnTaken
    <3> QED
      BY <1>3, <2>1, <3>1, <3>2, GivenUp
  <2> QED
    BY <2>3, <2>4
<1>10. CASE mode.list = "ended"
  <2>1. Turn = <<"ended", <<>>>>
    BY <1>10 DEF Turn
  <2>2. mode' = Idle
    BY <2>1, TurnTaken
  <2>3. mode.already \/ mode.failures = 2
    BY <1>10 DEF ListHolds, EndedHolds
  <2> QED
    BY <1>3, <2>2, <2>3, IdleType
<1> QED
  BY <1>6, <1>7, <1>8, <1>9, <1>10 DEF ListHolds

-----------------------------------------------------------------------------
(* The attempts.                                                           *)

LEMMA ChosenIs ==
  ASSUME watch \in Watch
  PROVE  Chosen \in Attempts /\ watch # Away
BY DEF Watch, Chosen, Attempts, Away, None

LEMMA Later ==
  ASSUME NEW a \in Attempts, NEW p \in Attempts, NEW q \in Attempts,
         UpTo(a, p), UpTo(p, q), ~UpTo(q, p)
  PROVE  UpTo(a, q) /\ a # q
<1>1. /\ a.sha \in Nat /\ a.number \in Nat /\ p.sha \in Nat /\ p.number \in Nat
      /\ q.sha \in Nat /\ q.number \in Nat
  BY DEF Attempts, Commits
<1>2. UpTo(a, q)
  BY <1>1 DEF UpTo
<1>3. ~UpTo(q, p) /\ UpTo(a, p)
  OBVIOUS
<1> QED
  BY <1>2, <1>3

LEMMA AttemptInit == Init => AttemptInv
<1> SUFFICES ASSUME Init PROVE AttemptInv
  OBVIOUS
<1>1. MaxCommit \in Nat \ {0} /\ 1 \in Commits
  BY DeploymentAssumption DEF Commits
<1>2. /\ main = 1 /\ attempt = [sha |-> 1, number |-> 1] /\ watch = Away /\ handed = {}
      /\ builds = [s \in Commits |-> [number |-> IF s = 1 THEN 1 ELSE 0,
                                      state |-> IF s = 1 THEN "success" ELSE None]]
  BY DEF Init, DeploymentInit
<1>3. builds \in [Commits -> [number : Nat, state : {None, "running", "success", "failure"}]]
  BY <1>2
<1>4. attempt \in Attempts /\ Known(attempt)
  BY <1>1, <1>2 DEF Attempts, Known
<1>5. watch.at # "deploy" /\ watch.at # "wait"
  BY <1>2 DEF Away, None
<1> QED
  BY <1>1, <1>2, <1>3, <1>4, <1>5 DEF AttemptInv

\* What is known stays known, whatever main and the builds become.
LEMMA Forward ==
  ASSUME AttemptInv,
         \/ main' = main /\ builds' = builds
         \/ Push \/ Build
  PROVE  /\ main' \in Commits
         /\ builds' \in [Commits -> [number : Nat,
                                     state : {None, "running", "success", "failure"}]]
         /\ \A a \in Attempts : Known(a) => a.sha <= main' /\ a.number <= builds'[a.sha].number
<1> USE DEF AttemptInv, Attempts, Known
<1>1. CASE main' = main /\ builds' = builds
  BY <1>1
<1>2. CASE Push
  BY <1>2, DeploymentAssumption DEF Push, Commits
<1>3. CASE Build
  <2>1. PICK s \in Commits :
          \/ builds' = [builds EXCEPT ![s] = [number |-> @.number + 1, state |-> "running"]]
          \/ \E r \in {"success", "failure"} : builds' = [builds EXCEPT ![s].state = r]
    BY <1>3 DEF Build
  <2>2. main' = main
    BY <1>3 DEF Build
  <2>3. PICK number \in Nat, state \in {None, "running", "success", "failure"} :
          /\ builds' = [builds EXCEPT ![s] = [number |-> number, state |-> state]]
          /\ builds[s].number <= number
    <3>0. /\ builds[s] \in [number : Nat, state : {None, "running", "success", "failure"}]
          /\ builds[s].number \in Nat /\ builds[s].number + 1 \in Nat
          /\ builds[s].number <= builds[s].number + 1
          /\ builds[s].number <= builds[s].number
      OBVIOUS
    <3>1. CASE builds' = [builds EXCEPT ![s] = [number |-> @.number + 1, state |-> "running"]]
      <4>1. builds' = [builds EXCEPT ![s] = [number |-> builds[s].number + 1,
                                             state |-> "running"]]
        BY <3>1
      <4> QED
        BY <3>0, <4>1
    <3>2. ASSUME NEW r \in {"success", "failure"}, builds' = [builds EXCEPT ![s].state = r]
          PROVE  builds' = [builds EXCEPT ![s] = [number |-> builds[s].number, state |-> r]]
      <4>1. [builds[s] EXCEPT !.state = r] = [number |-> builds[s].number, state |-> r]
        BY <3>0
      <4> QED
        BY <3>2, <4>1
    <3> QED
      BY <2>1, <3>0, <3>1, <3>2
  <2> QED
    BY <2>2, <2>3
<1> QED
  BY <1>1, <1>2, <1>3

LEMMA AttemptStep == AttemptInv /\ [Next]_vars => AttemptInv'
<1> SUFFICES ASSUME AttemptInv, [Next]_vars PROVE AttemptInv'
  OBVIOUS
<1>1. Commits \subseteq Nat
  BY DEF Commits
<1>2. CASE UNCHANGED <<attempt, watch, handed>> /\ (UNCHANGED <<main, builds>> \/ Push \/ Build)
  <2>1. /\ main' \in Commits
        /\ builds' \in [Commits -> [number : Nat,
                                    state : {None, "running", "success", "failure"}]]
        /\ \A a \in Attempts : Known(a) => a.sha <= main' /\ a.number <= builds'[a.sha].number
    BY <1>2, Forward
  <2>2. attempt' \in Attempts /\ Known(attempt)'
    BY <1>2, <2>1 DEF AttemptInv, Known
  <2>3. watch' = Away \/ (watch' \in Watch /\ Known(Chosen)')
    BY <1>2, <2>1, ChosenIs DEF AttemptInv, Known, Chosen
  <2> QED
    BY <1>2, <2>1, <2>2, <2>3 DEF AttemptInv, Chosen
<1>3. CASE WatchStart
  <2>1. /\ watch' = [at |-> "verify", sha |-> main, number |-> builds[main].number]
        /\ UNCHANGED <<main, builds, attempt, handed>>
    BY <1>3 DEF WatchStart
  <2>2. watch' \in Watch /\ Known(Chosen)' /\ watch'.at = "verify"
    BY <1>1, <2>1 DEF AttemptInv, Watch, Known, Chosen
  <2> QED
    BY <2>1, <2>2 DEF AttemptInv, Known
<1>4. CASE WatchVerify
  <2>1. UNCHANGED <<main, builds, handed>> /\ watch.at = "verify" /\ watch \in Watch
    BY <1>4 DEF WatchVerify, AttemptInv, Away, None
  <2>2. CASE UNCHANGED attempt /\ watch' = Away
    BY <2>1, <2>2 DEF AttemptInv, Known, Away, None
  <2>3. CASE RecordAttempt /\ main = watch.sha /\ Candidate(main) = Chosen
             /\ ~AlreadyAttempted(Chosen)
    <3>1. watch' = [watch EXCEPT !.at = "deploy"] /\ attempt' = Chosen
      BY <2>3 DEF RecordAttempt, Recorded
    <3>2. /\ watch' \in Watch /\ Chosen' = Chosen /\ watch'.at = "deploy"
          /\ Chosen \in Attempts /\ Known(Chosen)
      BY <2>1, <3>1, ChosenIs DEF Watch, Chosen, AttemptInv, Away, None
    <3>3. Chosen.sha = main /\ Chosen.number = builds[main].number
      BY <2>3 DEF Candidate, Chosen
    <3>4. UpTo(attempt, Chosen) /\ ~UpTo(Chosen, attempt)
      <4>1. attempt.sha <= main /\ attempt.number <= builds[attempt.sha].number
            /\ ~(attempt.sha = main /\ attempt.number = builds[main].number)
        BY <2>3, <3>3 DEF AttemptInv, Known, AlreadyAttempted
      <4>2. /\ attempt.sha \in Nat /\ attempt.number \in Nat /\ main \in Nat
            /\ builds[main].number \in Nat
        BY <1>1 DEF AttemptInv, Attempts
      <4> QED
        BY <3>3, <4>1, <4>2 DEF UpTo
    <3>5. \A a \in handed : UpTo(a, Chosen) /\ a # Chosen
      <4>1. PICK p \in Attempts, q \in Attempts : p = attempt /\ q = Chosen
        BY <3>2 DEF AttemptInv
      <4>2. \A a \in handed : a \in Attempts /\ UpTo(a, p)
        BY <4>1 DEF AttemptInv
      <4>3. \A a \in Attempts : UpTo(a, p) => UpTo(a, q) /\ a # q
        BY <3>4, <4>1, Later
      <4> QED
        BY <4>1, <4>2, <4>3
    <3> QED
      BY <2>1, <3>1, <3>2, <3>5 DEF AttemptInv, Known, Away, None
  <2> QED
    BY <1>4, <2>2, <2>3 DEF WatchVerify
<1>5. CASE WatchDeploy
  <2>1. UNCHANGED <<main, builds>> /\ watch.at = "deploy" /\ watch \in Watch
        /\ attempt = Chosen /\ Chosen \in Attempts
    BY <1>5, ChosenIs DEF WatchDeploy, AttemptInv, Away, None
  <2>2. CASE watch' = Away /\ Recorded /\ UNCHANGED handed
    <3>1. attempt' = attempt
      BY <2>1, <2>2 DEF Recorded
    <3> QED
      BY <2>1, <2>2, <3>1 DEF AttemptInv, Known, Away, None
  <2>3. CASE /\ watch' = [watch EXCEPT !.at = "wait"]
             /\ handed' = handed \cup {Chosen} /\ UNCHANGED attempt
    <3>1. watch' \in Watch /\ Chosen' = Chosen /\ watch'.at = "wait"
      BY <2>1, <2>3 DEF Watch, Chosen
    <3>2. UpTo(Chosen, attempt)
      BY <1>1, <2>1 DEF UpTo, Attempts
    <3> QED
      BY <2>1, <2>3, <3>1, <3>2 DEF AttemptInv, Known
  <2> QED
    BY <1>5, <2>2, <2>3 DEF WatchDeploy
<1>6. CASE WatchEnd
  <2>1. /\ UNCHANGED <<main, builds, handed>> /\ watch' = Away /\ attempt' = attempt
    BY <1>6 DEF WatchEnd, Recorded, AttemptInv
  <2> QED
    BY <2>1 DEF AttemptInv, Known, Away, None
<1>7. CASE WatchKilled
  BY <1>7 DEF WatchKilled, AttemptInv, Known, Away, None
<1> QED
  BY <1>2, <1>3, <1>4, <1>5, <1>6, <1>7
  DEF Next, vars, deployVars, GateStep, GateOnly, Push, Build

\* What the deployment watch knows of its attempts, in every state.
THEOREM AttemptsInOrder == Spec => []AttemptInv
BY AttemptInit, AttemptStep, PTL DEF Spec

\* No CI attempt is handed to the gate twice, also when the watch was stopped
\* or the gate failed, and however often main moves on.
THEOREM AttemptMadeOnce == Spec => AttemptOnce
<1>1. AttemptInv /\ [Next]_vars =>
        [watch.at = "deploy" /\ gate' # gate => Chosen \notin handed]_vars
  BY DEF AttemptInv
<1> QED
  BY <1>1, AttemptsInOrder, PTL DEF Spec, AttemptOnce

-----------------------------------------------------------------------------
(* The operator, the writers and the gate.                                 *)


LEMMA ArchiveBegins ==
  ASSUME InOrder(host), NEW remove \in BOOLEAN, Archive(remove)
  PROVE  mode' \in Controller /\ ListHolds(mode', host)
<1> DEFINE already == host.marker # NoMarker
           kept == host.volume # "absent"
           served == Served(host)
<1>1. already \in BOOLEAN /\ kept \in BOOLEAN /\ served \in BOOLEAN
  BY DEF Served
<1>2. PICK program : program = ArchiveList(kept, remove)
  OBVIOUS
<1>3. /\ program \in Seq(Commands) /\ program # <<>> /\ Head(program) = "mark"
  BY <1>2, ArchiveOrdered DEF Ordered
<1>4. /\ mode' = [list |-> "archive", left |-> program, already |-> already,
                  kept |-> kept, remove |-> remove, served |-> served, failures |-> 0]
      /\ remove => ~host.lastLive
  BY <1>2, Zenon DEF Archive
<1>5. EndOf(program, program)
  BY <1>3, WholeList
<1>6. /\ ~already => Real(host) /\ kept
      /\ already => host.marker # NoMarker
      /\ served => Served(host)
  BY DEF InOrder, MarkerTells, Real
<1> HIDE DEF already, kept, served
<1>7. ArchiveHolds(mode', "mark", host)
  BY <1>1, <1>4, <1>6 DEF ArchiveHolds
<1>8. mode' \in Controller /\ mode'.left = program /\ mode'.list = "archive"
      /\ mode'.kept = kept /\ mode'.remove = remove
  BY <1>1, <1>3, <1>4 DEF Controller
<1> QED
  BY <1>2, <1>3, <1>5, <1>7, <1>8 DEF ListHolds

LEMMA ResumeBegins ==
  ASSUME InOrder(host), Resume
  PROVE  mode' \in Controller /\ ListHolds(mode', host)
<1> DEFINE kept == host.volume # "absent"
           served == Served(host)
<1>1. kept \in BOOLEAN /\ served \in BOOLEAN
  BY DEF Served
<1>2. PICK program : program = ResumeList(kept)
  OBVIOUS
<1>3. /\ program \in Seq(Commands) /\ program # <<>> /\ Head(program) = "watchdogs_off"
  BY <1>2, ResumeOrdered DEF Ordered
<1>4. mode' = [list |-> "resume", left |-> program, already |-> FALSE,
               kept |-> kept, remove |-> FALSE, served |-> served, failures |-> 0]
  BY <1>2, Zenon DEF Resume
<1>5. /\ host.marker.restore # "restoring"
      /\ kept => host.marker.restore # "failed"
  BY DEF Resume, VolumeTrusted
<1>6. (kept => Real(host)) /\ (served => Served(host))
  BY <1>5 DEF InOrder, MarkerTells
<1> HIDE DEF kept, served
<1>7. EndOf(program, program)
  BY <1>3, WholeList
<1>8. ResumeHolds(mode', "watchdogs_off", host)
  BY <1>1, <1>4, <1>6 DEF ResumeHolds
<1>9. mode' \in Controller /\ mode'.left = program /\ mode'.list = "resume"
      /\ mode'.kept = kept
  BY <1>1, <1>3, <1>4 DEF Controller
<1> QED
  BY <1>2, <1>3, <1>7, <1>8, <1>9 DEF ListHolds

LEMMA PrepareKeeps ==
  ASSUME InOrder(host), Prepare
  PROVE  InOrder(host')
<1>1. /\ host' = [host EXCEPT !.up = {"db"}, !.volume = "saved", !.unsaved = {},
                              !.lastLive = FALSE, !.by = None]
      /\ host \in Host
  BY DEF Prepare, InOrder
<1>2. /\ host' \in Host /\ host'.up = {"db"} /\ host'.volume = "saved" /\ host'.unsaved = {}
      /\ host'.by = None /\ host'.marker = host.marker /\ host'.lost = host.lost
  BY <1>1 DEF Host, Services, Givers, None
<1> QED
  BY <1>2 DEF InOrder, MarkerTells, Unrecorded, Real, None

\* What the lists need does not depend on what is written.
LEMMA WriteKeeps ==
  ASSUME InOrder(host), Write
  PROVE  /\ InOrder(host')
         /\ host'.marker = host.marker
         /\ \A m : ListHolds(m, host) => ListHolds(m, host')
<1>1. /\ host' = [host EXCEPT !.volume = "newer", !.unsaved = @ \cup {host.by}]
      /\ host \in Host
  BY DEF Write, InOrder
<1>2. /\ host' \in Host /\ host'.up = host.up /\ host'.web = host.web
      /\ host'.volume = "newer" /\ host'.marker = host.marker
      /\ host'.lastLive = host.lastLive /\ host'.retired = host.retired
      /\ host'.by = host.by /\ host'.unsaved = host.unsaved \cup {host.by}
      /\ host'.lost = host.lost
  BY <1>1 DEF Host
<1>3. InOrder(host')
  BY <1>2 DEF InOrder, MarkerTells, Unrecorded, Real
<1>4. Real(host') /\ (Served(host') <=> Served(host)) /\ (LiveUp(host') <=> LiveUp(host))
  BY <1>2 DEF Real, Served, LiveUp
<1>5. ASSUME NEW m, ListHolds(m, host)
      PROVE  ListHolds(m, host')
  <2>1. \A c : /\ ArchiveHolds(m, c, host) => ArchiveHolds(m, c, host')
               /\ RollbackHolds(m, c, host) => RollbackHolds(m, c, host')
               /\ ResumeHolds(m, c, host) => ResumeHolds(m, c, host')
               /\ ReturnHolds(m, c, host) => ReturnHolds(m, c, host')
    BY <1>2, <1>4 DEF ArchiveHolds, RollbackHolds, ResumeHolds, ReturnHolds
  <2> QED
    BY <1>5, <2>1 DEF ListHolds
<1> QED
  BY <1>2, <1>3, <1>5

\* What the gate starts, it starts on real data.
LEMMA PartlyKeeps ==
  ASSUME InOrder(host), host.marker = NoMarker, NEW services \in SUBSET Services,
         NEW g \in Partly(host, services)
  PROVE  InOrder(g) /\ g.marker = NoMarker
<1>1. Real(host) /\ host \in Host
  BY DEF InOrder, MarkerTells
<1>2. PICK some \in SUBSET services :
        \/ g = [host EXCEPT !.up = @ \cup some]
        \/ g = [host EXCEPT !.up = @ \cup some, !.web = "live", !.by = "deployed"]
  BY <1>1 DEF Partly, Host
<1>3. /\ g \in Host /\ g.volume = host.volume /\ g.marker = host.marker
      /\ g.lastLive = host.lastLive /\ g.by \in {host.by, "deployed"}
      /\ g.unsaved = host.unsaved /\ g.lost = host.lost
  <2>1. host.up \cup some \in SUBSET Services
    BY <1>1 DEF Host
  <2>2. CASE g = [host EXCEPT !.up = @ \cup some]
    BY <1>1, <2>1, <2>2 DEF Host
  <2>3. CASE g = [host EXCEPT !.up = @ \cup some, !.web = "live", !.by = "deployed"]
    <3>1. "live" \in Webs /\ "deployed" \in Givers
      BY DEF Webs, Givers
    <3>2. g.up = host.up \cup some /\ g.web = "live" /\ g.by = "deployed"
      BY <1>1, <2>3 DEF Host
    <3> QED
      BY <1>1, <2>1, <2>3, <3>1, <3>2 DEF Host
  <2> QED
    BY <1>2, <2>2, <2>3
<1> QED
  BY <1>1, <1>3 DEF InOrder, MarkerTells, Unrecorded, Real

LEMMA DatabaseKeeps ==
  ASSUME InOrder(host), host.marker = NoMarker
  PROVE  InOrder(WithDatabase(host)) /\ WithDatabase(host).marker = NoMarker
<1>1. Safe("db_up", host, None)
  BY DEF InOrder, MarkerTells, Safe, Commands
<1>2. InOrder(WithDatabase(host))
  <2>1. InOrder(Completed("db_up", host, None))
    BY <1>1, CommandKeeps
  <2>2. Completed("db_up", host, None) = WithDatabase(host)
    BY Effects
  <2> QED
    BY <2>1, <2>2
<1>3. WithDatabase(host).marker = host.marker
  BY DEF WithDatabase, InOrder, Host
<1> QED
  BY <1>2, <1>3

-----------------------------------------------------------------------------
(* The invariant of host, controller and gate.                             *)

LEMMA ControlInit == Init => ControlInv
<1> SUFFICES ASSUME Init PROVE ControlInv
  OBVIOUS
<1>1. mode = Idle /\ gate = NoGate
  BY DEF Init, ModeInit, DeploymentInit
<1>2. host = [up |-> {"db"}, web |-> "live", volume |-> "saved", marker |-> NoMarker,
              lastLive |-> FALSE, retired |-> FALSE, watching |-> TRUE,
              by |-> None, unsaved |-> {}, lost |-> {}]
  BY DEF Init, HostInit
<1>3. host \in Host
  BY <1>2 DEF Host, Services, Webs, Markers, Givers
<1>4. InOrder(host)
  BY <1>2, <1>3 DEF InOrder, MarkerTells, Unrecorded, Real, None
<1>5. GateInv
  BY <1>1 DEF GateInv, InGate, NoGate, GateStates, None
<1> QED
  BY <1>1, <1>4, <1>5, IdleType DEF ControlInv, ModeInv

\* What a completed command leaves, of the list that was worked on.
LEMMA CompleteStep ==
  ASSUME InOrder(host), mode \in Controller, ListHolds(mode, host), Complete
  PROVE  /\ InOrder(host') /\ mode' \in Controller
         /\ mode' = Idle \/ ListHolds(mode', host')
         /\ mode' = Idle /\ mode.served /\ ~mode.already /\ mode.failures <= 1 =>
              Served(host')
<1>1. Completes(Head(mode.left), host) /\ host' = Completed(Head(mode.left), host, WhoIs(mode))
  BY DEF Complete, Command, Who, WhoIs
<1>2. /\ InOrder(host')
      /\ Tail(mode.left) # <<>> => ListHolds(Continued(mode), host')
      /\ Tail(mode.left) = <<>> /\ mode.served /\ ~mode.already /\ mode.failures <= 1 =>
           Served(host')
  BY <1>1, CompleteKeeps
<1>3. mode' = IF Tail(mode.left) = <<>> THEN Idle ELSE Continued(mode)
  BY DEF Complete, GoOn, Continued
<1>4. Continued(mode) \in Controller /\ Continued(mode).list = mode.list
  BY ContinuedIs, ListSafe
<1>5. mode.list # Idle.list
  BY DEF ListHolds, Idle, None
<1> QED
  BY <1>2, <1>3, <1>4, <1>5, IdleType

LEMMA KilledStep ==
  ASSUME InOrder(host), mode \in Controller, ListHolds(mode, host), Killed
  PROVE  InOrder(host') /\ mode' = Idle
<1>1. Safe(Head(mode.left), host, WhoIs(mode))
  BY ListSafe
<1>2. host' \in Interrupted(Head(mode.left), host, WhoIs(mode)) /\ mode' = Idle
  BY DEF Killed, Command, Who, WhoIs
<1> QED
  BY <1>1, <1>2, FailureKeeps

LEMMA GateGoesOn ==
  ASSUME NEW at \in GateStates, gate \in [at : GateStates, sha : Nat], Gate(at)
  PROVE  gate' \in [at : GateStates, sha : Nat] /\ gate'.at = at
BY DEF Gate

LEMMA GateStepKeeps ==
  ASSUME InOrder(host), GateInv, GateStep
  PROVE  /\ InOrder(host') /\ GateInv' /\ mode' = mode
         /\ host' # host => host.marker = NoMarker /\ mode = Idle
<1>1. mode' = mode
  BY DEF GateStep, GateOnly
<1>2. gate \in [at : GateStates, sha : Nat]
  BY DEF GateInv
<1>3. ASSUME NEW at \in GateStates, Gate(at)
      PROVE  gate' \in [at : GateStates, sha : Nat] /\ gate'.at = at
  BY <1>2, <1>3, GateGoesOn
<1>4. /\ "check" \in GateStates /\ "ended" \in GateStates /\ "initialize" \in GateStates
      /\ "up" \in GateStates /\ "undo" \in GateStates /\ "link" \in GateStates
  BY DEF GateStates
<1>5. CASE GateLock
  <2>1. host' = host
    BY <1>5 DEF GateLock
  <2>2. CASE ~Locked /\ Gate("check")
    <3>1. gate' \in [at : GateStates, sha : Nat] /\ gate'.at = "check"
      BY <1>3, <1>4, <2>2
    <3> QED
      BY <1>1, <2>1, <2>2, <3>1 DEF GateInv, Locked
  <2>3. CASE Gate("ended")
    <3>1. gate' \in [at : GateStates, sha : Nat] /\ gate'.at = "ended"
      BY <1>3, <1>4, <2>3
    <3> QED
      BY <1>1, <2>1, <3>1 DEF GateInv, InGate
  <2> QED
    BY <1>5, <2>2, <2>3 DEF GateLock
<1>6. ASSUME InGate, mode = Idle, gate.at # "check" => host.marker = NoMarker,
             GateCheck \/ GateInitialize \/ GateUp \/ GateUndo \/ GateLink
      PROVE  /\ InOrder(host') /\ GateInv'
             /\ host' # host => host.marker = NoMarker
  <2>1. PICK at \in {"initialize", "up", "undo", "link", "ended"} : Gate(at)
    BY <1>6 DEF GateCheck, GateInitialize, GateUp, GateUndo, GateLink
  <2>2. gate' \in [at : GateStates, sha : Nat] /\ gate'.at = at
    BY <1>3, <1>4, <2>1
  <2>3. /\ InOrder(host') /\ (at # "ended" => host'.marker = NoMarker)
        /\ host' # host => host.marker = NoMarker
    <3>1. CASE GateCheck
      <4>1. host' = host /\ (host.marker = NoMarker \/ Gate("ended"))
        BY <3>1 DEF GateCheck
      <4>2. Gate("ended") => at = "ended"
        BY <1>3, <1>4, <2>2
      <4> QED
        BY <4>1, <4>2
    <3>2. CASE GateInitialize
      <4>1. host.marker = NoMarker
        BY <1>6, <3>2 DEF GateInitialize
      <4>2. host' = host \/ host' = WithDatabase(host)
        BY <3>2 DEF GateInitialize
      <4> QED
        BY <4>1, <4>2, DatabaseKeeps
    <3>3. CASE GateUp
      <4>1. host.marker = NoMarker /\ host' \in Partly(host, Services)
        BY <1>6, <3>3 DEF GateUp, AllUp
      <4> QED
        BY <4>1, PartlyKeeps
    <3>4. CASE GateUndo
      <4>1. host.marker = NoMarker /\ host' \in Partly(host, {"backend", "collector"})
        BY <1>6, <3>4 DEF GateUndo
      <4>2. {"backend", "collector"} \in SUBSET Services
        BY DEF Services
      <4> QED
        BY <4>1, <4>2, PartlyKeeps
    <3>5. CASE GateLink
      <4>1. host.marker = NoMarker /\ host' = host
        BY <1>6, <3>5 DEF GateLink
      <4> QED
        BY <4>1
    <3> QED
      BY <1>6, <3>1, <3>2, <3>3, <3>4, <3>5
  <2> QED
    BY <1>1, <1>6, <2>2, <2>3 DEF GateInv, InGate
<1>7. GateLock \/ (InGate /\ (GateCheck \/ GateInitialize \/ GateUp \/ GateUndo \/ GateLink))
  BY DEF GateStep, InGate, GateCheck, GateInitialize, GateUp, GateUndo, GateLink
<1>8. CASE InGate /\ (GateCheck \/ GateInitialize \/ GateUp \/ GateUndo \/ GateLink)
  BY <1>1, <1>6, <1>8 DEF GateInv
<1>9. GateLock => host' = host
  BY DEF GateLock
<1> QED
  BY <1>1, <1>5, <1>7, <1>8, <1>9

LEMMA ControlStep == AttemptInv /\ ControlInv /\ [Next]_vars => ControlInv'
<1> SUFFICES ASSUME AttemptInv, ControlInv, [Next]_vars PROVE ControlInv'
  OBVIOUS
<1>1. InOrder(host) /\ ModeInv /\ GateInv
  BY DEF ControlInv
<1>2. mode \in Controller /\ (mode = Idle \/ ListHolds(mode, host))
  BY <1>1 DEF ModeInv
<1>3. CASE OperatorStep /\ UNCHANGED deployVars
  <2>1. ~InGate /\ mode = Idle /\ gate' = gate
    BY <1>3 DEF OperatorStep, Locked, deployVars
  <2>2. GateInv'
    BY <1>1, <2>1 DEF GateInv, InGate
  <2>3. CASE (\E remove \in BOOLEAN : Archive(remove)) /\ UNCHANGED host
    <3>1. mode' \in Controller /\ ListHolds(mode', host)
      BY <1>1, <2>3, ArchiveBegins
    <3> QED
      BY <1>1, <2>2, <2>3, <3>1 DEF ControlInv, ModeInv
  <2>4. CASE Resume /\ UNCHANGED host
    <3>1. mode' \in Controller /\ ListHolds(mode', host)
      BY <1>1, <2>4, ResumeBegins
    <3> QED
      BY <1>1, <2>2, <2>4, <3>1 DEF ControlInv, ModeInv
  <2>5. CASE Prepare /\ UNCHANGED mode
    BY <1>1, <1>2, <2>1, <2>2, <2>5, PrepareKeeps DEF ControlInv, ModeInv
  <2> QED
    BY <1>3, <2>3, <2>4, <2>5 DEF OperatorStep
<1>4. CASE ModeStep /\ UNCHANGED deployVars
  <2>1. mode # Idle /\ gate' = gate
    BY <1>4 DEF ModeStep, deployVars
  <2>2. GateInv'
    BY <1>1, <2>1 DEF GateInv, InGate
  <2>3. /\ InOrder(host') /\ mode' \in Controller
        /\ mode' = Idle \/ ListHolds(mode', host')
    BY <1>1, <1>2, <1>4, <2>1, CompleteStep, FailKeeps, KilledStep, IdleType DEF ModeStep
  <2> QED
    BY <2>2, <2>3 DEF ControlInv, ModeInv
<1>5. CASE Write /\ UNCHANGED <<mode, deployVars>>
  <2>1. mode' = mode /\ gate' = gate
    BY <1>5 DEF deployVars
  <2>2. InOrder(host') /\ host'.marker = host.marker
        /\ (ListHolds(mode, host) => ListHolds(mode, host'))
    BY <1>1, <1>5, WriteKeeps
  <2> QED
    BY <1>1, <1>2, <2>1, <2>2 DEF ControlInv, ModeInv, GateInv, InGate
<1>6. CASE UNCHANGED <<host, mode, gate>>
  BY <1>1, <1>6 DEF ControlInv, ModeInv, GateInv, InGate
<1>7. CASE WatchDeploy \/ WatchEnd \/ WatchKilled
  <2>1. host' = host /\ mode' = mode
    BY <1>7 DEF WatchDeploy, WatchEnd, WatchKilled
  <2>2. gate' = gate \/ gate' = NoGate \/ gate' = [at |-> "lock", sha |-> watch.sha]
    BY <1>7 DEF WatchDeploy, WatchEnd, WatchKilled
  <2>3. watch.sha \in Nat
    BY DEF AttemptInv, Watch, Commits, Away
  <2>4. gate' = gate \/ (gate' \in [at : GateStates, sha : Nat] /\ gate'.at \in {None, "lock"})
    BY <2>2, <2>3 DEF NoGate, GateStates
  <2> QED
    BY <1>1, <2>1, <2>4 DEF ControlInv, ModeInv, GateInv, InGate, None
<1>8. CASE GateStep
  <2>1. InOrder(host') /\ GateInv' /\ mode' = mode
        /\ (host' # host => mode = Idle)
    BY <1>1, <1>8, GateStepKeeps
  <2> QED
    BY <1>2, <2>1 DEF ControlInv, ModeInv
<1> QED
  BY <1>3, <1>4, <1>5, <1>6, <1>7, <1>8
  DEF Next, vars, deployVars, Push, Build, WatchStart, WatchVerify

\* What holds of host, controller and gate, in every state.
THEOREM HostInOrder == Spec => []ControlInv
<1>1. Init => ControlInv
  BY ControlInit
<1>2. AttemptInv /\ ControlInv /\ [Next]_vars => ControlInv'
  BY ControlStep
<1> QED
  BY <1>1, <1>2, AttemptsInOrder, PTL DEF Spec

\* Backend and collector never run on a database that is empty or half
\* restored, whatever failed or was killed before.
THEOREM NeverOnEmptyData == Spec => []LiveOnRealData
<1>1. ControlInv => LiveOnRealData
  BY DEF ControlInv, InOrder, LiveOnRealData
<1> QED
  BY <1>1, HostInOrder, PTL

\* What was written after a resume is never deleted.
THEOREM ResumedDataStays == Spec => []ResumedDataKept
<1>1. ControlInv => ResumedDataKept
  BY DEF ControlInv, InOrder, ResumedDataKept
<1> QED
  BY <1>1, HostInOrder, PTL

\* One command that fails leaves the site served.
THEOREM SiteSurvivesOneFailure == Spec => OneFailureKeepsTheSite
<1>1. ControlInv /\ [Next]_vars =>
        [/\ mode # Idle /\ mode' = Idle
         /\ mode.served /\ ~mode.already
         /\ \/ Complete /\ mode.failures <= 1
            \/ Fail /\ mode.failures = 0
         => Served(host')]_vars
  <2> SUFFICES ASSUME ControlInv, mode # Idle, mode' = Idle, mode.served, ~mode.already,
                      \/ Complete /\ mode.failures <= 1
                      \/ Fail /\ mode.failures = 0
               PROVE  Served(host')
    OBVIOUS
  <2>1. InOrder(host) /\ mode \in Controller /\ ListHolds(mode, host)
    BY DEF ControlInv, ModeInv
  <2> QED
    BY <2>1, CompleteStep, FailKeeps
<1> QED
  BY <1>1, HostInOrder, PTL DEF Spec, OneFailureKeepsTheSite

\* The marker goes when the whole live stack runs, and not before.
LEMMA UnmarkedLive ==
  ASSUME InOrder(host), mode \in Controller, ListHolds(mode, host),
         Complete \/ Fail \/ Killed,
         host.marker # NoMarker, host'.marker = NoMarker
  PROVE  /\ host.up = Services /\ host.web = "live" /\ Real(host)
         /\ ~host.retired /\ host.lastLive
<1>1. PICK c : c = Head(mode.left)
  OBVIOUS
<1>2. c \in Commands
  BY <1>1, ListSafe
<1>3. host' \in Interrupted(c, host, WhoIs(mode))
  BY <1>1 DEF Complete, Fail, Killed, Command, Who, WhoIs, Interrupted
<1>4. c = "unmark"
  BY <1>2, <1>3, FailureChanges
<1>5. mode.list = "resume"
  BY <1>1, <1>4, ListSafe
  DEF ListHolds, ArchiveOrder, RollbackOrder, ReturnOrder
<1>6. ResumeHolds(mode, c, host)
  BY <1>1, <1>5 DEF ListHolds
<1>7. LiveUp(host) /\ "collector" \in host.up /\ Real(host) /\ ~host.retired /\ host.lastLive
  BY <1>4, <1>6 DEF ResumeHolds
<1>8. host.up \subseteq Services
  BY DEF InOrder, Host
<1> QED
  BY <1>7, <1>8 DEF LiveUp, Services

\* Archive mode ends with the whole live stack on real data, and no
\* deployment changes the host before that.
THEOREM ArchiveEndsWithLiveStack == Spec => ArchiveEndsLive
<1>1. AttemptInv /\ ControlInv /\ [Next]_vars =>
        [/\ host.marker # NoMarker /\ host'.marker = NoMarker =>
              /\ host.up = Services /\ host.web = "live" /\ Real(host)
              /\ ~host.retired /\ host.lastLive
         /\ gate' # gate /\ host' # host => host.marker = NoMarker /\ mode = Idle]_vars
  <2> SUFFICES ASSUME ControlInv, Next
               PROVE  /\ host.marker # NoMarker /\ host'.marker = NoMarker =>
                           /\ host.up = Services /\ host.web = "live" /\ Real(host)
                           /\ ~host.retired /\ host.lastLive
                      /\ gate' # gate /\ host' # host =>
                           host.marker = NoMarker /\ mode = Idle
    OBVIOUS
  <2>1. /\ InOrder(host) /\ GateInv /\ mode \in Controller
        /\ mode = Idle \/ ListHolds(mode, host)
    BY DEF ControlInv, ModeInv
  <2>2. CASE ModeStep /\ UNCHANGED deployVars
    BY <2>1, <2>2, UnmarkedLive DEF ModeStep, deployVars
  <2>3. CASE OperatorStep /\ UNCHANGED deployVars
    BY <2>3 DEF OperatorStep, Prepare, deployVars
  <2>4. CASE Write /\ UNCHANGED <<mode, deployVars>>
    BY <2>1, <2>4, WriteKeeps DEF deployVars
  <2>5. CASE UNCHANGED host
    BY <2>5
  <2>6. CASE GateStep
    BY <2>1, <2>6, GateStepKeeps
  <2> QED
    BY <2>2, <2>3, <2>4, <2>5, <2>6
    DEF Next, Push, Build, WatchStart, WatchVerify, WatchDeploy, WatchEnd, WatchKilled
<1> QED
  BY <1>1, HostInOrder, AttemptsInOrder, PTL DEF Spec, ArchiveEndsLive
=============================================================================
