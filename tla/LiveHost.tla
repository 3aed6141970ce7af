------------------------------ MODULE LiveHost ------------------------------
(***************************************************************************)
(* The host Pongdang runs on, as far as ops/pongdang-mode and              *)
(* ops/pongdang-deploy change it: containers, the database volume, the     *)
(* files of archive-recovery.md, the timer of the deployment watch and the *)
(* exclusions of the monitor.  The containers of the website have one name *)
(* in the live and in the archive project, so one of them exists at a time.*)
(*                                                                         *)
(* A command either completes, or fails or is cut off with all, nothing or *)
(* a part of its effect.                                                   *)
(***************************************************************************)
EXTENDS Naturals, Sequences, FiniteSets

VARIABLE
  host   \* up: live services, web: the website, volume: what the database
         \* volume holds, marker: active.json, lastLive: last-live.json
         \* exists, retired: the monitor leaves the live stack out, watching:
         \* the timer of the deployment watch, by: who put the live website up
         \* last, unsaved: who served when data was written that the backup
         \* lacks, lost: the same of data that has been deleted

Services == {"db", "backend", "collector"}
None == "none"

\* active.json does not exist; and what it is taken for when it is written.
NoMarker == [removed |-> FALSE, restore |-> "no marker"]
Unmarked == [removed |-> FALSE, restore |-> None]

\* A volume with real data: that of the verified backup, or newer.
Real(h) == h.volume \in {"saved", "newer"}

Marked(h, removed, restore) ==
  [h EXCEPT !.marker = [removed |-> removed, restore |-> restore]]

MarkerOf(h) == IF h.marker = NoMarker THEN Unmarked ELSE h.marker

\* Containers go one by one in this order: what is left of those it names
\* after any number of them.
Removal == <<"collector", "backend", "web", "db">>
WithoutFirst(h, n) ==
  LET gone == {Removal[i] : i \in 1 .. n}
  IN  [h EXCEPT !.up = @ \ gone, !.web = IF "web" \in gone THEN None ELSE @]

\* The first start of the database makes the volume.
WithDatabase(h) ==
  [h EXCEPT !.up = @ \cup {"db"}, !.volume = IF @ = "absent" THEN "empty" ELSE @]

----------------------------------------------------------------------------
\* What a command leads to when it completes, for a command given by "who".
Completed(c, h, who) ==
  LET m == MarkerOf(h) IN
  CASE c = "mark"           -> Marked(h, m.removed, m.restore)
    [] c = "mark_kept"      -> Marked(h, FALSE, m.restore)
    [] c = "mark_removed"   -> Marked(h, TRUE, m.restore)
    [] c = "mark_restoring" -> Marked(h, m.removed, "restoring")
    [] c = "mark_failed"    -> Marked(h, m.removed, "failed")
    [] c = "mark_complete"  -> Marked(h, FALSE, "complete")
    [] c = "unmark"         -> [h EXCEPT !.marker = NoMarker]
    [] c = "mark_live"      -> [h EXCEPT !.lastLive = TRUE]
    [] c = "watchdogs_off"  -> [h EXCEPT !.watching = FALSE]
    [] c = "watchdogs_on"   -> [h EXCEPT !.watching = TRUE]
    [] c = "retire"         -> [h EXCEPT !.retired = TRUE]
    [] c = "unretire"       -> [h EXCEPT !.retired = FALSE]
    [] c = "remove_all"     -> WithoutFirst(h, Len(Removal))
    [] c = "remove_web"     -> [h EXCEPT !.web = None]
    [] c = "static_up"      -> [h EXCEPT !.web = "archive"]
    [] c = "web_up"         -> [h EXCEPT !.web = "live", !.by = who]
    [] c = "db_up"          -> WithDatabase(h)
    [] c = "backend_up"     -> [h EXCEPT !.up = @ \cup {"backend"}]
    [] c = "collector_up"   -> [h EXCEPT !.up = @ \cup {"collector"}]
    [] c = "pg_restore"     -> [h EXCEPT !.volume = "saved"]
    [] c = "volume_rm"      -> [h EXCEPT !.volume = "absent", !.unsaved = {},
                                         !.lost = @ \cup h.unsaved]
    [] OTHER                -> h

\* When it can complete: a container of the other project holds the name of
\* the website, health and readiness are those of what is running, a volume
\* in use stays.
Completes(c, h) ==
  /\ c = "static_up"     => h.web \in {None, "archive"}
  /\ c = "web_up"        => h.web \in {None, "live"} /\ {"db", "backend"} \subseteq h.up
  /\ c = "backend_up"    => "db" \in h.up
  /\ c = "collector_up"  => "db" \in h.up
  /\ c = "ready_archive" => h.web = "archive"
  /\ c = "ready_live"    => h.web = "live" /\ {"db", "backend"} \subseteq h.up
  /\ c = "pg_restore"    => "db" \in h.up /\ h.volume = "empty"
  /\ c = "volume_rm"     => "db" \notin h.up

\* Where a command that fails or is cut off may leave the host.  The restore
\* is a single transaction.
Interrupted(c, h, who) ==
  {h} \cup (IF Completes(c, h) THEN {Completed(c, h, who)} ELSE {})
      \cup (IF c = "remove_all" THEN {WithoutFirst(h, n) : n \in 1 .. Len(Removal)}
            ELSE {})

----------------------------------------------------------------------------
\* Right after the preparation of an archive generation.
HostInit ==
  host = [up |-> {"db"}, web |-> "live", volume |-> "saved", marker |-> NoMarker,
          lastLive |-> FALSE, retired |-> FALSE, watching |-> TRUE,
          by |-> None, unsaved |-> {}, lost |-> {}]

\* The collector, and the backend for the users of the live website, write.
Write ==
  /\ "db" \in host.up /\ Real(host)
  /\ \/ "collector" \in host.up
     \/ "backend" \in host.up /\ host.web = "live"
  /\ host' = [host EXCEPT !.volume = "newer", !.unsaved = @ \cup {host.by}]

Served(h) ==
  \/ h.web = "archive"
  \/ h.web = "live" /\ {"db", "backend"} \subseteq h.up
=============================================================================
