----------------------------- MODULE ArchiveMode -----------------------------
(***************************************************************************)
(* The mode controller (ops/pongdang-mode): archive replaces the live      *)
(* stack by a saved website and may delete the database volume, resume     *)
(* restores the volume from the verified backup and starts the live stack. *)
(*                                                                         *)
(* Each is a list of commands any of which may fail; then the controller   *)
(* goes over to another list.  It may also be killed at any command, and   *)
(* the operator then gives the next one.  Refusals that change nothing     *)
(* (a backup that does not match its record, containers of other projects, *)
(* missing images) are steps that are not taken.                           *)
(***************************************************************************)
EXTENDS LiveHost

VARIABLE
  mode   \* the controller: the list it works on and what is left of it, what
         \* it found when it began, and how many commands have failed

Idle == [list |-> None, left |-> <<>>, already |-> FALSE, kept |-> FALSE,
         remove |-> FALSE, served |-> FALSE, failures |-> 0]

----------------------------------------------------------------------------
(* Lists of commands.                                                      *)

ArchiveList(kept, remove) ==
  <<"mark", "watchdogs_off", "retire", "remove_all", "static_up", "ready_archive">>
    \o (IF kept THEN <<"mark_kept">> ELSE <<"mark_removed">>)
    \o (IF remove /\ kept THEN <<"volume_rm", "mark_removed">> ELSE <<>>)

\* Failures from the removal of the containers to the readiness of the
\* website are caught.
Activation == {"remove_all", "static_up", "ready_archive"}

LiveAgain ==
  <<"remove_web", "db_up", "backend_up", "web_up", "ready_live", "unretire", "mark">>

RestoreList == <<"mark_restoring", "db_up", "pg_restore", "mark_complete">>

\* Mutant: the record of live operation is written when all has succeeded.
RecordedAtTheEnd ==
  <<"backend_up", "remove_web", "web_up", "ready_live", "collector_up",
    "unretire", "mark_live", "unmark", "watchdogs_on">>

GoLive ==
  <<"backend_up", "remove_web", "mark_live", "web_up", "ready_live",
    "collector_up", "unretire", "unmark", "watchdogs_on">>

ResumeList(kept) ==
  <<"watchdogs_off", "mark">> \o (IF kept THEN <<"db_up">> ELSE RestoreList) \o GoLive

ReturnToArchive ==
  <<"watchdogs_off", "retire", "remove_all", "static_up", "ready_archive", "mark">>

----------------------------------------------------------------------------
(* The operator's commands.                                                *)

\* With the archive in place the website must answer as the archive, else a
\* preview of it.  The record of live operation forbids deletion.
Archive(remove) ==
  LET already == host.marker # NoMarker
      kept == host.volume # "absent"
  IN  /\ remove => ~host.lastLive
      /\ already => host.web = "archive"
      /\ mode' = [list |-> "archive", left |-> ArchiveList(kept, remove),
                  already |-> already, kept |-> kept, remove |-> remove,
                  served |-> Served(host), failures |-> 0]

\* Mutant: a restore that failed is not remembered.
TrustedUnlessRemoved(m) == m.removed => m.restore = "complete"

\* A volume counts when it was left by archive or restored completely.
VolumeTrusted(m) ==
  /\ m.restore # "failed"
  /\ m.removed => m.restore = "complete"

Resume ==
  LET kept == host.volume # "absent"
  IN  /\ host.marker # NoMarker
      /\ host.marker.restore # "restoring"
      /\ kept => VolumeTrusted(host.marker)
      /\ mode' = [list |-> "resume", left |-> ResumeList(kept), already |-> FALSE,
                  kept |-> kept, remove |-> FALSE, served |-> Served(host),
                  failures |-> 0]

\* External: a new archive generation, with writes stopped, its backup
\* verified and the record of live operation of the old one put aside.
Prepare ==
  /\ host.marker = NoMarker /\ Real(host) /\ "db" \in host.up
  /\ host' = [host EXCEPT !.up = {"db"}, !.volume = "saved", !.unsaved = {},
                          !.lastLive = FALSE, !.by = None]

----------------------------------------------------------------------------
(* The controller at work.                                                 *)

Command == Head(mode.left)

Who == CASE mode.list = "resume" -> "resumed"
         [] mode.list = "rollback" -> "rolledback"
         [] OTHER -> None

\* Goes on with a list, or ends where there is none.
GoOn(list, left) ==
  mode' = IF left = <<>> THEN Idle
          ELSE [mode EXCEPT !.list = list, !.left = left]

Complete ==
  /\ Completes(Command, host)
  /\ host' = Completed(Command, host, Who)
  /\ GoOn(mode.list, Tail(mode.left))

\* Mutant: an activation that fails is only recorded.
OnlyRecorded == <<"ended", IF Command \in Activation THEN <<"mark_kept">> ELSE <<>>>>

\* The database is not created anew for a website that was archived already.
ArchiveFails ==
  IF Command \notin Activation THEN <<"archive", <<>>>>
  ELSE IF mode.already \/ ~mode.kept
       THEN <<"ended", IF mode.kept THEN <<"mark_kept">> ELSE <<"mark_removed">>>>
       ELSE <<"rollback", LiveAgain>>

\* The timers and the marker come before what is caught.
ResumeFails ==
  CASE mode.left = ResumeList(mode.kept)       -> <<"resume", <<>>>>
    [] mode.left = Tail(ResumeList(mode.kept)) -> <<"resume", <<>>>>
    [] Command = "pg_restore"  -> <<"return", <<"mark_failed">> \o ReturnToArchive>>
    [] OTHER                   -> <<"return", ReturnToArchive>>

ReturnFails ==
  IF Command = "mark_failed" THEN <<"return", ReturnToArchive>>
  ELSE <<"ended", <<"mark">>>>

Fail ==
  /\ host' \in Interrupted(Command, host, Who)
  /\ LET then == CASE mode.list = "archive"  -> ArchiveFails
                   [] mode.list = "rollback" -> <<"ended", <<"mark">>>>
                   [] mode.list = "resume"   -> ResumeFails
                   [] mode.list = "return"   -> ReturnFails
                   [] OTHER                  -> <<"ended", <<>>>>
     IN  mode' = IF then[2] = <<>> THEN Idle
                 ELSE [mode EXCEPT !.list = then[1], !.left = then[2],
                                   !.failures = IF @ < 2 THEN @ + 1 ELSE @]

Killed ==
  /\ host' \in Interrupted(Command, host, Who)
  /\ mode' = Idle

ModeInit == mode = Idle
=============================================================================
