------------------------ MODULE NotificationDelivery ------------------------
(***************************************************************************)
(* Notices of one subscription (notifications/service.py, delivery.py).    *)
(* A pass of the notification job first evaluates the condition, which may *)
(* put a notice into the outbox, and then works through the outbox rows    *)
(* that are due: the intent to send is committed before the mail provider  *)
(* is called, so that a pass that dies repeats the same mail under the     *)
(* same idempotency key.  Users edit and cancel the subscription and       *)
(* collectors import and correct observations meanwhile.                   *)
(*                                                                         *)
(* An advisory lock per subscription keeps all of them apart; a pass holds *)
(* it as a session lock over the call of the provider, and goes on without *)
(* it when only that session is lost.  Subscriptions do not interact, so   *)
(* one is enough.  The clock counts a unit that is longer than any pause   *)
(* between two attempts; each pass works with the instant it began at.     *)
(***************************************************************************)
EXTENDS Integers, FiniteSets, FiniteSetsExt

CONSTANTS
  Senders,        \* processes that may run the notification job
  Window,         \* delivery.py: no repetition 23 hours after the first attempt
  KeyMemory,      \* the provider remembers an idempotency key for 24 hours
  PassLength,     \* a pass calls the provider at most this long after its start
  Pause,          \* from one attempt to the next
  MaxAttempts,    \* a failure of attempt 8 is final
  Configured,     \* whether the provider is configured, as any pass may find it
  Validities,     \* how long an observation may be valid
  MaxTime,        \* bound: the clock stops here
  MaxReadings,    \* bound on the observations
  MaxNotices,     \* bound on the notices
  MaxRevision,    \* bound on the edits of the subscription
  MaxFaults       \* bound on crashes and on lock sessions a pass loses

ASSUME NotificationAssumption ==
  /\ {KeyMemory, PassLength, Pause, MaxAttempts, MaxTime, MaxReadings,
      MaxNotices, MaxRevision, MaxFaults} \subseteq Nat
  /\ Window \in Nat \ {0}
  /\ Configured \subseteq BOOLEAN
  /\ Validities \subseteq Nat \ {0}

\* A key is repeated for less than Window plus a pass: 23 hours and some
\* minutes, while the provider remembers it for 24 hours.
ASSUME WindowAssumption == Window + PassLength <= KeyMemory

\* Observations in the order of their instants, and the rows of
\* notification_event and notification_outbox.
Readings == 1 .. MaxReadings
Notices  == 1 .. MaxNotices

Open == {"pending", "retry", "sending", "not_configured"}
None == -1

VARIABLES
  clock,
  subscription,  \* notification_subscription
  reading,       \* observations of the station, with superseded ones
  event,         \* notification_event
  outbox,        \* notification_outbox and the numbers of its attempts
  sender,        \* what each process is doing
  mails,         \* external: mails the provider has sent for a notice
  keyUntil,      \* external: until when it remembers the notice's key
  faults,
  lost           \* a pass has gone on without its lock

vars == <<clock, subscription, reading, event, outbox, sender, mails, keyUntil,
          faults, lost>>

NoReading == [state |-> "none", warm |-> FALSE, fetched |-> None, until |-> None]
NoEvent   == [state |-> "none", revision |-> 0, reading |-> 0]
NoRow     == [state |-> "none", attempts |-> {}, first |-> None, next |-> None]
Idle      == [step |-> "idle", now |-> None, todo |-> {}, notice |-> 0,
              plan |-> "none", attempt |-> 0, locked |-> FALSE]

\* A session holds the lock of the subscription.
SubscriptionLocked == \E s \in Senders : sender[s].locked

-----------------------------------------------------------------------------
(* The condition, at the instant a pass began.                             *)

\* The observation that decides: the latest one known then.
Observation(now) ==
  Max({0} \cup {r \in Readings : reading[r].state = "current" /\ reading[r].fetched <= now})

\* evaluate_condition: every reason against it (no observation, missing,
\* conflicting or cold water) makes the condition unmet.
ConditionMet(now) ==
  LET r == Observation(now)
  IN r # 0 /\ reading[r].until > now /\ reading[r].warm

\* The evidence of a notice still holds (_deliver_due, `usable').
Usable(n, now) ==
  /\ subscription.active
  /\ event[n].revision = subscription.revision
  /\ event[n].state = "active"
  /\ reading[event[n].reading].until > now
  /\ reading[event[n].reading].state # "superseded"
  /\ ConditionMet(now)

-----------------------------------------------------------------------------
Init ==
  /\ clock = 0
  /\ subscription = [active |-> FALSE, revision |-> 0, channel |-> "email"]
  /\ reading = [r \in Readings |-> NoReading]
  /\ event = [n \in Notices |-> NoEvent]
  /\ outbox = [n \in Notices |-> NoRow]
  /\ sender = [s \in Senders |-> Idle]
  /\ mails = [n \in Notices |-> 0]
  /\ keyUntil = [n \in Notices |-> 0]
  /\ faults = 0
  /\ lost = FALSE

Tick ==
  /\ clock < MaxTime
  /\ \A s \in Senders : sender[s].step # "idle" => clock < sender[s].now + PassLength
  /\ clock' = clock + 1
  /\ UNCHANGED <<subscription, reading, event, outbox, sender, mails, keyUntil, faults, lost>>

\* A collector stores the next observation or, as a correction, replaces the
\* last one.  It takes no lock of a subscription.
Import(r, warm, validity, correction) ==
  /\ reading[r].state = "none"
  /\ r > 1 => reading[r - 1].state # "none"
  /\ correction => r > 1 /\ reading[r - 1].state = "current"
  /\ reading' = [q \in Readings |->
       IF q = r THEN [state |-> "current", warm |-> warm, fetched |-> clock,
                      until |-> clock + validity]
       ELSE IF correction /\ q = r - 1 THEN [reading[q] EXCEPT !.state = "superseded"]
       ELSE reading[q]]
  /\ UNCHANGED <<clock, subscription, event, outbox, sender, mails, keyUntil, faults, lost>>

-----------------------------------------------------------------------------
(* The user, through the API.                                              *)

\* A row that is closed without an answer: if it was ever attempted its fate
\* is unknown.
Unanswered(row) == IF row.first = None THEN "cancelled" ELSE "delivery_unknown"

ClosedByUser(row) ==
  IF row.state \in Open THEN [row EXCEPT !.state = Unanswered(row)] ELSE row

\* cancel_pending
CancelPending ==
  /\ outbox' = [n \in Notices |-> ClosedByUser(outbox[n])]
  /\ event' = [n \in Notices |->
       IF event[n].state = "active" THEN [event[n] EXCEPT !.state = "cancelled"] ELSE event[n]]

\* save_subscription without an identifier.
Create(active, channel) ==
  /\ subscription.revision = 0
  /\ subscription' = [active |-> active, revision |-> 1, channel |-> channel]
  /\ UNCHANGED <<clock, reading, event, outbox, sender, mails, keyUntil, faults, lost>>

\* save_subscription for an existing subscription with other contents.
Edit(active, channel) ==
  /\ ~SubscriptionLocked
  /\ subscription.revision \in 1 .. MaxRevision - 1
  /\ CancelPending
  /\ subscription' = [active |-> active, revision |-> subscription.revision + 1,
                      channel |-> channel]
  /\ UNCHANGED <<clock, reading, sender, mails, keyUntil, faults, lost>>

\* cancel_subscription; cancelling again changes nothing.
Cancel ==
  /\ ~SubscriptionLocked
  /\ subscription.active
  /\ subscription.revision < MaxRevision
  /\ CancelPending
  /\ subscription' = [subscription EXCEPT !.active = FALSE, !.revision = @ + 1]
  /\ UNCHANGED <<clock, reading, sender, mails, keyUntil, faults, lost>>

-----------------------------------------------------------------------------
(* evaluate_subscriptions.                                                 *)

StartPass(s) ==
  /\ sender[s].step = "idle"
  /\ clock < MaxTime \/ \E n \in Notices : outbox[n].state \in Open
  /\ sender' = [sender EXCEPT ![s] = [Idle EXCEPT !.step = "evaluate", !.now = clock]]
  /\ UNCHANGED <<clock, subscription, reading, event, outbox, mails, keyUntil, faults, lost>>

\* A correction ends the notices that rest on the former observation.
Corrected(n) ==
  event[n].state = "active" /\ reading[event[n].reading].state = "superseded"

\* A notice nobody has tried to send ends when its condition does.
Ended(n, now) ==
  /\ event[n].state = "active"
  /\ outbox[n].first = None
  /\ outbox[n].state \in {"pending", "retry", "not_configured", "cancelled"}
  /\ \/ ~ConditionMet(now)
     \/ outbox[n].state = "cancelled"
     \/ reading[event[n].reading].until <= now

Reviewed(now) ==
  [n \in Notices |->
     IF Corrected(n) THEN [event[n] EXCEPT !.state = "superseded"]
     ELSE IF Ended(n, now) THEN [event[n] EXCEPT !.state = "cancelled"]
     ELSE event[n]]

\* Mutant: only an answer counts, an attempt without one is forgotten.
DispatchedIfAnswered(n) ==
  /\ event[n].state # "none"
  /\ event[n].revision = subscription.revision
  /\ outbox[n].state \in {"accepted", "available_in_app", "delivery_unknown"}

\* The user has been told, or may have been, under this revision.
Dispatched(n) ==
  /\ event[n].state # "none"
  /\ event[n].revision = subscription.revision
  /\ \/ outbox[n].first # None
     \/ outbox[n].state \in {"accepted", "available_in_app", "delivery_unknown"}

NewRow(now) ==
  [state |-> IF subscription.channel = "in_app" THEN "available_in_app" ELSE "pending",
   attempts |-> {}, first |-> None, next |-> now]

\* Bound: the notices that are left.
Unused == {n \in Notices : event[n].state = "none"}

-----------------------------------------------------------------------------
(* deliver_due.                                                            *)

Due(row, now) == row.state \in Open /\ row.next <= now

\* The pass goes on with the rows that are left and ends with the last one.
Continued(now, rest) ==
  IF rest = {} THEN Idle ELSE [Idle EXCEPT !.step = "deliver", !.now = now, !.todo = rest]

\* The transaction for the subscription, and the rows that are due after it.
\* The index on active events lets at most one notice of a revision in.
Evaluate(s) ==
  LET now  == sender[s].now
      told == \E n \in Notices : Dispatched(n)
      busy == \E n \in Notices : /\ Reviewed(now)[n].state = "active"
                                 /\ event[n].revision = subscription.revision
  IN /\ sender[s].step = "evaluate"
     /\ ~SubscriptionLocked
     /\ IF ~subscription.active THEN UNCHANGED <<event, outbox>>
        ELSE IF ~ConditionMet(now) \/ told \/ busy \/ Unused = {}
        THEN event' = Reviewed(now) /\ UNCHANGED outbox
        ELSE LET n == Min(Unused) IN
               /\ event' = [Reviewed(now) EXCEPT ![n] =
                    [state |-> "active", revision |-> subscription.revision,
                     reading |-> Observation(now)]]
               /\ outbox' = [outbox EXCEPT ![n] = NewRow(now)]
     /\ sender' = [sender EXCEPT ![s] = Continued(clock, {n \in Notices : Due(outbox'[n], clock)})]
     /\ UNCHANGED <<clock, subscription, reading, mails, keyUntil, faults, lost>>

\* The lock is taken: the row waits for a later pass.
Skip(s, n) ==
  /\ sender[s].step = "deliver"
  /\ n \in sender[s].todo
  /\ SubscriptionLocked
  /\ sender' = [sender EXCEPT ![s] = Continued(@.now, @.todo \ {n})]
  /\ UNCHANGED <<clock, subscription, reading, event, outbox, mails, keyUntil, faults, lost>>

\* Mutant: the row is retried as long as its evidence holds.
PlanWithoutWindow(n, now, configured) ==
  IF ~Usable(n, now) THEN Unanswered(outbox[n])
  ELSE IF configured THEN "send" ELSE "not_configured"

\* What the row read under the lock asks for.
Plan(n, now, configured) ==
  CASE ~Usable(n, now)                       -> Unanswered(outbox[n])
    [] Usable(n, now)
       /\ outbox[n].first # None
       /\ now >= outbox[n].first + Window    -> "delivery_unknown"
    [] OTHER -> IF configured THEN "send" ELSE "not_configured"

\* The lock is free: take it and read the row again.
Read(s, n) ==
  LET now == sender[s].now
      rest == sender[s].todo \ {n}
  IN /\ sender[s].step = "deliver"
     /\ n \in sender[s].todo
     /\ ~SubscriptionLocked
     /\ IF ~Due(outbox[n], now)
        THEN sender' = [sender EXCEPT ![s] = Continued(now, rest)]
        ELSE \E configured \in Configured :
               sender' = [sender EXCEPT ![s] =
                 [step |-> "read", now |-> now, todo |-> rest, notice |-> n,
                  plan |-> Plan(n, now, configured),
                  attempt |-> Cardinality(outbox[n].attempts) + 1, locked |-> TRUE]]
     /\ UNCHANGED <<clock, subscription, reading, event, outbox, mails, keyUntil, faults, lost>>

\* A pass releases the lock after a row and takes the next one; without the
\* session the release fails and the pass ends.
Released(w) == IF w.locked THEN Continued(w.now, w.todo) ELSE Idle

\* Nothing is sent; _update looks at the key only.
Close(s) ==
  LET w == sender[s]
      row == outbox[w.notice]
  IN /\ w.step = "read"
     /\ w.plan # "send"
     /\ outbox' = [outbox EXCEPT ![w.notice] =
          [state |-> w.plan, attempts |-> row.attempts, first |-> row.first,
           next |-> IF w.plan = "not_configured" THEN w.now + Pause ELSE row.next]]
     /\ sender' = [sender EXCEPT ![s] = Released(w)]
     /\ UNCHANGED <<clock, subscription, reading, event, mails, keyUntil, faults, lost>>

\* Mutant: the lock is given back before the slow call.
SendingUnlocked(w) == [w EXCEPT !.step = "sending", !.locked = FALSE]

Sending(w) == [w EXCEPT !.step = "sending"]

\* The intent is committed before the provider is called.  An attempt number
\* that exists belongs to another pass: the transaction fails and the pass ends.
Intend(s) ==
  LET w == sender[s]
      row == outbox[w.notice]
  IN /\ w.step = "read"
     /\ w.plan = "send"
     /\ IF w.attempt \in row.attempts
        THEN UNCHANGED outbox /\ sender' = [sender EXCEPT ![s] = Idle]
        ELSE /\ outbox' = [outbox EXCEPT ![w.notice] =
                  [state |-> "sending", attempts |-> row.attempts \cup {w.attempt},
                   first |-> IF row.first = None THEN w.now ELSE row.first, next |-> w.now + Pause]]
             /\ sender' = [sender EXCEPT ![s] = Sending(w)]
     /\ UNCHANGED <<clock, subscription, reading, event, mails, keyUntil, faults, lost>>

\* ResendProvider.send.  The provider may take the mail and the answer be
\* lost; it suppresses a repetition while it remembers the key.
Send(s, taken, answer) ==
  LET w == sender[s]
      fresh == taken /\ clock >= keyUntil[w.notice]
  IN /\ w.step = "sending"
     /\ answer = "accepted" => taken
     /\ answer = "rejected" => ~taken
     /\ mails' = IF fresh THEN [mails EXCEPT ![w.notice] = @ + 1] ELSE mails
     /\ keyUntil' = IF fresh THEN [keyUntil EXCEPT ![w.notice] = clock + KeyMemory] ELSE keyUntil
     /\ sender' = [sender EXCEPT ![s] = [w EXCEPT !.step = "sent", !.plan = answer]]
     /\ UNCHANGED <<clock, subscription, reading, event, outbox, faults, lost>>

\* The state an answer leads to.
Outcome(w) ==
  CASE w.plan = "accepted" -> "accepted"
    [] w.plan = "rejected" -> "failed"
    [] OTHER -> IF w.attempt < MaxAttempts THEN "retry" ELSE "failed"

Record(s) ==
  LET w == sender[s]
      row == outbox[w.notice]
  IN /\ w.step = "sent"
     /\ outbox' = [outbox EXCEPT ![w.notice] =
          [state |-> Outcome(w), attempts |-> row.attempts, first |-> row.first,
           next |-> IF w.plan = "accepted" THEN row.next ELSE w.now + Pause]]
     /\ sender' = [sender EXCEPT ![s] = Released(w)]
     /\ UNCHANGED <<clock, subscription, reading, event, mails, keyUntil, faults, lost>>

\* The process dies; its session lock goes with it.
Crash(s) ==
  /\ sender[s].step # "idle"
  /\ faults < MaxFaults
  /\ faults' = faults + 1
  /\ sender' = [sender EXCEPT ![s] = Idle]
  /\ UNCHANGED <<clock, subscription, reading, event, outbox, mails, keyUntil, lost>>

\* Only the session with the lock breaks; the pass notices when it releases it.
LoseSession(s) ==
  /\ sender[s].locked
  /\ faults < MaxFaults
  /\ faults' = faults + 1
  /\ lost' = TRUE
  /\ sender' = [sender EXCEPT ![s] = [@ EXCEPT !.locked = FALSE]]
  /\ UNCHANGED <<clock, subscription, reading, event, outbox, mails, keyUntil>>

-----------------------------------------------------------------------------
Deliver(s) ==
  \/ \E n \in Notices : Skip(s, n) \/ Read(s, n)
  \/ Close(s)
  \/ Intend(s)
  \/ \E taken \in BOOLEAN, answer \in {"accepted", "rejected", "unclear"} :
       Send(s, taken, answer)
  \/ Record(s)

Work(s) == StartPass(s) \/ Evaluate(s) \/ Deliver(s)

User ==
  \/ Cancel
  \/ \E active \in BOOLEAN, channel \in {"email", "in_app"} :
       Create(active, channel) \/ Edit(active, channel)

Next ==
  \/ Tick
  \/ User
  \/ \E r \in Readings, warm \in BOOLEAN, validity \in Validities, correction \in BOOLEAN :
       Import(r, warm, validity, correction)
  \/ \E s \in Senders : Work(s) \/ Crash(s) \/ LoseSession(s)

Spec == Init /\ [][Next]_vars

-----------------------------------------------------------------------------
(* Properties.                                                             *)

TypeOK ==
  /\ clock \in 0 .. MaxTime
  /\ subscription \in [active : BOOLEAN, revision : Nat, channel : {"email", "in_app"}]
  /\ reading \in [Readings -> [state : {"none", "current", "superseded"}, warm : BOOLEAN,
                               fetched : Int, until : Int]]
  /\ event \in [Notices -> [state : {"none", "active", "cancelled", "superseded"},
                            revision : Nat, reading : Nat]]
  /\ outbox \in [Notices -> [state : Open \cup {"none", "accepted", "failed", "cancelled",
                                     "delivery_unknown", "available_in_app"},
                             attempts : SUBSET Nat, first : Nat \cup {None},
                             next : Nat \cup {None}]]
  /\ mails \in [Notices -> Nat]
  /\ keyUntil \in [Notices -> Nat]
  /\ faults \in Nat
  /\ lost \in BOOLEAN

\* delivery.py:130-213, a retry after a crash, an unclear answer or a lost lock
\* repeats the key: the user never gets one notice twice, whatever sessions
\* are lost, because no pass repeats it after the provider forgot the key.
\* What he reads of a notice is true: cancelled means that no mail was sent,
\* accepted that one was.
AtMostOneMail ==
  \A n \in Notices :
    /\ mails[n] <= 1
    /\ ~lost => /\ outbox[n].state = "cancelled" => mails[n] = 0
                /\ outbox[n].state = "accepted" => mails[n] = 1

Told(n) == mails[n] > 0 \/ outbox[n].state = "available_in_app"

\* service.py:379-450, corrections, cancellations and new evidence make new
\* notices with new keys: the user is told once per revision of the settings.
OneNoticePerRevision ==
  ~lost => \A m, n \in Notices :
                 Told(m) /\ Told(n) /\ event[m].revision = event[n].revision => m = n

\* service.py:150-187, a cancellation or an edit that has returned to
\* the user holds: no mail of the former settings leaves afterwards.
CancellationHolds ==
  [][\A n \in Notices : mails'[n] > mails[n] /\ ~lost =>
       subscription.active /\ event[n].revision = subscription.revision]_vars

=============================================================================
