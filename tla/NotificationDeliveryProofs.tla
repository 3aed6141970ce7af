---------------------- MODULE NotificationDeliveryProofs ----------------------
(***************************************************************************)
(* Proofs about the delivery of notices: one mail at most for a notice,    *)
(* one notice at most for a revision of the subscription, and no mail      *)
(* after a cancellation, for any number of passes, crashes and lost locks. *)
(***************************************************************************)
EXTENDS NotificationDelivery, FiniteSetTheorems, NumberSets

-----------------------------------------------------------------------------
(* The inductive invariant.                                                *)

Working(w) == w.step \in {"read", "sending", "sent"}

SenderRow ==
  [step : {"idle", "evaluate", "deliver", "read", "sending", "sent"},
   now : Nat \cup {None}, todo : SUBSET Notices, notice : Notices \cup {0},
   plan : {"none", "send", "cancelled", "delivery_unknown", "not_configured",
           "accepted", "rejected", "unclear"},
   attempt : Nat, locked : BOOLEAN]

Types == TypeOK /\ sender \in [Senders -> SenderRow]

\* The attempts of a row are numbered without a gap, and the first one is dated.
WithoutGap(row) == \E k \in Nat : row.attempts = 1 .. k /\ (k = 0 <=> row.first = None)

Numbered == \A n \in Notices : WithoutGap(outbox[n]) /\ outbox[n].first <= clock

\* A notice nobody has thought of has no row and no mail.
UnusedEmpty ==
  \A n \in Notices : event[n].state = "none" =>
    outbox[n].state = "none" /\ outbox[n].first = None /\ mails[n] = 0

\* The provider remembers the key of a mail it has sent for KeyMemory after the
\* first attempt.
KeyRemembered ==
  \A n \in Notices :
    /\ mails[n] <= 1
    /\ mails[n] > 0 => outbox[n].first # None /\ keyUntil[n] >= outbox[n].first + KeyMemory
    /\ keyUntil[n] > 0 => mails[n] = 1

\* A pass that is about to send is still in the window of its row, whoever else
\* has tried the same row: its number would be taken.
Pass(w) ==
  /\ w.step # "idle" => w.now \in Nat /\ w.now <= clock /\ clock <= w.now + PassLength
  /\ w.locked => Working(w)
  /\ Working(w) => w.notice \in Notices /\ event[w.notice].state # "none"
  /\ w.step = "read" =>
       /\ w.plan \in {"send", "cancelled", "delivery_unknown", "not_configured"}
       /\ w.attempt # 0 /\ 1 .. w.attempt - 1 \subseteq outbox[w.notice].attempts
       /\ w.plan = "send" /\ w.attempt \notin outbox[w.notice].attempts =>
            outbox[w.notice].first = None \/ w.now < outbox[w.notice].first + Window
  /\ w.step = "sending" =>
       outbox[w.notice].first # None /\ w.now < outbox[w.notice].first + Window
  /\ w.step = "sent" =>
       /\ w.plan \in {"accepted", "rejected", "unclear"}
       /\ w.plan = "accepted" => mails[w.notice] = 1

Passes == \A s \in Senders : Pass(sender[s])

OneLock == \A s, t \in Senders : sender[s].locked /\ sender[t].locked => s = t

ActiveIsSaved == subscription.active => subscription.revision # 0

\* While no lock is lost, a pass that works on a row holds the lock, and what
\* it is going to do is what the subscription and the row ask for.
Licensed(w) ==
  /\ Working(w) => w.locked
  /\ w.step \in {"read", "sending"} /\ w.plan = "send" =>
       subscription.active /\ event[w.notice].revision = subscription.revision
  /\ w.step = "read" /\ w.plan = "send" => event[w.notice].state = "active"
  /\ w.step = "read" /\ w.plan = "cancelled" => outbox[w.notice].first = None
  /\ w.step = "sending" => w.plan = "send"

Truthful ==
  \A n \in Notices : /\ outbox[n].state = "cancelled" => outbox[n].first = None
                     /\ outbox[n].state = "accepted" => mails[n] = 1

\* A notice that may still be told, or may have been.
Live(n) ==
  \/ event[n].state = "active"
  \/ outbox[n].first # None
  \/ outbox[n].state = "available_in_app"

OneLive ==
  \A m, n \in Notices :
    Live(m) /\ Live(n) /\ event[m].revision = event[n].revision => m = n

LockKept == (\A s \in Senders : Licensed(sender[s])) /\ Truthful /\ OneLive

IInv ==
  /\ Types /\ Numbered /\ UnusedEmpty /\ KeyRemembered /\ Passes /\ OneLock /\ ActiveIsSaved
  /\ ~lost => LockKept

-----------------------------------------------------------------------------
(* Steps.                                                                  *)

LEMMA ObservationType ==
  ASSUME NEW now
  PROVE  Observation(now) \in Nat
<1> DEFINE S == {0} \cup {r \in Readings : reading[r].state = "current" /\ reading[r].fetched <= now}
<1>1. MaxReadings \in Nat
  BY NotificationAssumption
<1>2. S \in SUBSET (0 .. MaxReadings) /\ S # {}
  BY <1>1 DEF Readings
<1>3. Max(S) \in S
  BY <1>1, <1>2, MaxOfNaturals
<1> QED
  BY <1>2, <1>3 DEF Observation

LEMMA InitStep == Init => IInv
<1> SUFFICES ASSUME Init PROVE IInv
  OBVIOUS
<1>1. Types
  <2>1. sender \in [Senders -> SenderRow]
    BY DEF Init, SenderRow, Idle, None
  <2>2. NoRow \in [state : Open \cup {"none", "accepted", "failed", "cancelled",
                                     "delivery_unknown", "available_in_app"},
                  attempts : SUBSET Nat, first : Nat \cup {None}, next : Nat \cup {None}]
    BY DEF NoRow
  <2>3. clock \in 0 .. MaxTime /\ faults \in Nat
    <3>1. MaxTime \in Nat
      BY NotificationAssumption
    <3> QED
      BY <3>1 DEF Init
  <2>8. lost \in BOOLEAN
    BY DEF Init
  <2>4. subscription \in [active : BOOLEAN, revision : Nat, channel : {"email", "in_app"}]
    BY DEF Init
  <2>5. /\ reading \in [Readings -> [state : {"none", "current", "superseded"}, warm : BOOLEAN,
                                     fetched : Int, until : Int]]
        /\ event \in [Notices -> [state : {"none", "active", "cancelled", "superseded"},
                                  revision : Nat, reading : Nat]]
    BY DEF Init, NoReading, NoEvent, None
  <2>6. mails \in [Notices -> Nat] /\ keyUntil \in [Notices -> Nat]
    BY DEF Init
  <2>7. outbox \in [Notices -> [state : Open \cup {"none", "accepted", "failed", "cancelled",
                                     "delivery_unknown", "available_in_app"},
                  attempts : SUBSET Nat, first : Nat \cup {None}, next : Nat \cup {None}]]
    BY <2>2 DEF Init
  <2> QED
    BY <2>1, <2>3, <2>4, <2>5, <2>6, <2>7, <2>8 DEF Types, TypeOK
<1>2. Numbered
  <2>1. 0 \in Nat /\ {} = 1 .. 0
    OBVIOUS
  <2>2. \A n \in Notices : outbox[n].attempts = {} /\ outbox[n].first = None /\ clock = 0
    BY DEF Init, NoRow
  <2>3. \A n \in Notices : outbox[n].attempts = 1 .. 0 /\ (0 = 0 <=> outbox[n].first = None)
    BY <2>1, <2>2
  <2>4. \A n \in Notices : WithoutGap(outbox[n])
    BY <2>1, <2>3 DEF WithoutGap
  <2> QED
    BY <2>2, <2>4 DEF Numbered, None
<1>3. UnusedEmpty /\ KeyRemembered /\ Passes /\ OneLock /\ ActiveIsSaved
  BY DEF Init, UnusedEmpty, KeyRemembered, Passes, Pass, OneLock, ActiveIsSaved, NoRow, NoEvent,
         Idle, Working
<1>4. LockKept
  BY DEF Init, LockKept, Licensed, Truthful, OneLive, Live, NoRow, NoEvent, Idle, Working
<1> QED
  BY <1>1, <1>2, <1>3, <1>4 DEF IInv

\* Everything but the clock, the observations and the bounds on faults.
noticeVars == <<subscription, event, outbox, sender, mails, keyUntil>>

LEMMA TickStep == ASSUME IInv, Tick PROVE IInv'
<1>1. UNCHANGED <<noticeVars, reading, faults, lost>> /\ clock' = clock + 1
  BY DEF Tick, noticeVars
<1>2. clock \in Nat /\ clock' \in 0 .. MaxTime
  BY NotificationAssumption DEF Tick, IInv, Types, TypeOK
<1>3. Types'
  BY <1>1, <1>2 DEF IInv, Types, TypeOK, noticeVars
<1>4. Numbered'
  BY <1>1, <1>2 DEF IInv, Types, TypeOK, Numbered, WithoutGap, noticeVars, None
<1>5. Passes'
  BY <1>1, <1>2, NotificationAssumption DEF Tick, IInv, Types, TypeOK, Passes, Pass, Working, noticeVars
<1> QED
  BY <1>1, <1>3, <1>4, <1>5 DEF IInv, noticeVars, UnusedEmpty, KeyRemembered, OneLock, ActiveIsSaved,
     LockKept, Licensed, Truthful, OneLive, Live, Working

LEMMA ImportStep ==
  ASSUME IInv, NEW r \in Readings, NEW warm \in BOOLEAN, NEW validity \in Validities,
         NEW correction \in BOOLEAN, Import(r, warm, validity, correction)
  PROVE  IInv'
<1>1. UNCHANGED <<noticeVars, clock, faults, lost>>
  BY DEF Import, noticeVars
<1>2. reading' \in [Readings -> [state : {"none", "current", "superseded"}, warm : BOOLEAN,
                               fetched : Int, until : Int]]
  <2>1. /\ clock \in Int /\ clock + validity \in Int
        /\ \A q \in Readings : reading[q] \in [state : {"none", "current", "superseded"},
                                    warm : BOOLEAN, fetched : Int, until : Int]
    BY NotificationAssumption DEF IInv, Types, TypeOK
  <2> QED
    BY <2>1 DEF Import
<1>3. Types'
  BY <1>1, <1>2 DEF IInv, Types, TypeOK, noticeVars
<1> QED
  BY <1>1, <1>3 DEF IInv, noticeVars, Numbered, WithoutGap, UnusedEmpty, KeyRemembered, Passes, Pass,
     OneLock, ActiveIsSaved, LockKept, Licensed, Truthful, OneLive, Live, Working

-----------------------------------------------------------------------------
(* The user.                                                               *)

LEMMA CreateStep ==
  ASSUME IInv, NEW active \in BOOLEAN, NEW channel \in {"email", "in_app"}, Create(active, channel)
  PROVE  IInv'
<1>1. /\ UNCHANGED <<clock, reading, event, outbox, sender, mails, keyUntil, faults, lost>>
      /\ subscription' = [active |-> active, revision |-> 1, channel |-> channel]
      /\ ~subscription.active
  BY DEF Create, IInv, ActiveIsSaved
<1>2. Types'
  BY <1>1 DEF IInv, Types, TypeOK
<1>3. ASSUME ~lost PROVE LockKept'
  BY <1>1, <1>3 DEF IInv, LockKept, Licensed, Truthful, OneLive, Live, Working
<1> QED
  BY <1>1, <1>2, <1>3 DEF IInv, Numbered, WithoutGap, UnusedEmpty, KeyRemembered, Passes, Pass,
     OneLock, ActiveIsSaved, Working

\* cancel_pending closes rows and ends events, nothing more.
LEMMA CancelPendingFacts ==
  ASSUME IInv, CancelPending
  PROVE  /\ outbox' \in [Notices -> [state : Open \cup {"none", "accepted", "failed", "cancelled",
                                     "delivery_unknown", "available_in_app"},
                             attempts : SUBSET Nat, first : Nat \cup {None},
                             next : Nat \cup {None}]]
         /\ event' \in [Notices -> [state : {"none", "active", "cancelled", "superseded"},
                            revision : Nat, reading : Nat]]
         /\ \A n \in Notices :
              /\ outbox'[n].attempts = outbox[n].attempts /\ outbox'[n].first = outbox[n].first
              /\ \/ outbox'[n].state = outbox[n].state
                 \/ outbox'[n].state = "cancelled" /\ outbox[n].first = None
                 \/ outbox'[n].state = "delivery_unknown" /\ outbox[n].state \in Open
              /\ outbox[n].state = "none" => outbox'[n].state = "none"
              /\ event'[n].revision = event[n].revision
              /\ event'[n].state = "none" <=> event[n].state = "none"
              /\ event'[n].state # "active"
<1> SUFFICES ASSUME NEW n \in Notices
             PROVE  /\ outbox'[n] \in [state : Open \cup {"none", "accepted", "failed", "cancelled",
                                     "delivery_unknown", "available_in_app"},
                             attempts : SUBSET Nat, first : Nat \cup {None},
                             next : Nat \cup {None}]
                    /\ event'[n] \in [state : {"none", "active", "cancelled", "superseded"},
                            revision : Nat, reading : Nat]
                    /\ outbox'[n].attempts = outbox[n].attempts /\ outbox'[n].first = outbox[n].first
                    /\ \/ outbox'[n].state = outbox[n].state
                       \/ outbox'[n].state = "cancelled" /\ outbox[n].first = None
                       \/ outbox'[n].state = "delivery_unknown" /\ outbox[n].state \in Open
                    /\ outbox[n].state = "none" => outbox'[n].state = "none"
                    /\ event'[n].revision = event[n].revision
                    /\ event'[n].state = "none" <=> event[n].state = "none"
                    /\ event'[n].state # "active"
  BY DEF CancelPending
<1>1. outbox'[n] = ClosedByUser(outbox[n])
  BY DEF CancelPending
<1>2. event'[n] = IF event[n].state = "active" THEN [event[n] EXCEPT !.state = "cancelled"]
                  ELSE event[n]
  BY DEF CancelPending
<1> QED
  BY <1>1, <1>2 DEF IInv, Types, TypeOK, ClosedByUser, Unanswered, Open

\* Neither an edit nor a cancellation comes between a pass and its lock.
LEMMA CancelPendingStep ==
  ASSUME IInv, CancelPending, ~SubscriptionLocked,
         UNCHANGED <<clock, reading, sender, mails, keyUntil, faults, lost>>,
         subscription' \in [active : BOOLEAN, revision : Nat, channel : {"email", "in_app"}],
         subscription'.revision # 0
  PROVE  IInv'
<1>1. Types'
  BY CancelPendingFacts DEF IInv, Types, TypeOK
<1>2. UnusedEmpty' /\ KeyRemembered'
  BY CancelPendingFacts DEF IInv, UnusedEmpty, KeyRemembered
<1>5. Numbered'
  BY CancelPendingFacts DEF IInv, Numbered, WithoutGap
<1>3. Passes'
  BY CancelPendingFacts DEF IInv, Passes, Pass, Working
<1>4. ASSUME ~lost PROVE LockKept'
  <2>1. \A s \in Senders : ~Working(sender[s])
    BY <1>4 DEF IInv, LockKept, Licensed, SubscriptionLocked
  <2>2. \A s \in Senders : Licensed(sender[s])'
    BY <2>1 DEF Licensed, Working
  <2>3. Truthful'
    BY <1>4, CancelPendingFacts DEF IInv, LockKept, Truthful
  <2>4. OneLive'
    BY <1>4, CancelPendingFacts DEF IInv, LockKept, OneLive, Live
  <2> QED
    BY <2>2, <2>3, <2>4 DEF LockKept
<1> QED
  BY <1>1, <1>2, <1>3, <1>4, <1>5 DEF IInv, OneLock, ActiveIsSaved

LEMMA EditStep ==
  ASSUME IInv, NEW active \in BOOLEAN, NEW channel \in {"email", "in_app"}, Edit(active, channel)
  PROVE  IInv'
  BY CancelPendingStep DEF Edit, IInv, Types, TypeOK

LEMMA CancelStep == ASSUME IInv, Cancel PROVE IInv'
<1>1. subscription' = [subscription EXCEPT !.active = FALSE, !.revision = @ + 1]
  BY DEF Cancel
<1>2. subscription \in [active : BOOLEAN, revision : Nat, channel : {"email", "in_app"}]
  BY DEF IInv, Types, TypeOK
<1>3. subscription.revision + 1 \in Nat /\ subscription.revision + 1 # 0
  BY <1>2
<1>4. /\ subscription' \in [active : BOOLEAN, revision : Nat, channel : {"email", "in_app"}]
      /\ subscription'.revision # 0
  BY <1>1, <1>2, <1>3
<1> QED
  BY <1>4, CancelPendingStep DEF Cancel

-----------------------------------------------------------------------------
(* A pass: what only it itself takes notice of.                            *)

RowType ==
  [state : Open \cup {"none", "accepted", "failed", "cancelled", "delivery_unknown",
                      "available_in_app"},
   attempts : SUBSET Nat, first : Nat \cup {None}, next : Nat \cup {None}]

LEMMA SenderOnly ==
  ASSUME IInv, NEW s \in Senders, NEW w \in SenderRow,
         sender' = [sender EXCEPT ![s] = w],
         UNCHANGED <<clock, subscription, reading, event, outbox, mails, keyUntil>>,
         faults' \in Nat, lost' \in BOOLEAN, lost => lost',
         Pass(w), w.locked => sender[s].locked \/ ~SubscriptionLocked,
         ~lost' => Licensed(w)
  PROVE  IInv'
<1>1. /\ sender'[s] = w /\ \A t \in Senders \ {s} : sender'[t] = sender[t]
      /\ sender' \in [Senders -> SenderRow]
  BY DEF IInv, Types
<1>2. Types'
  BY <1>1 DEF IInv, Types, TypeOK
<1>3. Passes'
  BY <1>1 DEF IInv, Passes, Pass, Working
<1>4. OneLock'
  BY <1>1 DEF IInv, OneLock, SubscriptionLocked
<1>5. ASSUME ~lost' PROVE LockKept'
  <2>1. LockKept
    BY <1>5 DEF IInv
  <2> QED
    BY <1>1, <1>5, <2>1 DEF LockKept, Licensed, Truthful, OneLive, Live, Working
<1> QED
  BY <1>2, <1>3, <1>4, <1>5 DEF IInv, Numbered, WithoutGap, UnusedEmpty, KeyRemembered, ActiveIsSaved

\* A pass between two rows.
LEMMA ContinuedFacts ==
  ASSUME NEW now \in Nat, NEW rest \in SUBSET Notices
  PROVE  LET w == Continued(now, rest) IN
         /\ w \in SenderRow /\ ~w.locked /\ ~Working(w)
         /\ w.step # "idle" => w.now = now
  BY DEF Continued, Idle, SenderRow, Working

LEMMA IdleFacts == Idle \in SenderRow /\ ~Idle.locked /\ ~Working(Idle) /\ Idle.step = "idle"
  BY DEF Idle, SenderRow, Working, None

LEMMA Resting ==
  ASSUME NEW w \in SenderRow, ~w.locked, ~Working(w),
         w.step # "idle" => w.now \in Nat /\ w.now <= clock /\ clock <= w.now + PassLength
  PROVE  Pass(w) /\ Licensed(w)
  BY DEF Pass, Licensed, Working

LEMMA StartPassStep == ASSUME IInv, NEW s \in Senders, StartPass(s) PROVE IInv'
<1> DEFINE w == [Idle EXCEPT !.step = "evaluate", !.now = clock]
<1>1. clock \in Nat /\ PassLength \in Nat
  BY NotificationAssumption DEF IInv, Types, TypeOK
<1>2. w \in SenderRow /\ ~w.locked /\ ~Working(w) /\ w.now = clock
  BY <1>1 DEF Idle, SenderRow, Working
<1>3. Pass(w) /\ Licensed(w)
  <2> HIDE DEF w
  <2> QED
    BY <1>1, <1>2, Resting
<1>4. /\ sender' = [sender EXCEPT ![s] = w]
      /\ UNCHANGED <<clock, subscription, reading, event, outbox, mails, keyUntil, faults, lost>>
  BY DEF StartPass
<1> HIDE DEF w
<1> QED
  BY <1>2, <1>3, <1>4, SenderOnly DEF IInv, Types, TypeOK

LEMMA SkipStep ==
  ASSUME IInv, NEW s \in Senders, NEW n \in Notices, Skip(s, n)
  PROVE  IInv'
<1> DEFINE w == Continued(sender[s].now, sender[s].todo \ {n})
<1>1. sender[s] \in SenderRow /\ Pass(sender[s]) /\ sender[s].step = "deliver"
  BY DEF Skip, IInv, Types, Passes
<1>2. /\ sender[s].now \in Nat /\ sender[s].now <= clock /\ clock <= sender[s].now + PassLength
      /\ sender[s].todo \ {n} \in SUBSET Notices
  BY <1>1 DEF Pass, SenderRow
<1>3. /\ w \in SenderRow /\ ~w.locked /\ ~Working(w)
      /\ w.step # "idle" => w.now = sender[s].now
  BY <1>2, ContinuedFacts
<1>4. Pass(w) /\ Licensed(w)
  <2> HIDE DEF w
  <2> QED
    BY <1>2, <1>3, Resting
<1>5. /\ sender' = [sender EXCEPT ![s] = w]
      /\ UNCHANGED <<clock, subscription, reading, event, outbox, mails, keyUntil, faults, lost>>
  BY DEF Skip
<1> HIDE DEF w
<1> QED
  BY <1>3, <1>4, <1>5, SenderOnly DEF IInv, Types, TypeOK

LEMMA CrashStep == ASSUME IInv, NEW s \in Senders, Crash(s) PROVE IInv'
<1>1. Pass(Idle) /\ Licensed(Idle)
  BY IdleFacts, Resting
<1>2. /\ sender' = [sender EXCEPT ![s] = Idle] /\ faults' = faults + 1
      /\ UNCHANGED <<clock, subscription, reading, event, outbox, mails, keyUntil, lost>>
  BY DEF Crash
<1>3. faults' \in Nat /\ lost' \in BOOLEAN
  BY <1>2 DEF IInv, Types, TypeOK
<1> QED
  BY <1>1, <1>2, <1>3, IdleFacts, SenderOnly

LEMMA LoseSessionStep == ASSUME IInv, NEW s \in Senders, LoseSession(s) PROVE IInv'
<1> DEFINE w == [sender[s] EXCEPT !.locked = FALSE]
<1>1. sender[s] \in SenderRow /\ Pass(sender[s])
  BY DEF IInv, Types, Passes
<1>2. w \in SenderRow /\ ~w.locked /\ Pass(w)
  BY <1>1 DEF SenderRow, Pass, Working
<1>3. /\ sender' = [sender EXCEPT ![s] = w] /\ faults' = faults + 1 /\ lost' = TRUE
      /\ UNCHANGED <<clock, subscription, reading, event, outbox, mails, keyUntil>>
  BY DEF LoseSession
<1>4. faults' \in Nat
  BY <1>3 DEF IInv, Types, TypeOK
<1>5. lost' \in BOOLEAN /\ lost'
  BY <1>3
<1> HIDE DEF w
<1> QED
  BY <1>2, <1>3, <1>4, <1>5, SenderOnly

\* What a pass that reads a row makes of it.
LEMMA PlanFacts ==
  ASSUME NEW n \in Notices, NEW now, NEW configured
  PROVE  LET plan == Plan(n, now, configured) IN
         /\ plan \in {"send", "cancelled", "delivery_unknown", "not_configured"}
         /\ plan = "send" =>
              /\ Usable(n, now)
              /\ outbox[n].first = None \/ ~(now >= outbox[n].first + Window)
         /\ plan = "cancelled" => outbox[n].first = None
  BY DEF Plan, Unanswered

LEMMA ReadStep ==
  ASSUME IInv, NEW s \in Senders, NEW n \in Notices, Read(s, n)
  PROVE  IInv'
<1> DEFINE now == sender[s].now
           rest == sender[s].todo \ {n}
<1>1. sender[s] \in SenderRow /\ Pass(sender[s]) /\ sender[s].step = "deliver"
  BY DEF Read, IInv, Types, Passes
<1>2. now \in Nat /\ now <= clock /\ clock <= now + PassLength /\ rest \in SUBSET Notices
  BY <1>1 DEF Pass, SenderRow
<1>3. /\ ~SubscriptionLocked
      /\ UNCHANGED <<clock, subscription, reading, event, outbox, mails, keyUntil, faults, lost>>
  BY DEF Read
<1>4. faults' \in Nat /\ lost' \in BOOLEAN
  BY <1>3 DEF IInv, Types, TypeOK
<1>5. CASE ~Due(outbox[n], now)
  <2> DEFINE w == Continued(now, rest)
  <2>1. w \in SenderRow /\ ~w.locked /\ ~Working(w) /\ (w.step # "idle" => w.now = now)
    BY <1>2, ContinuedFacts
  <2>2. Pass(w) /\ Licensed(w)
    <3> HIDE DEF w
    <3> QED
      BY <1>2, <2>1, Resting
  <2>3. sender' = [sender EXCEPT ![s] = w]
    BY <1>5 DEF Read
  <2> HIDE DEF w
  <2> QED
    BY <1>3, <1>4, <2>1, <2>2, <2>3, SenderOnly
<1>6. CASE Due(outbox[n], now)
  <2>1. PICK configured \in Configured :
          sender' = [sender EXCEPT ![s] =
            [step |-> "read", now |-> now, todo |-> rest, notice |-> n,
             plan |-> Plan(n, now, configured),
             attempt |-> Cardinality(outbox[n].attempts) + 1, locked |-> TRUE]]
    BY <1>6 DEF Read
  <2> DEFINE w == [step |-> "read", now |-> now, todo |-> rest, notice |-> n,
                   plan |-> Plan(n, now, configured),
                   attempt |-> Cardinality(outbox[n].attempts) + 1, locked |-> TRUE]
  <2>2. PICK k \in Nat : outbox[n].attempts = 1 .. k
    BY DEF IInv, Numbered, WithoutGap
  <2>3. Cardinality(outbox[n].attempts) = k
    BY <2>2, FS_Interval
  <2>4. event[n].state # "none"
    BY <1>6 DEF Due, IInv, UnusedEmpty, Open
  <2>5. outbox[n].first \in Nat \cup {None}
    BY DEF IInv, Types, TypeOK
  <2>6. w \in SenderRow
    BY <1>2, <2>3, PlanFacts DEF SenderRow
  <2>7. Pass(w)
    <3>1. w.plan = "send" => outbox[n].first = None \/ now < outbox[n].first + Window
      BY <1>2, <2>5, PlanFacts, NotificationAssumption
    <3>2. 1 .. w.attempt - 1 \subseteq outbox[n].attempts /\ w.attempt # 0
      BY <2>2, <2>3
    <3> QED
      BY <1>2, <2>4, <3>1, <3>2, PlanFacts DEF Pass, Working
  <2>8. Licensed(w)
    BY PlanFacts DEF Licensed, Working, Usable
  <2> HIDE DEF w
  <2> QED
    BY <1>3, <1>4, <2>1, <2>6, <2>7, <2>8, SenderOnly DEF w
<1> QED
  BY <1>5, <1>6

-----------------------------------------------------------------------------
(* A pass: what it writes about a row.                                     *)

LEMMA ReleasedFacts ==
  ASSUME IInv, NEW s \in Senders, Working(sender[s])
  PROVE  LET w == Released(sender[s]) IN
         /\ w \in SenderRow /\ ~w.locked /\ ~Working(w)
         /\ Pass(w) /\ Licensed(w)
<1> DEFINE w == Released(sender[s])
<1>1. sender[s] \in SenderRow /\ Pass(sender[s]) /\ sender[s].step # "idle"
  BY DEF IInv, Types, Passes, Working
<1>2. /\ sender[s].now \in Nat /\ sender[s].now <= clock /\ clock <= sender[s].now + PassLength
      /\ sender[s].todo \in SUBSET Notices
  BY <1>1 DEF Pass, SenderRow
<1>3. /\ w \in SenderRow /\ ~w.locked /\ ~Working(w)
      /\ w.step # "idle" => w.now = sender[s].now
  BY <1>2, ContinuedFacts, IdleFacts DEF Released
<1> HIDE DEF w
<1>4. Pass(w) /\ Licensed(w)
  BY <1>2, <1>3, Resting
<1> QED
  BY <1>3, <1>4 DEF w

\* The only pass that works while no lock is lost.
LEMMA WorksAlone ==
  ASSUME IInv, ~lost, NEW s \in Senders, Working(sender[s]), NEW t \in Senders, t # s
  PROVE  ~Working(sender[t])
  BY DEF IInv, OneLock, LockKept, Licensed

LEMMA RowWritten ==
  ASSUME IInv, NEW s \in Senders, Working(sender[s]), NEW n \in Notices, sender[s].notice = n,
         NEW row \in RowType, outbox' = [outbox EXCEPT ![n] = row],
         row.attempts = outbox[n].attempts, row.first = outbox[n].first,
         row.state # "available_in_app",
         ~lost => /\ row.state = "cancelled" => row.first = None
                  /\ row.state = "accepted" => mails[n] = 1,
         sender' = [sender EXCEPT ![s] = Released(sender[s])],
         UNCHANGED <<clock, subscription, reading, event, mails, keyUntil, faults, lost>>
  PROVE  IInv'
<1> DEFINE w == Released(sender[s])
<1>1. /\ w \in SenderRow /\ ~w.locked /\ ~Working(w) /\ Pass(w) /\ Licensed(w)
  BY ReleasedFacts
<1>2. /\ sender'[s] = w /\ \A t \in Senders \ {s} : sender'[t] = sender[t]
      /\ sender' \in [Senders -> SenderRow]
  BY <1>1 DEF IInv, Types
<1>3. /\ outbox'[n] = row /\ \A m \in Notices \ {n} : outbox'[m] = outbox[m]
      /\ outbox' \in [Notices -> RowType]
  BY DEF IInv, Types, TypeOK, RowType
<1>4. \A m \in Notices : outbox'[m].attempts = outbox[m].attempts /\ outbox'[m].first = outbox[m].first
  BY <1>3
<1>5. event[n].state # "none"
  BY DEF IInv, Passes, Pass
<1>6. Types'
  BY <1>2, <1>3 DEF IInv, Types, TypeOK, RowType
<1>7. Numbered'
  BY <1>4 DEF IInv, Numbered, WithoutGap
<1>8. UnusedEmpty' /\ KeyRemembered'
  BY <1>3, <1>4, <1>5 DEF IInv, UnusedEmpty, KeyRemembered
<1> HIDE DEF w
<1>9. Passes'
  <2> SUFFICES ASSUME NEW t \in Senders PROVE Pass(sender[t])'
    BY DEF Passes
  <2>1. CASE t = s
    BY <1>1, <1>2, <1>4, <2>1 DEF Pass, Working
  <2>2. CASE t # s
    BY <1>2, <1>4, <2>2 DEF IInv, Passes, Pass, Working
  <2> QED
    BY <2>1, <2>2
<1>10. OneLock' /\ ActiveIsSaved'
  BY <1>1, <1>2 DEF IInv, OneLock, ActiveIsSaved
<1>11. ASSUME ~lost PROVE LockKept'
  <2>1. \A t \in Senders : ~Working(sender'[t])
    BY <1>1, <1>2, <1>11, WorksAlone
  <2>2. \A t \in Senders : Licensed(sender[t])'
    BY <1>1, <1>2, <2>1 DEF Licensed, Working
  <2>3. Truthful' /\ OneLive'
    BY <1>3, <1>4, <1>11 DEF IInv, LockKept, Truthful, OneLive, Live
  <2> QED
    BY <2>2, <2>3 DEF LockKept
<1> QED
  BY <1>6, <1>7, <1>8, <1>9, <1>10, <1>11 DEF IInv

LEMMA CloseStep == ASSUME IInv, NEW s \in Senders, Close(s) PROVE IInv'
<1> DEFINE w == sender[s]
           n == w.notice
           row == [state |-> w.plan, attempts |-> outbox[n].attempts, first |-> outbox[n].first,
                   next |-> IF w.plan = "not_configured" THEN w.now + Pause ELSE outbox[n].next]
<1>1. w \in SenderRow /\ Pass(w) /\ w.step = "read" /\ w.plan # "send"
  BY DEF Close, IInv, Types, Passes
<1>2. /\ Working(w) /\ n \in Notices /\ w.now \in Nat
      /\ w.plan \in {"cancelled", "delivery_unknown", "not_configured"}
  BY <1>1 DEF Pass, Working
<1>3. outbox[n] \in RowType /\ Pause \in Nat
  BY <1>2, NotificationAssumption DEF IInv, Types, TypeOK, RowType
<1>4. row \in RowType
  BY <1>2, <1>3 DEF RowType, Open
<1>5. ~lost /\ row.state = "cancelled" => row.first = None
  BY <1>1 DEF IInv, LockKept, Licensed
<1>6. /\ row.attempts = outbox[n].attempts /\ row.first = outbox[n].first
      /\ row.state \notin {"available_in_app", "accepted"}
  BY <1>2
<1>7. /\ outbox' = [outbox EXCEPT ![n] = row]
      /\ sender' = [sender EXCEPT ![s] = Released(w)]
      /\ UNCHANGED <<clock, subscription, reading, event, mails, keyUntil, faults, lost>>
  BY DEF Close
<1> HIDE DEF row
<1> QED
  BY <1>2, <1>4, <1>5, <1>6, <1>7, RowWritten

LEMMA RecordStep == ASSUME IInv, NEW s \in Senders, Record(s) PROVE IInv'
<1> DEFINE w == sender[s]
           n == w.notice
           row == [state |-> Outcome(w), attempts |-> outbox[n].attempts, first |-> outbox[n].first,
                   next |-> IF w.plan = "accepted" THEN outbox[n].next ELSE w.now + Pause]
<1>1. w \in SenderRow /\ Pass(w) /\ w.step = "sent"
  BY DEF Record, IInv, Types, Passes
<1>2. /\ Working(w) /\ n \in Notices /\ w.now \in Nat
      /\ Outcome(w) \in {"accepted", "failed", "retry"}
      /\ Outcome(w) = "accepted" => mails[n] = 1
  BY <1>1 DEF Pass, Working, Outcome
<1>3. outbox[n] \in RowType /\ Pause \in Nat
  BY <1>2, NotificationAssumption DEF IInv, Types, TypeOK, RowType
<1>4. row \in RowType
  BY <1>2, <1>3 DEF RowType, Open
<1>6. /\ row.attempts = outbox[n].attempts /\ row.first = outbox[n].first
      /\ row.state \notin {"available_in_app", "cancelled"}
      /\ row.state = "accepted" => mails[n] = 1
  BY <1>2
<1>7. /\ outbox' = [outbox EXCEPT ![n] = row]
      /\ sender' = [sender EXCEPT ![s] = Released(w)]
      /\ UNCHANGED <<clock, subscription, reading, event, mails, keyUntil, faults, lost>>
  BY DEF Record
<1> HIDE DEF row
<1> QED
  BY <1>2, <1>4, <1>6, <1>7, RowWritten

\* An attempt that is not taken is the next one.
LEMMA IntendStep == ASSUME IInv, NEW s \in Senders, Intend(s) PROVE IInv'
<1> DEFINE w == sender[s]
           n == w.notice
           first == IF outbox[n].first = None THEN w.now ELSE outbox[n].first
           row == [state |-> "sending", attempts |-> outbox[n].attempts \cup {w.attempt},
                   first |-> first, next |-> w.now + Pause]
           v == [w EXCEPT !.step = "sending"]
<1>1. /\ w \in SenderRow /\ Pass(w) /\ w.step = "read" /\ w.plan = "send"
      /\ UNCHANGED <<clock, subscription, reading, event, mails, keyUntil, faults, lost>>
  BY DEF Intend, IInv, Types, Passes
<1>2. /\ Working(w) /\ n \in Notices /\ w.now \in Nat /\ w.now <= clock
      /\ clock <= w.now + PassLength /\ event[n].state # "none" /\ w.attempt \in Nat \ {0}
      /\ 1 .. w.attempt - 1 \subseteq outbox[n].attempts
      /\ w.attempt \notin outbox[n].attempts =>
           outbox[n].first = None \/ w.now < outbox[n].first + Window
  BY <1>1 DEF Pass, Working, SenderRow
<1>3. CASE w.attempt \in outbox[n].attempts
  <2>1. UNCHANGED outbox /\ sender' = [sender EXCEPT ![s] = Idle]
    BY <1>3 DEF Intend
  <2>2. Pass(Idle) /\ Licensed(Idle) /\ faults' \in Nat /\ lost' \in BOOLEAN
    BY <1>1, IdleFacts, Resting DEF IInv, Types, TypeOK
  <2> QED
    BY <1>1, <2>1, <2>2, IdleFacts, SenderOnly
<1>4. CASE w.attempt \notin outbox[n].attempts
  <2>1. outbox' = [outbox EXCEPT ![n] = row] /\ sender' = [sender EXCEPT ![s] = v]
    BY <1>4 DEF Intend, Sending
  <2>2. outbox[n] \in RowType /\ Pause \in Nat /\ clock \in Nat /\ Window \in Nat \ {0}
    BY <1>2, NotificationAssumption DEF IInv, Types, TypeOK, RowType
  <2>3. PICK k \in Nat : outbox[n].attempts = 1 .. k /\ (k = 0 <=> outbox[n].first = None)
    BY <1>2 DEF IInv, Numbered, WithoutGap
  <2>4. outbox[n].first <= clock
    BY <1>2 DEF IInv, Numbered
  <2>5. w.attempt = k + 1
    <3>1. w.attempt > k
      BY <1>2, <1>4, <2>3
    <3>2. w.attempt - 1 <= k
      <4>1. CASE w.attempt = 1
        BY <4>1, <2>3
      <4>2. CASE w.attempt # 1
        <5>1. w.attempt - 1 \in 1 .. w.attempt - 1
          BY <1>2, <4>2
        <5> QED
          BY <1>2, <2>3, <5>1
      <4> QED
        BY <4>1, <4>2
    <3> QED
      BY <1>2, <2>3, <3>1, <3>2
  <2>6. row.attempts = 1 .. k + 1
    BY <2>3, <2>5
  <2>7. /\ first \in Nat /\ first <= clock /\ w.now < first + Window
        /\ outbox[n].first # None => first = outbox[n].first
    BY <1>2, <1>4, <2>2, <2>4 DEF RowType
  <2>8. row \in RowType /\ row.first = first /\ first # None /\ row.state = "sending"
    BY <1>2, <2>2, <2>7 DEF RowType, Open, None
  <2>9. /\ v \in SenderRow /\ v.step = "sending" /\ v.plan = "send" /\ v.notice = n
        /\ v.now = w.now /\ v.locked = w.locked
    BY <1>1 DEF SenderRow
  <2> HIDE DEF row, v, first
  <2>10. /\ sender'[s] = v /\ \A t \in Senders \ {s} : sender'[t] = sender[t]
         /\ sender' \in [Senders -> SenderRow]
    BY <2>1, <2>9 DEF IInv, Types
  <2>11. /\ outbox'[n] = row /\ \A m \in Notices \ {n} : outbox'[m] = outbox[m]
         /\ outbox' \in [Notices -> RowType]
    BY <1>2, <2>1, <2>8 DEF IInv, Types, TypeOK, RowType
  <2>12. Types'
    BY <1>1, <2>10, <2>11 DEF IInv, Types, TypeOK, RowType
  <2>13. Numbered'
    <3>1. WithoutGap(row)
      <4>1. k + 1 \in Nat /\ (k + 1 = 0 <=> row.first = None)
        BY <2>8
      <4> QED
        BY <2>6, <4>1 DEF WithoutGap
    <3>2. \A m \in Notices : WithoutGap(outbox'[m])
      BY <2>11, <3>1 DEF IInv, Numbered
    <3>3. \A m \in Notices : outbox'[m].first <= clock
      BY <2>7, <2>8, <2>11 DEF IInv, Numbered
    <3> QED
      BY <1>1, <3>2, <3>3 DEF Numbered, WithoutGap
  <2>14. UnusedEmpty'
    BY <1>1, <1>2, <2>11 DEF IInv, UnusedEmpty
  <2>15. KeyRemembered'
    BY <1>1, <2>7, <2>8, <2>11 DEF IInv, KeyRemembered
  <2>16. Passes'
    <3> SUFFICES ASSUME NEW t \in Senders PROVE Pass(sender[t])'
      BY DEF Passes
    <3>1. CASE t = s
      BY <1>1, <1>2, <2>7, <2>8, <2>9, <2>10, <2>11, <3>1 DEF Pass, Working
    <3>2. CASE t # s /\ sender[t].notice = n
      <4> DEFINE u == sender[t]
      <4>1. Pass(u) /\ sender'[t] = u /\ u \in SenderRow
        BY <2>10, <3>2 DEF IInv, Passes, Types
      <4>2. CASE u.step = "read" /\ u.plan = "send" /\ u.attempt \notin row.attempts
        <5>1. outbox[n].first # None
          <6>1. ASSUME k = 0 PROVE FALSE
            <7>1. 1 .. u.attempt - 1 \subseteq {} /\ u.attempt \in Nat \ {0}
              BY <2>3, <3>2, <4>1, <4>2, <6>1 DEF Pass, SenderRow
            <7>2. u.attempt = 1
              <8>1. u.attempt > 1 => 1 \in 1 .. u.attempt - 1
                BY <7>1
              <8> QED
                BY <7>1, <8>1
            <7> QED
              BY <2>6, <4>2, <6>1, <7>2
          <6> QED
            BY <2>3, <6>1
        <5>2. u.attempt \notin outbox[n].attempts
          BY <2>3, <2>6, <4>2
        <5> QED
          BY <1>1, <2>3, <2>6, <2>7, <2>8, <2>11, <3>2, <4>1, <4>2, <5>1, <5>2 DEF Pass, Working
      <4>3. CASE ~(u.step = "read" /\ u.plan = "send" /\ u.attempt \notin row.attempts)
        BY <1>1, <2>3, <2>6, <2>7, <2>8, <2>11, <3>2, <4>1, <4>3 DEF Pass, Working
      <4> QED
        BY <4>2, <4>3
    <3>3. CASE t # s /\ sender[t].notice # n
      BY <1>1, <2>10, <2>11, <3>3 DEF IInv, Passes, Pass, Working
    <3> QED
      BY <3>1, <3>2, <3>3
  <2>17. OneLock' /\ ActiveIsSaved'
    BY <1>1, <2>9, <2>10 DEF IInv, OneLock, ActiveIsSaved
  <2>18. ASSUME ~lost PROVE LockKept'
    <3>1. Licensed(w)
      BY <2>18 DEF IInv, LockKept
    <3>2. \A t \in Senders \ {s} : ~Working(sender[t])
      BY <1>2, <2>18, WorksAlone
    <3>3. \A t \in Senders : Licensed(sender[t])'
      BY <1>1, <1>2, <2>9, <2>10, <3>1, <3>2 DEF Licensed, Working
    <3>4. Truthful'
      BY <1>1, <2>8, <2>11, <2>18 DEF IInv, LockKept, Truthful
    <3>5. \A m \in Notices : Live(m)' => Live(m)
      BY <1>1, <2>11, <3>1 DEF Live, Licensed
    <3>6. OneLive'
      BY <1>1, <2>18, <3>5 DEF IInv, LockKept, OneLive
    <3> QED
      BY <3>3, <3>4, <3>6 DEF LockKept
  <2> QED
    BY <1>1, <2>12, <2>13, <2>14, <2>15, <2>16, <2>17, <2>18 DEF IInv
<1> QED
  BY <1>3, <1>4

\* The provider sends a mail only for a row that has none: as long as the pass
\* may still call it, it remembers the key of an earlier one.
LEMMA MailSent ==
  ASSUME IInv, NEW s \in Senders, NEW taken \in BOOLEAN,
         NEW answer \in {"accepted", "rejected", "unclear"}, Send(s, taken, answer)
  PROVE  LET n == sender[s].notice IN
         /\ n \in Notices /\ event[n].state # "none" /\ outbox[n].first # None
         /\ \A m \in Notices \ {n} : mails'[m] = mails[m] /\ keyUntil'[m] = keyUntil[m]
         /\ mails' \in [Notices -> Nat] /\ keyUntil' \in [Notices -> Nat]
         /\ \/ mails'[n] = mails[n] /\ keyUntil'[n] = keyUntil[n]
            \/ /\ mails[n] = 0 /\ mails'[n] = 1
               /\ keyUntil'[n] >= outbox[n].first + KeyMemory
         /\ taken => mails'[n] = 1
<1> DEFINE w == sender[s]
           n == w.notice
<1>1. w \in SenderRow /\ Pass(w) /\ w.step = "sending"
  BY DEF Send, IInv, Types, Passes
<1>2. /\ n \in Notices /\ event[n].state # "none" /\ outbox[n].first # None
      /\ w.now \in Nat /\ clock <= w.now + PassLength /\ w.now < outbox[n].first + Window
  BY <1>1 DEF Pass, Working
<1>3. /\ outbox[n].first \in Nat /\ outbox[n].first <= clock /\ clock \in Nat
      /\ mails[n] \in Nat /\ keyUntil[n] \in Nat
      /\ mails \in [Notices -> Nat] /\ keyUntil \in [Notices -> Nat]
  BY <1>2 DEF IInv, Types, TypeOK, Numbered
<1>4. /\ Window \in Nat /\ PassLength \in Nat /\ KeyMemory \in Nat
      /\ Window + PassLength <= KeyMemory
  BY NotificationAssumption, WindowAssumption
<1>5. /\ mails[n] <= 1
      /\ mails[n] > 0 => keyUntil[n] >= outbox[n].first + KeyMemory
      /\ keyUntil[n] > 0 => mails[n] = 1
  BY <1>2 DEF IInv, KeyRemembered
<1>6. CASE taken /\ clock >= keyUntil[n]
  <2>1. mails' = [mails EXCEPT ![n] = @ + 1] /\ keyUntil' = [keyUntil EXCEPT ![n] = clock + KeyMemory]
    BY <1>6 DEF Send
  <2>2. mails[n] = 0
    BY <1>2, <1>3, <1>4, <1>5, <1>6
  <2>3. mails[n] + 1 \in Nat /\ clock + KeyMemory \in Nat /\ clock + KeyMemory >= outbox[n].first + KeyMemory
    BY <1>3, <1>4
  <2> QED
    BY <1>2, <1>3, <2>1, <2>2, <2>3
<1>7. CASE ~(taken /\ clock >= keyUntil[n])
  <2>1. mails' = mails /\ keyUntil' = keyUntil
    BY <1>7 DEF Send
  <2>2. taken => mails[n] = 1
    BY <1>3, <1>5, <1>7
  <2> QED
    BY <1>2, <1>3, <2>1, <2>2
<1> QED
  BY <1>6, <1>7

LEMMA SendStep ==
  ASSUME IInv, NEW s \in Senders, NEW taken \in BOOLEAN,
         NEW answer \in {"accepted", "rejected", "unclear"}, Send(s, taken, answer)
  PROVE  IInv'
<1> DEFINE w == sender[s]
           n == w.notice
           v == [w EXCEPT !.step = "sent", !.plan = answer]
<1>1. /\ w \in SenderRow /\ Pass(w) /\ w.step = "sending" /\ (answer = "accepted" => taken)
      /\ sender' = [sender EXCEPT ![s] = v]
      /\ UNCHANGED <<clock, subscription, reading, event, outbox, faults, lost>>
  BY DEF Send, IInv, Types, Passes
<1>2. /\ n \in Notices /\ event[n].state # "none" /\ outbox[n].first # None
      /\ \A m \in Notices \ {n} : mails'[m] = mails[m] /\ keyUntil'[m] = keyUntil[m]
      /\ mails' \in [Notices -> Nat] /\ keyUntil' \in [Notices -> Nat]
      /\ \/ mails'[n] = mails[n] /\ keyUntil'[n] = keyUntil[n]
         \/ /\ mails[n] = 0 /\ mails'[n] = 1
            /\ keyUntil'[n] >= outbox[n].first + KeyMemory
      /\ taken => mails'[n] = 1
  BY MailSent
<1>3. /\ v \in SenderRow /\ v.step = "sent" /\ v.plan = answer /\ v.notice = n
      /\ v.now = w.now /\ v.locked = w.locked
  BY <1>1 DEF SenderRow
<1> HIDE DEF v
<1>4. /\ sender'[s] = v /\ \A t \in Senders \ {s} : sender'[t] = sender[t]
      /\ sender' \in [Senders -> SenderRow]
  BY <1>1, <1>3 DEF IInv, Types
<1>5. Types'
  BY <1>1, <1>2, <1>4 DEF IInv, Types, TypeOK
<1>6. Numbered' /\ UnusedEmpty'
  BY <1>1, <1>2 DEF IInv, Numbered, WithoutGap, UnusedEmpty
<1>7. KeyRemembered'
  BY <1>1, <1>2 DEF IInv, KeyRemembered
<1>8. \A m \in Notices : mails[m] = 1 => mails'[m] = 1
  BY <1>2
<1>9. Passes'
  <2> SUFFICES ASSUME NEW t \in Senders PROVE Pass(sender[t])'
    BY DEF Passes
  <2>1. CASE t = s
    BY <1>1, <1>2, <1>3, <1>4, <2>1 DEF Pass, Working
  <2>2. CASE t # s
    BY <1>1, <1>4, <1>8, <2>2 DEF IInv, Passes, Pass, Working
  <2> QED
    BY <2>1, <2>2
<1>10. OneLock' /\ ActiveIsSaved'
  BY <1>1, <1>3, <1>4 DEF IInv, OneLock, ActiveIsSaved
<1>11. ASSUME ~lost PROVE LockKept'
  <2>1. \A t \in Senders : Licensed(sender[t])'
    BY <1>1, <1>3, <1>4, <1>11 DEF IInv, LockKept, Licensed, Working
  <2>2. Truthful' /\ OneLive'
    BY <1>1, <1>8, <1>11 DEF IInv, LockKept, Truthful, OneLive, Live
  <2> QED
    BY <2>1, <2>2 DEF LockKept
<1> QED
  BY <1>1, <1>5, <1>6, <1>7, <1>9, <1>10, <1>11 DEF IInv

-----------------------------------------------------------------------------
(* A pass: the evaluation.                                                 *)

EventType ==
  [state : {"none", "active", "cancelled", "superseded"}, revision : Nat, reading : Nat]

LEMMA ReviewedFacts ==
  ASSUME IInv, NEW now
  PROVE  /\ Reviewed(now) \in [Notices -> EventType]
         /\ \A n \in Notices :
              /\ Reviewed(now)[n].revision = event[n].revision
              /\ Reviewed(now)[n].state = "none" <=> event[n].state = "none"
              /\ Reviewed(now)[n].state = "active" => event[n].state = "active"
<1> SUFFICES ASSUME NEW n \in Notices
             PROVE  /\ Reviewed(now)[n] \in EventType
                    /\ Reviewed(now)[n].revision = event[n].revision
                    /\ Reviewed(now)[n].state = "none" <=> event[n].state = "none"
                    /\ Reviewed(now)[n].state = "active" => event[n].state = "active"
  BY DEF Reviewed
<1>1. event[n] \in EventType
  BY DEF IInv, Types, TypeOK, EventType
<1>2. \/ Reviewed(now)[n] = event[n]
      \/ event[n].state = "active" /\ Reviewed(now)[n] = [event[n] EXCEPT !.state = "superseded"]
      \/ event[n].state = "active" /\ Reviewed(now)[n] = [event[n] EXCEPT !.state = "cancelled"]
  BY DEF Reviewed, Corrected, Ended
<1> QED
  BY <1>1, <1>2 DEF EventType

\* The pass goes on to the rows that are due, and holds no lock.
LEMMA EvaluatedPass ==
  ASSUME IInv, NEW s \in Senders, Evaluate(s)
  PROVE  /\ sender' \in [Senders -> SenderRow]
         /\ Pass(sender'[s]) /\ ~sender'[s].locked /\ ~Working(sender'[s])
         /\ \A t \in Senders \ {s} : sender'[t] = sender[t]
         /\ UNCHANGED <<clock, subscription, reading, mails, keyUntil, faults, lost>>
         /\ ~SubscriptionLocked
<1> DEFINE rest == {n \in Notices : Due(outbox'[n], clock)}
           w == Continued(clock, rest)
<1>1. /\ sender' = [sender EXCEPT ![s] = w]
      /\ UNCHANGED <<clock, subscription, reading, mails, keyUntil, faults, lost>>
      /\ ~SubscriptionLocked
  BY DEF Evaluate
<1>2. clock \in Nat /\ PassLength \in Nat /\ rest \in SUBSET Notices
  BY NotificationAssumption DEF IInv, Types, TypeOK
<1>3. w \in SenderRow /\ ~w.locked /\ ~Working(w) /\ (w.step # "idle" => w.now = clock)
  BY <1>2, ContinuedFacts
<1> HIDE DEF w
<1>4. Pass(w)
  BY <1>2, <1>3, Resting
<1> QED
  BY <1>1, <1>3, <1>4 DEF IInv, Types

\* No notice is new.
LEMMA ReviewStep ==
  ASSUME IInv, NEW s \in Senders, Evaluate(s), UNCHANGED outbox,
         event' = event \/ \E now : event' = Reviewed(now)
  PROVE  IInv'
<1>1. /\ event' \in [Notices -> EventType]
      /\ \A n \in Notices : /\ event'[n].revision = event[n].revision
                            /\ event'[n].state = "none" <=> event[n].state = "none"
                            /\ event'[n].state = "active" => event[n].state = "active"
  <2>1. CASE event' = event
    BY <2>1 DEF IInv, Types, TypeOK, EventType
  <2>2. CASE \E now : event' = Reviewed(now)
    BY <2>2, ReviewedFacts
  <2> QED
    BY <2>1, <2>2
<1>2. /\ sender' \in [Senders -> SenderRow]
      /\ Pass(sender'[s]) /\ ~sender'[s].locked /\ ~Working(sender'[s])
      /\ \A t \in Senders \ {s} : sender'[t] = sender[t]
      /\ UNCHANGED <<clock, subscription, reading, mails, keyUntil, faults, lost>>
      /\ ~SubscriptionLocked
  BY EvaluatedPass
<1>3. Types'
  BY <1>1, <1>2 DEF IInv, Types, TypeOK, EventType
<1>4. Numbered' /\ UnusedEmpty' /\ KeyRemembered'
  BY <1>1, <1>2 DEF IInv, Numbered, WithoutGap, UnusedEmpty, KeyRemembered
<1>5. Passes'
  <2> SUFFICES ASSUME NEW t \in Senders PROVE Pass(sender[t])'
    BY DEF Passes
  <2>1. CASE t = s
    BY <1>1, <1>2, <2>1 DEF Pass, Working
  <2>2. CASE t # s
    BY <1>1, <1>2, <2>2 DEF IInv, Passes, Pass, Working
  <2> QED
    BY <2>1, <2>2
<1>6. OneLock' /\ ActiveIsSaved'
  BY <1>2 DEF IInv, OneLock, ActiveIsSaved
<1>7. ASSUME ~lost PROVE LockKept'
  <2>1. \A t \in Senders : ~Working(sender'[t])
    BY <1>2, <1>7 DEF IInv, LockKept, Licensed, SubscriptionLocked
  <2>2. \A t \in Senders : Licensed(sender[t])'
    BY <2>1 DEF Licensed, Working
  <2>3. Truthful' /\ OneLive'
    BY <1>1, <1>2, <1>7 DEF IInv, LockKept, Truthful, OneLive, Live
  <2> QED
    BY <2>2, <2>3 DEF LockKept
<1> QED
  BY <1>2, <1>3, <1>4, <1>5, <1>6, <1>7 DEF IInv

\* A new notice comes when none of the revision is live.
LEMMA NoticeStep ==
  ASSUME IInv, NEW s \in Senders, Evaluate(s), subscription.active, NEW now \in Nat,
         \A m \in Notices : ~Dispatched(m),
         \A m \in Notices : Reviewed(now)[m].state = "active" =>
                            event[m].revision # subscription.revision,
         NEW n \in Unused,
         event' = [Reviewed(now) EXCEPT ![n] =
                     [state |-> "active", revision |-> subscription.revision,
                      reading |-> Observation(now)]],
         outbox' = [outbox EXCEPT ![n] = NewRow(now)]
  PROVE  IInv'
<1> DEFINE row == NewRow(now)
<1>1. /\ row \in RowType /\ row.attempts = {} /\ row.first = None
      /\ row.state \in {"available_in_app", "pending"}
  BY DEF NewRow, RowType, Open
<1>2. /\ n \in Notices /\ event[n].state = "none" /\ outbox[n].first = None /\ mails[n] = 0
  BY DEF Unused, IInv, UnusedEmpty
<1>3. /\ event' \in [Notices -> EventType]
      /\ event'[n].state = "active" /\ event'[n].revision = subscription.revision
      /\ \A m \in Notices \ {n} :
           /\ event'[m].revision = event[m].revision
           /\ event'[m].state = "none" <=> event[m].state = "none"
           /\ event'[m].state = "active" => event[m].state = "active"
           /\ event'[m].state = "active" => event[m].revision # subscription.revision
  <2>1. [state |-> "active", revision |-> subscription.revision,
                      reading |-> Observation(now)] \in EventType
    BY ObservationType DEF EventType, IInv, Types, TypeOK
  <2>2. Reviewed(now) \in [Notices -> EventType]
    BY ReviewedFacts
  <2> QED
    BY <1>2, <2>1, <2>2, ReviewedFacts
<1> HIDE DEF row
<1>4. /\ outbox' \in [Notices -> RowType]
      /\ outbox'[n] = row /\ \A m \in Notices \ {n} : outbox'[m] = outbox[m]
  BY <1>1, <1>2 DEF IInv, Types, TypeOK, RowType, row
<1>5. /\ sender' \in [Senders -> SenderRow]
      /\ Pass(sender'[s]) /\ ~sender'[s].locked /\ ~Working(sender'[s])
      /\ \A t \in Senders \ {s} : sender'[t] = sender[t]
      /\ UNCHANGED <<clock, subscription, reading, mails, keyUntil, faults, lost>>
      /\ ~SubscriptionLocked
  BY EvaluatedPass
<1>6. Types'
  BY <1>3, <1>4, <1>5 DEF IInv, Types, TypeOK, EventType, RowType
<1>7. Numbered'
  <2>1. WithoutGap(row)
    <3>1. 0 \in Nat /\ row.attempts = 1 .. 0 /\ (0 = 0 <=> row.first = None)
      BY <1>1
    <3> QED
      BY <3>1 DEF WithoutGap
  <2>2. \A m \in Notices : WithoutGap(outbox'[m])
    BY <1>4, <2>1 DEF IInv, Numbered
  <2>3. \A m \in Notices : outbox'[m].first <= clock
    BY <1>1, <1>2, <1>4 DEF IInv, Numbered
  <2> QED
    BY <1>5, <2>2, <2>3 DEF Numbered, WithoutGap
<1>8. UnusedEmpty' /\ KeyRemembered'
  BY <1>1, <1>2, <1>3, <1>4, <1>5 DEF IInv, UnusedEmpty, KeyRemembered
<1>9. Passes'
  <2> SUFFICES ASSUME NEW t \in Senders PROVE Pass(sender[t])'
    BY DEF Passes
  <2>1. CASE t = s
    BY <1>5, <2>1 DEF Pass, Working
  <2>2. CASE t # s
    <3>1. Pass(sender[t]) /\ sender'[t] = sender[t]
      BY <1>5, <2>2 DEF IInv, Passes
    <3>2. Working(sender[t]) => sender[t].notice \in Notices \ {n}
      BY <1>2, <3>1 DEF Pass
    <3>3. CASE Working(sender[t])
      BY <1>3, <1>4, <1>5, <3>1, <3>2, <3>3 DEF Pass, Working
    <3>4. CASE ~Working(sender[t])
      BY <1>5, <3>1, <3>4 DEF Pass, Working
    <3> QED
      BY <3>3, <3>4
  <2> QED
    BY <2>1, <2>2
<1>10. OneLock' /\ ActiveIsSaved'
  BY <1>5 DEF IInv, OneLock, ActiveIsSaved
<1>11. ASSUME ~lost PROVE LockKept'
  <2>1. \A t \in Senders : ~Working(sender'[t])
    BY <1>5, <1>11 DEF IInv, LockKept, Licensed, SubscriptionLocked
  <2>2. \A t \in Senders : Licensed(sender[t])'
    BY <2>1 DEF Licensed, Working
  <2>3. Truthful'
    BY <1>1, <1>4, <1>5, <1>11 DEF IInv, LockKept, Truthful
  <2>4. \A m \in Notices \ {n} : Live(m)' =>
          Live(m) /\ event'[m].revision = event[m].revision /\ event[m].revision # subscription.revision
    <3> SUFFICES ASSUME NEW m \in Notices \ {n}, Live(m)'
                 PROVE  Live(m) /\ event[m].revision # subscription.revision
      BY <1>3
    <3>1. Live(m) /\ event[m].state # "none"
      BY <1>3, <1>4 DEF Live, IInv, UnusedEmpty
    <3>2. CASE event'[m].state = "active"
      BY <1>3, <3>1, <3>2
    <3>3. CASE event'[m].state # "active"
      BY <1>4, <3>1, <3>3 DEF Live, Dispatched
    <3> QED
      BY <3>1, <3>2, <3>3
  <2>5. OneLive'
    BY <1>3, <1>11, <2>4 DEF IInv, LockKept, OneLive
  <2> QED
    BY <2>2, <2>3, <2>5 DEF LockKept
<1> QED
  BY <1>5, <1>6, <1>7, <1>8, <1>9, <1>10, <1>11 DEF IInv

LEMMA EvaluateStep == ASSUME IInv, NEW s \in Senders, Evaluate(s) PROVE IInv'
<1> DEFINE now == sender[s].now
           busy == \E m \in Notices : /\ Reviewed(now)[m].state = "active"
                                      /\ event[m].revision = subscription.revision
<1>1. sender[s] \in SenderRow /\ Pass(sender[s]) /\ sender[s].step = "evaluate"
  BY DEF Evaluate, IInv, Types, Passes
<1>2. now \in Nat
  BY <1>1 DEF Pass
<1>3. CASE ~subscription.active
  BY <1>3, ReviewStep DEF Evaluate
<1>4. CASE subscription.active
           /\ (~ConditionMet(now) \/ (\E m \in Notices : Dispatched(m)) \/ busy \/ Unused = {})
  <2>1. event' = Reviewed(now) /\ UNCHANGED outbox
    BY <1>4 DEF Evaluate
  <2> QED
    BY <2>1, ReviewStep
<1>5. CASE subscription.active
           /\ ~(~ConditionMet(now) \/ (\E m \in Notices : Dispatched(m)) \/ busy \/ Unused = {})
  <2>1. Unused \in SUBSET (0 .. MaxNotices) /\ Unused # {} /\ MaxNotices \in Nat
    BY <1>5, NotificationAssumption DEF Unused, Notices
  <2>2. Min(Unused) \in Unused
    BY <2>1, MinOfNaturals
  <2>3. /\ event' = [Reviewed(now) EXCEPT ![Min(Unused)] =
                    [state |-> "active", revision |-> subscription.revision,
                     reading |-> Observation(now)]]
        /\ outbox' = [outbox EXCEPT ![Min(Unused)] = NewRow(now)]
    BY <1>5 DEF Evaluate
  <2>4. /\ \A m \in Notices : ~Dispatched(m)
        /\ \A m \in Notices : Reviewed(now)[m].state = "active" =>
                              event[m].revision # subscription.revision
    BY <1>5
  <2> HIDE DEF now
  <2> QED
    BY <1>2, <1>5, <2>2, <2>3, <2>4, NoticeStep
<1> QED
  BY <1>3, <1>4, <1>5

-----------------------------------------------------------------------------
(* The theorems.                                                           *)

LEMMA NextStep == IInv /\ [Next]_vars => IInv'
<1> SUFFICES ASSUME IInv, [Next]_vars PROVE IInv'
  OBVIOUS
<1>1. CASE Tick
  BY <1>1, TickStep
<1>2. CASE User
  BY <1>2, CancelStep, CreateStep, EditStep DEF User
<1>3. ASSUME NEW r \in Readings, NEW warm \in BOOLEAN, NEW validity \in Validities,
             NEW correction \in BOOLEAN, Import(r, warm, validity, correction)
      PROVE  IInv'
  BY <1>3, ImportStep
<1>4. ASSUME NEW s \in Senders, Work(s) PROVE IInv'
  <2>1. CASE StartPass(s) \/ Evaluate(s)
    BY <2>1, StartPassStep, EvaluateStep
  <2>2. CASE Deliver(s)
    BY <2>2, SkipStep, ReadStep, CloseStep, IntendStep, SendStep, RecordStep DEF Deliver
  <2> QED
    BY <1>4, <2>1, <2>2 DEF Work
<1>5. ASSUME NEW s \in Senders, Crash(s) \/ LoseSession(s) PROVE IInv'
  BY <1>5, CrashStep, LoseSessionStep
<1>6. CASE UNCHANGED vars
  BY <1>6 DEF vars, IInv, Types, TypeOK, Numbered, WithoutGap, UnusedEmpty, KeyRemembered, Passes,
     Pass, OneLock, ActiveIsSaved, LockKept, Licensed, Truthful, OneLive, Live, Working
<1> QED
  BY <1>1, <1>2, <1>3, <1>4, <1>5, <1>6 DEF Next

LEMMA Invariant == Spec => []IInv
  BY InitStep, NextStep, PTL DEF Spec

\* The tables of the notifications stay well-formed.
THEOREM TypeCorrect == Spec => []TypeOK
<1>1. IInv => TypeOK
  BY DEF IInv, Types
<1> QED
  BY <1>1, Invariant, PTL

\* delivery.py:130-213, no notice is mailed twice, for any number of passes,
\* crashes and lost locks, as long as the window and a pass fit into the time
\* the provider remembers a key; and while no lock was lost a cancelled notice
\* was not mailed and an accepted one was.
THEOREM OneMail == Spec => []AtMostOneMail
<1>1. IInv => AtMostOneMail
  <2> SUFFICES ASSUME IInv, NEW n \in Notices
               PROVE  /\ mails[n] <= 1
                      /\ ~lost => /\ outbox[n].state = "cancelled" => mails[n] = 0
                                  /\ outbox[n].state = "accepted" => mails[n] = 1
    BY DEF AtMostOneMail
  <2>1. mails[n] \in Nat /\ mails[n] <= 1 /\ (mails[n] > 0 => outbox[n].first # None)
    BY DEF IInv, Types, TypeOK, KeyRemembered
  <2>2. ~lost => /\ outbox[n].state = "cancelled" => outbox[n].first = None
                 /\ outbox[n].state = "accepted" => mails[n] = 1
    BY DEF IInv, LockKept, Truthful
  <2> QED
    BY <2>1, <2>2
<1> QED
  BY <1>1, Invariant, PTL

\* service.py:379-450, while no lock was lost the user is told once at most
\* under one revision of the subscription.
THEOREM OneNotice == Spec => []OneNoticePerRevision
<1>1. IInv => OneNoticePerRevision
  BY DEF IInv, Types, TypeOK, KeyRemembered, LockKept, OneLive, Live, OneNoticePerRevision, Told
<1> QED
  BY <1>1, Invariant, PTL

\* service.py:150-187, while no lock was lost no mail of settings that were
\* replaced or cancelled leaves.
THEOREM CancellationProtects == Spec => CancellationHolds
<1>1. IInv /\ [Next]_vars =>
        [\A n \in Notices : mails'[n] > mails[n] /\ ~lost =>
           subscription.active /\ event[n].revision = subscription.revision]_vars
  <2> SUFFICES ASSUME IInv, [Next]_vars, NEW n \in Notices, mails'[n] > mails[n], ~lost
               PROVE  subscription.active /\ event[n].revision = subscription.revision
    OBVIOUS
  <2>1. mails[n] \in Nat
    BY DEF IInv, Types, TypeOK
  <2>2. PICK s \in Senders, taken \in BOOLEAN, answer \in {"accepted", "rejected", "unclear"} :
          Send(s, taken, answer)
    <3>1. ASSUME NEW s \in Senders, StartPass(s) \/ Evaluate(s) \/ Close(s) \/ Intend(s) \/ Record(s)
                                    \/ Crash(s) \/ LoseSession(s)
                                    \/ \E m \in Notices : Skip(s, m) \/ Read(s, m)
          PROVE  mails' = mails
      BY <3>1 DEF StartPass, Evaluate, Close, Intend, Record, Crash, LoseSession, Skip, Read
    <3>2. ASSUME Tick \/ User \/ \E r \in Readings, warm \in BOOLEAN, validity \in Validities,
                                   correction \in BOOLEAN : Import(r, warm, validity, correction)
          PROVE  mails' = mails
      BY <3>2 DEF Tick, User, Cancel, Create, Edit, Import
    <3>3. mails' # mails
      BY <2>1
    <3>4. ASSUME NEW s \in Senders, Work(s) \/ Crash(s) \/ LoseSession(s)
          PROVE  \E taken \in BOOLEAN, answer \in {"accepted", "rejected", "unclear"} :
                   Send(s, taken, answer)
      BY <3>1, <3>3, <3>4 DEF Work, Deliver
    <3>5. \E s \in Senders : Work(s) \/ Crash(s) \/ LoseSession(s)
      BY <3>2, <3>3 DEF Next, vars
    <3> QED
      BY <3>4, <3>5
  <2>3. sender[s].notice = n /\ sender[s].step = "sending"
    <3>1. \A m \in Notices \ {sender[s].notice} : mails'[m] = mails[m]
      BY <2>2, MailSent
    <3>2. sender[s].step = "sending"
      BY <2>2 DEF Send
    <3> QED
      BY <2>1, <3>1, <3>2
  <2> QED
    BY <2>3 DEF IInv, LockKept, Licensed
<1> QED
  BY <1>1, Invariant, PTL DEF Spec, CancellationHolds

=============================================================================
