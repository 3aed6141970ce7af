---------------------------- MODULE ConditionBoard ----------------------------
(***************************************************************************)
(* What the condition projection promises its readers, instant by instant  *)
(* and without rows, locks, revisions or transactions: a board that shows  *)
(* one content per target instant.  A publication with calculation time c  *)
(* replaces the board from c on and fills only the gaps before c; a        *)
(* correction wipes the board from some instant on; nothing else changes   *)
(* an instant that is still in the retained window.                        *)
(***************************************************************************)
EXTENDS Integers

CONSTANTS
  Slots,      \* target instants
  Contents,   \* what can be shown: records with a field "basis"
  Absent,     \* the content that stands for nothing shown
  Basis,      \* identities of the evidence that contents rest on
  NoTime,     \* the time of a withdrawal that did not happen
  DayLength, Window,  \* the window retained is today and what follows it
  MaxTime     \* bound: the clock stops here

\* What the proofs ask of the constants.
BoardAssumption ==
  /\ Slots \subseteq Nat
  /\ Absent \in Contents
  /\ Absent.basis \notin Basis
  /\ NoTime = -1
  /\ DayLength \in Nat \ {0}
  /\ Window \in Nat
  /\ MaxTime \in Nat

VARIABLES
  clock,
  board,       \* content shown per target instant
  computedAt,  \* calculation time of the last publication
  withdrawnAt  \* when evidence was withdrawn

vars == <<clock, board, computedAt, withdrawnAt>>

IsWithdrawn(content) ==
  content.basis \in Basis /\ withdrawnAt[content.basis] # NoTime

InWindow(t) ==
  LET today == (clock \div DayLength) * DayLength
  IN today <= t /\ t < today + Window

Init ==
  /\ clock = 0
  /\ board = [t \in Slots |-> Absent]
  /\ computedAt = NoTime
  /\ withdrawnAt = [b \in Basis |-> NoTime]

Pass ==
  /\ clock < MaxTime
  /\ clock' = clock + 1
  /\ UNCHANGED <<board, computedAt, withdrawnAt>>

Publish ==
  /\ computedAt' \in 0..clock
  /\ computedAt <= computedAt'
  /\ board' \in [Slots -> Contents]
  /\ \A t \in Slots :
        \/ board'[t] = Absent /\ (~InWindow(t) \/ t >= computedAt' \/ board[t] = Absent)
        \/ board'[t] = board[t] /\ t < computedAt'
        \/ /\ t >= computedAt' \/ board[t] = Absent
           /\ ~IsWithdrawn(board'[t])
  /\ UNCHANGED <<clock, withdrawnAt>>

Withdraw ==
  /\ withdrawnAt' \in [Basis -> {NoTime, clock} \cup {withdrawnAt[b] : b \in Basis}]
  /\ \A b \in Basis : \/ withdrawnAt'[b] = withdrawnAt[b]
                      \/ withdrawnAt[b] = NoTime /\ withdrawnAt'[b] = clock
  /\ \E from \in 0..clock :
        board' = [t \in Slots |-> IF t >= from THEN Absent ELSE board[t]]
  /\ UNCHANGED <<clock, computedAt>>

Expire ==
  /\ board' \in [Slots -> Contents]
  /\ \A t \in Slots : board'[t] = board[t] \/ (board'[t] = Absent /\ ~InWindow(t))
  /\ UNCHANGED <<clock, computedAt, withdrawnAt>>

Next == Pass \/ Publish \/ Withdraw \/ Expire

Spec == Init /\ [][Next]_vars

-----------------------------------------------------------------------------
\* The types of the variables.
TypeOK ==
  /\ clock \in Nat
  /\ board \in [Slots -> Contents]
  /\ computedAt \in Nat \cup {NoTime}
  /\ withdrawnAt \in [Basis -> Nat \cup {NoTime}]

\* Content that rests on withdrawn evidence is shown only for instants before
\* the withdrawal.
WithdrawnContentIsPast ==
  \A t \in Slots : IsWithdrawn(board[t]) => t < withdrawnAt[board[t].basis]
=============================================================================
