----------------------------- MODULE ReadWindow -----------------------------
(***************************************************************************)
(* The read windows of sampler/src/pm.rs: the reads of a card that may     *)
(* suspend are batched.  The first opens a window, and after the window    *)
(* the card is left alone for longer than the delay after which it         *)
(* suspends.  An age counts ticks up to the last value it is compared      *)
(* with.                                                                   *)
(***************************************************************************)
EXTENDS Integers

CONSTANTS
  WINDOW,       \* READ_WINDOW
  MARGIN        \* headroom past the delay

ASSUME WindowAssumption == WINDOW \in Nat \ {0} /\ MARGIN \in Nat

NEVER == -1

Older(a, cap) == IF a = NEVER \/ a >= cap THEN a ELSE a + 1

\* Mutants: the cooldown lasts the delay alone; every read opens a window.
DecideWithoutMargin(a, delay) ==
  [allowed |-> a = NEVER \/ a < WINDOW \/ a >= delay,
   reopen  |-> a = NEVER \/ a >= delay]

DecideSliding(a, delay) == [allowed |-> TRUE, reopen |-> TRUE]

\* May a card whose window is this old be read, and does that open a new one?
Decide(a, delay) ==
  [allowed |-> a = NEVER \/ a < WINDOW \/ a >= delay + MARGIN,
   reopen  |-> a = NEVER \/ a >= delay + MARGIN]
=============================================================================
