------------------------------ MODULE RuntimePm ------------------------------
(***************************************************************************)
(* The gate of sampler/src/pm.rs in front of an amdgpu card.  Every read   *)
(* that reaches an awake card restarts the timer after which the kernel    *)
(* suspends it, so the reads of a card that may suspend are batched: the   *)
(* first opens a short window, and after the window the card is left alone *)
(* for longer than its timer.                                              *)
(*                                                                         *)
(* One card, and the sampler's single reading thread.  Time is discrete;   *)
(* an age counts ticks up to the last value it is compared with.  A read   *)
(* takes its clock reading first and reaches the hardware some ticks       *)
(* later.  The values read, and those held for the cooldown, are left out. *)
(***************************************************************************)
EXTENDS ReadWindow

CONSTANTS
  Delay,        \* the card's autosuspend delay
  READ_LAG,     \* ticks from a read's clock reading to the hardware, at most
  KERNEL_LAG    \* ticks from the end of the timer to the suspension, at most

\* The margin is longer than a window and the two lags together.
ASSUME PmAssumption ==
  /\ Delay \in Nat
  /\ READ_LAG \in Nat /\ KERNEL_LAG \in Nat
  /\ WINDOW + READ_LAG + KERNEL_LAG <= MARGIN

VARIABLES
  managed,      \* power/control is "auto"
  status,       \* power/runtime_status: "active" or "suspended"
  idle,         \* ticks since the card was last used, by anyone
  opened,       \* age of the card's current window, or NEVER
  reading,      \* the read in progress: "none", "direct" or "gated"
  age,          \* the age its decision is taken on
  lag,          \* ticks since its clock reading
  foreign       \* history: has anyone else used the card since the window opened?

card    == <<managed, status>>
vars == <<card, idle, opened, reading, age, lag, foreign>>

COOL == Delay + MARGIN

Init ==
  /\ managed \in BOOLEAN
  /\ status \in {"active", "suspended"}
  /\ ~managed => status = "active"
  /\ idle = 0
  /\ opened = NEVER
  /\ reading = "none"
  /\ age = NEVER
  /\ lag = 0
  /\ foreign = FALSE

-----------------------------------------------------------------------------
(* The kernel and the card's other users.                                    *)

Suspend ==
  /\ managed /\ status = "active" /\ idle >= Delay
  /\ status' = "suspended"
  /\ UNCHANGED <<managed, idle, opened, reading, age, lag, foreign>>

\* Somebody uses the card, which wakes it.
Use ==
  /\ status' = "active"
  /\ idle' = 0
  /\ foreign' = TRUE
  /\ UNCHANGED <<managed, opened, reading, age, lag>>

\* power/control is written; "on" wakes the card.
SetControl ==
  /\ managed' = ~managed
  /\ status' = IF managed' THEN status ELSE "active"
  /\ idle' = 0
  /\ foreign' = TRUE
  /\ UNCHANGED <<opened, reading, age, lag>>

\* Time passes: no further than the timer of an awake card allows, nor than a
\* read takes to reach the hardware.
Elapse ==
  /\ managed /\ status = "active" => idle < Delay + KERNEL_LAG
  /\ reading # "none" => lag < READ_LAG
  /\ idle' = Older(idle, Delay + KERNEL_LAG)
  /\ opened' = Older(opened, COOL)
  /\ lag' = IF reading = "none" THEN 0 ELSE lag + 1
  /\ UNCHANGED <<card, reading, age, foreign>>

-----------------------------------------------------------------------------
(* The gate.                                                                 *)

\* awake_delay: a card that is asleep or always on is read directly.
Gated == managed /\ status = "active"

\* A read looks at the clock and at the state of the card.
Begin ==
  /\ reading = "none"
  /\ reading' = IF Gated THEN "gated" ELSE "direct"
  /\ age' = opened
  /\ lag' = 0
  /\ UNCHANGED <<card, idle, opened, foreign>>

\* Mutant: the window is dated ahead of the clock reading instead of at it.
FinishAhead ==
  /\ reading # "none"
  /\ LET reaches == reading = "direct" \/ Decide(age, Delay).allowed
         reopens == reading = "gated" /\ Decide(age, Delay).reopen
     IN  /\ idle' = IF reaches /\ status = "active" THEN 0 ELSE idle
         /\ opened' = IF reopens THEN -lag ELSE opened
         /\ foreign' = (foreign /\ ~reopens)
  /\ reading' = "none"
  /\ age' = NEVER
  /\ lag' = 0
  /\ UNCHANGED card

\* The read reaches the hardware, or the gate answers with the value it holds.
\* A window dates from the clock reading.  A sleeping card is not woken.
Finish ==
  /\ reading # "none"
  /\ LET reaches == reading = "direct" \/ Decide(age, Delay).allowed
         reopens == reading = "gated" /\ Decide(age, Delay).reopen
     IN  /\ idle' = IF reaches /\ status = "active" THEN 0 ELSE idle
         /\ opened' = IF reopens THEN lag ELSE opened
         /\ foreign' = (foreign /\ ~reopens)
  /\ reading' = "none"
  /\ age' = NEVER
  /\ lag' = 0
  /\ UNCHANGED card

Next == Suspend \/ Use \/ SetControl \/ Elapse \/ Begin \/ Finish

\* Time passes and the kernel's timer fires; reads and uses are free.
Fairness == WF_vars(Elapse) /\ WF_vars(Suspend) /\ WF_vars(Finish)

Spec == Init /\ [][Next]_vars /\ Fairness

-----------------------------------------------------------------------------
TypeOK ==
  /\ managed \in BOOLEAN
  /\ status \in {"active", "suspended"}
  /\ idle \in 0 .. Delay + KERNEL_LAG
  /\ opened \in NEVER .. COOL
  /\ reading \in {"none", "direct", "gated"}
  /\ age \in NEVER .. COOL
  /\ lag \in 0 .. READ_LAG
  /\ foreign \in BOOLEAN

\* The sampler alone never keeps a card awake: a card that may suspend and is
\* still awake when its cooldown ends, so that the next read would open
\* another window, has been used by somebody else since the last one opened.
CooldownSuffices == Gated /\ opened # NEVER /\ Decide(opened, Delay).reopen => foreign

\* An awake card that nobody else uses falls asleep, however it is sampled.
FallsAsleep ==
  Gated /\ opened # NEVER /\ ~foreign ~> status = "suspended" \/ foreign
=============================================================================
