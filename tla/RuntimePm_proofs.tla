--------------------------- MODULE RuntimePm_proofs ---------------------------
(***************************************************************************)
(* Theorems about the amdgpu read gate, for every autosuspend delay, and   *)
(* every window, margin and pair of lags that satisfy PmAssumption.        *)
(***************************************************************************)
EXTENDS RuntimePm, TLAPS

USE PmAssumption, WindowAssumption

\* An age keeps counting up to its cap, and a missing one stays missing.
LEMMA OlderType ==
  ASSUME NEW cap \in Nat, NEW a \in NEVER .. cap
  PROVE  /\ Older(a, cap) \in NEVER .. cap
         /\ a # NEVER => Older(a, cap) \in 0 .. cap
         /\ Older(a, cap) = NEVER <=> a = NEVER
         /\ a # NEVER => Older(a, cap) <= a + 1
         /\ a # NEVER /\ a < cap => Older(a, cap) = a + 1
BY DEF Older, NEVER

LEMMA InitType == Init => TypeOK
<1>. SUFFICES ASSUME Init PROVE TypeOK
  OBVIOUS
<1>1. /\ opened \in NEVER .. COOL /\ age \in NEVER .. COOL
      /\ idle \in 0 .. Delay + KERNEL_LAG /\ lag \in 0 .. READ_LAG
  BY DEF Init, NEVER, COOL
<1>. QED
  BY <1>1 DEF Init, TypeOK

\* A gap between two clocks does not widen when both advance.
LEMMA Behind ==
  ASSUME NEW a \in Int, NEW b \in Int, NEW a1 \in Int, NEW b1,
         a - b < WINDOW + READ_LAG, a1 <= a + 1, b1 = b + 1
  PROVE  a1 - b1 < WINDOW + READ_LAG
OBVIOUS

\* Every state of the gate is well formed (struct Gate in pm.rs).
THEOREM TypeCorrect == Spec => []TypeOK
<1>1. Init => TypeOK
  BY InitType
<1>2. TypeOK /\ [Next]_vars => TypeOK'
  <2>. SUFFICES ASSUME TypeOK, [Next]_vars
                PROVE  TypeOK'
    OBVIOUS
  <2>1. CASE Suspend
    BY <2>1 DEF Suspend, TypeOK
  <2>2. CASE Use
    BY <2>2 DEF Use, TypeOK
  <2>3. CASE SetControl
    BY <2>3 DEF SetControl, TypeOK
  <2>4. CASE Elapse
    <3>1. idle' \in 0 .. Delay + KERNEL_LAG
      BY <2>4, OlderType DEF Elapse, TypeOK, NEVER
    <3>2. opened' \in NEVER .. COOL
      BY <2>4, OlderType DEF Elapse, TypeOK, COOL
    <3>3. lag' \in 0 .. READ_LAG
      BY <2>4 DEF Elapse, TypeOK
    <3>. QED
      BY <2>4, <3>1, <3>2, <3>3 DEF Elapse, TypeOK, card
  <2>5. CASE Begin
    BY <2>5 DEF Begin, TypeOK, card
  <2>6. CASE Finish
    <3>1. opened' \in NEVER .. COOL
      BY <2>6 DEF Finish, TypeOK, COOL, NEVER
    <3>2. idle' \in 0 .. Delay + KERNEL_LAG
      BY <2>6 DEF Finish, TypeOK
    <3>3. age' \in NEVER .. COOL /\ lag' \in 0 .. READ_LAG
      BY <2>6 DEF Finish, COOL, NEVER
    <3>. QED
      BY <2>6, <3>1, <3>2, <3>3 DEF Finish, TypeOK, card
  <2>7. CASE UNCHANGED vars
    BY <2>7 DEF vars, card, TypeOK
  <2>. QED
    BY <2>1, <2>2, <2>3, <2>4, <2>5, <2>6, <2>7 DEF Next
<1>. QED
  BY <1>1, <1>2, PTL DEF Spec

-----------------------------------------------------------------------------
\* The read in progress was decided on an age no older than its clock reading,
\* and a read that was not gated finds a card that may suspend awake only if
\* somebody else woke it.
ReadInv ==
  /\ reading # "none" => (age = NEVER <=> opened = NEVER)
  /\ reading # "none" /\ age # NEVER => opened <= age + lag
  /\ reading = "direct" /\ Gated => foreign

\* While the card is ours alone its timer lags behind its window by less than
\* a window and the time a read takes.
LagInv ==
  Gated /\ opened # NEVER /\ ~foreign => opened - idle < WINDOW + READ_LAG

IInv == TypeOK /\ ReadInv /\ LagInv

LEMMA Inductive == IInv /\ [Next]_vars /\ TypeOK' => IInv'
<1>. SUFFICES ASSUME IInv, [Next]_vars, TypeOK'
              PROVE  ReadInv' /\ LagInv'
  BY DEF IInv
<1>. USE DEF IInv
<1>1. CASE Suspend
  BY <1>1 DEF Suspend, ReadInv, LagInv, Gated
<1>2. CASE Use
  BY <1>2 DEF Use, ReadInv, LagInv, Gated
<1>3. CASE SetControl
  BY <1>3 DEF SetControl, ReadInv, LagInv, Gated
<1>4. CASE Elapse
  <2>1. /\ opened' = NEVER <=> opened = NEVER
        /\ opened # NEVER => opened' <= opened + 1
        /\ Gated => idle' = idle + 1
    <3>1. /\ COOL \in Nat /\ opened \in NEVER .. COOL
          /\ Delay + KERNEL_LAG \in Nat /\ idle \in NEVER .. Delay + KERNEL_LAG
          /\ idle # NEVER
      BY DEF TypeOK, COOL, NEVER
    <3>2. /\ opened' = Older(opened, COOL)
          /\ idle' = Older(idle, Delay + KERNEL_LAG)
          /\ Gated => idle < Delay + KERNEL_LAG
      BY <1>4 DEF Elapse, Gated
    <3>3. /\ opened' = NEVER <=> opened = NEVER
          /\ opened # NEVER => opened' <= opened + 1
      BY <3>1, <3>2, OlderType
    <3>4. Gated => idle' = idle + 1
      BY <3>1, <3>2, OlderType
    <3>. QED
      BY <3>3, <3>4
  <2>2. reading # "none" => lag' = lag + 1
    BY <1>4 DEF Elapse
  <2>3. UNCHANGED <<managed, status, reading, age, foreign>>
    BY <1>4 DEF Elapse, card
  <2>4. ReadInv'
    <3>1. (reading # "none" /\ age # NEVER => opened <= age + lag)'
      BY <2>1, <2>2, <2>3 DEF ReadInv, TypeOK, NEVER
    <3>. QED
      BY <2>1, <2>3, <3>1 DEF ReadInv, Gated
  <2>5. LagInv'
    <3>. SUFFICES ASSUME Gated, opened # NEVER, ~foreign
                  PROVE  opened' - idle' < WINDOW + READ_LAG
      BY <2>1, <2>3 DEF LagInv, Gated
    <3>1. opened \in Int /\ idle \in Int /\ opened' \in Int
      BY DEF TypeOK, NEVER, COOL
    <3>2. opened - idle < WINDOW + READ_LAG
      BY DEF LagInv
    <3>3. opened' <= opened + 1 /\ idle' = idle + 1
      BY <2>1, Zenon
    <3>. QED
      BY <3>1, <3>2, <3>3, Behind
  <2>. QED
    BY <2>4, <2>5
<1>5. CASE Begin
  BY <1>5 DEF Begin, card, ReadInv, LagInv, Gated, TypeOK, NEVER, COOL
<1>6. CASE Finish
  <2>1. UNCHANGED <<managed, status>> /\ reading' = "none"
    BY <1>6 DEF Finish, card
  <2>2. ReadInv'
    BY <2>1 DEF ReadInv
  <2>3. LagInv'
    <3>. DEFINE reopens == reading = "gated" /\ Decide(age, Delay).reopen
    <3>. DEFINE reaches == reading = "direct" \/ Decide(age, Delay).allowed
    <3>0. /\ idle' = IF reaches /\ status = "active" THEN 0 ELSE idle
          /\ opened' = IF reopens THEN lag ELSE opened
          /\ foreign' = (foreign /\ ~reopens)
      BY <1>6 DEF Finish
    <3>1. CASE reopens
      BY <3>0, <3>1 DEF LagInv, TypeOK, NEVER
    <3>2. CASE ~reopens /\ ~(reaches /\ status = "active")
      <4>1. opened' = opened /\ idle' = idle
        BY <3>0, <3>2
      <4>2. foreign' <=> foreign
        BY <3>0, <3>2, Zenon
      <4>. QED
        BY <2>1, <4>1, <4>2 DEF LagInv, Gated
    <3>3. CASE ~reopens /\ reaches /\ status = "active"
      <4>. SUFFICES ASSUME Gated, opened # NEVER, ~foreign
                    PROVE  opened' - idle' < WINDOW + READ_LAG
        BY <2>1, <3>0, <3>3 DEF LagInv, Gated
      <4>1. reading = "gated"
        BY <1>6 DEF ReadInv, Finish, TypeOK
      <4>2. age # NEVER /\ age < WINDOW
        BY <3>3, <4>1 DEF Decide, ReadInv
      <4>3. opened <= age + lag
        BY <4>1, <4>2 DEF ReadInv
      <4>. QED
        BY <3>0, <3>3, <4>2, <4>3 DEF TypeOK, NEVER
    <3>. QED
      BY <3>1, <3>2, <3>3
  <2>. QED
    BY <2>2, <2>3
<1>7. CASE UNCHANGED vars
  BY <1>7 DEF vars, card, ReadInv, LagInv, Gated
<1>. QED
  BY <1>1, <1>2, <1>3, <1>4, <1>5, <1>6, <1>7 DEF Next

\* The sampler alone never keeps an amdgpu card awake: the cooldown of decide
\* in pm.rs outlasts the card's timer whatever a window's reads did to it.
THEOREM CooldownLongEnough == Spec => []CooldownSuffices
<1>1. Init => IInv
  <2>1. Init => ReadInv /\ LagInv
    BY DEF Init, ReadInv, LagInv
  <2>. QED
    BY <2>1, InitType DEF IInv
<1>2. IInv /\ TypeOK' /\ [Next]_vars => IInv'
  BY Inductive
<1>3. IInv => CooldownSuffices
  <2>. SUFFICES ASSUME IInv, Gated, opened # NEVER, Decide(opened, Delay).reopen, ~foreign
                PROVE  FALSE
    BY DEF CooldownSuffices
  <2>1. opened >= COOL
    BY DEF Decide, COOL
  <2>2. opened - idle < WINDOW + READ_LAG
    BY DEF IInv, LagInv
  <2>3. opened \in Int /\ idle \in 0 .. Delay + KERNEL_LAG
    BY DEF IInv, TypeOK, NEVER, COOL
  <2>. QED
    BY <2>1, <2>2, <2>3 DEF COOL
<1>. QED
  BY <1>1, <1>2, <1>3, TypeCorrect, PTL DEF Spec
=============================================================================
