-------------------------- MODULE SamplerLoop_proofs --------------------------
(***************************************************************************)
(* Theorems about the sampling loop, for every set of intervals and pages, *)
(* every duration of a reading and every warm-up.                          *)
(***************************************************************************)
EXTENDS SamplerLoop, TLAPS

USE ControlAssumption, LoopAssumption

\* Handling a line keeps the control state well formed.
LEMMA ObeyType ==
  ASSUME NEW c \in Control, NEW line \in Line
  PROVE  Obey(c, line) \in Control
BY DEF Obey, Control, Line, Levels

\* What is wanted of a control state is a request, and taking the public IP
\* request does not change it.
LEMMA WantedType ==
  ASSUME NEW c \in Control
  PROVE  /\ Wanted(c) \in Request
         /\ [c EXCEPT !.pubip = FALSE] \in Control
         /\ Wanted([c EXCEPT !.pubip = FALSE]) = Wanted(c)
         /\ [c EXCEPT !.pubip = FALSE].pubip = FALSE
BY DEF Control, Wanted, Request

LEMMA FreshType == FreshControl \in Control /\ Wanted(FreshControl) \in Request
BY DEF FreshControl, Wanted, Control, Request, Levels

\* An age keeps counting up to its cap, and a missing one stays missing.
LEMMA OlderType ==
  ASSUME NEW cap \in Nat, NEW age \in NEVER .. cap
  PROVE  /\ Older(age, cap) \in NEVER .. cap
         /\ age \in 0 .. cap => Older(age, cap) \in 0 .. cap
         /\ (Older(age, cap) = NEVER) <=> (age = NEVER)
BY DEF Older, NEVER

\* A process list is built from its three parts.
LEMMA ListType ==
  ASSUME NEW a \in BOOLEAN, NEW b \in BOOLEAN, NEW f \in {"none", "zero", "real"}
  PROVE  [full |-> a, drives |-> b, figures |-> f] \in Lists
BY DEF Lists

\* Every state of the sampler is well formed (the types of the Control struct
\* and of the loop's locals in main.rs).
THEOREM TypeCorrect == Spec => []TypeOK
<1>1. Init => TypeOK
  <2>. SUFFICES ASSUME Init PROVE TypeOK
    OBVIOUS
  <2>1. control \in Control /\ snap \in Request
    BY FreshType DEF Init
  <2>2. procs \in Lists
    BY DEF Init, NoList, Lists
  <2>3. /\ slowAge \in 0 .. SECOND /\ procsAge \in NEVER .. WARM_UP
        /\ netAge \in NEVER .. STALE /\ gpuAge \in NEVER .. STALE
        /\ left \in Nat /\ spent \in Nat /\ sinceLost \in 0 .. 2
    BY DEF Init, NEVER
  <2>4. /\ reader \in BOOLEAN /\ wake \in BOOLEAN /\ cold \in BOOLEAN
        /\ netPrimed \in BOOLEAN /\ gpuPrimed \in BOOLEAN /\ asked \in BOOLEAN
        /\ pc = "prime" /\ conns = "none" /\ gpuProcs = "none"
    BY DEF Init
  <2>. QED
    BY <2>1, <2>2, <2>3, <2>4 DEF TypeOK
<1>2. TypeOK /\ [Next]_vars => TypeOK'
  <2>. SUFFICES ASSUME TypeOK, [Next]_vars
                PROVE  TypeOK'
    OBVIOUS
  <2>1. ASSUME NEW line \in Line, Listen(line)
        PROVE  TypeOK'
    BY <2>1, ObeyType DEF TypeOK, Listen, loopVars, ageVars, listVars, historyVars
  <2>2. CASE ShellGone
    BY <2>2 DEF TypeOK, ShellGone, sharedVars, loopVars, ageVars, listVars, historyVars
  <2>3. CASE Primed
    BY <2>3 DEF TypeOK, Primed, sharedVars, ageVars, listVars, historyVars
  <2>4. CASE Snapshot
    <3>1. snap' \in Request /\ control' \in Control
      BY <2>4, WantedType DEF Snapshot, TypeOK
    <3>2. pc' \in {"prime", "top", "tick", "work", "wait", "done"} /\ cold' \in BOOLEAN
      BY <2>4 DEF Snapshot, TypeOK
    <3>3. left' \in Nat
      BY <2>4 DEF Snapshot, TypeOK
    <3>4. /\ slowAge' \in 0 .. SECOND /\ procsAge' \in NEVER .. WARM_UP
          /\ netAge' \in NEVER .. STALE /\ gpuAge' \in NEVER .. STALE
      BY <2>4 DEF Snapshot, ReadSockets, TypeOK, ageVars, NEVER
    <3>6. sinceLost' \in 0 .. 2
      BY <2>4 DEF Snapshot, ReadSockets, TypeOK
    <3>5. asked' \in BOOLEAN /\ UNCHANGED <<reader, wake, spent, listVars>>
      BY <2>4 DEF Snapshot, TypeOK
    <3>. QED
      BY <3>1, <3>2, <3>3, <3>4, <3>5, <3>6 DEF TypeOK, listVars
  <2>5. CASE StartTick
    <3>1. CASE SlowDue
      <4>1. SlowPass
        BY <2>5, <3>1 DEF StartTick
      <4>2. procs' \in Lists
        <5>1. CASE snap.detail > 0
          <6>. DEFINE full == (snap.detail = 2)
                      drives == (snap.focus = "disks")
                      figures == (IF procsAge = WARM_UP THEN "real" ELSE "zero")
          <6>1. full \in BOOLEAN /\ drives \in BOOLEAN
            BY Zenon
          <6>2. figures \in {"none", "zero", "real"}
            OBVIOUS
          <6>3. procs' = [full |-> full, drives |-> drives, figures |-> figures]
            BY <4>1, <5>1 DEF SlowPass
          <6>. HIDE DEF full, drives, figures
          <6>. QED
            BY <6>1, <6>2, <6>3, ListType
        <5>2. CASE ~(snap.detail > 0)
          <6>1. NoList \in Lists
            BY DEF NoList, Lists
          <6>2. procs' = NoList
            BY <4>1, <5>2 DEF SlowPass
          <6>. QED
            BY <6>1, <6>2
        <5>. QED
          BY <5>1, <5>2
      <4>6. procsAge' \in NEVER .. WARM_UP
        BY <4>1 DEF SlowPass, NEVER
      <4>3. /\ conns' \in {"none", "empty", "zero", "real"} /\ netAge' \in NEVER .. STALE
            /\ gpuProcs' \in {"none", "zero", "real"} /\ gpuAge' \in NEVER .. STALE
            /\ sinceLost' \in 0 .. 2
        BY <4>1 DEF SlowPass, ReadSockets, Figures, NEVER, TypeOK
      <4>4. slowAge' \in 0 .. SECOND
        BY <4>1 DEF SlowPass
      <4>7. /\ asked' \in BOOLEAN /\ netPrimed' \in BOOLEAN /\ gpuPrimed' \in BOOLEAN
        BY <4>1, Zenon DEF SlowPass, WantNetwork, WantGpu
      <4>5. /\ pc' \in {"prime", "top", "tick", "work", "wait", "done"}
            /\ left' \in Nat /\ spent' \in Nat /\ cold' \in BOOLEAN
            /\ UNCHANGED <<reader, sharedVars, snap>>
        BY <2>5 DEF StartTick
      <4>. QED
        BY <4>2, <4>3, <4>4, <4>5, <4>6, <4>7 DEF TypeOK, sharedVars
    <3>2. CASE ~SlowDue
      BY <2>5, <3>2 DEF StartTick, TypeOK, sharedVars, ageVars, listVars, historyVars
    <3>. QED
      BY <3>1, <3>2
  <2>6. CASE Emit
    <3>0. snap.interval \in Nat /\ spent \in Nat /\ left \in Nat
      BY DEF TypeOK, Request
    <3>1. left' \in Nat /\ spent' \in Nat
      BY <2>6, <3>0 DEF Emit
    <3>2. pc' \in {"prime", "top", "tick", "work", "wait", "done"}
      BY <2>6 DEF Emit
    <3>. QED
      BY <2>6, <3>1, <3>2 DEF TypeOK, Emit, sharedVars, ageVars, listVars, historyVars
  <2>7. CASE Woken
    BY <2>7 DEF TypeOK, Woken, ageVars, listVars, historyVars
  <2>8. CASE Elapse
    <3>1. /\ slowAge' \in 0 .. SECOND /\ procsAge' \in NEVER .. WARM_UP
          /\ netAge' \in NEVER .. STALE /\ gpuAge' \in NEVER .. STALE
      BY <2>8 DEF Elapse, TypeOK, Older, NEVER
    <3>. QED
      BY <2>8, <3>1 DEF TypeOK, Elapse, sharedVars, listVars, historyVars
  <2>9. CASE UNCHANGED vars
    BY <2>9 DEF TypeOK, vars, sharedVars, loopVars, ageVars, listVars, historyVars
  <2>. QED
    BY <2>1, <2>2, <2>3, <2>4, <2>5, <2>6, <2>7, <2>8, <2>9 DEF Next, Loop
<1>. QED
  BY <1>1, <1>2, PTL DEF Spec

-----------------------------------------------------------------------------
\* The loop never rests on a control state it has not taken up (the condition
\* variable and the wake flag of main.rs lose no control line).
THEOREM LostWakeupFree == Spec => []NoLostWakeup
<1>1. Init => NoLostWakeup
  BY DEF Init, NoLostWakeup
<1>2. TypeOK /\ NoLostWakeup /\ [Next]_vars => NoLostWakeup'
  <2>. SUFFICES ASSUME TypeOK, NoLostWakeup, [Next]_vars
                PROVE  NoLostWakeup'
    OBVIOUS
  <2>1. ASSUME NEW line \in Line, Listen(line)
        PROVE  NoLostWakeup'
    BY <2>1 DEF NoLostWakeup, Listen
  <2>2. CASE ShellGone
    BY <2>2 DEF NoLostWakeup, ShellGone, sharedVars, loopVars
  <2>3. CASE Primed
    BY <2>3 DEF NoLostWakeup, Primed
  <2>4. CASE Snapshot
    <3>1. snap' = Wanted(control') /\ ~control'.pubip
      BY <2>4, WantedType DEF Snapshot, TypeOK
    <3>. QED
      BY <3>1 DEF NoLostWakeup
  <2>5. CASE StartTick
    BY <2>5 DEF NoLostWakeup, StartTick, sharedVars
  <2>6. CASE Emit
    BY <2>6 DEF NoLostWakeup, Emit, sharedVars
  <2>7. CASE Woken
    BY <2>7 DEF NoLostWakeup, Woken
  <2>8. CASE Elapse
    BY <2>8 DEF NoLostWakeup, Elapse, sharedVars
  <2>9. CASE UNCHANGED vars
    BY <2>9 DEF NoLostWakeup, vars, sharedVars, loopVars
  <2>. QED
    BY <2>1, <2>2, <2>3, <2>4, <2>5, <2>6, <2>7, <2>8, <2>9 DEF Next, Loop
<1>. QED
  BY <1>1, <1>2, TypeCorrect, PTL DEF Spec

-----------------------------------------------------------------------------
(* Opened lists.  ShownListsPresent speaks of the start of a reading; what   *)
(* makes it provable is what holds of the flags before it: a list that is    *)
(* wanted and missing makes the iteration cold, a baseline without a list    *)
(* belongs to a cold iteration, and while nothing new was asked for the list *)
(* is the one that was.                                                      *)

ListsInv ==
  /\ netPrimed = (conns # "none")
  /\ gpuPrimed = (gpuProcs # "none")
  /\ procsAge # NEVER => procs # NoList \/ (pc = "tick" /\ cold)
  /\ pc = "tick" => cold \/ ListsThere
  /\ ~asked => ListsFit

\* A list of any figures is told from no list.
LEMMA NoListFigures ==
  ASSUME NEW l \in Lists, l.figures # "none"
  PROVE  l # NoList
BY DEF NoList

\* A slow pass leaves exactly the lists the snapshot wants.
LEMMA SlowPassLists ==
  ASSUME TypeOK, SlowPass
  PROVE  /\ snap.detail > 0 => procs' # NoList
         /\ WantNetwork(snap) => conns' # "none"
         /\ WantGpu(snap) => gpuProcs' # "none"
         /\ netPrimed' = (conns' # "none")
         /\ gpuPrimed' = (gpuProcs' # "none")
         /\ procsAge' # NEVER => procs' # NoList
         /\ snap.detail > 0 => /\ procs'.full = (snap.detail = 2)
                               /\ procs'.drives = (snap.focus = "disks")
<1>1. snap.detail > 0 => procs'.figures # "none"
  BY DEF SlowPass
<1>2. snap.detail > 0 => procs' # NoList
  BY <1>1 DEF NoList
<1>3. \A age : Figures(age) # "none"
  BY DEF Figures
<1>4. WantNetwork(snap) => netPrimed' /\ conns' # "none"
  <2>1. ASSUME WantNetwork(snap) PROVE netPrimed' /\ conns' # "none"
    <3>1. PICK worked \in BOOLEAN : conns' = IF worked THEN Figures(netAge) ELSE "empty"
      BY <2>1 DEF SlowPass
    <3>2. conns' # "none"
      BY <3>1, <1>3
    <3>3. netPrimed'
      BY <2>1, Zenon DEF SlowPass
    <3>. QED
      BY <3>2, <3>3
  <2>. QED
    BY <2>1
<1>5. ~WantNetwork(snap) => ~netPrimed' /\ conns' = "none"
  BY Zenon DEF SlowPass
<1>6. WantGpu(snap) => gpuPrimed' /\ gpuProcs' # "none"
  BY <1>3, Zenon DEF SlowPass
<1>7. ~WantGpu(snap) => ~gpuPrimed' /\ gpuProcs' = "none"
  BY Zenon DEF SlowPass
<1>8. netPrimed' \in BOOLEAN /\ gpuPrimed' \in BOOLEAN
  BY Zenon DEF SlowPass, WantNetwork, WantGpu
<1>9. procsAge' # NEVER => snap.detail > 0
  BY DEF SlowPass
<1>11. snap.detail > 0 => /\ procs'.full = (snap.detail = 2)
                         /\ procs'.drives = (snap.focus = "disks")
  <2>. SUFFICES ASSUME snap.detail > 0
                PROVE  /\ procs'.full = (snap.detail = 2)
                       /\ procs'.drives = (snap.focus = "disks")
    OBVIOUS
  <2>. DEFINE full == (snap.detail = 2)
              drives == (snap.focus = "disks")
              figures == (IF procsAge = WARM_UP THEN "real" ELSE "zero")
  <2>1. procs' = [full |-> full, drives |-> drives, figures |-> figures]
    BY DEF SlowPass
  <2>. HIDE DEF full, drives, figures
  <2>2. procs'.full = full /\ procs'.drives = drives
    BY <2>1
  <2>. QED
    BY <2>2 DEF full, drives
<1>10. netPrimed' = (conns' # "none") /\ gpuPrimed' = (gpuProcs' # "none")
  BY <1>4, <1>5, <1>6, <1>7, <1>8
<1>. QED
  BY <1>2, <1>4, <1>6, <1>9, <1>10, <1>11

\* A panel, or a Network or GPU page, just opened is read in the same
\* iteration (the cold flags of main.rs) and its list is kept until the page is
\* left; an unfolded list and the Disks page wait for the next slow pass, which
\* is due within a second of the last.
THEOREM ListsShown == Spec => ShownListsPresent
<1>1. Init => ListsInv
  <2>. SUFFICES ASSUME Init PROVE ListsInv
    OBVIOUS
  <2>1. snap.detail = 0
    BY DEF Init, Wanted, FreshControl
  <2>2. /\ netPrimed = FALSE /\ conns = "none" /\ gpuPrimed = FALSE /\ gpuProcs = "none"
        /\ procsAge = NEVER /\ pc = "prime"
    BY DEF Init
  <2>3. ListsFit
    BY <2>1 DEF ListsFit
  <2>. QED
    BY <2>2, <2>3 DEF ListsInv
<1>2. TypeOK /\ ListsInv /\ [Next]_vars => ListsInv'
  <2>. SUFFICES ASSUME TypeOK, ListsInv, [Next]_vars
                PROVE  ListsInv'
    OBVIOUS
  <2>. USE DEF ListsInv, ListsThere, ListsFit
  <2>1. ASSUME NEW line \in Line, Listen(line)
        PROVE  ListsInv'
    BY <2>1 DEF Listen, loopVars, ageVars, listVars, historyVars, WantNetwork, WantGpu
  <2>2. CASE ShellGone
    BY <2>2 DEF ShellGone, loopVars, ageVars, listVars, historyVars, WantNetwork, WantGpu
  <2>3. CASE Primed
    BY <2>3 DEF Primed, ageVars, listVars, historyVars
  <2>4. CASE Snapshot
    <3>0. ~asked' => ListsFit'
      <4>1. asked' = (asked \/ snap' # snap) /\ UNCHANGED listVars
        BY <2>4, Zenon DEF Snapshot
      <4>2. CASE asked'
        BY <4>2
      <4>3. CASE ~asked'
        <5>1. ~asked /\ snap' = snap
          BY <4>1, <4>3
        <5>. QED
          BY <4>1, <5>1 DEF listVars
      <4>. QED
        BY <4>2, <4>3
    <3>1. CASE control.stop
      BY <2>4, <3>0, <3>1 DEF Snapshot, ageVars, listVars
    <3>2. CASE ~control.stop
      <4>1. /\ pc' = "tick" /\ UNCHANGED listVars
            /\ cold' = (ColdProcs(control) \/ ColdNetwork(control) \/ ColdGpu(control))
            /\ procsAge' = IF ColdProcs(control) THEN 0 ELSE procsAge
            /\ pc = "top"
        BY <2>4, <3>2, Zenon DEF Snapshot
      <4>2. procsAge' # NEVER => procs' # NoList \/ cold'
        BY <4>1 DEF listVars
      <4>3. /\ WantNetwork(snap') = WantNetwork(control)
            /\ WantGpu(snap') = WantGpu(control)
            /\ snap'.detail = control.detail
        BY <2>4 DEF Snapshot, Wanted, WantNetwork, WantGpu
      <4>4. \/ cold'
            \/ /\ control.detail > 0 => procs # NoList
               /\ WantNetwork(control) => conns # "none"
               /\ WantGpu(control) => gpuProcs # "none"
        BY <4>1, Zenon DEF ColdProcs, ColdNetwork, ColdGpu
      <4>5. cold' \/ ListsThere'
        BY <4>1, <4>3, <4>4 DEF listVars
      <4>. QED
        BY <3>0, <4>1, <4>2, <4>5 DEF listVars
    <3>. QED
      BY <3>1, <3>2
  <2>5. CASE StartTick
    <3>1. pc' = "work" /\ snap' = snap
      BY <2>5 DEF StartTick
    <3>3. CASE SlowDue
      <4>1. SlowPass
        BY <2>5, <3>3 DEF StartTick
      <4>. QED
        BY <3>1, <4>1, SlowPassLists
    <3>4. CASE ~SlowDue
      BY <2>5, <3>1, <3>4 DEF StartTick, SlowDue, ageVars, listVars, historyVars
    <3>. QED
      BY <3>3, <3>4
  <2>6. CASE Emit
    BY <2>6 DEF Emit, ageVars, listVars, historyVars
  <2>7. CASE Woken
    BY <2>7 DEF Woken, ageVars, listVars, historyVars
  <2>8. CASE Elapse
    <3>1. (procsAge' = NEVER) <=> (procsAge = NEVER)
      BY <2>8, OlderType DEF Elapse, TypeOK
    <3>. QED
      BY <2>8, <3>1 DEF Elapse, listVars, historyVars, WantNetwork, WantGpu
  <2>9. CASE UNCHANGED vars
    BY <2>9 DEF vars, loopVars, ageVars, listVars, historyVars, WantNetwork, WantGpu
  <2>. QED
    BY <2>1, <2>2, <2>3, <2>4, <2>5, <2>6, <2>7, <2>8, <2>9 DEF Next, Loop
<1>3. TypeOK /\ ListsInv =>
        [StartTick => ListsThere' /\ (ListsFit' \/ (asked /\ slowAge < SECOND))]_vars
  <2>. SUFFICES ASSUME TypeOK, ListsInv, StartTick
                PROVE  ListsThere' /\ (ListsFit' \/ (asked /\ slowAge < SECOND))
    OBVIOUS
  <2>1. pc = "tick" /\ snap' = snap
    BY DEF StartTick
  <2>2. WantNetwork(snap') = WantNetwork(snap) /\ WantGpu(snap') = WantGpu(snap)
    BY <2>1
  <2>3. CASE SlowDue
    <3>1. SlowPass
      BY <2>3 DEF StartTick
    <3>. QED
      BY <2>1, <2>2, <3>1, SlowPassLists DEF ListsThere, ListsFit
  <2>4. CASE ~SlowDue
    <3>1. UNCHANGED listVars /\ slowAge < SECOND /\ ~cold
      BY <2>4 DEF StartTick, SlowDue, TypeOK
    <3>2. ListsThere /\ (asked \/ ListsFit)
      BY <2>1, <3>1 DEF ListsInv
    <3>. QED
      BY <2>1, <2>2, <3>1, <3>2 DEF ListsThere, ListsFit, listVars
  <2>. QED
    BY <2>3, <2>4
<1>. QED
  BY <1>1, <1>2, <1>3, TypeCorrect, PTL DEF Spec, ShownListsPresent

-----------------------------------------------------------------------------
(* Real figures.  A slow pass differences the process list over procsAge.    *)
(* Outside a cold iteration the baseline is as old as the last slow pass; in *)
(* a cold one, what its age lacks of WARM_UP is still to be slept.           *)

FiguresInv ==
  /\ ProcessFiguresReal
  /\ pc = "tick" /\ snap.detail > 0 => procsAge # NEVER
  /\ procsAge # NEVER =>
       \/ procsAge = WARM_UP
       \/ pc = "tick" /\ cold /\ procsAge + left >= WARM_UP
       \/ ~(pc = "tick" /\ cold) /\ procsAge >= slowAge

\* The process list never shows the zeros of a first reading ("so the lists
\* show real figures at once instead of zeros", main.rs).
THEOREM FiguresReal == Spec => []ProcessFiguresReal
<1>1. Init => FiguresInv
  BY DEF Init, FiguresInv, ProcessFiguresReal, NoList, NEVER
<1>2. TypeOK /\ FiguresInv /\ [Next]_vars => FiguresInv'
  <2>. SUFFICES ASSUME TypeOK, FiguresInv, [Next]_vars
                PROVE  FiguresInv'
    OBVIOUS
  <2>. USE DEF FiguresInv, ProcessFiguresReal, NEVER
  <2>0. /\ SECOND \in Nat /\ left \in Nat /\ slowAge \in 0 .. SECOND
        /\ procsAge \in NEVER .. WARM_UP
    BY DEF TypeOK
  <2>1. ASSUME NEW line \in Line, Listen(line)
        PROVE  FiguresInv'
    BY <2>1 DEF Listen, loopVars, ageVars, listVars
  <2>2. CASE ShellGone
    BY <2>2 DEF ShellGone, loopVars, ageVars, listVars
  <2>3. CASE Primed
    BY <2>3 DEF Primed, ageVars, listVars
  <2>4. CASE Snapshot
    <3>1. CASE control.stop
      BY <2>4, <3>1 DEF Snapshot, ageVars, listVars
    <3>2. CASE ~control.stop
      <4>1. /\ pc' = "tick" /\ pc = "top" /\ UNCHANGED <<slowAge, listVars>>
            /\ cold' \in BOOLEAN
            /\ left' = IF cold' THEN WARM_UP ELSE 0
            /\ procsAge' = IF ColdProcs(control) THEN 0 ELSE procsAge
            /\ snap'.detail = control.detail
        BY <2>4, <3>2 DEF Snapshot, Wanted
      <4>2. ColdProcs(control) => cold'
        BY <2>4, <3>2, Zenon DEF Snapshot
      <4>3. snap'.detail > 0 => procsAge' # NEVER
        BY <4>1 DEF ColdProcs
      <4>. QED
        BY <2>0, <4>1, <4>2, <4>3 DEF listVars
    <3>. QED
      BY <3>1, <3>2
  <2>5. CASE StartTick
    <3>1. pc = "tick" /\ left = 0 /\ pc' = "work" /\ snap' = snap
      BY <2>5 DEF StartTick
    <3>2. CASE SlowDue
      <4>1. SlowPass
        BY <2>5, <3>2 DEF StartTick
      <4>2. snap.detail > 0 => procsAge = WARM_UP
        BY <2>0, <3>1, <3>2 DEF SlowDue
      <4>3. procs'.figures # "zero"
        BY <4>1, <4>2 DEF SlowPass, NoList
      <4>4. slowAge' = 0 /\ procsAge' \in {0, NEVER}
        BY <4>1 DEF SlowPass
      <4>. QED
        BY <3>1, <4>3, <4>4
    <3>3. CASE ~SlowDue
      BY <2>5, <2>0, <3>1, <3>3 DEF StartTick, SlowDue, ageVars, listVars
    <3>. QED
      BY <3>2, <3>3
  <2>6. CASE Emit
    BY <2>6 DEF Emit, ageVars, listVars
  <2>7. CASE Woken
    BY <2>7 DEF Woken, ageVars, listVars
  <2>8. CASE Elapse
    BY <2>0, <2>8 DEF Elapse, Older, listVars
  <2>9. CASE UNCHANGED vars
    BY <2>9 DEF vars, loopVars, ageVars, listVars
  <2>. QED
    BY <2>1, <2>2, <2>3, <2>4, <2>5, <2>6, <2>7, <2>8, <2>9 DEF Next, Loop
<1>3. FiguresInv => ProcessFiguresReal
  BY DEF FiguresInv
<1>. QED
  BY <1>1, <1>2, <1>3, TypeCorrect, PTL DEF Spec

-----------------------------------------------------------------------------
(* The figures of a page.  They are differenced over the time since the slow *)
(* pass before or, when the page has just opened, over the warm-up.  Between *)
(* two slow passes less than a second goes by before an iteration that has   *)
(* none, and then that iteration; so they are real as long as no iteration   *)
(* takes what is missing from a second to the age that is too old.           *)

ShortIterations ==
  /\ \A i \in Intervals : SECOND + i <= STALE
  /\ \A t \in WorkTimes : SECOND + t <= STALE

\* How much older than a second, less a tick, a reading may become before the
\* next iteration starts.
Budget ==
  CASE pc = "work" -> spent - left
    [] pc = "wait" -> STALE - SECOND - left
    [] OTHER       -> STALE - SECOND

\* Of a page whose baseline has not been lost with a reading that failed.
PageInv(primed, want, age) ==
  /\ pc = "prime" => ~primed
  /\ primed => /\ age = slowAge \/ (slowAge = SECOND /\ age >= SECOND)
               /\ pc \in {"work", "wait", "top"} \/ (pc = "tick" /\ ~cold)
                    => age <= SECOND - 1 + Budget
  /\ pc = "tick" => /\ primed /\ want => ~cold
                    /\ ~primed /\ want => cold /\ age # NEVER /\ age + left = WARM_UP

\* Of a page whose baseline has been lost: there is none.
LostInv(primed, want, age) ==
  /\ pc = "prime" => ~primed
  /\ primed => age = NEVER
  /\ pc = "tick" => /\ primed /\ want => ~cold
                    /\ ~primed /\ want => cold /\ age = NEVER

PagesInv ==
  /\ IF sinceLost = 0 THEN LostInv(netPrimed, WantNetwork(snap), netAge)
                      ELSE PageInv(netPrimed, WantNetwork(snap), netAge)
  /\ PageInv(gpuPrimed, WantGpu(snap), gpuAge)
  /\ netPrimed \/ gpuPrimed => procsAge # NEVER
  /\ ~netPrimed => conns = "none"
  /\ PageFiguresReal
  /\ pc = "tick" /\ ~cold => left = 0
  /\ pc = "work" => spent \in WorkTimes /\ left <= spent
  /\ pc = "top" => left = 0

\* Only one page is shown at a time.
LEMMA OnePage == \A c : ~(WantNetwork(c) /\ WantGpu(c))
BY DEF WantNetwork, WantGpu

LEMMA SnapshotPages ==
  ASSUME ShortIterations, TypeOK, PagesInv, Snapshot
  PROVE  PagesInv'
<1>. USE DEF Budget, PageFiguresReal
<1>1. pc = "top" /\ UNCHANGED <<listVars, slowAge>> /\ left = 0
  BY DEF Snapshot, ageVars, PagesInv
<1>2. CASE control.stop
  <2>1. pc' = "done" /\ UNCHANGED <<ageVars, sinceLost, left>>
    BY <1>2 DEF Snapshot
  <2>. QED
    BY <1>1, <2>1 DEF listVars, ageVars, PagesInv, PageInv, LostInv
<1>3. CASE ~control.stop
  <2>1. /\ pc' = "tick" /\ left' = IF cold' THEN WARM_UP ELSE 0
        /\ procsAge' = IF ColdProcs(control) THEN 0 ELSE procsAge
        /\ gpuAge' = IF ColdGpu(control) THEN 0 ELSE gpuAge
    BY <1>3 DEF Snapshot
  <2>2. cold' = (ColdProcs(control) \/ ColdNetwork(control) \/ ColdGpu(control))
    BY <1>3, Zenon DEF Snapshot
  <2>3. WantNetwork(snap)' = WantNetwork(control) /\ WantGpu(snap)' = WantGpu(control)
    BY DEF Snapshot, Wanted, WantNetwork, WantGpu
  <2>4. /\ ~netPrimed /\ WantNetwork(control) => cold'
        /\ ~gpuPrimed /\ WantGpu(control) => cold'
    BY <2>2 DEF ColdNetwork, ColdGpu
  <2>5. /\ netPrimed /\ WantNetwork(control) => ~cold'
        /\ gpuPrimed /\ WantGpu(control) => ~cold'
    BY <2>2, OnePage DEF ColdProcs, ColdNetwork, ColdGpu, PagesInv
  <2>7. (IF sinceLost = 0 THEN LostInv(netPrimed, WantNetwork(snap), netAge)
                          ELSE PageInv(netPrimed, WantNetwork(snap), netAge))'
    <3>1. CASE ColdNetwork(control)
      <4>1. PICK worked \in BOOLEAN : ReadSockets(worked)
        BY <1>3, <3>1 DEF Snapshot
      <4>2. ~netPrimed /\ ~netPrimed' /\ cold' /\ left' = WARM_UP
        BY <1>1, <2>1, <2>2, <3>1 DEF ColdNetwork, listVars
      <4>3. (sinceLost' = 0 /\ netAge' = NEVER) \/ (sinceLost' # 0 /\ netAge' = 0)
        BY <4>1 DEF ReadSockets
      <4>. QED
        BY <2>1, <4>2, <4>3 DEF PageInv, LostInv, NEVER
    <3>2. CASE ~ColdNetwork(control)
      <4>1. netAge' = netAge /\ sinceLost' = sinceLost
        BY <1>3, <3>2 DEF Snapshot
      <4>2. WantNetwork(control) => netPrimed
        BY <3>2 DEF ColdNetwork
      <4>3. CASE sinceLost = 0
        <5>1. LostInv(netPrimed, WantNetwork(snap), netAge)
          BY <4>3 DEF PagesInv
        <5>2. LostInv(netPrimed, WantNetwork(snap), netAge)'
          BY <1>1, <2>1, <2>3, <2>5, <4>1, <4>2, <5>1 DEF LostInv, listVars
        <5>. QED
          BY <4>1, <4>3, <5>2
      <4>4. CASE sinceLost # 0
        <5>1. PageInv(netPrimed, WantNetwork(snap), netAge)
          BY <4>4 DEF PagesInv
        <5>2. PageInv(netPrimed, WantNetwork(snap), netAge)'
          BY <1>1, <2>1, <2>3, <2>5, <4>1, <4>2, <5>1 DEF PageInv, listVars, NEVER, TypeOK
        <5>. QED
          BY <4>1, <4>4, <5>2
      <4>. QED
        BY <4>3, <4>4
    <3>. QED
      BY <3>1, <3>2
  <2>8. PageInv(gpuPrimed, WantGpu(snap), gpuAge)'
    <3>1. ColdGpu(control) => cold' /\ ~gpuPrimed
      BY <2>2 DEF ColdGpu
    <3>. QED
      BY <1>1, <2>1, <2>3, <2>4, <2>5, <3>1 DEF PagesInv, PageInv, ColdGpu, listVars, NEVER, TypeOK
  <2>9. PageFiguresReal'
    <3>1. CASE ColdNetwork(control)
      BY <1>1, <3>1 DEF PagesInv, ColdNetwork, listVars
    <3>2. CASE ~ColdNetwork(control)
      <4>1. sinceLost' = sinceLost
        BY <1>3, <3>2 DEF Snapshot
      <4>. QED
        BY <1>1, <4>1 DEF PagesInv, listVars
    <3>. QED
      BY <3>1, <3>2
  <2>. QED
    BY <1>1, <2>1, <2>7, <2>8, <2>9 DEF PagesInv, listVars, NEVER
<1>. QED
  BY <1>2, <1>3

LEMMA StartTickPages ==
  ASSUME ShortIterations, TypeOK, PagesInv, StartTick
  PROVE  PagesInv'
<1>1. /\ pc = "tick" /\ left = 0 /\ pc' = "work" /\ snap' = snap
      /\ spent' \in WorkTimes /\ left' = spent' /\ cold' = FALSE
  BY DEF StartTick
<1>2. WantNetwork(snap') = WantNetwork(snap) /\ WantGpu(snap') = WantGpu(snap)
  BY <1>1
<1>3. Budget' = 0
  BY <1>1 DEF Budget
<1>4. CASE SlowDue
  <2>1. SlowPass
    BY <1>4 DEF StartTick
  <2>2. WantNetwork(snap) /\ sinceLost # 0 => Figures(netAge) = "real"
    BY <1>1, <1>4, ShortIterations
       DEF PagesInv, PageInv, Budget, SlowDue, TypeOK, NEVER, Figures
  <2>3. WantGpu(snap) => Figures(gpuAge) = "real"
    BY <1>1, <1>4, ShortIterations
       DEF PagesInv, PageInv, Budget, SlowDue, TypeOK, NEVER, Figures
  <2>4. gpuProcs' # "zero"
    BY <2>1, <2>3 DEF SlowPass
  <2>7. /\ conns' = "zero" => sinceLost' = 1
        /\ ~netPrimed' => conns' = "none"
        /\ netPrimed' => \/ sinceLost' = 0 /\ netAge' = NEVER
                         \/ sinceLost' # 0 /\ netAge' = 0
    <3>1. CASE WantNetwork(snap)
      <4>1. PICK worked \in BOOLEAN :
                   /\ ReadSockets(worked)
                   /\ conns' = IF worked THEN Figures(netAge) ELSE "empty"
        BY <2>1, <3>1 DEF SlowPass
      <4>2. conns' = "zero" => sinceLost' = 1
        BY <2>2, <3>1, <4>1 DEF ReadSockets
      <4>3. (sinceLost' = 0 /\ netAge' = NEVER) \/ (sinceLost' # 0 /\ netAge' = 0)
        BY <4>1 DEF ReadSockets
      <4>4. netPrimed'
        BY <2>1, <3>1, Zenon DEF SlowPass
      <4>. QED
        BY <4>2, <4>3, <4>4
    <3>2. CASE ~WantNetwork(snap)
      <4>1. conns' = "none" /\ sinceLost' = 2
        BY <2>1, <3>2 DEF SlowPass
      <4>2. ~netPrimed'
        BY <2>1, <3>2, Zenon DEF SlowPass
      <4>. QED
        BY <4>1, <4>2
    <3>. QED
      BY <3>1, <3>2
  <2>8. gpuPrimed' = WantGpu(snap) /\ (gpuPrimed' => gpuAge' = 0)
    BY <2>1, Zenon DEF SlowPass
  <2>9. netPrimed' = WantNetwork(snap)
    BY <2>1, Zenon DEF SlowPass
  <2>10. slowAge' = 0 /\ (snap.detail > 0 => procsAge' # NEVER)
    BY <2>1 DEF SlowPass, NEVER
  <2>11. WantNetwork(snap) \/ WantGpu(snap) => snap.detail > 0
    BY DEF WantNetwork, WantGpu
  <2>12. (IF sinceLost = 0 THEN LostInv(netPrimed, WantNetwork(snap), netAge)
                           ELSE PageInv(netPrimed, WantNetwork(snap), netAge))'
    BY <1>1, <1>3, <2>7, <2>10 DEF PageInv, LostInv
  <2>13. PageInv(gpuPrimed, WantGpu(snap), gpuAge)'
    BY <1>1, <1>3, <2>8, <2>10 DEF PageInv
  <2>. QED
    BY <1>1, <2>4, <2>7, <2>8, <2>9, <2>10, <2>11, <2>12, <2>13 DEF PagesInv, PageFiguresReal
<1>5. CASE ~SlowDue
  <2>1. UNCHANGED <<ageVars, listVars, historyVars>> /\ ~cold /\ slowAge < SECOND
    BY <1>5 DEF StartTick, SlowDue, TypeOK
  <2>. QED
    BY <1>1, <1>2, <1>3, <2>1
       DEF PagesInv, PageInv, LostInv, PageFiguresReal, ageVars, listVars, historyVars, TypeOK
<1>. QED
  BY <1>4, <1>5

\* A tick uses up the budget exactly as fast as it ages the reading.
LEMMA ElapsePages ==
  ASSUME ShortIterations, TypeOK, PagesInv, Elapse
  PROVE  PagesInv'
<1>1. /\ left' = left - 1 /\ left > 0 /\ pc \notin {"done", "top"}
      /\ pc' = pc /\ snap' = snap /\ cold' = cold /\ spent' = spent
      /\ UNCHANGED <<listVars, historyVars>>
  BY DEF Elapse, PagesInv
<1>2. /\ slowAge' = Older(slowAge, SECOND) /\ procsAge' = Older(procsAge, WARM_UP)
      /\ netAge' = Older(netAge, STALE) /\ gpuAge' = Older(gpuAge, STALE)
  BY DEF Elapse
<1>3. SECOND <= STALE
  BY DEF ShortIterations
<1>4. /\ left \in Nat /\ spent \in Nat /\ SECOND \in Nat /\ SECOND > 0
      /\ WARM_UP \in Nat /\ STALE \in Nat /\ WARM_UP < STALE
      /\ slowAge \in 0 .. SECOND
      /\ procsAge \in NEVER .. WARM_UP
      /\ netAge \in NEVER .. STALE /\ gpuAge \in NEVER .. STALE
  BY DEF TypeOK
<1>5. procsAge # NEVER => procsAge' # NEVER
  BY <1>2, <1>4 DEF Older, NEVER
<1>6. pc \in {"work", "wait"} => Budget' = Budget + 1 /\ Budget \in Int
  BY <1>1, <1>4 DEF Budget
<1>13. pc = "tick" => cold
  BY <1>1, <1>4 DEF PagesInv
<1>7. ASSUME NEW primed \in BOOLEAN, NEW want \in BOOLEAN, NEW age \in NEVER .. STALE,
             NEW older, older = Older(age, STALE),
             PageInv(primed, want, age)
      PROVE  /\ pc' = "prime" => ~primed
             /\ primed => /\ older = slowAge' \/ (slowAge' = SECOND /\ older >= SECOND)
                          /\ pc' \in {"work", "wait", "top"} \/ (pc' = "tick" /\ ~cold')
                               => older <= SECOND - 1 + Budget'
             /\ pc' = "tick" => /\ primed /\ want => ~cold'
                                /\ ~primed /\ want => cold' /\ older # NEVER
                                                      /\ older + left' = WARM_UP
  <2>2. CASE primed
    <3>1. older = slowAge' \/ (slowAge' = SECOND /\ older >= SECOND)
      BY <1>2, <1>3, <1>4, <1>7, <2>2 DEF PageInv, Older, NEVER
    <3>2. pc \in {"work", "wait"} => age <= SECOND - 1 + Budget
      BY <1>7, <2>2 DEF PageInv
    <3>3. older <= age + 1
      BY <1>4, <1>7 DEF Older, NEVER
    <3>4. pc \in {"work", "wait"} => older <= SECOND - 1 + Budget'
      BY <1>4, <1>6, <1>7, <3>2, <3>3, older \in Int DEF Older, NEVER
    <3>. QED
      BY <1>1, <1>7, <1>13, <2>2, <3>1, <3>4 DEF PageInv
  <2>3. CASE ~primed
    BY <1>1, <1>4, <1>7, <2>3 DEF PageInv, Older, NEVER
  <2>. QED
    BY <2>2, <2>3
<1>8. WantNetwork(snap)' = WantNetwork(snap) /\ WantGpu(snap)' = WantGpu(snap)
  BY <1>1 DEF WantNetwork, WantGpu
<1>9. WantNetwork(snap) \in BOOLEAN /\ WantGpu(snap) \in BOOLEAN
  BY DEF WantNetwork, WantGpu
<1>10. /\ netPrimed \in BOOLEAN /\ gpuPrimed \in BOOLEAN
       /\ UNCHANGED <<netPrimed, gpuPrimed, conns, gpuProcs, sinceLost>>
  BY <1>1 DEF TypeOK, listVars, historyVars
<1>11. (IF sinceLost = 0 THEN LostInv(netPrimed, WantNetwork(snap), netAge)
                         ELSE PageInv(netPrimed, WantNetwork(snap), netAge))'
  <2>1. CASE sinceLost = 0
    <3>1. LostInv(netPrimed, WantNetwork(snap), netAge)
      BY <2>1 DEF PagesInv
    <3>2. netAge = NEVER => netAge' = NEVER
      BY <1>2 DEF Older
    <3>. QED
      BY <1>1, <1>8, <1>10, <2>1, <3>1, <3>2 DEF LostInv
  <2>2. CASE sinceLost # 0
    <3>1. PageInv(netPrimed, WantNetwork(snap), netAge)
      BY <2>2 DEF PagesInv
    <3>2. PageInv(netPrimed, WantNetwork(snap), netAge)'
      BY <1>2, <1>4, <1>7, <1>8, <1>9, <1>10, <3>1 DEF PageInv
    <3>. QED
      BY <1>10, <2>2, <3>2
  <2>. QED
    BY <2>1, <2>2
<1>12. PageInv(gpuPrimed, WantGpu(snap), gpuAge)'
  <2>1. PageInv(gpuPrimed, WantGpu(snap), gpuAge)
    BY DEF PagesInv
  <2>. QED
    BY <1>2, <1>4, <1>7, <1>8, <1>9, <1>10, <2>1 DEF PageInv
<1>. QED
  BY <1>1, <1>4, <1>5, <1>10, <1>11, <1>12, <1>13 DEF PagesInv, PageFiguresReal

\* The Network and GPU pages never show the zeros of a first reading, or of one
\* too old to difference over, when intervals and readings are short ("so the
\* lists show real figures at once instead of zeros", main.rs); only the reading
\* of the sockets that follows one that failed has none to compare with.
THEOREM PagesReal == ASSUME ShortIterations PROVE Spec => []PageFiguresReal
<1>1. Init => PagesInv
  BY DEF Init, PagesInv, PageInv, PageFiguresReal, NEVER
<1>2. TypeOK /\ PagesInv /\ [Next]_vars => PagesInv'
  <2>. SUFFICES ASSUME TypeOK, PagesInv, [Next]_vars
                PROVE  PagesInv'
    OBVIOUS
  <2>. USE DEF PagesInv, PageInv, LostInv, PageFiguresReal, Budget
  <2>1. ASSUME NEW line \in Line, Listen(line)
        PROVE  PagesInv'
    BY <2>1 DEF Listen, loopVars, ageVars, listVars, historyVars, WantNetwork, WantGpu
  <2>2. CASE ShellGone
    BY <2>2 DEF ShellGone, loopVars, ageVars, listVars, historyVars, WantNetwork, WantGpu
  <2>3. CASE Primed
    BY <2>3 DEF Primed, ageVars, listVars, historyVars, WantNetwork, WantGpu
  <2>4. CASE Snapshot
    BY <2>4, SnapshotPages
  <2>5. CASE StartTick
    BY <2>5, StartTickPages
  <2>6. CASE Emit
    <3>1. snap.interval \in Intervals /\ SECOND + snap.interval <= STALE
      BY DEF TypeOK, Request, ShortIterations
    <3>2. SECOND + spent <= STALE
      BY <2>6 DEF Emit, ShortIterations
    <3>. QED
      BY <2>6, <3>1, <3>2 DEF Emit, ageVars, listVars, historyVars, WantNetwork, WantGpu, TypeOK
  <2>7. CASE Woken
    BY <2>7 DEF Woken, ageVars, listVars, historyVars, WantNetwork, WantGpu, TypeOK
  <2>8. CASE Elapse
    BY <2>8, ElapsePages
  <2>9. CASE UNCHANGED vars
    BY <2>9 DEF vars, loopVars, ageVars, listVars, historyVars, WantNetwork, WantGpu
  <2>. QED
    BY <2>1, <2>2, <2>3, <2>4, <2>5, <2>6, <2>7, <2>8, <2>9 DEF Next, Loop
<1>3. PagesInv => PageFiguresReal
  BY DEF PagesInv
<1>. QED
  BY <1>1, <1>2, <1>3, TypeCorrect, PTL DEF Spec

-----------------------------------------------------------------------------
(* Pacing.  While nothing new was asked for since the last slow pass, every  *)
(* list the snapshot wants is open, so the iteration cannot be cold.         *)

PacedInv ==
  /\ pc = "tick" /\ cold => asked
  /\ ~asked => /\ snap.detail > 0 => procsAge # NEVER
               /\ WantNetwork(snap) => netPrimed
               /\ WantGpu(snap) => gpuPrimed

\* Files are walked at most once a second unless the panel asks for something
\* else ("sampled at most once a second whatever the interval", main.rs).
THEOREM Paced == Spec => SlowPassesPaced
<1>1. Init => PacedInv
  BY DEF Init, PacedInv, Wanted, FreshControl, WantNetwork, WantGpu
<1>2. TypeOK /\ PacedInv /\ [Next]_vars => PacedInv'
  <2>. SUFFICES ASSUME TypeOK, PacedInv, [Next]_vars
                PROVE  PacedInv'
    OBVIOUS
  <2>. USE DEF PacedInv
  <2>1. ASSUME NEW line \in Line, Listen(line)
        PROVE  PacedInv'
    BY <2>1 DEF Listen, loopVars, ageVars, listVars, historyVars, WantNetwork, WantGpu
  <2>2. CASE ShellGone
    BY <2>2 DEF ShellGone, loopVars, ageVars, listVars, historyVars, WantNetwork, WantGpu
  <2>3. CASE Primed
    BY <2>3 DEF Primed, ageVars, listVars, historyVars, WantNetwork, WantGpu
  <2>4. CASE Snapshot
    <3>1. asked' = (asked \/ snap' # snap) /\ UNCHANGED listVars
      BY <2>4, Zenon DEF Snapshot
    <3>2. CASE asked'
      BY <3>2
    <3>3. CASE ~asked'
      <4>1. ~asked /\ snap' = snap
        BY <3>1, <3>3
      <4>2. /\ WantNetwork(snap) = WantNetwork(control)
            /\ WantGpu(snap) = WantGpu(control)
            /\ snap.detail = control.detail
        BY <2>4, <4>1 DEF Snapshot, Wanted, WantNetwork, WantGpu
      <4>3. ~ColdProcs(control) /\ ~ColdNetwork(control) /\ ~ColdGpu(control)
        BY <4>1, <4>2, Zenon DEF ColdProcs, ColdNetwork, ColdGpu
      <4>4. procsAge' = procsAge /\ (pc' = "tick" => ~cold')
        BY <2>4, <4>3 DEF Snapshot, ageVars
      <4>. QED
        BY <3>1, <4>1, <4>4 DEF listVars, WantNetwork, WantGpu
    <3>. QED
      BY <3>2, <3>3
  <2>5. CASE StartTick
    <3>1. pc' = "work" /\ snap' = snap
      BY <2>5 DEF StartTick
    <3>2. WantNetwork(snap') = WantNetwork(snap) /\ WantGpu(snap') = WantGpu(snap)
      BY <3>1
    <3>3. CASE SlowDue
      <4>1. SlowPass
        BY <2>5, <3>3 DEF StartTick
      <4>2. snap.detail > 0 => procsAge' # NEVER
        BY <4>1 DEF SlowPass, NEVER
      <4>3. (WantNetwork(snap) => netPrimed') /\ (WantGpu(snap) => gpuPrimed')
        BY <4>1, Zenon DEF SlowPass
      <4>. QED
        BY <3>1, <3>2, <4>2, <4>3
    <3>4. CASE ~SlowDue
      BY <2>5, <3>1, <3>2, <3>4 DEF StartTick, SlowDue, ageVars, listVars, historyVars
    <3>. QED
      BY <3>3, <3>4
  <2>6. CASE Emit
    BY <2>6 DEF Emit, ageVars, listVars, historyVars, WantNetwork, WantGpu
  <2>7. CASE Woken
    BY <2>7 DEF Woken, ageVars, listVars, historyVars, WantNetwork, WantGpu
  <2>8. CASE Elapse
    <3>1. (procsAge' = NEVER) <=> (procsAge = NEVER)
      BY <2>8, OlderType DEF Elapse, TypeOK
    <3>. QED
      BY <2>8, <3>1 DEF Elapse, listVars, historyVars, WantNetwork, WantGpu
  <2>9. CASE UNCHANGED vars
    BY <2>9 DEF vars, loopVars, ageVars, listVars, historyVars, WantNetwork, WantGpu
  <2>. QED
    BY <2>1, <2>2, <2>3, <2>4, <2>5, <2>6, <2>7, <2>8, <2>9 DEF Next, Loop
<1>3. TypeOK /\ PacedInv => [StartTick /\ SlowDue /\ slowAge < SECOND => asked]_vars
  BY DEF PacedInv, StartTick, SlowDue, TypeOK
<1>. QED
  BY <1>1, <1>2, <1>3, TypeCorrect, PTL DEF Spec, SlowPassesPaced

-----------------------------------------------------------------------------
\* Every step of the sampler is a step of the abstract register of control
\* values, or changes nothing it knows of.  (That a request is eventually
\* applied, the register's fairness, is left to the model checker.)
THEOREM RefinesRegister == Spec => Register!Init /\ [][Register!Next]_(Register!vars)
<1>1. Init => Register!Init
  BY FreshType DEF Init, Register!Init, Mode
<1>2. TypeOK /\ TypeOK' /\ NoLostWakeup /\ [Next]_vars => [Register!Next]_(Register!vars)
  <2>. SUFFICES ASSUME TypeOK, TypeOK', NoLostWakeup, [Next]_vars
                PROVE  Register!Next \/ UNCHANGED Register!vars
    OBVIOUS
  <2>. USE DEF Register!Next, Register!vars
  <2>0. Wanted(control') \in Request
    BY WantedType DEF TypeOK
  <2>1. ASSUME NEW line \in Line, Listen(line)
        PROVE  Register!Request
    <3>1. Mode # "ended" /\ Mode' = "busy"
      BY <2>1 DEF Listen, loopVars, Mode
    <3>. QED
      BY <2>0, <2>1, <3>1 DEF Listen, loopVars, Register!Request
  <2>2. CASE ShellGone
    BY <2>2 DEF ShellGone, sharedVars, loopVars, Mode
  <2>3. CASE Primed
    BY <2>3 DEF Primed, sharedVars, Mode
  <2>4. CASE Snapshot
    <3>1. Wanted(control') = Wanted(control) /\ snap' = Wanted(control) /\ Mode = "busy"
      BY <2>4, WantedType DEF Snapshot, TypeOK, Mode
    <3>2. CASE control.stop
      <4>1. Mode' = "ended"
        BY <2>4, <3>2 DEF Snapshot, Mode
      <4>. QED
        BY <3>1, <4>1 DEF Register!End
    <3>3. CASE ~control.stop
      <4>1. Mode' = "busy"
        BY <2>4, <3>3 DEF Snapshot, Mode
      <4>. QED
        BY <3>1, <4>1 DEF Register!Apply
    <3>. QED
      BY <3>2, <3>3
  <2>5. CASE StartTick
    BY <2>5 DEF StartTick, sharedVars, Mode
  <2>6. CASE Emit
    <3>1. Mode = "busy" /\ UNCHANGED <<control, wake, snap>>
      BY <2>6 DEF Emit, sharedVars, Mode
    <3>2. CASE ~reader
      <4>1. Mode' = "ended"
        BY <2>6, <3>2 DEF Emit, Mode
      <4>. QED
        BY <3>1, <4>1 DEF Register!End
    <3>3. CASE reader /\ wake
      BY <2>6, <3>1, <3>3 DEF Emit, Mode
    <3>4. CASE reader /\ ~wake
      <4>1. Mode' = "resting"
        BY <2>6, <3>1, <3>4 DEF Emit, Mode
      <4>2. snap = Wanted(control)
        BY <2>6, <3>4 DEF Emit, NoLostWakeup
      <4>. QED
        BY <3>1, <4>1, <4>2 DEF Register!Rest
    <3>. QED
      BY <3>2, <3>3, <3>4
  <2>7. CASE Woken
    <3>1. Mode' = "busy" /\ UNCHANGED <<control, snap>> /\ Mode \in {"busy", "resting"}
      BY <2>7 DEF Woken, Mode
    <3>. QED
      BY <3>1 DEF Register!Resume
  <2>8. CASE Elapse
    BY <2>8 DEF Elapse, sharedVars, Mode
  <2>9. CASE UNCHANGED vars
    BY <2>9 DEF vars, sharedVars, loopVars, Mode
  <2>. QED
    BY <2>1, <2>2, <2>3, <2>4, <2>5, <2>6, <2>7, <2>8, <2>9 DEF Next, Loop
<1>. QED
  BY <1>1, <1>2, TypeCorrect, LostWakeupFree, PTL DEF Spec
=============================================================================
