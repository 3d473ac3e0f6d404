----------------------------- MODULE SamplerLoop -----------------------------
(***************************************************************************)
(* The sampler process of sampler/src/main.rs: the listener thread, which  *)
(* handles control lines under the lock, and the sampling loop, which      *)
(* takes a snapshot of the control state, reads whatever is due, writes    *)
(* one line and sleeps until the interval is over or a line wakes it.      *)
(*                                                                         *)
(* Time is discrete.  Ages count ticks since an event and stop counting at *)
(* the last value anything compares them with.  What is read (processes,   *)
(* sockets, cards) is abstracted to which list a line carries and whether  *)
(* its figures are differences over a usable gap.                          *)
(***************************************************************************)
EXTENDS ControlLines

CONSTANTS
  WARM_UP,     \* ticks between the two readings that start a list
  STALE,       \* a gap of this many ticks is too long to difference over
  WorkTimes    \* how many ticks one iteration's reading may take

ASSUME LoopAssumption ==
  /\ WARM_UP \in Nat \ {0} /\ WARM_UP <= SECOND
  /\ STALE \in Nat /\ WARM_UP < STALE
  /\ WorkTimes \subseteq Nat /\ WorkTimes # {}

VARIABLES
  reader,      \* is somebody reading stdout?
  control,     \* the Control struct behind the mutex
  wake,        \* its wake field, what the condition variable waits for
  pc,          \* where the sampling loop is
  snap,        \* the loop's copy of what is wanted, for this iteration
  cold,        \* does this iteration open a list (cold_procs, _network, _gpu)?
  left,        \* ticks left of the sleep, the reading or the wait
  spent,       \* ticks this iteration's reading took
  slowAge,     \* since last_slow, up to SECOND; none counts as SECOND
  procsAge,    \* since last_procs, up to WARM_UP, or NEVER
  netAge,      \* since sockets_time, up to STALE, or NEVER
  gpuAge,      \* since gpu_time, up to STALE, or NEVER
  procs,       \* procs_cache: the list, or NoList
  conns,       \* connections_cache: "none", "empty", or what its figures are
  gpuProcs,    \* gpu_procs_cache: "none", or what its figures are
  netPrimed, gpuPrimed,
  asked,       \* history: has the request changed since the last slow pass?
  sinceLost    \* history: readings of the sockets, since the page opened, that
               \* have worked since one failed, up to 2

sharedVars == <<control, wake>>
loopVars   == <<pc, snap, cold, left, spent>>
ageVars    == <<slowAge, procsAge, netAge, gpuAge>>
listVars   == <<procs, conns, gpuProcs, netPrimed, gpuPrimed>>
historyVars == <<asked, sinceLost>>
vars == <<reader, sharedVars, loopVars, ageVars, listVars, historyVars>>

NEVER  == -1
NoList == [full |-> FALSE, drives |-> FALSE, figures |-> "none"]
Lists  == [full : BOOLEAN, drives : BOOLEAN, figures : {"none", "zero", "real"}]

Older(age, cap) == IF age = NEVER \/ age >= cap THEN age ELSE age + 1

\* A rate needs an earlier reading that is not too old (usable in procs.rs).
Figures(age) == IF 0 < age /\ age < STALE THEN "real" ELSE "zero"

\* One reading of the sockets.  When ss fails, takes too long, finds nothing or
\* too much, the earlier reading is forgotten and its time with it.
ReadSockets(worked) ==
  IF worked THEN netAge' = 0     /\ sinceLost' = IF sinceLost = 0 THEN 1 ELSE 2
            ELSE netAge' = NEVER /\ sinceLost' = 0

WantNetwork(c) == c.detail > 0 /\ c.focus = "network"
WantGpu(c)     == c.detail > 0 /\ c.focus = "gpu"

\* Mutants: only a panel that opens unexpanded is warmed up; only a panel that
\* opens on the Network page is; the page is warmed up on every iteration.
ColdProcsAtLevel1(c)     == c.detail = 1 /\ procsAge = NEVER
ColdNetworkAtOpening(c)  == WantNetwork(c) /\ ~netPrimed /\ procsAge = NEVER
ColdNetworkUnprimed(c)   == WantNetwork(c)

ColdProcs(c)   == c.detail > 0 /\ procsAge = NEVER
ColdNetwork(c) == WantNetwork(c) /\ ~netPrimed
ColdGpu(c)     == WantGpu(c) /\ ~gpuPrimed

Init ==
  /\ reader = TRUE
  /\ control = FreshControl
  /\ wake = FALSE
  /\ pc = "prime"
  /\ snap = Wanted(FreshControl)
  /\ cold = FALSE
  /\ left = SECOND
  /\ spent = 0
  /\ slowAge = SECOND
  /\ procsAge = NEVER /\ netAge = NEVER /\ gpuAge = NEVER
  /\ procs = NoList
  /\ conns = "none" /\ gpuProcs = "none"
  /\ netPrimed = FALSE /\ gpuPrimed = FALSE
  /\ asked = FALSE
  /\ sinceLost = 2

-----------------------------------------------------------------------------
(* The shell stops reading.                                                *)

ShellGone ==
  /\ reader
  /\ reader' = FALSE
  /\ UNCHANGED <<sharedVars, loopVars, ageVars, listVars, historyVars>>

-----------------------------------------------------------------------------
(* The listener thread handles the next line of stdin, whatever it is.     *)

Listen(line) ==
  /\ pc # "done"
  /\ control' = Obey(control, line)
  /\ wake' = TRUE
  /\ UNCHANGED <<reader, loopVars, ageVars, listVars, historyVars>>

-----------------------------------------------------------------------------
(* The sampling loop.                                                      *)

\* The delta samplers are primed and the loop starts.
Primed ==
  /\ pc = "prime"
  /\ left = 0
  /\ pc' = "top"
  /\ UNCHANGED <<reader, sharedVars, snap, cold, left, spent,
                 ageVars, listVars, historyVars>>

\* Under the lock, copy the control state and take the public IP request; a
\* stop ends the process.  A list being opened gets its first reading now and
\* its second after WARM_UP.
Snapshot ==
  /\ pc = "top"
  /\ snap' = Wanted(control)
  /\ asked' = (asked \/ snap' # snap)
  /\ control' = [control EXCEPT !.pubip = FALSE]
  /\ IF control.stop
     THEN /\ pc' = "done"
          /\ UNCHANGED <<cold, left, ageVars, sinceLost>>
     ELSE /\ pc' = "tick"
          /\ cold' = (ColdProcs(control) \/ ColdNetwork(control) \/ ColdGpu(control))
          /\ left' = IF cold' THEN WARM_UP ELSE 0
          /\ procsAge' = IF ColdProcs(control) THEN 0 ELSE procsAge
          /\ IF ColdNetwork(control)
             THEN \E worked \in BOOLEAN : ReadSockets(worked)
             ELSE UNCHANGED <<netAge, sinceLost>>
          /\ gpuAge' = IF ColdGpu(control) THEN 0 ELSE gpuAge
          /\ UNCHANGED slowAge
  /\ UNCHANGED <<reader, wake, spent, listVars>>

\* Mutant: a page just opened waits for the next once-a-second pass.
SlowDueByAge == slowAge = SECOND

SlowDue == cold \/ slowAge = SECOND

\* Everything that walks many files: the process list, the sockets, what each
\* process uses of every card.  Lists nobody shows are dropped.
SlowPass ==
  /\ IF snap.detail > 0
     THEN /\ procs' = [full |-> snap.detail = 2,
                       drives |-> snap.focus = "disks",
                       figures |-> IF procsAge = WARM_UP THEN "real" ELSE "zero"]
          /\ procsAge' = 0
     ELSE procs' = NoList /\ procsAge' = NEVER
  /\ netPrimed' = WantNetwork(snap)
  /\ IF WantNetwork(snap)
     THEN \E worked \in BOOLEAN :
            /\ ReadSockets(worked)
            /\ conns' = IF worked THEN Figures(netAge) ELSE "empty"
     ELSE conns' = "none" /\ sinceLost' = 2 /\ UNCHANGED netAge
  /\ gpuPrimed' = WantGpu(snap)
  /\ IF WantGpu(snap)
     THEN gpuProcs' = Figures(gpuAge) /\ gpuAge' = 0
     ELSE gpuProcs' = "none" /\ gpuAge' = IF gpuPrimed THEN NEVER ELSE gpuAge
  /\ slowAge' = 0
  /\ asked' = FALSE

\* One iteration reads what is due; the reading takes a while.
StartTick ==
  /\ pc = "tick"
  /\ left = 0
  /\ pc' = "work"
  /\ spent' \in WorkTimes
  /\ left' = spent'
  /\ IF SlowDue THEN SlowPass ELSE UNCHANGED <<ageVars, listVars, historyVars>>
  /\ cold' = FALSE
  /\ UNCHANGED <<reader, sharedVars, snap>>

\* Mutant: the wake flag is cleared before the wait instead of after it.
EmitClearingWake ==
  /\ pc = "work"
  /\ left = 0
  /\ pc' = IF reader THEN "wait" ELSE "done"
  /\ left' = IF snap.interval > spent THEN snap.interval - spent ELSE 0
  /\ wake' = FALSE
  /\ spent' = 0
  /\ UNCHANGED <<reader, control, snap, cold, ageVars, listVars, historyVars>>

\* Mutant: a failed write is ignored.
EmitIgnoringErrors ==
  /\ pc = "work"
  /\ left = 0
  /\ pc' = "wait"
  /\ left' = IF snap.interval > spent THEN snap.interval - spent ELSE 0
  /\ spent' = 0
  /\ UNCHANGED <<reader, sharedVars, snap, cold, ageVars, listVars, historyVars>>

\* One line is written and the loop goes to sleep for the rest of the
\* interval; a broken stdout ends the process.
Emit ==
  /\ pc = "work"
  /\ left = 0
  /\ IF reader
     THEN /\ pc' = "wait"
          /\ left' = IF snap.interval > spent THEN snap.interval - spent ELSE 0
     ELSE pc' = "done" /\ UNCHANGED left
  /\ spent' = 0
  /\ UNCHANGED <<reader, sharedVars, snap, cold, ageVars, listVars, historyVars>>

\* wait_timeout_while returns: woken, or the time is up.
Woken ==
  /\ pc = "wait"
  /\ wake \/ left = 0
  /\ wake' = FALSE
  /\ pc' = "top"
  /\ left' = 0
  /\ UNCHANGED <<reader, control, snap, cold, spent, ageVars, listVars, historyVars>>

\* Time passes while the loop sleeps, reads or waits.
Elapse ==
  /\ left > 0
  /\ ~(pc = "wait" /\ wake)
  /\ pc # "done"
  /\ left' = left - 1
  /\ slowAge' = Older(slowAge, SECOND)
  /\ procsAge' = Older(procsAge, WARM_UP)
  /\ netAge' = Older(netAge, STALE)
  /\ gpuAge' = Older(gpuAge, STALE)
  /\ UNCHANGED <<reader, sharedVars, pc, snap, cold, spent, listVars, historyVars>>

Loop == Primed \/ Snapshot \/ StartTick \/ Emit \/ Woken

Next ==
  \/ \E line \in Line : Listen(line)
  \/ ShellGone
  \/ Loop
  \/ Elapse

\* The loop's thread is scheduled and time passes; the shell owes nothing.
Fairness == WF_vars(Loop) /\ WF_vars(Elapse)

Spec == Init /\ [][Next]_vars /\ Fairness

-----------------------------------------------------------------------------
TypeOK ==
  /\ reader \in BOOLEAN
  /\ control \in Control
  /\ wake \in BOOLEAN
  /\ pc \in {"prime", "top", "tick", "work", "wait", "done"}
  /\ snap \in Request
  /\ cold \in BOOLEAN
  /\ left \in Nat
  /\ spent \in Nat
  /\ slowAge \in 0 .. SECOND
  /\ procsAge \in NEVER .. WARM_UP
  /\ netAge \in NEVER .. STALE
  /\ gpuAge \in NEVER .. STALE
  /\ procs \in Lists
  /\ conns \in {"none", "empty", "zero", "real"}
  /\ gpuProcs \in {"none", "zero", "real"}
  /\ netPrimed \in BOOLEAN
  /\ gpuPrimed \in BOOLEAN
  /\ asked \in BOOLEAN
  /\ sinceLost \in 0 .. 2

\* No wakeup is lost: from the snapshot of an iteration to the end of its
\* wait, either that snapshot is what the shell last asked for, with no public
\* IP request left behind, or the wake flag is set and the wait will not last.
NoLostWakeup ==
  pc \in {"tick", "work", "wait"} /\ ~wake =>
    snap = Wanted(control) /\ ~control.pubip

\* The lists of the page that a line is for are there.
ListsThere ==
  /\ snap.detail > 0 => procs # NoList
  /\ WantNetwork(snap) => conns # "none"
  /\ WantGpu(snap) => gpuProcs # "none"

\* The process list is the one asked for: every process for an unfolded list,
\* with the processes on each drive for the Disks page.
ListsFit ==
  snap.detail > 0 => /\ procs.full = (snap.detail = 2)
                     /\ procs.drives = (snap.focus = "disks")

\* A panel, or a Network or GPU page, just opened is read in the same
\* iteration, and every line has its lists.  Not so an unfolded list and the
\* Disks page: they may still have the list of what was shown before, but only
\* when the request changed after the last slow pass and less than a second
\* has gone by since that pass.
ShownListsPresent ==
  [][StartTick => ListsThere' /\ (ListsFit' \/ (asked /\ slowAge < SECOND))]_vars

\* The process list never shows the zeros of a first reading: its figures are
\* differences from a reading at least WARM_UP earlier.
ProcessFiguresReal == procs.figures # "zero"

\* The same of the lists of the Network and GPU pages, whose rates also need
\* the earlier reading to be recent.  The one exception is the first reading of
\* the sockets after one that failed, which has nothing to be compared with.
PageFiguresReal == gpuProcs # "zero" /\ (conns = "zero" => sinceLost = 1)

\* Everything that walks many files is read at most once a second, however
\* short the interval, unless the panel has asked for something else since.
SlowPassesPaced ==
  [][StartTick /\ SlowDue /\ slowAge < SECOND => asked]_vars

\* A quit ends the sampler, whatever it is doing.
QuitEnds == control.stop ~> pc = "done"

\* A sampler whose output nobody reads does not outlive its shell.
NoOrphan == ~reader ~> pc = "done"

\* The loop implements the abstract register of control values.
Mode == CASE pc = "done" -> "ended"
          [] pc = "wait" /\ ~wake -> "resting"
          [] OTHER -> "busy"

Register == INSTANCE ControlRegister WITH
  Value <- Request,
  wanted <- Wanted(control),
  applied <- snap,
  mode <- Mode

ImplementsRegister == Register!Spec
=============================================================================
