---------------------------- MODULE Readers_proofs ----------------------------
(***************************************************************************)
(* Theorems about the readers, in every behaviour of the three together:   *)
(* about run(), for every limit on the output, every timeout, every size   *)
(* of the pipe and whether or not the helper may hang; about the volumes,  *)
(* from what Volumes_proofs shows of them alone; and about the counters,   *)
(* for any counters, users and range.                                      *)
(***************************************************************************)
EXTENDS Readers, FiniteSetTheorems, WellFoundedInduction, TLAPS

VP == INSTANCE Volumes_proofs WITH pc <- vpc

\* Together the readers do what each of them does alone.
LEMMA PartsAlone ==
  ReadersSpec => /\ Init   /\ [][Next]_vars
                 /\ V!Init /\ [][V!Next]_volumesVars
                 /\ M!Init /\ [][M!Next]_metersVars
<1>1. ReadersInit => Init /\ V!Init /\ M!Init
  BY DEF ReadersInit
<1>2. [ReadersNext]_all => /\ [Next]_vars /\ [V!Next]_volumesVars /\ [M!Next]_metersVars
  BY DEF ReadersNext, OnlyRun, OnlyVolumes, OnlyMeters, all
<1>. QED
  BY <1>1, <1>2, PTL DEF ReadersSpec

-----------------------------------------------------------------------------
(* run().                                                                    *)

USE HelperAssumption

\* The end of the output is final: nobody is left to write.
EofInv ==
  /\ eof => ~Writers /\ pipe = 0
  /\ eof => pc # "spawn"
  /\ result = "output" => eof

\* A helper that has been reaped, or is being waited for, leaves no process in
\* its group that could start another.
GroupInv ==
  /\ pc = "spawn" => helper = "none" /\ heir = "none"
  /\ pc \notin {"spawn", "done"} => helper # "none"
  /\ exited => helper = "reaped" /\ heir \notin {"inside", "closed"}
  /\ pc = "reap" => /\ helper \in {"hung", "zombie", "reaped"}
                    /\ helper = "hung" => doomed
                    /\ heir \notin {"inside", "closed"}
  /\ pc = "done" => helper \in {"none", "reaped"} /\ heir \notin {"inside", "closed"}
  /\ result = "output" => exited

IInv == TypeOK /\ EofInv /\ GroupInv

\* Killing the group ends whoever is in it, and lets nobody write who could
\* not before.
LEMMA Killed ==
  ASSUME IInv, NEW h \in {"running", "hung", "zombie", "reaped"}, KillGroup(h),
         h # helper => helper = "zombie" /\ h = "reaped"
  PROVE  /\ helper' \in {"hung", "zombie", "reaped"}
         /\ helper' = "hung" => doomed'
         /\ h = "reaped" => helper' = "reaped"
         /\ heir' \in {"none", "outside", "dead"}
         /\ ~Writers => ~Writers'
         /\ doomed' \in BOOLEAN
BY DEF KillGroup, IInv, TypeOK, Writers, Alive

\* A failure leaves everything but the processes and the place as it was.
LEMMA GivenUp ==
  ASSUME IInv, GiveUp, pc # "spawn", pc # "done", helper # "none",
         pipe' \in 0 .. PIPE, pipe' <= pipe,
         UNCHANGED <<output, eof, exited, clock, result>>
  PROVE  IInv'
<1>1. helper \in {"running", "hung", "zombie", "reaped"}
  BY DEF IInv, TypeOK
<1>2. /\ helper' \in {"hung", "zombie", "reaped"}
      /\ helper' = "hung" => doomed'
      /\ helper = "reaped" => helper' = "reaped"
      /\ heir' \in {"none", "outside", "dead"}
      /\ ~Writers => ~Writers'
      /\ doomed' \in BOOLEAN
  BY <1>1, Killed DEF GiveUp
<1>3. pc' = "reap"
  BY DEF GiveUp
<1>4. TypeOK'
  BY <1>2, <1>3 DEF IInv, TypeOK
<1>5. EofInv'
  BY <1>2, <1>3 DEF IInv, TypeOK, EofInv
<1>6. GroupInv'
  BY <1>2, <1>3 DEF IInv, GroupInv
<1>. QED
  BY <1>4, <1>5, <1>6 DEF IInv

LEMMA Inductive == IInv /\ [Next]_vars => IInv'
<1>. SUFFICES ASSUME IInv, [Next]_vars
              PROVE  IInv'
  OBVIOUS
<1>. USE DEF procVars
<1>0. pc \notin {"spawn", "done"} => helper # "none"
  BY DEF IInv, GroupInv
<1>1. CASE Others
  <2>. USE DEF IInv
  <2>1. CASE Write
    BY <1>1, <2>1 DEF Others, Write, TypeOK, EofInv, GroupInv, Writers, Alive
  <2>2. CASE Fork
    BY <1>1, <2>2 DEF Others, Fork, TypeOK, EofInv, GroupInv, Writers, Alive
  <2>3. CASE Leave
    BY <1>1, <2>3 DEF Others, Leave, TypeOK, EofInv, GroupInv, Writers, Alive
  <2>4. CASE Hang
    BY <1>1, <2>4 DEF Others, Hang, TypeOK, EofInv, GroupInv, Writers, Alive
  <2>5. CASE Unhang
    BY <1>1, <2>5 DEF Others, Unhang, TypeOK, EofInv, GroupInv, Writers, Alive
  <2>. QED
    BY <1>1, <2>1, <2>2, <2>3, <2>4, <2>5 DEF Others
<1>2. CASE Spawn
  BY <1>2 DEF Spawn, IInv, TypeOK, EofInv, GroupInv, Writers, Alive
<1>3. CASE SetupFails
  BY <1>0, <1>3, GivenUp DEF SetupFails, IInv, TypeOK
<1>4. CASE Read
  <2>1. CASE output + 1 > OUTPUT_LIMIT
    <3>1. /\ GiveUp /\ UNCHANGED <<output, eof, exited, clock, result>>
          /\ pipe' \in 0 .. PIPE /\ pipe' <= pipe
      BY <1>4, <2>1 DEF Read, IInv, TypeOK
    <3>. QED
      BY <1>0, <1>4, <3>1, GivenUp DEF Read
  <2>2. CASE ~(output + 1 > OUTPUT_LIMIT)
    BY <1>4, <2>2 DEF Read, IInv, TypeOK, EofInv, GroupInv, Writers, Alive
  <2>. QED
    BY <2>1, <2>2
<1>5. CASE ReadNothing
  BY <1>5 DEF ReadNothing, IInv, TypeOK, EofInv, GroupInv, Writers, Alive
<1>6. CASE ReadFails
  BY <1>0, <1>6, GivenUp DEF ReadFails, IInv, TypeOK
<1>7. CASE Poll
  <2>1. /\ pc = "poll" /\ pc' \in {"done", "expired", "nap"}
        /\ pc' = "done" => exited' /\ eof
        /\ result' = result \/ (result' = "output" /\ exited' /\ eof)
        /\ UNCHANGED <<pipe, output, eof, clock>>
    BY <1>7 DEF Poll
  <2>2. CASE ~exited /\ helper = "zombie"
    <3>1. exited' = TRUE /\ KillGroup("reaped")
      BY <1>7, <2>2 DEF Poll, TryWait
    <3>2. /\ helper' = "reaped" /\ heir' \in {"none", "outside", "dead"}
          /\ ~Writers => ~Writers'
          /\ doomed' \in BOOLEAN
      BY <2>2, <3>1, Killed
    <3>3. TypeOK'
      BY <2>1, <3>1, <3>2 DEF IInv, TypeOK
    <3>4. EofInv'
      BY <2>1, <3>2 DEF IInv, EofInv
    <3>5. GroupInv'
      BY <2>1, <3>1, <3>2 DEF IInv, GroupInv
    <3>. QED
      BY <3>3, <3>4, <3>5 DEF IInv
  <2>3. CASE ~(~exited /\ helper = "zombie")
    <3>1. UNCHANGED <<exited, helper, heir, doomed>>
      BY <1>7, <2>3 DEF Poll, TryWait
    <3>2. TypeOK'
      BY <2>1, <3>1 DEF IInv, TypeOK
    <3>3. EofInv'
      BY <2>1, <3>1 DEF IInv, EofInv, Writers, Alive
    <3>4. GroupInv'
      BY <2>1, <3>1 DEF IInv, GroupInv
    <3>. QED
      BY <3>2, <3>3, <3>4 DEF IInv
  <2>. QED
    BY <2>2, <2>3
<1>8. CASE Expire
  BY <1>0, <1>8, GivenUp DEF Expire, IInv, TypeOK
<1>9. CASE Nap
  BY <1>9 DEF Nap, IInv, TypeOK, EofInv, GroupInv, Writers, Alive
<1>10. CASE Reap
  BY <1>10 DEF Reap, IInv, TypeOK, EofInv, GroupInv, Writers, Alive
<1>11. CASE UNCHANGED vars
  BY <1>11 DEF vars, IInv, TypeOK, EofInv, GroupInv, Writers, Alive
<1>. QED
  BY <1>1, <1>2, <1>3, <1>4, <1>5, <1>6, <1>7, <1>8, <1>9, <1>10, <1>11 DEF Next, Run

LEMMA Invariant == ReadersSpec => []IInv
<1>1. Init => IInv
  <2>. SUFFICES ASSUME Init PROVE IInv
    OBVIOUS
  <2>1. pipe \in 0 .. PIPE /\ output \in 0 .. OUTPUT_LIMIT /\ clock \in 0 .. TIMEOUT
    BY DEF Init
  <2>2. TypeOK
    BY <2>1 DEF Init, TypeOK
  <2>3. EofInv /\ GroupInv
    BY DEF Init, EofInv, GroupInv
  <2>. QED
    BY <2>2, <2>3 DEF IInv
<1>. QED
  BY <1>1, Inductive, PartsAlone, PTL

\* Every state of run() is well formed, and it keeps no more than the limit.
THEOREM TypeCorrect == ReadersSpec => []TypeOK
<1>1. IInv => TypeOK
  BY DEF IInv
<1>. QED
  BY <1>1, Invariant, PTL

\* When run() in util.rs returns, its helper has been reaped and no process is
\* left in the helper's group, on every path.
THEOREM NoneLeft == ReadersSpec => []NothingLeft
<1>1. IInv => NothingLeft
  BY DEF IInv, GroupInv, NothingLeft
<1>. QED
  BY <1>1, Invariant, PTL

\* The output run() returns is complete: it is never cut where the helper
\* exits between the last read and the poll.
THEOREM NoneMissing == ReadersSpec => []NothingMissing
<1>1. IInv => NothingMissing
  BY DEF IInv, EofInv, NothingMissing
<1>. QED
  BY <1>1, Invariant, PTL

-----------------------------------------------------------------------------
(* The volumes among the readers.  V and VP are the same module, read twice. *)

LEMMA SameTypes ==
  /\ V!TypeOK <=> VP!TypeOK
  /\ V!OneHelperPerMount <=> VP!OneHelperPerMount
  /\ V!VolumesListed <=> VP!VolumesListed
BY DEF V!TypeOK, VP!TypeOK, V!OneHelperPerMount, VP!OneHelperPerMount,
       V!VolumesListed, VP!VolumesListed, V!NetworkPaths, VP!NetworkPaths,
       V!Devices, VP!Devices

LEMMA SameInit == V!Init => VP!Init
BY DEF V!Init, VP!Init, V!NetworkPaths, VP!NetworkPaths

LEMMA SameWorld == V!World => VP!World
BY DEF V!World, VP!World, V!Mount, VP!Mount, V!Unmount, VP!Unmount, V!Fall, VP!Fall,
       V!Rise, VP!Rise, V!NetworkPaths, VP!NetworkPaths, V!scan, VP!scan, V!cached, VP!cached

LEMMA SameLimit == V!AtLimit <=> VP!AtLimit
BY DEF V!AtLimit, VP!AtLimit, V!Cardinality, VP!Cardinality

LEMMA SameLook == V!Look => VP!Look
BY SameLimit DEF V!Look, VP!Look, V!IsNext, VP!IsNext, V!Skip, VP!Skip,
       V!CountOnly, VP!CountOnly, V!Statvfs, VP!Statvfs, V!LeaveStuck, VP!LeaveStuck,
       V!Ask, VP!Ask, V!Shadowed, VP!Shadowed, V!Count, VP!Count, V!Keep, VP!Keep,
       V!HasSpace, VP!HasSpace, V!world, VP!world, V!cached, VP!cached

LEMMA SameReturn == \A p : (V!Return(p) => VP!Return(p)) /\ (V!Fail(p) => VP!Fail(p))
BY DEF V!Return, VP!Return, V!Fail, VP!Fail, V!Ends, VP!Ends, V!Keep, VP!Keep,
       V!world, VP!world, V!cached, VP!cached

LEMMA SameNext == V!Next => VP!Next
<1>1. /\ V!Tick => VP!Tick
      /\ V!Sample => VP!Sample
      /\ V!Expire => VP!Expire
      /\ V!EndScan => VP!EndScan
  BY SameLimit DEF V!Tick, VP!Tick, V!Sample, VP!Sample, V!Expire, VP!Expire, V!EndScan, VP!EndScan,
         V!world, VP!world, V!scan, VP!scan, V!cached, VP!cached
<1>. QED
  BY <1>1, SameWorld, SameLook, SameReturn
  DEF V!Next, VP!Next, V!Loop, VP!Loop, V!NetworkPaths, VP!NetworkPaths

\* Whatever the step is of, the volumes take a step of theirs or stay.
LEMMA StepVolumes == [ReadersNext]_all => [VP!Next]_(VP!vars)
<1>1. UNCHANGED volumesVars => UNCHANGED VP!vars
  BY DEF volumesVars, VP!vars, VP!world, VP!scan, VP!cached
<1>. QED
  BY <1>1, SameNext DEF ReadersNext, OnlyRun, OnlyMeters, all

VolumesInv == VP!TypeOK /\ VP!OneHelperPerMount /\ VP!ListInv

LEMMA VolumesInvariant == ReadersSpec => []VolumesInv
<1>. USE DEF VolumesInv
<1>1. VP!Numbers
  BY ReadersAssumption DEF VP!Numbers
<1>2. ReadersInit => VolumesInv
  <2>. SUFFICES ASSUME VP!Init PROVE VolumesInv
    BY SameInit DEF ReadersInit
  <2>1. VP!TypeOK
    BY <1>1, VP!InitType
  <2>2. VP!OneHelperPerMount
    BY DEF VP!Init, VP!OneHelperPerMount
  <2>3. VP!ListInv
    BY DEF VP!Init, VP!ListInv, VP!Waited, VP!Apart, VP!Shortest, VP!Stored, VP!Settled
  <2>. QED
    BY <2>1, <2>2, <2>3
<1>3. VolumesInv /\ [ReadersNext]_all => VolumesInv'
  <2>. SUFFICES ASSUME VolumesInv, [VP!Next]_(VP!vars) PROVE VolumesInv'
    BY StepVolumes
  <2>1. VP!TypeOK'
    BY <1>1, VP!StepType
  <2>2. VP!OneHelperPerMount'
    BY VP!StepHelpers
  <2>3. VP!ListInv'
    BY <1>1, VP!StepList
  <2>. QED
    BY <2>1, <2>2, <2>3
<1>. QED
  BY <1>2, <1>3, PTL DEF ReadersSpec

\* However often a mount whose server is down is sampled, it holds one helper
\* thread at most (statvfs_bounded).
THEOREM OneHelper == ReadersSpec => []OneHelperPerMount
<1>1. VolumesInv => OneHelperPerMount
  BY SameTypes DEF VolumesInv, OneHelperPerMount
<1>. QED
  BY <1>1, VolumesInvariant, PTL

\* A finished scan lists each device at its shortest mount that told its space,
\* whatever the limit of volumes and whichever helpers returned late or not at
\* all (scan_volumes).
THEOREM ShortestListed == ReadersSpec => []VolumesListed
<1>1. VolumesInv => VP!VolumesListed
  BY DEF VolumesInv, VP!ListInv, VP!Waited, VP!Apart, VP!Shortest, VP!Stored,
         VP!Settled, VP!Shadowed, VP!VolumesListed
<1>2. VolumesInv => VolumesListed
  BY <1>1, SameTypes DEF VolumesInv, VolumesListed
<1>. QED
  BY <1>2, VolumesInvariant, PTL

-----------------------------------------------------------------------------
(* The counters.  What has been counted since the reading before is what was *)
(* used since, less what a counter of energy loses where it wraps around.    *)

\* What a reading makes of a counter.
Figure(k) == IF M!Energy THEN M!EnergyDelta(counters[k], prev[k])
             ELSE M!Sub(counters[k], prev[k])

\* For every counter that two readings have, whatever came and went in between:
\* never more than was used since and missed before, and all of it where nothing
\* but work was done.
CountersTrue ==
  \A k \in DOMAIN prev \cap DOMAIN counters :
    /\ (kind = "core" => ~upset) => Figure(k) <= used[k] + missed[k]
    /\ ~upset /\ (k \in wrapped => used[k] <= RANGE /\ prev[k] < RANGE)
         => Figure(k) + (IF k \in wrapped THEN 1 ELSE 0) = used[k] + missed[k]

Counts ==
  /\ kind \in M!Kinds
  /\ counters \in [DOMAIN counters -> Nat] /\ DOMAIN counters \subseteq Keys
  /\ prev \in [DOMAIN prev -> Nat] /\ DOMAIN prev \subseteq Keys
  /\ used \in [Keys -> Nat] /\ missed \in [Keys -> Nat]
  /\ kind # "io" => \A k \in Keys : missed[k] = 0
  /\ upset \in BOOLEAN

\* Counters of energy stay, and go round once at most between two readings.
Rounds ==
  M!Energy =>
    /\ DOMAIN counters = Keys
    /\ \A k \in Keys : counters[k] <= RANGE /\ used[k] <= RANGE + 1
    /\ \A k \in DOMAIN prev :
         /\ prev[k] <= RANGE
         /\ counters[k] = prev[k] + used[k] - (IF k \in wrapped THEN RANGE + 1 ELSE 0)

\* Of the others only cores come back with a count, and they by their positions.
Straight ==
  ~M!Energy =>
    /\ wrapped = {}
    /\ \A k \in DOMAIN prev \cap DOMAIN counters :
         /\ kind # "core" => counters[k] <= prev[k] + used[k] + missed[k]
         /\ ~upset => counters[k] = prev[k] + used[k] + missed[k]
    /\ kind = "core" /\ ~upset => DOMAIN prev = DOMAIN counters

\* Nothing is used of what is not there, unless it was there a while ago.
Idle ==
  /\ wrapped \subseteq Keys
  /\ ~upset => \A k \in Keys \ DOMAIN counters : used[k] = 0 /\ missed[k] = 0
  /\ kind = "package" => prev = M!None \/ DOMAIN prev = Keys

CountInv == Counts /\ Rounds /\ Straight /\ Idle

LEMMA CountsTrue == CountInv => CountersTrue
<1>. SUFFICES ASSUME CountInv, NEW k \in DOMAIN prev \cap DOMAIN counters
              PROVE  /\ (kind = "core" => ~upset) => Figure(k) <= used[k] + missed[k]
                     /\ ~upset /\ (k \in wrapped => used[k] <= RANGE /\ prev[k] < RANGE)
                          => Figure(k) + (IF k \in wrapped THEN 1 ELSE 0) = used[k] + missed[k]
  BY DEF CountersTrue
<1>1. /\ counters[k] \in Nat /\ prev[k] \in Nat /\ used[k] \in Nat /\ RANGE \in Nat
      /\ missed[k] \in Nat /\ (kind # "io" => missed[k] = 0)
  BY ReadersAssumption DEF CountInv, Counts
<1>2. CASE M!Energy
  <2>0. missed[k] = 0
    BY <1>1, <1>2 DEF M!Energy
  <2>1. /\ counters[k] <= RANGE /\ used[k] <= RANGE + 1 /\ prev[k] <= RANGE
        /\ counters[k] = prev[k] + used[k] - (IF k \in wrapped THEN RANGE + 1 ELSE 0)
    BY <1>2 DEF CountInv, Counts, Rounds
  <2>2. Figure(k) = IF counters[k] >= prev[k] THEN counters[k] - prev[k]
                    ELSE IF RANGE > prev[k] THEN RANGE - prev[k] + counters[k] ELSE 0
    BY <1>1, <1>2 DEF Figure, M!EnergyDelta
  <2>. QED
    BY <1>1, <2>0, <2>1, <2>2
<1>3. CASE ~M!Energy
  <2>1. k \notin wrapped
    BY <1>3 DEF CountInv, Straight
  <2>2. /\ kind # "core" => counters[k] <= prev[k] + used[k] + missed[k]
        /\ ~upset => counters[k] = prev[k] + used[k] + missed[k]
    BY <1>3 DEF CountInv, Straight
  <2>3. Figure(k) = IF counters[k] >= prev[k] THEN counters[k] - prev[k] ELSE 0
    BY <1>3 DEF Figure, M!Sub
  <2>. QED
    BY <1>1, <2>1, <2>2, <2>3
<1>. QED
  BY <1>2, <1>3

\* A reading that takes some of the counters for the next to difference with.
LEMMA Taken ==
  ASSUME CountInv, NEW some, some \subseteq DOMAIN counters,
         prev' = [k \in some |-> IF kind = "io" /\ k \in dark THEN 0 ELSE counters[k]],
         M!Judged, UNCHANGED <<kind, counters>>,
         kind \in {"core", "package"} => some = DOMAIN counters
  PROVE  CountInv'
<1>. USE DEF CountInv, M!Unused
<1>0. /\ used' = M!Unused /\ wrapped' = {} /\ upset' = FALSE
      /\ missed' = [k \in Keys |-> IF kind = "io" /\ k \in DOMAIN counters \cap dark
                                   THEN counters[k] ELSE 0]
  BY DEF M!Judged, M!InUse
<1>1. Counts'
  <2>1. \A k \in DOMAIN counters : counters[k] \in Nat
    BY DEF Counts
  <2>2. missed' \in [Keys -> Nat] /\ (kind' # "io" => \A k \in Keys : missed'[k] = 0)
    BY <1>0, <2>1
  <2>3. prev' \in [DOMAIN prev' -> Nat] /\ DOMAIN prev' \subseteq Keys
    BY <2>1 DEF Counts
  <2>. QED
    BY <1>0, <2>2, <2>3 DEF Counts
<1>2. Rounds'
  <2>. SUFFICES ASSUME M!Energy PROVE Rounds'
    BY DEF Rounds, M!Energy
  <2>1. /\ DOMAIN counters' = Keys
        /\ \A k \in Keys : counters'[k] <= RANGE /\ used'[k] <= RANGE + 1
    BY <1>0, ReadersAssumption DEF Rounds
  <2>2. ASSUME NEW k \in DOMAIN prev'
        PROVE  /\ prev'[k] <= RANGE
               /\ counters'[k] = prev'[k] + used'[k] - (IF k \in wrapped' THEN RANGE + 1 ELSE 0)
    <3>1. prev'[k] = counters[k] /\ counters'[k] = counters[k] /\ counters[k] \in Nat
          /\ counters[k] <= RANGE /\ used'[k] = 0 /\ k \notin wrapped'
      BY <1>0 DEF Counts, Rounds, M!Energy
    <3>. QED
      BY <3>1
  <2>. QED
    BY <2>1, <2>2 DEF Rounds, M!Energy
<1>3. Straight'
  <2>1. ASSUME NEW k \in DOMAIN prev' \cap DOMAIN counters'
        PROVE  counters'[k] = prev'[k] + used'[k] + missed'[k]
    <3>1. counters'[k] = counters[k] /\ counters[k] \in Nat /\ used'[k] = 0 /\ k \in Keys
      BY <1>0 DEF Counts
    <3>2. CASE kind = "io" /\ k \in dark
      BY <1>0, <3>1, <3>2
    <3>3. CASE ~(kind = "io" /\ k \in dark)
      BY <1>0, <3>1, <3>3
    <3>. QED
      BY <3>2, <3>3
  <2>2. ASSUME NEW k \in DOMAIN prev' \cap DOMAIN counters'
        PROVE  counters'[k] <= prev'[k] + used'[k] + missed'[k]
    <3>1. counters'[k] \in Nat /\ counters'[k] = prev'[k] + used'[k] + missed'[k]
      BY <2>1 DEF Counts
    <3>. QED
      BY <3>1
  <2>. QED
    BY <1>0, <2>1, <2>2 DEF Straight, M!Energy
<1>4. Idle'
  BY <1>0 DEF Idle, Rounds, M!Energy
<1>. QED
  BY <1>1, <1>2, <1>3, <1>4

\* A reading that starts over, or leaves everything in place.
LEMMA NotTaken ==
  ASSUME CountInv, UNCHANGED <<kind, counters>>,
         \/ /\ prev' = M!None /\ kind # "core" /\ ~M!Energy
            /\ M!Judged \/ (UNCHANGED <<used, missed, wrapped>> /\ upset' = TRUE)
         \/ UNCHANGED <<prev, used, missed, wrapped, upset>>
  PROVE  CountInv'
<1>1. CASE UNCHANGED <<prev, used, missed, wrapped, upset>>
  BY <1>1 DEF CountInv, Counts, Rounds, Straight, Idle, M!Energy
<1>2. CASE /\ prev' = M!None /\ kind # "core" /\ ~M!Energy
           /\ M!Judged \/ (UNCHANGED <<used, missed, wrapped>> /\ upset' = TRUE)
  <2>1. DOMAIN prev' = {} /\ prev' \in [DOMAIN prev' -> Nat]
    BY <1>2 DEF M!None
  <2>2. kind # "package" /\ wrapped = {} /\ used \in [Keys -> Nat]
    BY <1>2 DEF CountInv, Counts, Straight, M!Energy
  <2>3. used' \in [Keys -> Nat] /\ wrapped' = {}
    BY <1>2, <2>2 DEF M!Judged, M!Unused
  <2>4. upset' \in BOOLEAN
    BY <1>2, Zenon DEF M!Judged
  <2>5. ~upset' => \A k \in Keys : used'[k] = 0
    BY <1>2 DEF M!Judged, M!Unused
  <2>6. /\ missed' \in [Keys -> Nat] /\ (kind # "io" => \A k \in Keys : missed'[k] = 0)
        /\ ~upset' => \A k \in Keys \ DOMAIN counters : missed'[k] = 0
    <3>1. CASE M!Judged
      BY <3>1 DEF M!Judged, M!InUse, CountInv, Counts
    <3>2. CASE UNCHANGED missed /\ upset' = TRUE
      BY <3>2 DEF CountInv, Counts
    <3>. QED
      BY <1>2, <3>1, <3>2
  <2>. QED
    BY <1>2, <2>1, <2>2, <2>3, <2>4, <2>5, <2>6 DEF CountInv, Counts, Rounds, Straight, Idle, M!Energy
<1>. QED
  BY <1>1, <1>2

LEMMA WorkCounts ==
  ASSUME CountInv, NEW k \in Keys, M!Work(k)
  PROVE  CountInv'
<1>. USE DEF CountInv, M!Work
<1>1. /\ k \in DOMAIN counters /\ counters[k] \in Nat /\ used[k] \in Nat
      /\ used' = [used EXCEPT ![k] = @ + 1]
      /\ UNCHANGED <<kind, prev, missed, upset>> /\ RANGE \in Nat /\ RANGE > 0
  BY ReadersAssumption DEF Counts, M!InUse, M!sampler
<1>2. CASE M!Energy
  <2>. DEFINE up == IF counters[k] = RANGE THEN 0 ELSE counters[k] + 1
  <2>1. /\ used[k] <= RANGE /\ counters[k] <= RANGE
        /\ counters' = [counters EXCEPT ![k] = (counters[k] + 1) % (RANGE + 1)]
        /\ wrapped' = IF counters'[k] = 0 THEN wrapped \cup {k} ELSE wrapped
    BY <1>2 DEF Rounds
  <2>2. (counters[k] + 1) % (RANGE + 1) = up
    <3>. DEFINE n == counters[k] m == RANGE + 1
    <3>1. n \in Nat /\ m \in Nat /\ m > 0 /\ n < m
      BY <1>1, <2>1
    <3>. HIDE DEF n, m
    <3>2. (n + 1) % m = IF n + 1 = m THEN 0 ELSE n + 1
      BY <3>1
    <3>. QED
      BY <1>1, <2>1, <3>2 DEF n, m
  <2>3. /\ counters'[k] = up /\ \A j \in DOMAIN counters \ {k} : counters'[j] = counters[j]
        /\ DOMAIN counters' = DOMAIN counters
    BY <1>1, <2>1, <2>2
  <2>4. up \in Nat /\ up <= RANGE
    BY <1>1, <2>1
  <2>5. counters' \in [DOMAIN counters' -> Nat]
    BY <1>1, <2>1, <2>2, <2>4 DEF Counts
  <2>6. Counts'
    BY <1>1, <2>3, <2>5 DEF Counts
  <2>7. Rounds'
    <3>1. ASSUME NEW j \in Keys PROVE counters'[j] <= RANGE /\ used'[j] <= RANGE + 1
      BY <1>1, <1>2, <2>1, <2>3, <2>4 DEF Counts, Rounds
    <3>2. ASSUME NEW j \in DOMAIN prev
          PROVE  counters'[j] = prev[j] + used'[j] - (IF j \in wrapped' THEN RANGE + 1 ELSE 0)
      <4>1. /\ counters[j] = prev[j] + used[j] - (IF j \in wrapped THEN RANGE + 1 ELSE 0)
            /\ prev[j] \in Nat /\ prev[j] <= RANGE /\ used[j] \in Nat /\ j \in Keys
        BY <1>2 DEF Counts, Rounds
      <4>2. CASE j = k
        <5>1. used'[j] = used[j] + 1
          BY <1>1, <4>1, <4>2 DEF Counts
        <5>2. up = 0 <=> counters[k] = RANGE
          BY <1>1, <2>1
        <5>3. j \in wrapped' <=> j \in wrapped \/ up = 0
          BY <2>1, <2>3, <4>2
        <5>. QED
          BY <1>1, <2>1, <2>3, <4>1, <4>2, <5>1, <5>2, <5>3
      <4>3. CASE j # k
        <5>1. used'[j] = used[j] /\ counters'[j] = counters[j] /\ (j \in wrapped' <=> j \in wrapped)
          BY <1>1, <1>2, <2>1, <2>3, <4>1, <4>3 DEF Counts, Rounds
        <5>. QED
          BY <4>1, <5>1
      <4>. QED
        BY <4>2, <4>3
    <3>. QED
      BY <1>1, <1>2, <2>3, <3>1, <3>2 DEF Rounds
  <2>8. Straight'
    BY <1>1, <1>2 DEF Straight, M!Energy
  <2>9. Idle'
    BY <1>1, <2>1, <2>3 DEF Counts, Idle
  <2>. QED
    BY <2>6, <2>7, <2>8, <2>9
<1>3. CASE ~M!Energy
  <2>1. counters' = [counters EXCEPT ![k] = counters[k] + 1] /\ UNCHANGED wrapped
    BY <1>3
  <2>2. Counts'
    BY <1>1, <2>1 DEF Counts
  <2>3. Rounds'
    BY <1>1, <1>3 DEF Rounds, M!Energy
  <2>4. ASSUME NEW j \in DOMAIN prev \cap DOMAIN counters
        PROVE  /\ kind # "core" => counters'[j] <= prev[j] + used'[j] + missed[j]
               /\ ~upset => counters'[j] = prev[j] + used'[j] + missed[j]
    <3>1. /\ counters[j] \in Nat /\ prev[j] \in Nat /\ used[j] \in Nat /\ j \in Keys
          /\ missed[j] \in Nat
      BY DEF Counts
    <3>2. \/ counters'[j] = counters[j] + 1 /\ used'[j] = used[j] + 1
          \/ counters'[j] = counters[j] /\ used'[j] = used[j]
      BY <1>1, <2>1, <3>1 DEF Counts
    <3>. QED
      BY <1>3, <3>1, <3>2 DEF Straight
  <2>5. Straight'
    BY <1>1, <1>3, <2>1, <2>4 DEF Straight, M!Energy
  <2>6. Idle'
    BY <1>1, <2>1 DEF Counts, Idle
  <2>. QED
    BY <2>2, <2>3, <2>5, <2>6
<1>. QED
  BY <1>2, <1>3

\* A key that comes or goes.
LEMMA OthersCounts ==
  ASSUME CountInv, NEW k \in Keys, M!Leave(k) \/ M!Come(k) \/ M!Darken(k)
  PROVE  CountInv'
<1>. USE DEF CountInv
<1>1. CASE M!Leave(k)
  <2>1. /\ ~M!Energy /\ counters' = [j \in DOMAIN counters \ {k} |-> counters[j]]
        /\ upset' = TRUE /\ UNCHANGED <<kind, prev, used, missed, wrapped>>
    BY <1>1 DEF M!Leave, M!InUse, M!sampler
  <2>2. Counts'
    BY <2>1 DEF Counts
  <2>. QED
    BY <2>1, <2>2 DEF Rounds, Straight, Idle, M!Energy
<1>2. CASE M!Come(k)
  <2>1. PICK count \in IF kind = "core" THEN 0 .. MaxCount ELSE {0} :
          counters' = [j \in DOMAIN counters \cup {k} |-> IF j = k THEN count ELSE counters[j]]
    BY <1>2 DEF M!Come, M!InUse
  <2>2. /\ k \notin DOMAIN counters /\ upset' = TRUE /\ UNCHANGED <<kind, prev, used, missed, wrapped>>
    BY <1>2 DEF M!Come, M!InUse, M!sampler
  <2>3. count \in Nat /\ (kind # "core" => count = 0)
    BY <2>1, ReadersAssumption
  <2>4. ~M!Energy
    BY <2>2 DEF Rounds
  <2>5. counters' \in [DOMAIN counters \cup {k} -> Nat] /\ DOMAIN counters' = DOMAIN counters \cup {k}
    BY <2>1, <2>3 DEF Counts
  <2>6. Counts'
    BY <2>2, <2>5 DEF Counts
  <2>7. ASSUME NEW j \in DOMAIN prev \cap DOMAIN counters', kind # "core"
        PROVE  counters'[j] <= prev[j] + used[j] + missed[j]
    BY <2>1, <2>3, <2>4, <2>7 DEF Counts, Straight
  <2>. QED
    BY <2>2, <2>4, <2>6, <2>7 DEF Rounds, Straight, Idle, M!Energy
<1>3. CASE M!Darken(k)
  BY <1>3, NotTaken DEF M!Darken, M!sampler, M!history
<1>. QED
  BY <1>1, <1>2, <1>3

LEMMA ReadCounts ==
  ASSUME CountInv, M!Read
  PROVE  CountInv'
<1>. USE DEF M!InUse, M!meters, M!Baseline
<1>1. /\ UNCHANGED <<kind, counters>>
      /\ counters = [k \in DOMAIN counters |-> counters[k]]
      /\ DOMAIN prev \subseteq Keys
  BY DEF M!Read, M!ReadPlain, M!ReadIo, M!ReadInterfaces, M!ReadCores, M!ReadClients, M!ReadSockets,
         M!ReadPackage, M!ReadZones, CountInv, Counts
<1>2. CASE prev' = counters /\ M!Judged /\ kind # "io"
  BY <1>1, <1>2, Taken
<1>3. ASSUME NEW some, some \subseteq DOMAIN counters, kind \notin {"core", "package", "io"},
             M!Judged,
             prev' = [k \in some |-> counters[k]]
      PROVE  CountInv'
  BY <1>1, <1>3, Taken
<1>4. CASE M!ReadPlain
  BY <1>3, <1>4 DEF M!ReadPlain
<1>10. CASE M!ReadIo
  BY <1>1, <1>10, Taken DEF M!ReadIo
<1>5. CASE M!ReadInterfaces \/ M!ReadCores
  BY <1>2, <1>5 DEF M!ReadInterfaces, M!ReadCores
<1>6. CASE M!ReadClients
  BY <1>3, <1>6 DEF M!ReadClients
<1>7. CASE M!ReadSockets
  <2>1. CASE prev' = M!None /\ M!Judged
    <3>1. kind # "core" /\ ~M!Energy
      BY <1>7 DEF M!ReadSockets, M!Energy
    <3>. QED
      BY <1>1, <2>1, <3>1, NotTaken
  <2>. QED
    BY <1>2, <1>7, <2>1 DEF M!ReadSockets
<1>8. CASE M!ReadPackage
  <2>1. CASE UNCHANGED <<prev, used, missed, wrapped, upset>>
    BY <1>1, <2>1, NotTaken
  <2>. QED
    BY <1>2, <1>8, <2>1 DEF M!ReadPackage, M!history
<1>9. CASE M!ReadZones
  BY <1>3, <1>9 DEF M!ReadZones
<1>. QED
  BY <1>4, <1>5, <1>6, <1>7, <1>8, <1>9, <1>10 DEF M!Read


LEMMA CountInvariant == ReadersSpec => []CountInv
<1>1. ReadersInit => CountInv
  <2>. SUFFICES ASSUME M!Init PROVE CountInv
    BY DEF ReadersInit
  <2>1. Counts
    BY DEF M!Init, M!None, M!Unused, Counts
  <2>2. Rounds
    BY ReadersAssumption DEF M!Init, M!None, M!Unused, Rounds
  <2>3. Straight
    BY DEF M!Init, M!None, Straight
  <2>4. Idle
    BY DEF M!Init, Idle
  <2>. QED
    BY <2>1, <2>2, <2>3, <2>4 DEF CountInv
<1>2. CountInv /\ [ReadersNext]_all => CountInv'
  <2>. SUFFICES ASSUME CountInv, [ReadersNext]_all PROVE CountInv'
    OBVIOUS
  <2>1. CASE UNCHANGED metersVars
    BY <2>1, NotTaken DEF metersVars
  <2>2. CASE M!Next
    <3>1. CASE M!Elapse
      BY <3>1, NotTaken DEF M!Elapse, M!meters, M!history
    <3>2. CASE M!Reset
      <4>1. /\ kind # "core" /\ ~M!Energy /\ prev' = M!None /\ upset' = TRUE
            /\ UNCHANGED <<kind, counters, used, missed, wrapped>>
        BY <3>2 DEF M!Reset, M!Energy, M!meters
      <4>. QED
        BY <4>1, NotTaken
    <3>. QED
      BY <2>2, <3>1, <3>2, WorkCounts, OthersCounts, ReadCounts DEF M!Next
  <2>. QED
    BY <2>1, <2>2 DEF ReadersNext, OnlyRun, OnlyVolumes, all
<1>. QED
  BY <1>1, <1>2, PTL DEF ReadersSpec

\* In every state of the sampler the differences that a reading would take are
\* true of what was used since the reading before, and of what it missed of the
\* processes whose io it could not read (sample of procs.rs, disks.rs, net.rs,
\* cpu.rs, delta of power.rs).
THEOREM CountersAreTrue == ReadersSpec => []CountersTrue
<1>1. CountInv => CountersTrue
  BY CountsTrue
<1>. QED
  BY <1>1, CountInvariant, PTL

-----------------------------------------------------------------------------
(* Sums.  A fold over a finite set goes through its parts by size; that it   *)
(* does not depend on the order is shown of all parts at once, from the      *)
(* smallest that would be an exception.                                      *)

LEMMA SomeLeast ==
  ASSUME NEW numbers, numbers \subseteq Nat, numbers # {}
  PROVE  \E x \in numbers : \A y \in numbers : x <= y
<1>1. PICK x \in numbers : \A y \in numbers : ~(<<y, x>> \in OpToRel(<, Nat))
  BY NatLessThanWellFounded, WFMin
<1>2. ASSUME NEW y \in numbers PROVE x <= y
  <2>1. <<y, x>> \in Nat \X Nat /\ <<y, x>>[1] = y /\ <<y, x>>[2] = x
    OBVIOUS
  <2>2. ~(<<y, x>>[1] < <<y, x>>[2])
    BY <1>1, <2>1, Zenon DEF OpToRel
  <2>3. ~(y < x)
    BY <2>1, <2>2
  <2>. QED
    BY <2>3
<1>. QED
  BY <1>2

LEMMA EveryNumber ==
  ASSUME NEW good, 0 \in good, \A n \in Nat : n \in good => n + 1 \in good
  PROVE  Nat \subseteq good
<1>. SUFFICES ASSUME Nat \ good # {} PROVE FALSE
  OBVIOUS
<1>1. PICK n \in Nat \ good : \A m \in Nat \ good : n <= m
  <2>. DEFINE bad == Nat \ good
  <2>1. bad \subseteq Nat /\ bad # {}
    OBVIOUS
  <2>. HIDE DEF bad
  <2>2. \E n \in bad : \A m \in bad : n <= m
    BY <2>1, SomeLeast
  <2>. QED
    BY <2>2 DEF bad
<1>2. n # 0 /\ n - 1 \in Nat /\ n - 1 \in good
  BY <1>1
<1>3. (n - 1) + 1 \in good
  BY <1>2
<1>. QED
  BY <1>1, <1>3

LEMMA EveryPart ==
  ASSUME NEW S, IsFiniteSet(S), NEW good,
         \A s \in SUBSET S : (\A x \in s : s \ {x} \in good) => s \in good
  PROVE  SUBSET S \subseteq good
<1>. DEFINE bad == (SUBSET S) \ good
            sizes == {Cardinality(s) : s \in bad}
<1>. SUFFICES ASSUME bad # {} PROVE FALSE
  OBVIOUS
<1>1. \A s \in SUBSET S : IsFiniteSet(s) /\ Cardinality(s) \in Nat
  BY FS_Subset, FS_CardinalityType
<1>2. sizes \subseteq Nat /\ sizes # {}
  BY <1>1
<1>. HIDE DEF sizes
<1>3. PICK n \in sizes : \A m \in sizes : n <= m
  BY <1>2, SomeLeast
<1>. USE DEF sizes
<1>4. PICK s \in bad : \A t \in bad : Cardinality(s) <= Cardinality(t)
  BY <1>3
<1>5. PICK x \in s : s \ {x} \notin good
  BY <1>4
<1>6. s \ {x} \in bad
  BY <1>4, <1>5
<1>7. Cardinality(s \ {x}) = Cardinality(s) - 1
  BY <1>1, <1>4, <1>5, FS_RemoveElement
<1>8. Cardinality(s) <= Cardinality(s \ {x}) /\ Cardinality(s) \in Nat
  BY <1>1, <1>4, <1>6
<1>. QED
  BY <1>7, <1>8

\* The fold of the community modules that Sum is.
Fold(f, s, g) ==
  IF s = {} THEN 0
  ELSE f[CHOOSE x \in s : TRUE] + g[s \ {CHOOSE x \in s : TRUE}]
Folded(f, S) == CHOOSE g : g = [s \in SUBSET S |-> Fold(f, s, g)]

LEMMA SumIsFold == \A f : M!Sum(f) = Folded(f, DOMAIN f)[DOMAIN f]
BY DEF M!Sum, M!MapThenSumSet, M!MapThenFoldSet, Folded, Fold

LEMMA FoldIs ==
  ASSUME NEW S, IsFiniteSet(S), NEW f
  PROVE  Folded(f, S) = [s \in SUBSET S |-> Fold(f, s, Folded(f, S))]
<1>. DEFINE Ball(n) == {s \in SUBSET S : Cardinality(s) <= n}
            good == {n \in Nat : \E g : g = [s \in Ball(n) |-> Fold(f, s, g)]}
<1>1. \A s \in SUBSET S : IsFiniteSet(s) /\ Cardinality(s) \in Nat /\ Cardinality(s) <= Cardinality(S)
  BY FS_Subset, FS_CardinalityType
<1>2. 0 \in good
  <2>1. Ball(0) = {{}}
    BY <1>1, FS_EmptySet
  <2>. DEFINE g == [s \in Ball(0) |-> 0]
  <2>2. g = [s \in Ball(0) |-> Fold(f, s, g)]
    BY <2>1 DEF Fold
  <2>. QED
    BY <2>2
<1>3. ASSUME NEW n \in Nat, n \in good PROVE n + 1 \in good
  <2>1. PICK g : g = [s \in Ball(n) |-> Fold(f, s, g)]
    BY <1>3
  <2>. DEFINE h == [s \in Ball(n + 1) |-> Fold(f, s, g)]
  <2>2. ASSUME NEW s \in Ball(n + 1) PROVE Fold(f, s, h) = Fold(f, s, g)
    <3>1. CASE s = {}
      BY <3>1 DEF Fold
    <3>2. CASE s # {}
      <4>. DEFINE x == CHOOSE x \in s : TRUE
      <4>1. x \in s
        BY <3>2
      <4>. HIDE DEF x
      <4>2. Cardinality(s \ {x}) = Cardinality(s) - 1 /\ Cardinality(s) \in Nat
        BY <1>1, <4>1, FS_RemoveElement
      <4>3. s \ {x} \in Ball(n) /\ s \ {x} \in Ball(n + 1)
        BY <1>1, <4>2
      <4>4. h[s \ {x}] = Fold(f, s \ {x}, g) /\ g[s \ {x}] = Fold(f, s \ {x}, g)
        <5>. HIDE DEF Ball
        <5>. QED
          BY <2>1, <4>3
      <4>. QED
        BY <3>2, <4>4 DEF Fold, x
    <3>. QED
      BY <3>1, <3>2
  <2>3. h = [s \in Ball(n + 1) |-> Fold(f, s, h)]
    <3>. HIDE DEF Ball
    <3>. QED
      BY <2>2
  <2>. HIDE DEF h, Ball
  <2>4. \E e : e = [s \in Ball(n + 1) |-> Fold(f, s, e)]
    BY <2>3
  <2>. QED
    BY <2>4
<1>. HIDE DEF good
<1>4. Nat \subseteq good
  BY <1>2, <1>3, EveryNumber
<1>5. Cardinality(S) \in good
  BY <1>4, FS_CardinalityType
<1>6. Ball(Cardinality(S)) = SUBSET S
  BY <1>1
<1>7. \E g : g = [s \in SUBSET S |-> Fold(f, s, g)]
  BY <1>5, <1>6 DEF good
<1>. QED
  BY <1>7 DEF Folded

\* What a sum over a part is does not depend on the whole.
LEMMA FoldOfPart ==
  ASSUME NEW S, IsFiniteSet(S), NEW T \in SUBSET S, NEW f, NEW h,
         \A x \in T : f[x] = h[x]
  PROVE  \A s \in SUBSET T : Folded(f, S)[s] = Folded(h, T)[s]
<1>. DEFINE F == Folded(f, S)
            H == Folded(h, T)
            good == {s \in SUBSET T : F[s] = H[s]}
<1>1. IsFiniteSet(T)
  BY FS_Subset
<1>2. /\ \A s \in SUBSET S : F[s] = Fold(f, s, F)
      /\ \A s \in SUBSET T : H[s] = Fold(h, s, H)
  <2>1. F = [s \in SUBSET S |-> Fold(f, s, F)]
    BY FoldIs
  <2>2. H = [s \in SUBSET T |-> Fold(h, s, H)]
    BY <1>1, FoldIs
  <2>. HIDE DEF F, H
  <2>. QED
    BY <2>1, <2>2
<1>. HIDE DEF F, H
<1>3. ASSUME NEW s \in SUBSET T, \A x \in s : s \ {x} \in good
      PROVE  s \in good
  <2>1. CASE s = {}
    BY <1>2, <2>1 DEF Fold
  <2>2. CASE s # {}
    <3>. DEFINE x == CHOOSE x \in s : TRUE
    <3>1. x \in s
      BY <2>2
    <3>2. F[s] = f[x] + F[s \ {x}] /\ H[s] = h[x] + H[s \ {x}]
      BY <1>2, <2>2 DEF Fold
    <3>. HIDE DEF x
    <3>3. f[x] = h[x] /\ F[s \ {x}] = H[s \ {x}]
      BY <1>3, <3>1
    <3>. QED
      BY <3>2, <3>3
  <2>. QED
    BY <2>1, <2>2
<1>. HIDE DEF good
<1>4. SUBSET T \subseteq good
  BY <1>1, <1>3, EveryPart
<1>. QED
  BY <1>4 DEF good, F, H

\* The sums over the parts of S: any one of the numbers may be added last.
SumsUp(sum, f, S) ==
  /\ sum[{}] = 0
  /\ \A s \in SUBSET S : sum[s] \in Nat /\ \A x \in s : sum[s] = f[x] + sum[s \ {x}]

SumsOver(sum, f, S) == \A s \in SUBSET S : M!Sum([x \in s |-> f[x]]) = sum[s]

LEMMA SumOfParts ==
  ASSUME NEW S, IsFiniteSet(S), NEW f \in [S -> Nat]
  PROVE  \E sum : SumsUp(sum, f, S) /\ SumsOver(sum, f, S) /\ M!Sum(f) = sum[S]
<1>. DEFINE F == Folded(f, S)
            some(s) == CHOOSE x \in s : TRUE
            numbers == {s \in SUBSET S : F[s] \in Nat}
            good == {s \in SUBSET S : \A x \in s : F[s] = f[x] + F[s \ {x}]}
<1>1. F = [s \in SUBSET S |-> Fold(f, s, F)]
  BY FoldIs
<1>2. /\ F[{}] = 0
      /\ \A s \in SUBSET S : s # {} => some(s) \in s /\ F[s] = f[some(s)] + F[s \ {some(s)}]
  <2>. HIDE DEF F
  <2>1. \A s \in SUBSET S : F[s] = Fold(f, s, F)
    BY <1>1
  <2>. QED
    BY <2>1 DEF Fold
<1>. HIDE DEF F, some
<1>3. SUBSET S \subseteq numbers
  <2>1. ASSUME NEW s \in SUBSET S, \A x \in s : s \ {x} \in numbers
        PROVE  s \in numbers
    <3>1. CASE s = {}
      BY <1>2, <3>1
    <3>2. CASE s # {}
      <4>1. some(s) \in s /\ F[s] = f[some(s)] + F[s \ {some(s)}]
        BY <1>2, <3>2
      <4>2. f[some(s)] \in Nat /\ F[s \ {some(s)}] \in Nat
        BY <2>1, <4>1
      <4>. QED
        BY <4>1, <4>2
    <3>. QED
      BY <3>1, <3>2
  <2>. HIDE DEF numbers
  <2>. QED
    BY <2>1, EveryPart
<1>4. SUBSET S \subseteq good
  <2>1. ASSUME NEW s \in SUBSET S, \A x \in s : s \ {x} \in good
        PROVE  s \in good
    <3>. SUFFICES ASSUME NEW x \in s PROVE F[s] = f[x] + F[s \ {x}]
      OBVIOUS
    <3>. DEFINE y == some(s)
    <3>1. y \in s /\ F[s] = f[y] + F[s \ {y}]
      BY <1>2
    <3>. HIDE DEF y
    <3>2. CASE x # y
      <4>1. F[s \ {y}] = f[x] + F[(s \ {y}) \ {x}] /\ F[s \ {x}] = f[y] + F[(s \ {x}) \ {y}]
        BY <2>1, <3>1, <3>2
      <4>2. (s \ {y}) \ {x} = (s \ {x}) \ {y} /\ (s \ {x}) \ {y} \in numbers
        BY <1>3
      <4>. DEFINE rest == F[(s \ {x}) \ {y}]
      <4>3. rest \in Nat /\ f[x] \in Nat /\ f[y] \in Nat
        BY <3>1, <4>2
      <4>4. F[s] = f[y] + (f[x] + rest) /\ F[s \ {x}] = f[y] + rest
        BY <3>1, <4>1, <4>2
      <4>. HIDE DEF rest
      <4>. QED
        BY <4>3, <4>4
    <3>. QED
      BY <3>1, <3>2
  <2>. HIDE DEF good
  <2>. QED
    BY <2>1, EveryPart
<1>5. ASSUME NEW s \in SUBSET S PROVE M!Sum([x \in s |-> f[x]]) = F[s]
  <2>. DEFINE h == [x \in s |-> f[x]]
  <2>1. DOMAIN h = s /\ \A x \in s : f[x] = h[x]
    OBVIOUS
  <2>. HIDE DEF h
  <2>2. M!Sum(h) = Folded(h, s)[s]
    BY <2>1, SumIsFold
  <2>3. Folded(f, S)[s] = Folded(h, s)[s]
    BY <2>1, FoldOfPart
  <2>. QED
    BY <2>2, <2>3 DEF F, h
<1>6. SumsUp(F, f, S)
  BY <1>2, <1>3, <1>4 DEF SumsUp
<1>7. SumsOver(F, f, S)
  BY <1>5 DEF SumsOver
<1>8. M!Sum(f) = F[S]
  <2>1. f = [x \in S |-> f[x]]
    OBVIOUS
  <2>. QED
    BY <1>5, <2>1
<1>. QED
  BY <1>6, <1>7, <1>8

LEMMA SumIsNat ==
  ASSUME NEW S, IsFiniteSet(S), NEW f \in [S -> Nat]
  PROVE  M!Sum(f) \in Nat
<1>1. PICK sum : SumsUp(sum, f, S) /\ M!Sum(f) = sum[S]
  BY SumOfParts
<1>. QED
  BY <1>1 DEF SumsUp

\* A sum over some of the places of another, of smaller numbers.
LEMMA SumAtMost ==
  ASSUME NEW S, IsFiniteSet(S), NEW T \in SUBSET S, NEW f \in [T -> Nat], NEW h \in [S -> Nat],
         \A x \in T : f[x] <= h[x]
  PROVE  M!Sum(f) <= M!Sum(h)
<1>1. IsFiniteSet(T)
  BY FS_Subset
<1>2. PICK F : SumsUp(F, f, T) /\ M!Sum(f) = F[T]
  BY <1>1, SumOfParts
<1>3. PICK H : SumsUp(H, h, S) /\ M!Sum(h) = H[S]
  BY SumOfParts
<1>. DEFINE good == {s \in SUBSET S : F[s \cap T] <= H[s]}
<1>4. ASSUME NEW s \in SUBSET S, \A x \in s : s \ {x} \in good
      PROVE  s \in good
  <2>1. CASE s = {}
    <3>1. F[{}] = 0 /\ H[{}] = 0 /\ s \cap T = {}
      BY <1>2, <1>3, <2>1 DEF SumsUp
    <3>. QED
      BY <2>1, <3>1
  <2>2. ASSUME NEW x \in s PROVE s \in good
    <3>1. F[(s \ {x}) \cap T] <= H[s \ {x}]
      BY <1>4
    <3>2. H[s] = h[x] + H[s \ {x}] /\ H[s \ {x}] \in Nat /\ h[x] \in Nat
      BY <1>3 DEF SumsUp
    <3>3. CASE x \in T
      <4>1. (s \ {x}) \cap T = (s \cap T) \ {x} /\ x \in s \cap T /\ s \cap T \in SUBSET T
        BY <3>3
      <4>2. F[s \cap T] = f[x] + F[(s \cap T) \ {x}] /\ F[(s \cap T) \ {x}] \in Nat
        BY <1>2, <4>1 DEF SumsUp
      <4>3. f[x] <= h[x] /\ f[x] \in Nat
        BY <3>3
      <4>4. F[(s \cap T) \ {x}] <= H[s \ {x}]
        BY <3>1, <4>1
      <4>5. F[s \cap T] <= H[s]
        BY <3>2, <4>2, <4>3, <4>4
      <4>. QED
        BY <4>5
    <3>4. CASE x \notin T
      <4>1. (s \ {x}) \cap T = s \cap T
        BY <3>4
      <4>2. F[s \cap T] \in Nat /\ F[s \cap T] <= H[s \ {x}]
        BY <1>2, <3>1, <4>1 DEF SumsUp
      <4>3. F[s \cap T] <= H[s]
        BY <3>2, <4>2
      <4>. QED
        BY <4>3
    <3>. QED
      BY <3>3, <3>4
  <2>. QED
    BY <2>1, <2>2
<1>. HIDE DEF good
<1>5. SUBSET S \subseteq good
  BY <1>4, EveryPart
<1>6. F[S \cap T] <= H[S] /\ S \cap T = T
  BY <1>5 DEF good
<1>. QED
  BY <1>2, <1>3, <1>6

\* The same, where the numbers differ by one at the places of W and the others
\* have nothing.
LEMMA SumExactly ==
  ASSUME NEW S, IsFiniteSet(S), NEW T \in SUBSET S, NEW f \in [T -> Nat], NEW h \in [S -> Nat],
         NEW W \in SUBSET T,
         \A x \in T : f[x] + (IF x \in W THEN 1 ELSE 0) = h[x],
         \A x \in S \ T : h[x] = 0
  PROVE  M!Sum(f) + Cardinality(W) = M!Sum(h)
<1>1. IsFiniteSet(W)
  BY FS_Subset
<1>2. PICK F : SumsUp(F, f, T) /\ M!Sum(f) = F[T]
  BY FS_Subset, SumOfParts
<1>3. PICK H : SumsUp(H, h, S) /\ M!Sum(h) = H[S]
  BY SumOfParts
<1>. DEFINE size(s) == Cardinality(s \cap W)
            good == {s \in SUBSET S : F[s \cap T] + size(s) = H[s]}
<1>4. ASSUME NEW s, NEW x \in s
      PROVE  /\ size(s) \in Nat /\ size(s \ {x}) \in Nat
             /\ size(s) = size(s \ {x}) + (IF x \in W THEN 1 ELSE 0)
  <2>. DEFINE rest == s \cap W
  <2>1. (s \ {x}) \cap W = rest \ {x} /\ (x \in rest <=> x \in W)
    OBVIOUS
  <2>2. IsFiniteSet(rest)
    BY <1>1, FS_Subset
  <2>. HIDE DEF rest
  <2>3. /\ Cardinality(rest) \in Nat /\ Cardinality(rest \ {x}) \in Nat
        /\ Cardinality(rest \ {x}) = IF x \in rest THEN Cardinality(rest) - 1 ELSE Cardinality(rest)
    BY <2>2, FS_RemoveElement, FS_CardinalityType
  <2>4. size(s) = Cardinality(rest) /\ size(s \ {x}) = Cardinality(rest \ {x})
    BY <2>1 DEF rest
  <2>. HIDE DEF size
  <2>. QED
    BY <2>1, <2>3, <2>4
<1>5. size({}) = 0
  <2>1. {} \cap W = {}
    OBVIOUS
  <2>. QED
    BY <2>1, FS_EmptySet
<1>. HIDE DEF size
<1>6. ASSUME NEW s \in SUBSET S, \A x \in s : s \ {x} \in good
      PROVE  s \in good
  <2>1. CASE s = {}
    <3>1. F[{}] = 0 /\ H[{}] = 0 /\ s \cap T = {}
      BY <1>2, <1>3, <2>1 DEF SumsUp
    <3>. QED
      BY <1>5, <2>1, <3>1
  <2>2. ASSUME NEW x \in s PROVE s \in good
    <3>1. F[(s \ {x}) \cap T] + size(s \ {x}) = H[s \ {x}]
      BY <1>6
    <3>2. H[s] = h[x] + H[s \ {x}] /\ H[s \ {x}] \in Nat /\ h[x] \in Nat
      BY <1>3 DEF SumsUp
    <3>3. size(s) \in Nat /\ size(s \ {x}) \in Nat
          /\ size(s) = size(s \ {x}) + (IF x \in W THEN 1 ELSE 0)
      BY <1>4
    <3>4. CASE x \in T
      <4>1. (s \ {x}) \cap T = (s \cap T) \ {x} /\ x \in s \cap T /\ s \cap T \in SUBSET T
        BY <3>4
      <4>2. F[s \cap T] = f[x] + F[(s \cap T) \ {x}] /\ F[(s \cap T) \ {x}] \in Nat
        BY <1>2, <4>1 DEF SumsUp
      <4>3. f[x] + (IF x \in W THEN 1 ELSE 0) = h[x] /\ f[x] \in Nat
        BY <3>4
      <4>4. F[(s \cap T) \ {x}] + size(s \ {x}) = H[s \ {x}]
        BY <3>1, <4>1
      <4>5. F[s \cap T] + size(s) = H[s]
        BY <3>2, <3>3, <4>2, <4>3, <4>4
      <4>. QED
        BY <4>5
    <3>5. CASE x \notin T
      <4>1. (s \ {x}) \cap T = s \cap T /\ h[x] = 0 /\ x \notin W
        BY <3>5
      <4>2. size(s) = size(s \ {x}) /\ H[s] = H[s \ {x}]
        BY <3>2, <3>3, <4>1
      <4>3. F[s \cap T] + size(s) = H[s]
        BY <3>1, <4>1, <4>2
      <4>. QED
        BY <4>3
    <3>. QED
      BY <3>4, <3>5
  <2>. QED
    BY <2>1, <2>2
<1>. HIDE DEF good
<1>7. SUBSET S \subseteq good
  BY <1>6, EveryPart
<1>8. F[S \cap T] + size(S) = H[S] /\ S \cap T = T /\ S \cap W = W
  BY <1>7 DEF good
<1>. QED
  BY <1>2, <1>3, <1>8 DEF size

LEMMA SumOfNothing ==
  ASSUME NEW S, IsFiniteSet(S), NEW f \in [S -> Nat], \A x \in S : f[x] = 0
  PROVE  M!Sum(f) = 0
<1>1. PICK sum : SumsUp(sum, f, S) /\ M!Sum(f) = sum[S]
  BY SumOfParts
<1>. DEFINE good == {s \in SUBSET S : sum[s] = 0}
<1>2. ASSUME NEW s \in SUBSET S, \A x \in s : s \ {x} \in good
      PROVE  s \in good
  <2>1. CASE s = {}
    BY <1>1, <2>1 DEF SumsUp
  <2>2. ASSUME NEW x \in s PROVE s \in good
    <3>1. sum[s \ {x}] = 0 /\ f[x] = 0
      BY <1>2
    <3>2. sum[s] = f[x] + sum[s \ {x}]
      BY <1>1 DEF SumsUp
    <3>. QED
      BY <3>1, <3>2
  <2>. QED
    BY <2>1, <2>2
<1>. HIDE DEF good
<1>3. SUBSET S \subseteq good
  BY <1>2, EveryPart
<1>. QED
  BY <1>1, <1>3 DEF good

\* One of the numbers is greater.
LEMMA SumOfMore ==
  ASSUME NEW S, IsFiniteSet(S), NEW f \in [S -> Nat], NEW h \in [S -> Nat], NEW x \in S,
         NEW n \in Nat, h[x] = n + f[x], \A y \in S \ {x} : h[y] = f[y]
  PROVE  M!Sum(h) = n + M!Sum(f)
<1>1. PICK F : SumsUp(F, f, S) /\ SumsOver(F, f, S) /\ M!Sum(f) = F[S]
  BY SumOfParts
<1>2. PICK H : SumsUp(H, h, S) /\ SumsOver(H, h, S) /\ M!Sum(h) = H[S]
  BY SumOfParts
<1>3. [y \in S \ {x} |-> f[y]] = [y \in S \ {x} |-> h[y]]
  OBVIOUS
<1>4. F[S \ {x}] = H[S \ {x}]
  BY <1>1, <1>2, <1>3 DEF SumsOver
<1>5. F[S] = f[x] + F[S \ {x}] /\ H[S] = h[x] + H[S \ {x}] /\ F[S \ {x}] \in Nat /\ f[x] \in Nat
  BY <1>1, <1>2 DEF SumsUp
<1>. QED
  BY <1>1, <1>2, <1>4, <1>5

\* What the users are shown together is the amounts together.
LEMMA SumOfShares ==
  ASSUME NEW S, IsFiniteSet(S), IsFiniteSet(Users), NEW amounts \in [S -> Nat],
         NEW credit \in [S -> Users]
  PROVE  /\ M!Shares(amounts, credit) \in [Users -> Nat]
         /\ M!Sum(M!Shares(amounts, credit)) = M!Sum(amounts)
<1>1. PICK sum : SumsUp(sum, amounts, S) /\ SumsOver(sum, amounts, S) /\ M!Sum(amounts) = sum[S]
  BY SumOfParts
<1>. DEFINE of(s, u) == {k \in s : credit[k] = u}
            shares(s) == [u \in Users |-> sum[of(s, u)]]
            good == {s \in SUBSET S : M!Sum(shares(s)) = sum[s]}
<1>2. M!Shares(amounts, credit) = shares(S)
  <2>1. ASSUME NEW u \in Users
        PROVE  M!Sum([k \in {j \in DOMAIN amounts : credit[j] = u} |-> amounts[k]]) = sum[of(S, u)]
    <3>1. DOMAIN amounts = S /\ of(S, u) \in SUBSET S
      OBVIOUS
    <3>. QED
      BY <1>1, <3>1 DEF SumsOver
  <2>. HIDE DEF of
  <2>2. shares(S) = [u \in Users |-> M!Sum([k \in {j \in DOMAIN amounts : credit[j] = u} |-> amounts[k]])]
    BY <2>1
  <2>. HIDE DEF shares
  <2>. QED
    BY <2>2 DEF M!Shares
<1>3. ASSUME NEW s \in SUBSET S
      PROVE  shares(s) \in [Users -> Nat] /\ sum[s] \in Nat
  BY <1>1 DEF SumsUp
<1>4. ASSUME NEW s \in SUBSET S, \A x \in s : s \ {x} \in good
      PROVE  s \in good
  <2>1. CASE s = {}
    <3>1. \A u \in Users : shares(s)[u] = 0
      <4>1. \A u \in Users : of(s, u) = {}
        BY <2>1
      <4>. HIDE DEF of
      <4>. QED
        BY <1>1, <4>1 DEF SumsUp
    <3>. HIDE DEF shares
    <3>2. M!Sum(shares(s)) = 0
      BY <1>3, <3>1, SumOfNothing
    <3>. QED
      BY <1>1, <2>1, <3>2 DEF SumsUp
  <2>2. ASSUME NEW x \in s PROVE s \in good
    <3>. DEFINE v == credit[x]
    <3>1. v \in Users /\ amounts[x] \in Nat /\ s \ {x} \in SUBSET S
      OBVIOUS
    <3>2. of(s, v) \in SUBSET S /\ x \in of(s, v) /\ of(s \ {x}, v) = of(s, v) \ {x}
      OBVIOUS
    <3>3. \A u \in Users \ {v} : of(s \ {x}, u) = of(s, u)
      OBVIOUS
    <3>. HIDE DEF of, v
    <3>4. sum[of(s, v)] = amounts[x] + sum[of(s \ {x}, v)]
      BY <1>1, <3>2 DEF SumsUp
    <3>5. /\ shares(s)[v] = amounts[x] + shares(s \ {x})[v]
          /\ \A u \in Users \ {v} : shares(s)[u] = shares(s \ {x})[u]
      BY <3>1, <3>3, <3>4
    <3>6. shares(s) \in [Users -> Nat] /\ shares(s \ {x}) \in [Users -> Nat]
      BY <1>3, <3>1
    <3>. HIDE DEF shares
    <3>7. M!Sum(shares(s)) = amounts[x] + M!Sum(shares(s \ {x}))
      <4>. DEFINE more == shares(s)
                  rest == shares(s \ {x})
                  n == amounts[x]
      <4>1. /\ more \in [Users -> Nat] /\ rest \in [Users -> Nat] /\ n \in Nat /\ v \in Users
            /\ more[v] = n + rest[v] /\ \A u \in Users \ {v} : more[u] = rest[u]
        BY <3>1, <3>5, <3>6
      <4>. HIDE DEF more, rest, n
      <4>2. M!Sum(more) = n + M!Sum(rest)
        BY <4>1, SumOfMore
      <4>. QED
        BY <4>2 DEF more, rest, n
    <3>8. M!Sum(shares(s \ {x})) = sum[s \ {x}]
      BY <1>4
    <3>9. sum[s] = amounts[x] + sum[s \ {x}]
      BY <1>1 DEF SumsUp
    <3>. QED
      BY <3>7, <3>8, <3>9
  <2>. QED
    BY <2>1, <2>2
<1>. HIDE DEF good
<1>5. SUBSET S \subseteq good
  BY <1>4, EveryPart
<1>6. M!Sum(shares(S)) = sum[S]
  BY <1>5 DEF good
<1>. QED
  BY <1>1, <1>2, <1>3, <1>6

-----------------------------------------------------------------------------
(* The figures.  Each reading shows shares of amounts that are true of their *)
(* counters, and the shares add up to the amounts.                           *)

\* What FiguresTrue says of a reading.
FigureTrue ==
  /\ (kind = "core" => ~upset) => M!Sum(shown') <= M!Sum(M!Owed)
  /\ M!Undisturbed => M!Sum(shown') + M!Cardinality(wrapped) = M!Sum(M!Owed)

LEMMA SameCardinality == \A S : M!Cardinality(S) = Cardinality(S)
BY DEF M!Cardinality, Cardinality

LEMMA FiniteKeys ==
  ASSUME CountInv
  PROVE  /\ IsFiniteSet(Keys) /\ IsFiniteSet(Users) /\ Keys \subseteq Nat
         /\ M!Owed \in [Keys -> Nat] /\ M!Sum(M!Owed) \in Nat
         /\ \A k \in Keys : M!Owed[k] = used[k] + missed[k]
         /\ \A k \in Keys : kind # "io" => M!Owed[k] = used[k]
         /\ DOMAIN counters \in SUBSET Keys /\ DOMAIN prev \in SUBSET Keys
<1>1. /\ IsFiniteSet(Keys) /\ IsFiniteSet(Users) /\ Keys \subseteq Nat
      /\ DOMAIN counters \in SUBSET Keys /\ DOMAIN prev \in SUBSET Keys
  BY ReadersAssumption DEF CountInv, Counts
<1>. DEFINE owed == M!Owed
<1>2. /\ owed \in [Keys -> Nat]
      /\ \A k \in Keys : owed[k] = used[k] + missed[k]
      /\ \A k \in Keys : kind # "io" => owed[k] = used[k]
  BY DEF CountInv, Counts, M!Owed
<1>. HIDE DEF owed
<1>3. M!Sum(owed) \in Nat
  BY <1>1, <1>2, SumIsNat
<1>. QED
  BY <1>1, <1>2, <1>3 DEF owed

\* Undisturbed, the counters are those of the reading before, and have all of
\* what was used.
LEMMA AllUsed ==
  ASSUME CountInv, M!Undisturbed
  PROVE  /\ ~upset /\ DOMAIN prev = DOMAIN counters /\ dark = {}
         /\ wrapped \in SUBSET DOMAIN counters
         /\ \A k \in wrapped : used[k] <= RANGE /\ prev[k] < RANGE
         /\ \A k \in Keys \ DOMAIN counters : M!Owed[k] = 0
<1>1. \A k \in Keys \ DOMAIN counters : used[k] = 0 /\ missed[k] = 0
  BY DEF M!Undisturbed, CountInv, Idle
<1>2. \A k \in Keys \ DOMAIN counters : M!Owed[k] = 0
  BY <1>1, FiniteKeys
<1>. QED
  BY <1>2 DEF M!Undisturbed, M!InUse, CountInv, Rounds, Straight, Idle

LEMMA SharesShown ==
  ASSUME CountInv, NEW T \in SUBSET Keys, NEW amounts \in [T -> Nat], NEW credit \in [T -> Users],
         shown' = M!Shares(amounts, credit),
         (kind = "core" => ~upset) => \A k \in T : amounts[k] <= M!Owed[k],
         M!Undisturbed => /\ T = DOMAIN counters
                          /\ \A k \in T : amounts[k] + (IF k \in wrapped THEN 1 ELSE 0) = M!Owed[k]
  PROVE  FigureTrue
<1>1. IsFiniteSet(T)
  BY FiniteKeys, FS_Subset
<1>2. M!Sum(shown') = M!Sum(amounts)
  <2>. DEFINE shares == M!Shares(amounts, credit)
  <2>1. M!Sum(shares) = M!Sum(amounts)
    BY <1>1, FiniteKeys, SumOfShares
  <2>. QED
    BY <2>1
<1>3. ASSUME kind = "core" => ~upset PROVE M!Sum(amounts) <= M!Sum(M!Owed)
  BY <1>3, FiniteKeys, SumAtMost
<1>4. ASSUME M!Undisturbed PROVE M!Sum(amounts) + Cardinality(wrapped) = M!Sum(M!Owed)
  <2>1. /\ T = DOMAIN counters /\ wrapped \in SUBSET T
        /\ \A k \in T : amounts[k] + (IF k \in wrapped THEN 1 ELSE 0) = M!Owed[k]
        /\ \A k \in Keys \ T : M!Owed[k] = 0
    BY <1>4, AllUsed
  <2>. QED
    BY <2>1, FiniteKeys, SumExactly
<1>. QED
  BY <1>2, <1>3, <1>4, SameCardinality DEF FigureTrue

LEMMA NothingShown ==
  ASSUME CountInv, shown' = M!Nobody, M!Undisturbed => DOMAIN counters = {}
  PROVE  FigureTrue
<1>1. M!Sum(shown') = 0
  <2>. DEFINE none == M!Nobody
  <2>1. none \in [Users -> Nat] /\ \A u \in Users : none[u] = 0
    BY DEF M!Nobody
  <2>. HIDE DEF none
  <2>2. M!Sum(none) = 0
    BY <2>1, FiniteKeys, SumOfNothing
  <2>. QED
    BY <2>2 DEF none
<1>2. ASSUME M!Undisturbed PROVE M!Sum(M!Owed) = 0 /\ Cardinality(wrapped) = 0
  <2>1. wrapped = {} /\ \A k \in Keys : M!Owed[k] = 0
    BY <1>2, AllUsed
  <2>. QED
    BY <2>1, FiniteKeys, SumOfNothing, FS_EmptySet
<1>. QED
  BY <1>1, <1>2, FiniteKeys, SameCardinality DEF FigureTrue

\* What a counter adds to an amount.
LEMMA Grown ==
  ASSUME CountInv, ~M!Energy, NEW k \in DOMAIN counters
  PROVE  /\ M!Growth(k) \in Nat
         /\ (kind = "core" => ~upset) => M!Growth(k) <= M!Owed[k]
         /\ M!Undisturbed => M!Growth(k) + (IF k \in wrapped THEN 1 ELSE 0) = M!Owed[k]
<1>1. /\ counters[k] \in Nat /\ (k \in DOMAIN prev => prev[k] \in Nat)
      /\ M!Owed[k] \in Nat /\ M!Owed[k] = used[k] + missed[k]
  BY FiniteKeys DEF CountInv, Counts
<1>2. CASE k \in DOMAIN prev
  <2>1. M!Growth(k) = Figure(k) /\ M!Growth(k) \in Nat
    BY <1>1, <1>2 DEF M!Growth, M!Sub, Figure
  <2>. QED
    BY <1>1, <1>2, <2>1, CountsTrue, AllUsed DEF CountersTrue
<1>3. CASE k \notin DOMAIN prev
  <2>1. M!Growth(k) = 0
    BY <1>3 DEF M!Growth
  <2>2. ~M!Undisturbed
    BY <1>3, AllUsed
  <2>. QED
    BY <1>1, <2>1, <2>2
<1>. QED
  BY <1>2, <1>3

LEMMA GrownEnergy ==
  ASSUME CountInv, M!Energy, NEW k \in DOMAIN prev
  PROVE  /\ k \in Keys /\ k \in DOMAIN counters
         /\ M!EnergyDelta(counters[k], prev[k]) \in Nat
         /\ M!EnergyDelta(counters[k], prev[k]) <= M!Owed[k]
         /\ M!Undisturbed =>
              M!EnergyDelta(counters[k], prev[k]) + (IF k \in wrapped THEN 1 ELSE 0) = M!Owed[k]
<1>1. k \in Keys /\ k \in DOMAIN counters /\ counters[k] \in Nat /\ prev[k] \in Nat /\ RANGE \in Nat
  BY ReadersAssumption DEF CountInv, Counts, Rounds
<1>2. M!EnergyDelta(counters[k], prev[k]) \in Nat
  BY <1>1 DEF M!EnergyDelta
<1>3. M!EnergyDelta(counters[k], prev[k]) = Figure(k) /\ kind # "core"
  BY DEF Figure, M!Energy
<1>4. M!Owed[k] = used[k] + missed[k]
  BY <1>1, FiniteKeys
<1>. QED
  BY <1>1, <1>2, <1>3, <1>4, CountsTrue, AllUsed DEF CountersTrue

\* Growths of some of the counters in use are shown.
LEMMA GrowthsShown ==
  ASSUME CountInv, ~M!Energy, NEW T \in SUBSET DOMAIN counters, NEW credit \in [T -> Users],
         shown' = M!Shares(M!Growths(T), credit), M!Undisturbed => T = DOMAIN counters
  PROVE  FigureTrue
<1>. DEFINE amounts == M!Growths(T)
<1>1. amounts = [k \in T |-> M!Growth(k)]
  BY DEF M!Growths
<1>. HIDE DEF amounts
<1>2. amounts \in [T -> Nat] /\ T \in SUBSET Keys
  BY <1>1, Grown, FiniteKeys
<1>3. (kind = "core" => ~upset) => \A k \in T : amounts[k] <= M!Owed[k]
  BY <1>1, Grown
<1>4. M!Undisturbed => \A k \in T : amounts[k] + (IF k \in wrapped THEN 1 ELSE 0) = M!Owed[k]
  BY <1>1, Grown
<1>5. shown' = M!Shares(amounts, credit)
  BY DEF amounts
<1>. QED
  BY <1>2, <1>3, <1>4, <1>5, SharesShown

LEMMA HeldIsCredit ==
  ASSUME NEW T, NEW credit, credit \in M!Held(T)
  PROVE  credit \in [T -> Users]
BY DEF M!Held, M!Credits

\* A core is differenced with the core of its place; while none comes or goes
\* that is itself.
LEMMA SamePlace ==
  ASSUME NEW K \in SUBSET Nat, IsFiniteSet(K), NEW j \in K, NEW k \in K,
         Cardinality({i \in K : i < j}) = Cardinality({i \in K : i < k})
  PROVE  j = k
<1>1. ASSUME NEW a \in K, NEW b \in K, a < b
      PROVE  Cardinality({i \in K : i < a}) # Cardinality({i \in K : i < b})
  <2>. DEFINE A == {i \in K : i < a}
              B == {i \in K : i < b}
  <2>1. A \in SUBSET B /\ B \in SUBSET K /\ a \in B /\ a \notin A
    <3>1. a \in Nat /\ b \in Nat /\ \A i \in K : i \in Nat
      OBVIOUS
    <3>2. \A i \in K : i < a => i < b
      BY <1>1, <3>1
    <3>3. ~(a < a)
      BY <3>1
    <3>. QED
      BY <1>1, <3>2, <3>3
  <2>. HIDE DEF A, B
  <2>2. IsFiniteSet(B)
    BY <2>1, FS_Subset
  <2>3. Cardinality(A) # Cardinality(B)
    BY <2>1, <2>2, FS_Subset
  <2>. QED
    BY <2>3 DEF A, B
<1>2. ~(j < k) /\ ~(k < j)
  BY <1>1
<1>. QED
  BY <1>2

LEMMA CoresShown ==
  ASSUME CountInv, M!ReadCores
  PROVE  FigureTrue
<1>. USE DEF M!InUse
<1>. DEFINE place(set, k) == M!Cardinality({i \in set : i < k})
            before(k) == CHOOSE j \in DOMAIN prev : place(DOMAIN prev, j) = place(DOMAIN counters, k)
            amounts == [k \in DOMAIN counters |-> M!Sub(counters[k], prev[before(k)])]
<1>1. kind = "core" /\ ~M!Energy
  BY DEF M!ReadCores, M!Energy
<1>2. CASE upset
  BY <1>1, <1>2, AllUsed DEF FigureTrue
<1>3. CASE ~upset
  <2>1. DOMAIN prev = DOMAIN counters
    BY <1>1, <1>3 DEF CountInv, Straight
  <2>2. PICK credit \in M!Held(DOMAIN counters) : shown' = M!Shares(amounts, credit)
    BY <2>1 DEF M!ReadCores
  <2>3. ASSUME NEW k \in DOMAIN counters PROVE before(k) = k
    <3>1. /\ DOMAIN counters \in SUBSET Nat /\ IsFiniteSet(DOMAIN counters)
      BY FiniteKeys, FS_Subset
    <3>2. \A j \in DOMAIN counters :
             place(DOMAIN counters, j) = place(DOMAIN counters, k) => j = k
      BY <3>1, SamePlace, SameCardinality
    <3>. HIDE DEF place
    <3>. QED
      BY <2>1, <3>2
  <2>4. amounts = M!Growths(DOMAIN counters)
    <3>. HIDE DEF before
    <3>. QED
      BY <2>1, <2>3 DEF M!Growths, M!Growth
  <2>. HIDE DEF amounts
  <2>. QED
    BY <1>1, <2>2, <2>4, HeldIsCredit, GrowthsShown
<1>. QED
  BY <1>2, <1>3

LEMMA ReadFigures ==
  ASSUME CountInv, M!Read
  PROVE  FigureTrue
<1>. USE DEF M!InUse
<1>1. CASE M!ReadPlain \/ M!ReadInterfaces
  <2>1. PICK credit \in M!Held(DOMAIN counters \ dark) :
          shown' = M!Shares(M!Growths(DOMAIN counters \ dark), credit)
    BY <1>1 DEF M!ReadPlain, M!ReadInterfaces
  <2>2. ~M!Energy
    BY <1>1 DEF M!ReadPlain, M!ReadInterfaces, M!Energy
  <2>3. M!Undisturbed => DOMAIN counters \ dark = DOMAIN counters
    BY AllUsed
  <2>4. credit \in [DOMAIN counters \ dark -> Users]
    BY HeldIsCredit
  <2>. QED
    BY <2>1, <2>2, <2>3, <2>4, GrowthsShown
<1>8. CASE M!ReadIo
  <2>. DEFINE amounts == [k \in DOMAIN counters |-> IF k \in dark THEN 0 ELSE M!Growth(k)]
  <2>1. PICK credit \in M!Held(DOMAIN counters) : shown' = M!Shares(amounts, credit)
    BY <1>8 DEF M!ReadIo
  <2>2. ~M!Energy
    BY <1>8 DEF M!ReadIo, M!Energy
  <2>3. amounts \in [DOMAIN counters -> Nat] /\ DOMAIN counters \in SUBSET Keys
    BY <2>2, Grown, FiniteKeys
  <2>4. (kind = "core" => ~upset) => \A k \in DOMAIN counters : amounts[k] <= M!Owed[k]
    BY <2>2, Grown, FiniteKeys
  <2>5. M!Undisturbed => \A k \in DOMAIN counters :
                            amounts[k] + (IF k \in wrapped THEN 1 ELSE 0) = M!Owed[k]
    BY <2>2, Grown, AllUsed
  <2>6. credit \in [DOMAIN counters -> Users]
    BY HeldIsCredit
  <2>. HIDE DEF amounts
  <2>. QED
    BY <2>1, <2>3, <2>4, <2>5, <2>6, SharesShown
<1>2. CASE M!ReadCores
  BY <1>2, CoresShown
<1>3. CASE M!ReadClients
  <2>. DEFINE seen == {k \in DOMAIN counters : holders[k] # {}}
  <2>1. PICK credit \in M!Held(seen) :
          shown' = IF M!Usable THEN M!Shares(M!Growths(seen), credit) ELSE M!Nobody
    BY <1>3 DEF M!ReadClients
  <2>2. ~M!Energy
    BY <1>3 DEF M!ReadClients, M!Energy
  <2>3. M!Undisturbed => M!Usable /\ seen = DOMAIN counters
    BY <1>3 DEF M!ReadClients, M!Undisturbed, M!Usable
  <2>4. seen \in SUBSET DOMAIN counters
    OBVIOUS
  <2>. HIDE DEF seen
  <2>5. credit \in [seen -> Users]
    BY HeldIsCredit
  <2>6. CASE M!Usable
    BY <2>1, <2>2, <2>3, <2>4, <2>5, <2>6, GrowthsShown
  <2>7. CASE ~M!Usable
    BY <2>1, <2>3, <2>7, NothingShown
  <2>. QED
    BY <2>6, <2>7
<1>4. CASE M!ReadSockets
  <2>. DEFINE T == DOMAIN counters
              over == T = {} \/ dark # {} \/ M!Cardinality(T) > SOCKET_SCAN_LIMIT
  <2>1. kind = "socket" /\ ~M!Energy /\ gap > 0
    BY <1>4 DEF M!ReadSockets, M!Energy
  <2>2. CASE over
    <3>1. shown' = M!Nobody
      BY <1>4, <2>2 DEF M!ReadSockets
    <3>2. M!Cardinality(T) \in Nat /\ SOCKET_SCAN_LIMIT \in Nat
      BY FiniteKeys, FS_Subset, FS_CardinalityType, SameCardinality, ReadersAssumption
    <3>3. M!Undisturbed => M!Cardinality(T) <= SOCKET_SCAN_LIMIT /\ dark = {}
      BY <2>1, AllUsed DEF M!Undisturbed
    <3>4. M!Undisturbed => T = {}
      BY <2>2, <3>2, <3>3
    <3>. QED
      BY <3>1, <3>4, NothingShown
  <2>3. CASE ~over
    <3>. DEFINE candidates == [k \in T |-> IF holders[k] = {} THEN {Other} ELSE holders[k]]
    <3>1. PICK credit \in M!Credits(candidates) :
            shown' = IF M!Usable THEN M!Shares(M!Growths(T), credit) ELSE M!Nobody
      BY <1>4, <2>3 DEF M!ReadSockets
    <3>2. DOMAIN candidates = T
      OBVIOUS
    <3>. HIDE DEF candidates
    <3>3. credit \in [T -> Users]
      BY <3>1, <3>2 DEF M!Credits
    <3>4. M!Undisturbed => M!Usable
      BY <2>1 DEF M!Undisturbed, M!Usable
    <3>5. CASE M!Usable
      BY <2>1, <3>1, <3>3, <3>5, GrowthsShown
    <3>6. CASE ~M!Usable
      BY <3>1, <3>4, <3>6, NothingShown
    <3>. QED
      BY <3>5, <3>6
  <2>. QED
    BY <2>2, <2>3
<1>5. ASSUME M!Energy, NEW T \in SUBSET DOMAIN prev, NEW credit \in M!Held(T),
             shown' = M!Shares([k \in T |-> M!EnergyDelta(counters[k], prev[k])], credit),
             M!Undisturbed => T = DOMAIN counters
      PROVE  FigureTrue
  <2>. DEFINE amounts == [k \in T |-> M!EnergyDelta(counters[k], prev[k])]
  <2>1. amounts \in [T -> Nat] /\ T \in SUBSET Keys
    BY <1>5, GrownEnergy
  <2>2. \A k \in T : amounts[k] <= M!Owed[k]
    BY <1>5, GrownEnergy
  <2>3. M!Undisturbed => \A k \in T : amounts[k] + (IF k \in wrapped THEN 1 ELSE 0) = M!Owed[k]
    BY <1>5, GrownEnergy
  <2>4. credit \in [T -> Users]
    BY HeldIsCredit
  <2>5. shown' = M!Shares(amounts, credit)
    BY <1>5
  <2>. HIDE DEF amounts
  <2>. QED
    BY <1>5, <2>1, <2>2, <2>3, <2>4, <2>5, SharesShown
<1>6. CASE M!ReadPackage
  <2>1. kind = "package" /\ M!Energy
    BY <1>6 DEF M!ReadPackage, M!Energy
  <2>2. CASE dark # {}
    <3>1. shown' = M!Nobody
      BY <1>6, <2>2 DEF M!ReadPackage
    <3>. QED
      BY <2>2, <3>1, AllUsed, NothingShown
  <2>3. CASE dark = {} /\ prev = M!None
    <3>1. shown' = M!Nobody
      BY <1>6, <2>3 DEF M!ReadPackage
    <3>2. DOMAIN prev = {}
      BY <2>3 DEF M!None
    <3>. QED
      BY <3>1, <3>2, AllUsed, NothingShown
  <2>4. CASE dark = {} /\ prev # M!None
    <3>1. DOMAIN prev = DOMAIN counters
      BY <2>1, <2>4 DEF CountInv, Idle, Rounds
    <3>2. PICK credit \in M!Held(DOMAIN counters) :
            shown' = M!Shares([k \in DOMAIN counters |-> M!EnergyDelta(counters[k], prev[k])], credit)
      BY <1>6, <2>4 DEF M!ReadPackage
    <3>. QED
      BY <1>5, <2>1, <3>1, <3>2
  <2>. QED
    BY <2>2, <2>3, <2>4
<1>7. CASE M!ReadZones
  <2>1. M!Energy
    BY <1>7 DEF M!ReadZones, M!Energy
  <2>2. PICK credit \in M!Held(DOMAIN prev \ dark) :
          shown' = M!Shares([k \in DOMAIN prev \ dark |-> M!EnergyDelta(counters[k], prev[k])], credit)
    BY <1>7 DEF M!ReadZones
  <2>3. M!Undisturbed => DOMAIN prev \ dark = DOMAIN counters
    BY AllUsed
  <2>. QED
    BY <1>5, <2>1, <2>2, <2>3
<1>. QED
  BY <1>1, <1>2, <1>3, <1>4, <1>6, <1>7, <1>8 DEF M!Read

\* Whatever keys are recycled, shared or wrapped around between two readings, the
\* figures of all users together are never more than was used since the reading
\* before and missed by it, and all of it where only work was done (procs.rs,
\* disks.rs, net.rs, cpu.rs, power.rs).  Missed is what a process had read and
\* written whose io that reading could not read.
THEOREM FiguresAreTrue == ReadersSpec => FiguresTrue
<1>1. CountInv => (M!Read => FigureTrue)
  BY ReadFigures
<1>. QED
  BY <1>1, CountInvariant, PTL DEF ReadersSpec, FiguresTrue, M!FiguresTrue, FigureTrue
=============================================================================
