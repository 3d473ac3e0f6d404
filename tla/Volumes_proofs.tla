--------------------------- MODULE Volumes_proofs ---------------------------
(***************************************************************************)
(* Theorems about the volumes, for any mounts, any limit of volumes and    *)
(* any time they are kept.                                                 *)
(***************************************************************************)
EXTENDS Volumes, TLAPS

USE DEF world, scan, cached

\* What the theorems need of the constants: times and lengths are numbers.
Numbers == CACHE \in Nat /\ \A m \in Mounts : m.length \in Nat

-----------------------------------------------------------------------------
(* Types.                                                                    *)

LEMMA PathsOfNetwork == \A m \in Mounts : m.kind = "network" => m.path \in NetworkPaths
  BY DEF NetworkPaths

LEMMA KeepType ==
  ASSUME NEW m \in Mounts, DOMAIN found \subseteq Devices, Keep(m)
  PROVE  DOMAIN found' \subseteq Devices
  BY DEF Keep, Devices

LEMMA LookType ==
  ASSUME TypeOK, Look
  PROVE  TypeOK'
<1>. USE DEF TypeOK
<1>1. PICK m \in Mounts : Skip(m) \/ CountOnly(m) \/ Statvfs(m) \/ LeaveStuck(m) \/ Ask(m)
  BY DEF Look
<1>2. UNCHANGED <<mounted, answers, volumes, mountKeys, age>>
  BY DEF Look
<1>3. CASE Skip(m)
  BY <1>2, <1>3 DEF Skip
<1>4. CASE CountOnly(m)
  BY <1>2, <1>4 DEF CountOnly, Count
<1>5. CASE Statvfs(m)
  <2>1. DOMAIN found' \subseteq Devices
    BY <1>5, KeepType DEF Statvfs
  <2>2. silent' \subseteq Mounts
    BY <1>5 DEF Statvfs
  <2>. QED
    BY <1>2, <1>5, <2>1, <2>2 DEF Statvfs, Count
<1>6. CASE LeaveStuck(m)
  BY <1>2, <1>6 DEF LeaveStuck, Count
<1>7. CASE Ask(m)
  <2>1. m.path \in NetworkPaths
    BY <1>7, PathsOfNetwork DEF Ask
  <2>2. threads' \in [NetworkPaths -> Nat]
    BY <1>7, <2>1 DEF Ask
  <2>. QED
    BY <1>2, <1>7, <2>1, <2>2 DEF Ask, Count
<1>. QED
  BY <1>1, <1>3, <1>4, <1>5, <1>6, <1>7

LEMMA ReturnType ==
  ASSUME TypeOK, NEW p \in NetworkPaths, Return(p) \/ Fail(p)
  PROVE  TypeOK'
<1>. USE DEF TypeOK
<1>1. threads' \in [NetworkPaths -> Nat]
  BY DEF Return, Fail, Ends
<1>2. DOMAIN found' \subseteq Devices /\ silent' \subseteq Mounts
  BY KeepType DEF Return, Fail
<1>. QED
  BY <1>1, <1>2 DEF Return, Fail, Ends

LEMMA StepType == ASSUME Numbers, TypeOK, [Next]_vars PROVE TypeOK'
<1>. USE DEF TypeOK
<1>1. CASE World
  BY <1>1 DEF World, Mount, Unmount, Fall, Rise
<1>2. CASE Tick
  BY <1>2 DEF Tick, Numbers
<1>3. CASE Sample
  BY <1>3 DEF Sample, Numbers
<1>4. CASE Look
  BY <1>4, LookType
<1>5. CASE Expire
  BY <1>5 DEF Expire
<1>6. CASE EndScan
  BY <1>6 DEF EndScan
<1>7. ASSUME NEW p \in NetworkPaths, Return(p) \/ Fail(p) PROVE TypeOK'
  BY <1>7, ReturnType
<1>8. CASE UNCHANGED vars
  BY <1>8 DEF vars
<1>. QED
  BY <1>1, <1>2, <1>3, <1>4, <1>5, <1>6, <1>7, <1>8 DEF Next, Loop

LEMMA InitType == ASSUME Numbers, Init PROVE TypeOK
  BY DEF Init, TypeOK, Numbers

\* Every reachable state of mounts, helper threads, scan and cache is well typed
\* (disks.rs).
THEOREM TypeCorrect == ASSUME Numbers PROVE Spec => []TypeOK
<1>1. Init => TypeOK
  BY InitType
<1>2. TypeOK /\ [Next]_vars => TypeOK'
  BY StepType
<1>. QED
  BY <1>1, <1>2, PTL DEF Spec

-----------------------------------------------------------------------------
(* Helper threads.  A path is stuck from before its helper starts until the  *)
(* helper returns, and no other is started meanwhile.                        *)

LEMMA StepHelpers ==
  ASSUME TypeOK, OneHelperPerMount, [Next]_vars
  PROVE  OneHelperPerMount'
<1>. USE DEF OneHelperPerMount, TypeOK
<1>1. CASE UNCHANGED <<threads, stuck>>
  BY <1>1
<1>2. ASSUME NEW m \in Mounts, Ask(m) PROVE OneHelperPerMount'
  <2>1. m.path \in NetworkPaths /\ threads[m.path] = 0
    BY <1>2, PathsOfNetwork DEF Ask
  <2>. QED
    BY <1>2, <2>1 DEF Ask
<1>3. ASSUME NEW p \in NetworkPaths, Return(p) \/ Fail(p) PROVE OneHelperPerMount'
  <2>1. Ends(p)
    BY <1>3 DEF Return, Fail
  <2>2. threads[p] = 1
    BY <2>1 DEF Ends
  <2>. QED
    BY <2>1, <2>2 DEF Ends
<1>4. CASE Look
  <2>1. PICK m \in Mounts : Skip(m) \/ CountOnly(m) \/ Statvfs(m) \/ LeaveStuck(m) \/ Ask(m)
    BY <1>4 DEF Look
  <2>2. Ask(m) \/ UNCHANGED <<threads, stuck>>
    BY <2>1 DEF Skip, CountOnly, Statvfs, LeaveStuck
  <2>. QED
    BY <1>1, <1>2, <2>2
<1>. QED
  BY <1>1, <1>3, <1>4 DEF Next, Loop, World, Tick, Sample, Expire, EndScan, vars

\* However often a mount whose server is down is sampled, it holds one helper
\* thread at most (statvfs_bounded).
THEOREM OneHelper == ASSUME Numbers PROVE Spec => []OneHelperPerMount
<1>1. Init => OneHelperPerMount
  BY DEF Init, OneHelperPerMount
<1>2. TypeOK /\ OneHelperPerMount /\ [Next]_vars => OneHelperPerMount'
  BY StepHelpers
<1>. QED
  BY <1>1, <1>2, TypeCorrect, PTL DEF Spec

-----------------------------------------------------------------------------
(* The list.  While a scan runs, every mount it has counted is at or behind  *)
(* the one that is listed for its device, but for those that told no space   *)
(* and the one that is being asked.                                          *)

Settled == keys \ (silent \cup asked)

Waited ==
  /\ pc # "wait" => asked = {}
  /\ pc = "wait" => \E m \in Mounts : asked = {m} /\ ~Shadowed(m)

Apart == silent \subseteq keys /\ asked \subseteq keys \ silent /\ todo \cap keys = {}

Shortest ==
  /\ \A m \in Settled : Shadowed(m)
  /\ \A d \in DOMAIN found : found[d].device = d /\ found[d] \in Settled

Stored == pc = "idle" => volumes = found /\ mountKeys = keys

ListInv == Waited /\ Apart /\ Shortest /\ Stored

\* A mount that is kept takes the place of a longer one of its device.
LEMMA KeepShortest ==
  ASSUME Numbers, TypeOK, Shortest, NEW m \in Mounts, ~Shadowed(m), Keep(m),
         Settled' = Settled \cup {m}, m \notin Settled
  PROVE  Shortest'
<1>. USE DEF Shadowed, Shortest, Keep
<1>1. \A d \in DOMAIN found' : found'[d].device = d /\ found'[d] \in Settled'
  OBVIOUS
<1>2. m.device \in DOMAIN found' /\ found'[m.device] = m
  OBVIOUS
<1>3. ASSUME NEW n \in Settled, n.device = m.device PROVE m.length <= n.length
  <2>1. n \in Mounts /\ found[n.device] \in Mounts
    BY <1>3 DEF Settled, TypeOK
  <2>2. found[n.device].length <= n.length /\ ~(found[n.device].length <= m.length)
    BY <1>3
  <2>. QED
    BY <2>1, <2>2 DEF Numbers
<1>4. ASSUME NEW n \in Settled' PROVE n.device \in DOMAIN found' /\ found'[n.device].length <= n.length
  <2>1. CASE n = m
    BY <1>2, <2>1 DEF Numbers
  <2>2. CASE n \in Settled /\ n.device = m.device
    BY <1>2, <1>3, <2>2
  <2>3. CASE n \in Settled /\ n.device # m.device
    BY <2>3
  <2>. QED
    BY <1>4, <2>1, <2>2, <2>3
<1>. QED
  BY <1>1, <1>4

\* A step that leaves the list alone may settle mounts that are behind it.
LEMMA SameShortest ==
  ASSUME Shortest, UNCHANGED found, Settled \subseteq Settled',
         \A m \in Settled' \ Settled : Shadowed(m)
  PROVE  Shortest'
  BY DEF Shortest, Shadowed

LEMMA LookList ==
  ASSUME Numbers, TypeOK, ListInv, Look
  PROVE  ListInv'
<1>1. PICK m \in Mounts : /\ IsNext(m)
                          /\ Skip(m) \/ CountOnly(m) \/ Statvfs(m) \/ LeaveStuck(m) \/ Ask(m)
  BY DEF Look
<1>2. /\ pc = "scan" /\ asked = {} /\ UNCHANGED <<volumes, mountKeys>>
      /\ m \in todo /\ m \notin keys
  BY <1>1 DEF Look, IsNext, ListInv, Waited, Apart
<1>3. CASE Skip(m)
  BY <1>2, <1>3 DEF Skip, ListInv, Waited, Apart, Shortest, Stored, Settled, Shadowed
<1>4. CASE CountOnly(m)
  <2>1. Settled' = Settled \cup {m}
    BY <1>2, <1>4 DEF CountOnly, Count, Settled, ListInv, Apart
  <2>2. Shortest'
    BY <1>4, <2>1, SameShortest DEF CountOnly, ListInv
  <2>. QED
    BY <1>2, <1>4, <2>2 DEF CountOnly, Count, ListInv, Waited, Apart, Stored
<1>5. CASE Statvfs(m)
  <2>1. CASE HasSpace(m)
    <3>1. Settled' = Settled \cup {m} /\ m \notin Settled
      BY <1>2, <1>5, <2>1 DEF Statvfs, Count, Settled, ListInv, Apart
    <3>2. Shortest'
      BY <1>5, <2>1, <3>1, KeepShortest DEF Statvfs, ListInv
    <3>. QED
      BY <1>2, <1>5, <2>1, <3>2 DEF Statvfs, Count, ListInv, Waited, Apart, Stored
  <2>2. CASE ~HasSpace(m)
    <3>1. Settled' = Settled
      BY <1>2, <1>5, <2>2 DEF Statvfs, Count, Settled
    <3>2. Shortest'
      BY <1>5, <2>2, <3>1, SameShortest DEF Statvfs, ListInv
    <3>. QED
      BY <1>2, <1>5, <2>2, <3>2 DEF Statvfs, Count, ListInv, Waited, Apart, Stored
  <2>. QED
    BY <2>1, <2>2
<1>6. CASE LeaveStuck(m)
  <2>1. Settled' = Settled
    BY <1>2, <1>6 DEF LeaveStuck, Count, Settled
  <2>2. Shortest'
    BY <1>6, <2>1, SameShortest DEF LeaveStuck, ListInv
  <2>. QED
    BY <1>2, <1>6, <2>2 DEF LeaveStuck, Count, ListInv, Waited, Apart, Stored
<1>7. CASE Ask(m)
  <2>1. Settled' = Settled
    BY <1>2, <1>7 DEF Ask, Count, Settled
  <2>2. Shortest'
    BY <1>7, <2>1, SameShortest DEF Ask, ListInv
  <2>3. Waited'
    BY <1>7 DEF Ask, Waited, Shadowed
  <2>. QED
    BY <1>2, <1>7, <2>2, <2>3 DEF Ask, Count, ListInv, Apart, Stored
<1>. QED
  BY <1>1, <1>3, <1>4, <1>5, <1>6, <1>7

LEMMA ReturnList ==
  ASSUME Numbers, TypeOK, ListInv, NEW p \in NetworkPaths, Return(p)
  PROVE  ListInv'
<1>1. CASE \E m \in asked : m.path = p
  <2>1. PICK m \in Mounts : asked = {m} /\ ~Shadowed(m)
    BY <1>1 DEF ListInv, Waited
  <2>2. Keep(m) /\ asked' = {} /\ pc' = "scan" /\ UNCHANGED <<todo, keys, silent>>
    BY <1>1, <2>1 DEF Return, Ends
  <2>3. Settled' = Settled \cup {m} /\ m \notin Settled
    BY <2>1, <2>2 DEF Settled, ListInv, Apart
  <2>4. Shortest'
    BY <2>1, <2>2, <2>3, KeepShortest DEF ListInv
  <2>. QED
    BY <2>1, <2>2, <2>4 DEF ListInv, Waited, Apart, Stored
<1>2. CASE ~\E m \in asked : m.path = p
  BY <1>2 DEF Return, Ends, ListInv, Waited, Apart, Shortest, Stored, Settled, Shadowed
<1>. QED
  BY <1>1, <1>2

\* The mount that a scan stops waiting for tells no space.
LEMMA GivenUp ==
  ASSUME ListInv, pc = "wait", pc' = "scan", asked' = {}, silent' = silent \cup asked,
         UNCHANGED <<found, keys, todo, volumes, mountKeys>>
  PROVE  ListInv'
  BY DEF ListInv, Waited, Apart, Shortest, Stored, Settled, Shadowed

LEMMA FailList ==
  ASSUME ListInv, NEW p \in NetworkPaths, Fail(p)
  PROVE  ListInv'
<1>1. CASE \E m \in asked : m.path = p
  BY <1>1, GivenUp DEF Fail, Ends, ListInv, Waited
<1>2. CASE ~\E m \in asked : m.path = p
  BY <1>2 DEF Fail, Ends, ListInv, Waited, Apart, Shortest, Stored, Settled, Shadowed
<1>. QED
  BY <1>1, <1>2

LEMMA StepList ==
  ASSUME Numbers, TypeOK, ListInv, [Next]_vars
  PROVE  ListInv'
<1>. USE DEF ListInv, Waited, Apart, Shortest, Stored, Settled, Shadowed
<1>1. CASE World \/ Tick \/ UNCHANGED vars
  <2>1. UNCHANGED <<scan, volumes, mountKeys>>
    BY <1>1 DEF World, Tick, vars
  <2>. QED
    BY <2>1
<1>2. CASE Sample
  BY <1>2 DEF Sample
<1>3. CASE Expire
  <2>1. PICK m \in Mounts : asked = {m}
    BY <1>3 DEF Expire
  <2>2. silent' = silent \cup asked
    BY <1>3, <2>1 DEF Expire
  <2>. QED
    BY <1>3, <2>2, GivenUp DEF Expire
<1>4. CASE EndScan
  BY <1>4 DEF EndScan
<1>5. CASE Look
  BY <1>5, LookList
<1>6. ASSUME NEW p \in NetworkPaths, Return(p) \/ Fail(p) PROVE ListInv'
  BY <1>6, ReturnList, FailList
<1>. QED
  BY <1>1, <1>2, <1>3, <1>4, <1>5, <1>6 DEF Next, Loop

\* A finished scan lists each device at its shortest mount that told its space,
\* in whatever order the mounts were met, and whichever helpers returned late
\* or not at all (scan_volumes).
THEOREM ShortestListed == ASSUME Numbers PROVE Spec => []VolumesListed
<1>1. Init => ListInv
  BY DEF Init, ListInv, Waited, Apart, Shortest, Stored, Settled, Shadowed
<1>2. TypeOK /\ ListInv /\ [Next]_vars => ListInv'
  BY StepList
<1>3. ListInv => VolumesListed
  BY DEF ListInv, Waited, Apart, Shortest, Stored, Settled, Shadowed, VolumesListed
<1>. QED
  BY <1>1, <1>2, <1>3, TypeCorrect, PTL DEF Spec
=============================================================================
