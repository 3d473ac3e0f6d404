------------------------------- MODULE Readers -------------------------------
(***************************************************************************)
(* What the sampler reads the machine with: a helper (HelperRun), the      *)
(* volumes of the disks (Volumes) and the counters (Meters).  The three    *)
(* share no state, so one behaviour is about one of them, its part, and    *)
(* the other two stay as they were: what holds of each of them here holds  *)
(* of the three together.                                                  *)
(***************************************************************************)
EXTENDS HelperRun, FiniteSets

CONSTANTS
  Mounts, Fixed, VOLUME_LIMIT, CACHE,                \* of module Volumes
  Keys, Users, Other, RANGE, USABLE,                 \* of module Meters
  SOCKET_SCAN_LIMIT, MaxCount

\* A mount's id is its place in mountinfo.
ASSUME ReadersAssumption ==
  /\ CACHE \in Nat /\ VOLUME_LIMIT \in Nat
  /\ \A m \in Mounts : m.id \in Nat /\ m.length \in Nat
  /\ Keys \subseteq Nat /\ IsFiniteSet(Keys) /\ IsFiniteSet(Users)
  /\ RANGE \in Nat \ {0} /\ SOCKET_SCAN_LIMIT \in Nat /\ MaxCount \in Nat

VARIABLES
  part,            \* the part the behaviour is about
  mounted, answers, threads, stuck, vpc, todo, asked, found, keys, volumes,
  mountKeys, age, silent,
  kind, counters, holders, dark, prev, gap, shown, used, missed, wrapped, upset

V == INSTANCE Volumes WITH pc <- vpc
M == INSTANCE Meters

volumesVars == <<mounted, answers, threads, stuck, vpc, todo, asked, found, keys,
                 volumes, mountKeys, age, silent>>
metersVars  == <<kind, counters, holders, dark, prev, gap, shown, used, missed, wrapped, upset>>
all == <<part, vars, volumesVars, metersVars>>

ReadersInit == part \in {"run", "volumes", "meters"} /\ Init /\ V!Init /\ M!Init

OnlyRun     == part = "run"     /\ UNCHANGED <<part, volumesVars, metersVars>>
OnlyVolumes == part = "volumes" /\ UNCHANGED <<part, vars, metersVars>>
OnlyMeters  == part = "meters"  /\ UNCHANGED <<part, vars, volumesVars>>

ReadersNext ==
  \/ OnlyRun /\ Next
  \/ OnlyVolumes /\ V!Next
  \/ OnlyMeters /\ M!Next

\* The sampler's threads and its helper threads are scheduled.
ReadersFairness ==
  /\ WF_all(OnlyRun /\ Run)
  /\ WF_all(OnlyVolumes /\ V!Loop) /\ WF_all(OnlyVolumes /\ V!Tick)
  /\ \A p \in V!NetworkPaths : WF_all(OnlyVolumes /\ V!Return(p))

ReadersSpec == ReadersInit /\ [][ReadersNext]_all /\ ReadersFairness

-----------------------------------------------------------------------------
\* Returns, of a behaviour about the helper.
RunReturns == part = "run" => Returns

\* A dead network mount costs one helper thread at most (disks.rs,
\* statvfs_bounded).
OneHelperPerMount == V!OneHelperPerMount

\* Each device is listed at its shortest mount that answers (scan_volumes).
VolumesListed == V!TypeOK /\ V!VolumesListed

\* The list of volumes follows what can be reached (scan_volumes,
\* statvfs_bounded).
ListFollows == part = "volumes" => V!ListFollows

\* The figures shown are the differences of what was used (procs.rs, cpu.rs,
\* power.rs).
FiguresTrue == M!FiguresTrue
=============================================================================
