------------------------------- MODULE Volumes -------------------------------
(***************************************************************************)
(* The volumes of sampler/src/disks.rs: scan_volumes reads mountinfo, asks *)
(* every mount for its space and keeps one mount of each device, for ten   *)
(* seconds.  A network mount is asked on a helper thread, because a server *)
(* that is down blocks statvfs for as long as it likes.                    *)
(*                                                                         *)
(* A mount is a record: its id, in the order of mountinfo, its path and    *)
(* the length of it, the device (of a ZFS dataset, the pool), and what     *)
(* kind of filesystem it is: "disk", "network", "small" (less than 64 MiB, *)
(* or statvfs fails) or "other", one that is not listed: not a real        *)
(* filesystem, under /proc and the like, a snapshot.                       *)
(***************************************************************************)
EXTENDS FiniteSets, Integers

CONSTANTS
  Mounts,          \* the mounts the machine may have
  Fixed,           \* those it always has
  VOLUME_LIMIT,
  CACHE            \* how long the volumes are kept

VARIABLES
  mounted,         \* the mounts there are
  answers,         \* the paths of the network mounts whose server tells the space
  threads,         \* path -> helper threads in statvfs
  stuck,           \* paths of network mounts whose statvfs has not returned
  pc,              \* "idle", "scan", or "wait" for a helper
  todo,            \* lines of mountinfo not looked at yet
  asked,           \* the mount a helper was started for
  found, keys,     \* scan_volumes' volumes and mount_keys
  volumes, mountKeys,
  age,             \* of the volumes
  silent           \* history: mounts that this scan could not get the space of

world  == <<mounted, answers>>
scan   == <<pc, todo, asked, found, keys, silent>>
cached == <<volumes, mountKeys, age>>
vars   == <<world, threads, stuck, scan, cached>>

NetworkPaths == {m.path : m \in {n \in Mounts : n.kind = "network"}}
Devices      == {m.device : m \in Mounts}

Init ==
  /\ mounted = Mounts
  /\ answers = NetworkPaths
  /\ threads = [p \in NetworkPaths |-> 0]
  /\ stuck = {}
  /\ pc = "idle"
  /\ todo = {} /\ asked = {} /\ silent = {}
  /\ found = <<>> /\ keys = {}
  /\ volumes = <<>> /\ mountKeys = {}
  /\ age = CACHE + 1

-----------------------------------------------------------------------------
(* The world.                                                                *)

Mount(m)   == m \notin mounted /\ mounted' = mounted \cup {m} /\ UNCHANGED answers
Unmount(m) == m \in mounted /\ mounted' = mounted \ {m} /\ UNCHANGED answers
Fall(p)    == p \in answers /\ answers' = answers \ {p} /\ UNCHANGED mounted

\* A server that is down while a helper is waited for stays down that long.
Rise(p) ==
  /\ p \notin answers /\ \A m \in asked : m.path # p
  /\ answers' = answers \cup {p}
  /\ UNCHANGED mounted

World ==
  /\ \/ \E m \in Mounts \ Fixed : Mount(m) \/ Unmount(m)
     \/ \E p \in NetworkPaths : Fall(p) \/ Rise(p)
  /\ UNCHANGED <<threads, stuck, scan, cached>>

Tick ==
  /\ age <= CACHE
  /\ age' = age + 1
  /\ UNCHANGED <<world, threads, stuck, scan, volumes, mountKeys>>

-----------------------------------------------------------------------------
(* The scan.                                                                 *)

Sample ==
  /\ pc = "idle" /\ age > CACHE
  /\ pc' = "scan"
  /\ todo' = mounted
  /\ found' = <<>> /\ keys' = {} /\ silent' = {}
  /\ age' = 0
  /\ UNCHANGED <<world, threads, stuck, asked, volumes, mountKeys>>

\* Mutant: the first mount of a device that answers is the one that is listed.
ShadowedByFirst(m) == m.device \in DOMAIN found

\* A mount of the device with a path no longer than this one's is listed.
Shadowed(m) == m.device \in DOMAIN found /\ found[m.device].length <= m.length

Keep(m) == found' = [d \in DOMAIN found \cup {m.device} |->
                       IF d = m.device THEN m ELSE found[d]]

\* Listed or not, a mount ties the files open on it to its drive.
Count(m) == todo' = todo \ {m} /\ keys' = keys \cup {m}

Skip(m) ==
  /\ m.kind = "other"
  /\ todo' = todo \ {m}
  /\ UNCHANGED <<threads, stuck, pc, asked, found, keys, silent>>

CountOnly(m) ==
  /\ m.kind # "other" /\ Shadowed(m)
  /\ Count(m)
  /\ UNCHANGED <<threads, stuck, pc, asked, found, silent>>

\* statvfs tells the space, and it is not too small.
HasSpace(m) == m.kind = "disk"

Statvfs(m) ==
  /\ m.kind \in {"disk", "small"} /\ ~Shadowed(m)
  /\ Count(m)
  /\ IF HasSpace(m) THEN Keep(m) /\ UNCHANGED silent
                    ELSE silent' = silent \cup {m} /\ UNCHANGED found
  /\ UNCHANGED <<threads, stuck, pc, asked>>

\* statvfs_bounded, when the helper of an earlier call has not returned.
LeaveStuck(m) ==
  /\ m.kind = "network" /\ ~Shadowed(m) /\ m.path \in stuck
  /\ Count(m)
  /\ silent' = silent \cup {m}
  /\ UNCHANGED <<threads, stuck, pc, asked, found>>

\* Mutant: that helper is not looked for.
AskAgain(m) ==
  /\ m.kind = "network" /\ ~Shadowed(m)
  /\ Count(m)
  /\ threads' = [threads EXCEPT ![m.path] = @ + 1]
  /\ stuck' = stuck \cup {m.path}
  /\ asked' = {m} /\ pc' = "wait"
  /\ UNCHANGED <<found, silent>>

\* statvfs_bounded: a helper is started and waited for.
Ask(m) ==
  /\ m.kind = "network" /\ ~Shadowed(m) /\ m.path \notin stuck
  /\ Count(m)
  /\ threads' = [threads EXCEPT ![m.path] = @ + 1]
  /\ stuck' = stuck \cup {m.path}
  /\ asked' = {m} /\ pc' = "wait"
  /\ UNCHANGED <<found, silent>>

AtLimit == Cardinality(DOMAIN found) >= VOLUME_LIMIT

\* parse_mountinfo: the mounts are looked at in the order of mountinfo.
IsNext(m) == m \in todo /\ \A n \in todo : m.id <= n.id

Look ==
  /\ pc = "scan" /\ ~AtLimit
  /\ \E m \in Mounts :
       /\ IsNext(m)
       /\ Skip(m) \/ CountOnly(m) \/ Statvfs(m) \/ LeaveStuck(m) \/ Ask(m)
  /\ UNCHANGED <<world, cached>>

\* The recv_timeout of statvfs_bounded.  A server that is up answers in time.
Expire ==
  /\ pc = "wait"
  /\ \E m \in asked : m.path \notin answers /\ silent' = silent \cup {m}
  /\ pc' = "scan" /\ asked' = {}
  /\ UNCHANGED <<world, threads, stuck, todo, found, keys, cached>>

EndScan ==
  /\ pc = "scan"
  /\ todo = {} \/ AtLimit
  /\ pc' = "idle"
  /\ volumes' = found /\ mountKeys' = keys
  /\ UNCHANGED <<world, threads, stuck, todo, asked, found, keys, silent, age>>

\* Mutant: a helper that returns too late does not clear its path.
ReturnStuck(p) ==
  /\ p \in answers /\ threads[p] > 0
  /\ threads' = [threads EXCEPT ![p] = @ - 1]
  /\ IF \E m \in asked : m.path = p
     THEN (\E m \in asked : Keep(m)) /\ pc' = "scan" /\ asked' = {} /\ stuck' = stuck \ {p}
     ELSE UNCHANGED <<pc, asked, found, stuck>>
  /\ UNCHANGED <<world, todo, keys, silent, cached>>

\* A helper's statvfs returns, and its path is no longer stuck.
Ends(p) ==
  /\ threads[p] > 0
  /\ threads' = [threads EXCEPT ![p] = @ - 1]
  /\ stuck' = stuck \ {p}
  /\ UNCHANGED <<world, todo, keys, cached>>

\* It returns the space, in time for the scan or after it has gone on.
Return(p) ==
  /\ p \in answers
  /\ Ends(p)
  /\ IF \E m \in asked : m.path = p
     THEN (\E m \in asked : Keep(m)) /\ pc' = "scan" /\ asked' = {}
     ELSE UNCHANGED <<pc, asked, found>>
  /\ UNCHANGED silent

\* It returns an error, the server being down; nothing says that it ever does.
Fail(p) ==
  /\ p \notin answers
  /\ Ends(p)
  /\ IF \E m \in asked : m.path = p
     THEN silent' = silent \cup asked /\ pc' = "scan" /\ asked' = {}
     ELSE UNCHANGED <<pc, asked, silent>>
  /\ UNCHANGED found

Loop == Sample \/ Look \/ Expire \/ EndScan

Next == World \/ Tick \/ Loop \/ \E p \in NetworkPaths : Return(p) \/ Fail(p)

Spec == Init /\ [][Next]_vars

-----------------------------------------------------------------------------
TypeOK ==
  /\ mounted \subseteq Mounts /\ answers \subseteq NetworkPaths
  /\ threads \in [NetworkPaths -> Nat] /\ stuck \subseteq NetworkPaths
  /\ pc \in {"idle", "scan", "wait"}
  /\ todo \subseteq Mounts /\ asked \subseteq Mounts /\ silent \subseteq Mounts
  /\ keys \subseteq Mounts /\ mountKeys \subseteq Mounts
  /\ DOMAIN found \subseteq Devices /\ DOMAIN volumes \subseteq Devices
  /\ age \in 0 .. CACHE + 1

\* However often a dead mount is sampled, it holds one helper at most, and it
\* is left alone exactly while that helper is there.
OneHelperPerMount ==
  \A p \in NetworkPaths : threads[p] = IF p \in stuck THEN 1 ELSE 0

\* A finished scan lists each device at the shortest path it could get the
\* space of, whatever the order of the mounts and whichever of them failed.
VolumesListed ==
  pc = "idle" =>
    /\ \A m \in mountKeys \ silent :
         m.device \in DOMAIN volumes /\ volumes[m.device].length <= m.length
    /\ \A d \in DOMAIN volumes :
         volumes[d].device = d /\ volumes[d] \in mountKeys \ silent

Reaches(m) == HasSpace(m) \/ (m.kind = "network" /\ m.path \in answers)

\* A volume that can be reached comes to be listed, though its server was down
\* for as long as one likes, and one that cannot be reached any more is dropped.
ListFollows ==
  \A d \in Devices :
    LET Of == {m \in Mounts : m.device = d}
    IN  /\ \A m \in Of : <>[](m \in mounted /\ Reaches(m)) => <>[](d \in DOMAIN volumes)
        /\ (\A m \in Of : <>[](m \notin mounted) \/ <>[]~Reaches(m))
             => <>[](d \notin DOMAIN volumes)
=============================================================================
