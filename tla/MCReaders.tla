------------------------------ MODULE MCReaders ------------------------------
(***************************************************************************)
(* Readers with a few mounts, and fewer ways to start.                     *)
(***************************************************************************)
EXTENDS Readers, FiniteSets

mount(i, p, n, d, k) == [id |-> i, path |-> p, length |-> n, device |-> d, kind |-> k]

\* Two mounts of a share, the longer first in mountinfo; two of a disk, too; a
\* small boot partition, and a filesystem that is not a real one.
MCNetwork == {mount(5, "/srv", 2, "share", "network"), mount(4, "/mnt/srv", 3, "share", "network")}
MCLocal == {mount(3, "/", 1, "disk", "disk"), mount(2, "/old", 2, "disk", "disk"),
            mount(1, "/boot", 2, "boot", "small"), mount(0, "/proc", 2, "proc", "other")}

MCMounts == MCNetwork \cup MCLocal

\* The meters of one kind are alike, and so are users but for Other: of the ways
\* in which they may be held, these stand for all.
Holdings ==
  IF kind \in {"client", "socket"}
  THEN Cardinality(holders[1]) <= Cardinality(holders[2])
  ELSE holders[1] = {"a"}

\* One way to start stands for all where the meters do not move.
MCInit ==
  /\ ReadersInit
  /\ Holdings
  /\ part = "meters" \/ (kind = "plain" /\ holders[2] = {"a"})

MCSpec == MCInit /\ [][ReadersNext]_all /\ ReadersFairness
=============================================================================
