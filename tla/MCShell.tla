------------------------------- MODULE MCShell -------------------------------
(***************************************************************************)
(* Shell with a board under two drivers and two drives for its chips, and  *)
(* fewer ways to start.                                                    *)
(***************************************************************************)
EXTENDS Shell

chip(n, d, l) == [name |-> n, device |-> d, labels |-> l]

MCBoard == {chip("nct", "lpc", 1), chip("nct", "lpc", 2)}
MCNvme  == {chip("nvme", "pci1", 0), chip("nvme", "pci2", 0)}
MCChips == MCBoard \cup MCNvme

\* One way to start stands for all where the sensors do not move.
MCInit ==
  /\ ShellInit
  /\ part = "sensors" \/ (N!Present = MCBoard /\ hwmon[0].labels = 1)

MCSpec == MCInit /\ [][ShellNext]_all /\ ShellFairness
=============================================================================
