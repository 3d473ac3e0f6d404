-------------------------------- MODULE Drives --------------------------------
(***************************************************************************)
(* Drives, from the kernel to the graphs: DiskSampler (sampler/src/        *)
(* disks.rs) reads the drives by the names the kernel gives them and looks *)
(* their identities up in /dev/disk/by-id, where udev makes links, better  *)
(* and worse ones, some time after a drive is plugged in;                  *)
(* OmaStatsService.qml keeps a series of samples for each name and one for *)
(* all drives together.  An identity is a drive and the rank of a link.    *)
(*                                                                         *)
(* A sample of a name is the drive whose counters were read, a sample of   *)
(* all drives the drives of its line; the amounts are the ones of Meters.  *)
(* A line reaches the service in the step in which it is written.          *)
(***************************************************************************)
EXTENDS FiniteSets, Integers, Sequences

CONSTANTS
  Names,        \* the kernel's names, given to any drive
  Drives,
  Ranks,        \* by_id_rank: the links that a drive has, the best lowest
  Lengths,      \* what historyLength may be
  CanOversize   \* may a line be too long to be sent?

VARIABLES
  plugged,      \* name -> drive
  links,        \* name -> the ranks of its links in by-id
  prev,         \* the names of the reading before
  ids,          \* name -> identity, as last looked up
  snapshot,     \* name -> the identity shown, or the name
  series,       \* name -> the samples kept, the newest last
  overall,      \* the samples of all drives
  was,          \* history: name -> drive at the last reading
  swapped       \* history: names with two drives between which no reading saw none

world   == <<plugged, links>>
sampler == <<prev, ids>>
service == <<snapshot, series, overall>>
vars    == <<world, sampler, service, was, swapped>>

Attached == DOMAIN plugged
None     == [n \in {} |-> {}]

Init ==
  /\ plugged = None /\ links = [n \in Names |-> {}]
  /\ prev = {} /\ ids = None
  /\ snapshot = None /\ series = None /\ overall = <<>>
  /\ was = None /\ swapped = {}

-----------------------------------------------------------------------------
(* Hotplug.  udev takes what happens to a name in order, and is not so late  *)
(* that the link of a drive that has gone is there when the next has come.   *)

Plug(n, d) ==
  /\ n \notin Attached /\ \A m \in Attached : plugged[m] # d
  /\ plugged' = [m \in Attached \cup {n} |-> IF m = n THEN d ELSE plugged[m]]
  /\ UNCHANGED <<links, sampler, service, was, swapped>>

Unplug(n) ==
  /\ n \in Attached
  /\ plugged' = [m \in Attached \ {n} |-> plugged[m]]
  /\ links' = [links EXCEPT ![n] = {}]
  /\ UNCHANGED <<sampler, service, was, swapped>>

Link(n, r) ==
  /\ n \in Attached /\ r \notin links[n]
  /\ links' = [links EXCEPT ![n] = @ \cup {r}]
  /\ UNCHANGED <<plugged, sampler, service, was, swapped>>

-----------------------------------------------------------------------------
(* The sampler and the service.                                              *)

\* scan_disk_ids: the best link of each name that has one.
ScanIds == [n \in {m \in Attached : links[m] # {}} |->
              <<plugged[n], CHOOSE r \in links[n] : \A q \in links[n] : r <= q>>]

\* Drives have come or gone, or one has another name: all are looked up again.
Ids == IF Attached # prev THEN ScanIds ELSE ids

Identity(n) == IF n \in DOMAIN ids' THEN ids'[n] ELSE <<n>>

\* pushHistory
Push(samples, sample, length) ==
  LET keep == IF length - 1 > 1 THEN length - 1 ELSE 1
      from == IF Len(samples) > keep THEN Len(samples) - keep + 1 ELSE 1
  IN  Append(SubSeq(samples, from, Len(samples)), sample)

SeriesOf(n) == IF n \in DOMAIN series THEN series[n] ELSE <<>>

\* Mutant: the series of a name that is not in a line is kept.
IngestKeeping(line, length) ==
  /\ overall' = Push(overall, line, length)
  /\ series' = [n \in DOMAIN line \cup DOMAIN series |->
                  IF n \in DOMAIN line THEN Push(SeriesOf(n), line[n], length) ELSE series[n]]
  /\ snapshot' = [n \in DOMAIN line |-> Identity(n)]

\* ingest: the names that are not in the line lose their series.
Ingest(line, length) ==
  /\ overall' = Push(overall, line, length)
  /\ series' = [n \in DOMAIN line |-> Push(SeriesOf(n), line[n], length)]
  /\ snapshot' = [n \in DOMAIN line |-> Identity(n)]

\* bounded_output_line: a line that is too long loses its sections.
Lines == {plugged} \cup (IF CanOversize THEN {None} ELSE {})

Sample ==
  /\ ids' = Ids
  /\ prev' = Attached
  /\ \E line \in Lines, length \in Lengths : Ingest(line, length)
  /\ was' = plugged
  /\ swapped' = {n \in Attached : n \in swapped \/ (n \in DOMAIN was /\ was[n] # plugged[n])}
  /\ UNCHANGED world

\* The sampler exits, and is started again.
Restart ==
  /\ prev # {}
  /\ prev' = {} /\ ids' = None
  /\ UNCHANGED <<world, service, was, swapped>>

Next ==
  \/ \E n \in Names : \/ \E d \in Drives : Plug(n, d)
                     \/ Unplug(n)
                     \/ \E r \in Ranks : Link(n, r)
  \/ Sample \/ Restart

-----------------------------------------------------------------------------
Identities(d) == {<<d, r>> : r \in Ranks}

TypeOK ==
  /\ Attached \subseteq Names
  /\ links \in [Names -> SUBSET Ranks] /\ \A n \in Names \ Attached : links[n] = {}
  /\ prev \subseteq Names
  /\ \A f \in {plugged, was} : \A n \in DOMAIN f : n \in Names /\ f[n] \in Drives
  /\ \A n \in DOMAIN ids : \E d \in Drives : ids[n] \in Identities(d)
  /\ DOMAIN snapshot = DOMAIN series
  /\ swapped \subseteq Names

Newest(samples, k) == samples[Len(samples) + 1 - k]

\* The graphs of a drive and of all drives can be read against each other: the
\* k-th newest samples of both are of one line.  And unless one drive took the
\* name of another with no reading in between, the graph shown for a drive is
\* of that drive alone.
GraphsTrue ==
  \A n \in DOMAIN series :
    /\ Len(series[n]) <= Len(overall)
    /\ \A k \in 1 .. Len(series[n]) :
         /\ n \in DOMAIN Newest(overall, k)
         /\ Newest(series[n], k) = Newest(overall, k)[n]
         /\ n \in swapped \/ snapshot[n] \in {<<n>>} \cup Identities(Newest(series[n], k))
=============================================================================
