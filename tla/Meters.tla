-------------------------------- MODULE Meters --------------------------------
(***************************************************************************)
(* The figures the sampler gets by differencing two readings of counters   *)
(* that it does not own: the work of processes, drives, interfaces and the *)
(* processor, the engines of GPU clients, the bytes of sockets, and the    *)
(* energy of packages and zones, which wraps around.  Between two readings *)
(* counters come, go and come back under the same key: a process id, the   *)
(* id of a GPU client and the inode of a socket are all used again.        *)
(*                                                                         *)
(* A behaviour is about counters of one kind.  Figures are amounts: the    *)
(* code divides by the time since the reading they are differenced with,   *)
(* and cuts what a GPU client uses off at all of it.  A client here has    *)
(* one engine; the code takes the busiest.                                 *)
(***************************************************************************)
EXTENDS FiniteSetsExt, Integers

CONSTANTS
  Keys,                \* what counters are known by: natural numbers
  Users,               \* who their work is shown for
  Other,               \* the user shown for sockets nobody is seen to hold
  RANGE,               \* max_energy_range_uj
  USABLE,              \* a gap this long makes recycled keys likely
  SOCKET_SCAN_LIMIT,
  MaxCount             \* bound: what a counter that does not wrap reaches; one
                       \* that does goes round once between readings

VARIABLES
  kind,                \* one of Kinds
  counters,            \* key -> its count, for the keys in use
  holders,             \* key -> the users that hold it
  dark,                \* what cannot be read, or is down
  prev,                \* key -> its count at the reading before
  gap,                 \* the time since then, as far as it matters
  shown,               \* user -> the figure of the last reading
  used,                \* history: key -> what was used since that reading
  missed,              \* history: key -> all it had counted at that reading, of
                       \* a process whose io could not be read then; else zero
  wrapped,             \* history: the keys that wrapped around since
  upset                \* history: has a key come or gone since?

meters  == <<counters, holders, dark>>
sampler == <<prev, gap, shown>>
history == <<used, missed, wrapped, upset>>
vars    == <<kind, meters, sampler, history>>

\* A plain counter is the processor time of a process, or a drive's; the bytes of
\* a process are those of its io.
Kinds  == {"plain", "io", "core", "iface", "client", "socket", "package", "zone"}
Energy == kind \in {"package", "zone"}
InUse  == DOMAIN counters
None   == [k \in {} |-> 0]
Nobody == [u \in Users |-> 0]
Unused == [k \in Keys |-> 0]
Sum(f) == MapThenSumSet(LAMBDA x : f[x], DOMAIN f)

Init ==
  /\ kind \in Kinds
  /\ counters = [k \in Keys |-> 1]
  /\ holders \in {h \in [Keys -> SUBSET Users] :
                    \A k \in Keys : kind \in {"client", "socket"} \/ Cardinality(h[k]) = 1}
  /\ dark = {}
  /\ prev = None /\ gap = 0 /\ shown = Nobody
  /\ used = Unused /\ missed = Unused /\ wrapped = {} /\ upset = TRUE

-----------------------------------------------------------------------------
(* The machine.                                                              *)

Work(k) ==
  /\ k \in InUse
  /\ used[k] <= IF Energy THEN RANGE ELSE MaxCount - 1
  /\ IF Energy
     THEN /\ counters' = [counters EXCEPT ![k] = (@ + 1) % (RANGE + 1)]
          /\ wrapped' = IF counters'[k] = 0 THEN wrapped \cup {k} ELSE wrapped
     ELSE /\ counters[k] < MaxCount
          /\ counters' = [counters EXCEPT ![k] = @ + 1]
          /\ UNCHANGED wrapped
  /\ used' = [used EXCEPT ![k] = @ + 1]
  /\ UNCHANGED <<kind, holders, dark, sampler, missed, upset>>

Leave(k) ==
  /\ ~Energy /\ k \in InUse
  /\ counters' = [j \in InUse \ {k} |-> counters[j]]
  /\ upset' = TRUE
  /\ UNCHANGED <<kind, holders, dark, sampler, used, missed, wrapped>>

\* A counter starts from zero, but that of a core from anything: the kernel keeps
\* it while the core is off.
Come(k) ==
  /\ k \notin InUse
  /\ \E count \in IF kind = "core" THEN 0 .. MaxCount ELSE {0} :
       counters' = [j \in InUse \cup {k} |-> IF j = k THEN count ELSE counters[j]]
  /\ upset' = TRUE
  /\ UNCHANGED <<kind, holders, dark, sampler, used, missed, wrapped>>

\* A process cannot be read, or can again; an interface is down, ss or a counter of
\* energy fails.
Darken(k) ==
  /\ kind \notin {"core", "client"}
  /\ dark' = IF k \in dark THEN dark \ {k} ELSE dark \cup {k}
  /\ UNCHANGED <<kind, counters, holders, sampler, history>>

Elapse ==
  /\ gap < IF kind \in {"client", "socket"} THEN USABLE ELSE 1
  /\ gap' = gap + 1
  /\ UNCHANGED <<kind, meters, prev, shown, history>>

-----------------------------------------------------------------------------
(* The readings.                                                             *)

Sub(now, before) == IF now >= before THEN now - before ELSE 0

\* Mutant: a counter that was not there at the reading before was at zero.
GrowthFromZero(k) == Sub(counters[k], IF k \in DOMAIN prev THEN prev[k] ELSE 0)

Growth(k) == IF k \in DOMAIN prev THEN Sub(counters[k], prev[k]) ELSE 0

\* delta of power.rs, energy_delta of cpu.rs
EnergyDelta(now, before) ==
  CASE now >= before  -> now - before
    [] now < before /\ RANGE > before -> RANGE - before + now
    [] OTHER -> 0

\* What the users are shown when the amount of each key counts for one of them.
Shares(amounts, credit) ==
  [u \in Users |-> Sum([k \in {j \in DOMAIN amounts : credit[j] = u} |-> amounts[k]])]

\* The ways to count each key for one of its candidates.
Credits(candidates) ==
  {c \in [DOMAIN candidates -> Users] : \A k \in DOMAIN candidates : c[k] \in candidates[k]}

Held(keys)    == Credits([k \in keys |-> holders[k]])
Growths(keys) == [k \in keys |-> Growth(k)]

Judged ==
  /\ used' = Unused /\ wrapped' = {} /\ upset' = FALSE
  /\ missed' = [k \in Keys |-> IF kind = "io" /\ k \in InUse \cap dark THEN counters[k] ELSE 0]

Baseline == prev' = counters /\ gap' = 0

\* sample of procs.rs (the processor time) and of disks.rs: what cannot be read is
\* left out.
ReadPlain ==
  /\ kind = "plain" /\ gap > 0
  /\ LET seen == InUse \ dark
     IN  /\ \E c \in Held(seen) : shown' = Shares(Growths(seen), c)
         /\ prev' = [k \in seen |-> counters[k]] /\ gap' = 0
  /\ Judged
  /\ UNCHANGED <<kind, meters>>

\* sample of procs.rs (the bytes): a process whose io cannot be read counts as one
\* that has moved none, now and at the next reading.
ReadIo ==
  /\ kind = "io" /\ gap > 0
  /\ LET growth(k) == IF k \in dark THEN 0 ELSE Growth(k)
     IN  \E c \in Held(InUse) : shown' = Shares([k \in InUse |-> growth(k)], c)
  /\ prev' = [k \in InUse |-> IF k \in dark THEN 0 ELSE counters[k]] /\ gap' = 0
  /\ Judged
  /\ UNCHANGED <<kind, meters>>

\* sample of net.rs: what is down does not count.
ReadInterfaces ==
  /\ kind = "iface" /\ gap > 0
  /\ \E c \in Held(InUse \ dark) :
       shown' = Shares(Growths(InUse \ dark), c)
  /\ Baseline /\ Judged
  /\ UNCHANGED <<kind, meters>>

\* sample of cpu.rs: cores are differenced by their position, when there are as
\* many as there were.
ReadCores ==
  /\ kind = "core" /\ gap > 0
  /\ LET before(k) == CHOOSE j \in DOMAIN prev :
                        Cardinality({i \in DOMAIN prev : i < j}) = Cardinality({i \in InUse : i < k})
     IN  \E c \in Held(InUse) :
           shown' = IF Cardinality(DOMAIN prev) # Cardinality(InUse) THEN Nobody
                    ELSE Shares([k \in InUse |-> Sub(counters[k], prev[before(k)])], c)
  /\ Baseline /\ Judged
  /\ UNCHANGED <<kind, meters>>

Usable == gap > 0 /\ gap < USABLE

\* gpu_usage: a client counts for the first process found to hold it, and is
\* not seen if there is none.
ReadClients ==
  /\ kind = "client" /\ gap > 0
  /\ LET seen == {k \in InUse : holders[k] # {}}
     IN  /\ \E c \in Held(seen) :
              shown' = IF Usable THEN Shares(Growths(seen), c) ELSE Nobody
         /\ prev' = [k \in seen |-> counters[k]] /\ gap' = 0
         /\ Judged
  /\ UNCHANGED <<kind, meters>>

\* network_usage: a socket counts for the process last found to hold it, or
\* for its cgroup.  With none, or too many, everything starts over.
ReadSockets ==
  /\ kind = "socket" /\ gap > 0
  /\ IF InUse = {} \/ dark # {} \/ Cardinality(InUse) > SOCKET_SCAN_LIMIT
     THEN prev' = None /\ shown' = Nobody /\ gap' = 0 /\ Judged
     ELSE /\ \E c \in Credits([k \in InUse |-> IF holders[k] = {} THEN {Other} ELSE holders[k]]) :
               shown' = IF Usable THEN Shares(Growths(InUse), c) ELSE Nobody
          /\ Baseline /\ Judged
  /\ UNCHANGED <<kind, meters>>

\* watts: the packages together, or not at all; a reading that fails leaves the
\* one before in place.
ReadPackage ==
  /\ kind = "package" /\ gap > 0
  /\ IF dark # {}
     THEN shown' = Nobody /\ UNCHANGED <<prev, gap, history>>
     ELSE /\ \E c \in Held(InUse) :
               shown' = IF prev = None THEN Nobody
                        ELSE Shares([k \in InUse |-> EnergyDelta(counters[k], prev[k])], c)
          /\ Baseline /\ Judged
  /\ UNCHANGED <<kind, meters>>

\* PowerSampler::sample: each zone on its own, when both readings have it.
ReadZones ==
  /\ kind = "zone" /\ gap > 0
  /\ LET seen == DOMAIN prev \ dark
     IN  \E c \in Held(seen) :
           shown' = Shares([k \in seen |-> EnergyDelta(counters[k], prev[k])], c)
  /\ prev' = [k \in InUse \ dark |-> counters[k]] /\ gap' = 0
  /\ Judged
  /\ UNCHANGED <<kind, meters>>

\* reset, reset_gpu and network_usage's: the list is not shown any more.
Reset ==
  /\ kind \in {"plain", "io", "client", "socket"}
  /\ prev' = None /\ gap' = 0 /\ upset' = TRUE
  /\ UNCHANGED <<kind, meters, shown, used, missed, wrapped>>

Read == ReadPlain \/ ReadIo \/ ReadInterfaces \/ ReadCores \/ ReadClients \/ ReadSockets
        \/ ReadPackage \/ ReadZones

Next ==
  \/ \E k \in Keys : Work(k) \/ Leave(k) \/ Come(k) \/ Darken(k)
  \/ Elapse \/ Reset
  \/ Read

-----------------------------------------------------------------------------
\* Nothing but work has happened since the reading before.  An energy counter's
\* use is lost if it has gone all the way round, or has wrapped from RANGE.
Undisturbed ==
  /\ ~upset /\ DOMAIN prev = InUse /\ dark = {}
  /\ \A k \in wrapped : used[k] <= RANGE /\ prev[k] < RANGE
  /\ kind \in {"client", "socket"} => gap < USABLE
  /\ kind = "client" => \A k \in InUse : holders[k] # {}
  /\ kind = "socket" => Cardinality(InUse) <= SOCKET_SCAN_LIMIT

\* What a reading may show of a key: what was used since the one before and, of
\* a process whose io that one could not read, all that it had done by then.
Owed == [k \in Keys |-> used[k] + missed[k]]

\* The figures of a reading never add up to more than what was used since the
\* one they are differenced with (but for a process whose io could not be read
\* then, of which they show all it ever did), whatever keys were recycled,
\* shared or wrapped around in between; and when only work was done in between
\* they add up to all of it, less the unit that each counter loses by wrapping.
\* Only of cores, that are known by their positions, this is so as long as none
\* comes or goes.
FiguresTrue ==
  [][Read => /\ (kind = "core" => ~upset) => Sum(shown') <= Sum(Owed)
             /\ Undisturbed => Sum(shown') + Cardinality(wrapped) = Sum(Owed)]_vars
=============================================================================
