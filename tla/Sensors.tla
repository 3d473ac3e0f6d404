-------------------------------- MODULE Sensors --------------------------------
(***************************************************************************)
(* Sensors, from the kernel to the bar: SensorSampler (sampler/src/        *)
(* sensors.rs) scans the chips of /sys/class/hwmon from time to time, keeps *)
(* the paths it found and reads them for every line; Model.js finds the    *)
(* sensor that a setting names in the line.                                *)
(*                                                                         *)
(* A chip is a record: its name, which is its driver's, the device it sits *)
(* on, and how many of its inputs have a label.  A path is the number that *)
(* the kernel gave a chip.  Each chip has one input here, the same one for *)
(* all, and there are fewer than SENSOR_LIMIT.                             *)
(***************************************************************************)
EXTENDS FiniteSets, Integers

CONSTANTS
  Chips,
  Fixed,        \* those that are never unplugged
  Boards,       \* is_board_chip: names of super-IO chips
  NoDevice,     \* the device of a chip whose device is not known
  STALE         \* how long a scan is used

VARIABLES
  plugged,      \* number -> chip
  chips,        \* the chips of the last scan: [number, chip]
  age,          \* of that scan
  sensors,      \* those of the line: [id, number, chip, of]: the chip as it was
                \* scanned, and the one that was read
  saved,        \* the sensor of the readout, or NoId
  chosen        \* history: the chips the user chose, one or none

world   == <<plugged>>
sampler == <<chips, age>>
vars    == <<world, sampler, sensors, saved, chosen>>

NoId     == <<>>
Attached == DOMAIN plugged
Present  == {plugged[n] : n \in Attached}

\* The chips are found in some order at boot.
Init ==
  /\ \E there \in SUBSET Chips :
       /\ Fixed \subseteq there
       /\ plugged \in {f \in [0 .. Cardinality(there) - 1 -> there] :
                         \A c \in there : \E n \in DOMAIN f : f[n] = c}
  /\ chips = {} /\ age = STALE + 1
  /\ sensors = {}
  /\ saved = NoId /\ chosen = {}

-----------------------------------------------------------------------------
(* The kernel gives a chip the lowest number that is free.                   *)

Plug(c) ==
  /\ c \notin Present
  /\ \E n \in 0 .. Cardinality(Attached) :
       /\ n \notin Attached /\ \A m \in 0 .. n - 1 : m \in Attached
       /\ plugged' = [m \in Attached \cup {n} |-> IF m = n THEN c ELSE plugged[m]]
  /\ UNCHANGED <<sampler, sensors, saved, chosen>>

Unplug(n) ==
  /\ n \in Attached /\ plugged[n] \notin Fixed
  /\ plugged' = [m \in Attached \ {n} |-> plugged[m]]
  /\ UNCHANGED <<sampler, sensors, saved, chosen>>

Tick ==
  /\ age <= STALE
  /\ age' = age + 1
  /\ UNCHANGED <<world, chips, sensors, saved, chosen>>

-----------------------------------------------------------------------------
(* The sampler.                                                              *)

\* Of the copies of a board chip, the one with the most labels is kept, and the
\* first of these.
Kept(e, found) ==
  e.chip.name \in Boards =>
    \A o \in found : o.chip.name = e.chip.name =>
      \/ e.chip.labels > o.chip.labels
      \/ e.chip.labels = o.chip.labels /\ e.number <= o.number

Scan ==
  LET found == {[number |-> n, chip |-> plugged[n]] : n \in Attached}
  IN  {e \in found : Kept(e, found)}

\* Another chip of the scan has this one's name.
Shared(e) == \E o \in chips' : o # e /\ o.chip.name = e.chip.name

SensorId(e) ==
  IF Shared(e) /\ e.chip.device # NoDevice THEN <<e.chip.name, e.chip.device>>
                                           ELSE <<e.chip.name>>

\* Mutant: the chips are scanned once.
DueOnce == chips = {}

Due == age > STALE

\* A chip that has gone is not read, and one that has taken its number is.
Sample ==
  /\ IF Due THEN chips' = Scan /\ age' = 0 ELSE UNCHANGED sampler
  /\ \E heard \in SUBSET Attached :
       sensors' = {[id |-> SensorId(e), number |-> e.number, chip |-> e.chip,
                    of |-> plugged[e.number]] : e \in {s \in chips' : s.number \in heard}}
  /\ UNCHANGED <<world, saved, chosen>>

-----------------------------------------------------------------------------
(* The service and the widget.                                               *)

Named(id)  == {s \in sensors : s.id = id}
First(set) == CHOOSE s \in set : \A o \in set : s.number <= o.number

\* stableSensorId: an id without a device becomes the first one of its name that
\* has one.
Stable(id) ==
  LET older == {s \in sensors : <<s.id[1]>> = id}
  IN  IF Named(id) # {} \/ older = {} THEN id ELSE First(older).id

\* setBarSensor
Choose(s) ==
  /\ s \in sensors
  /\ saved' = s.id /\ chosen' = {s.chip}
  /\ UNCHANGED <<world, sampler, sensors>>

\* adoptStableSettings
Adopt ==
  /\ saved # NoId /\ Stable(saved) # saved
  /\ saved' = Stable(saved)
  /\ UNCHANGED <<world, sampler, sensors, chosen>>

Next ==
  \/ \E c \in Chips : Plug(c)
  \/ \E n \in Attached : Unplug(n)
  \/ Tick \/ Sample \/ Adopt
  \/ \E s \in sensors : Choose(s)

-----------------------------------------------------------------------------
HasSensor(c) == \E s \in sensors : s.chip = c

\* A readout shows the chip that was chosen for it for as long as that chip has
\* a sensor, whatever other chips come and go.
ReadoutStays ==
  \A c \in chosen : HasSensor(c) => \E s \in Named(Stable(saved)) : s.chip = c

\* Once no chip comes or goes any more, the sampler comes to know every chip that
\* is there, each board by one copy only, with no more labels on another; every
\* sensor is read from the chip it is taken for and has an id of its own; and a
\* readout chosen from two chips of a name shows the one it was chosen from.
Sorted ==
  LET known == {e.chip : e \in chips}
  IN  /\ known \subseteq Present
      /\ \A c \in Present \ known :
           \E k \in known : k.name = c.name /\ c.name \in Boards /\ k.labels >= c.labels
      /\ \A s \in sensors : s.of = s.chip /\ s.chip \in known
      /\ \A s, t \in sensors : s.id = t.id => s = t
      /\ \A c \in chosen \cap known :
           saved = <<c.name, c.device>> /\ (\E k \in known : k # c /\ k.name = c.name)
             => \A s \in Named(Stable(saved)) : s.chip = c

\* That holds once the chips stay (scan and sample of sensors.rs, stableSensorId
\* of Model.js).
SensorsFollow == <>[][UNCHANGED plugged]_vars => <>[]Sorted
=============================================================================
