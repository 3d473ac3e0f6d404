-------------------------------- MODULE Shell --------------------------------
(***************************************************************************)
(* What the service and the widgets do in the shell besides counting       *)
(* panels: the service keeps a sampler running (Supervisor) and the graphs *)
(* of the drives (Drives), and the widgets find the sensors they show      *)
(* (Sensors) and keep their settings (Settings).  The four share no state, *)
(* so one behaviour is about one of them, its part, and the others stay as *)
(* they were: what holds of each of them here holds of the four together.  *)
(***************************************************************************)
EXTENDS Supervisor

CONSTANTS
  Names, Drives, Ranks, Lengths, CanOversize,   \* of module Drives
  Chips, Fixed, Boards, NoDevice, STALE,        \* of module Sensors
  Widgets, Keys, Values, PATIENCE, MaxEdits     \* of module Settings

ASSUME ShellAssumption ==
  Ranks \subseteq Nat /\ Lengths \subseteq Nat /\ CanOversize \in BOOLEAN

VARIABLES
  part,            \* the part the behaviour is about
  plugged, links, prev, ids, snapshot, series, overall, was, swapped,
  hwmon, chips, age, sensors, picked, chosen,
  settings, pending, restoring, saved, file, changed, writes, reverts, edits

D == INSTANCE Drives
N == INSTANCE Sensors WITH plugged <- hwmon, saved <- picked
S == INSTANCE Settings

drivesVars   == <<plugged, links, prev, ids, snapshot, series, overall, was, swapped>>
sensorsVars  == <<hwmon, chips, age, sensors, picked, chosen>>
settingsVars == <<settings, pending, restoring, saved, file, changed, writes, reverts, edits>>
all == <<part, vars, drivesVars, sensorsVars, settingsVars>>

ShellInit ==
  /\ part \in {"sampler", "drives", "sensors", "settings"}
  /\ Init /\ D!Init /\ N!Init /\ S!Init

OnlySampler  == part = "sampler"  /\ UNCHANGED <<part, drivesVars, sensorsVars, settingsVars>>
OnlyDrives   == part = "drives"   /\ UNCHANGED <<part, vars, sensorsVars, settingsVars>>
OnlySensors  == part = "sensors"  /\ UNCHANGED <<part, vars, drivesVars, settingsVars>>
OnlySettings == part = "settings" /\ UNCHANGED <<part, vars, drivesVars, sensorsVars>>

ShellNext ==
  \/ OnlySampler /\ Next
  \/ OnlyDrives /\ D!Next
  \/ OnlySensors /\ N!Next
  \/ OnlySettings /\ S!Next

\* Timers fire, the sampler samples, the shell saves what it is handed, a file
\* that has changed is loaded and what was put off with callLater is called.
ShellFairness ==
  /\ WF_all(OnlySampler /\ RestartFires) /\ WF_all(OnlySampler /\ HealthFires)
  /\ WF_all(OnlySampler /\ Tick)
  /\ WF_all(OnlySensors /\ N!Sample) /\ WF_all(OnlySensors /\ N!Tick)
  /\ WF_all(OnlySettings /\ S!Load) /\ WF_all(OnlySettings /\ S!Save)
  /\ WF_all(OnlySettings /\ S!Tick)
  /\ \A w \in Widgets : WF_all(OnlySettings /\ S!Restore(w))

ShellSpec == ShellInit /\ [][ShellNext]_all /\ ShellFairness

-----------------------------------------------------------------------------
\* A crash loop slows down (onExited of OmaStatsService.qml).
RestartsSlow == TypeOK /\ CrashLoopSlows

\* The graphs of the drives are aligned and each is of one drive (ingest of
\* OmaStatsService.qml, sample of disks.rs).
GraphsTrue == D!TypeOK /\ D!GraphsTrue

\* The sensors of the lines, and the readouts, follow the chips (scan and sample
\* of sensors.rs, stableSensorId of Model.js).
SensorsFollow == part = "sensors" => N!SensorsFollow

\* A readout stays with the chip chosen for it (sensor_id of sensors.rs).
ReadoutStays == N!ReadoutStays

\* Settings converge on what the file says (persist and restoreSavedSettings of
\* OmaStatsWidget.qml, prunePending of Model.js).
EditsConverge == part = "settings" => S!EditsConverge
=============================================================================
