# Formal verification of OmaStats

OmaStats is a system monitor for the Omarchy bar: a long-lived sampler process
streams one JSON line per interval, a service inside the shell reads the stream
and steers the sampler over its stdin, and one widget per bar and monitor shows
what the service holds. This directory models the parts of it whose behaviour
depends on *order*: threads, processes, timers, restarts and caches. Modules are
checked with TLC on small instances; the safety properties that matter most are
also proved with TLAPS for every value of the constants.

Paths below are relative to the repository.

## 1. Inventory

### Components

| Component | Source | State it keeps | Operations | Module |
|---|---|---|---|---|
| Control listener | `sampler/src/main.rs` `listen` | the `Control` struct behind a mutex: interval, level of detail, focused page, public IP request, stop, wake | one per line of stdin: `detail`, `focus`, `interval`, `pubip`, `quit` | `ControlLines`, `SamplerLoop` |
| Sampling loop | `sampler/src/main.rs` `main` | the snapshot of an iteration, when each section was last read, the cached lists, whether a page is primed | prime, snapshot, warm up, slow pass, emit, wait | `SamplerLoop`, `ControlRegister` |
| Service, control side | `OmaStatsService.qml` | reference counts, the level last sent, the focused page, the settings of every bar | acquire/release, `setFocus`, register/unregister, `recompute`, `send`, `onStarted` | `Panels` |
| Service, supervision | `OmaStatsService.qml` | `ready`, `restartCount`, the restart timer, the health timer, `destroying` | `ingest`, `onExited`, timers, destruction | `Supervisor` |
| Service, data side | `OmaStatsService.qml`, `Model.js` | snapshot, histories, history length, public IP stamp, the saved settings | `ingest`, `recompute`, `requestPublicIp`, loading `shell.json` | `PublicIp`, `Drives`, `Settings` |
| Widget | `OmaStatsWidget.qml` | opened, current tab, unfolded list, hold on the full list, settings and pending edits | the `on…Changed` handlers, `persist`, `restoreSavedSettings`, `adoptStableSettings`, `showTab` | `Panels`, `Settings`, `Sensors` |
| amdgpu gate | `sampler/src/pm.rs` | when each card's window opened, the values held | `decide`, `read_at` | `RuntimePm`, `ReadWindow` |
| Helper processes | `sampler/src/util.rs` `run` | child, pipe, output, deadline | spawn, read, poll, kill, reap | `HelperRun` |
| NVIDIA readings | `sampler/src/gpu.rs` | the stream's child, the query in flight, the read window, the latest readings | gate, query, stream, stop | `NvidiaGate`, `ReadWindow` |
| Processes and sockets | `sampler/src/procs.rs` | the previous counters of every process, socket and GPU client | sample, network_usage, gpu_usage, resets | `Meters`; reading ages in `SamplerLoop` |
| Disks and mounts | `sampler/src/disks.rs` | counters, identities, volumes, helpers that are stuck | sample, statvfs_bounded, scans | `Volumes`, `Drives`; rates in `Meters` |
| Network | `sampler/src/net.rs` | counters, address and wifi caches, the lookup in flight | sample, refresh, fetch_public_ip | `PublicIp`; counters in `Meters` |
| CPU and power | `sampler/src/cpu.rs`, `power.rs` | previous counters of cores, packages and zones | sample, watts | `Meters` |
| Sensors | `sampler/src/sensors.rs`, `Model.js` | the chips of the last scan; the ids that readouts have saved | scan, sample, setBarSensor, stableSensorId | `Sensors` |
| Battery, memory | `sampler/src/battery.rs`, `mem.rs` | none | sample | not modelled |
| Fallback sampler | `sampler.py` | as the Rust sampler | as the Rust sampler, in Python threads | not modelled |
| Presentation model | `Model.js` | none (pure functions) | histories, settings, ordering, formatting | in part: `Drives`, `Settings`, `Sensors` |
| Views | `ui/*.qml` | scrolling and hover | declarative bindings | not modelled |
| Tooling | `scripts/`, `.github/` | none | tests, releases | not modelled |

### How they interact

```
 widget ──acquire/release, setFocus, registerSettings──▶ service
 widget ◀──────snapshot, history (bindings)───────────── service
 service ──control lines on stdin──▶ listener ──mutex + condvar──▶ sampling loop
 service ◀──one JSON line per interval on stdout────────────────── sampling loop
 service ──start, restart after a delay, quit and terminate──▶ sampler process
 sampling loop ──sysfs, procfs; runs helpers with a deadline──▶ kernel, helpers
```

The widgets and the service live in one event loop: a handler and the service
methods it calls run without interruption, so a handler is one action. The
sampler is another process with two threads. Between the two there is a pipe,
which delays lines and loses those unread when the sampler dies.

### What is hard

* *A wakeup between snapshot and wait.* A control line may be handled at any
  point of an iteration, while nobody waits on the condition variable.
* *Lists that need two readings.* A panel that opens must be given real figures
  in its first line; the second reading follows the first after 250 ms, and
  the caches are invalidated and reused by flags set in other iterations.
* *A sampler that forgets.* The service only sends what has changed, and replays
  on start what differs from the defaults. Lines may be in the pipe, lost with a
  crash, or never sent because no sampler was running.
* *Counts without owners.* Detail references are plain numbers: widgets come and
  go, open and close, find the service early or late.
* *Timers against events.* Restart delay, health timer, exit and destruction may
  be delivered in any order.
* *The kernel's clock against ours.* Reading a card keeps it awake; the gate's
  window must end early enough for the kernel's timer to fire before it reopens.
* *One command for all cards.* `nvidia-smi` opens every NVIDIA card, runs for as
  long as it likes, and is called by two threads.
* *A request through four hands.* The public address is asked for by page, key,
  click or IPC, held or sent by the service, read by the listener, taken by the
  loop and looked up by a thread, and the sampler may die at every step.
* *Names that are used again.* The kernel gives the id of a process, a GPU client,
  a socket, a drive's name and a hwmon number to the next that comes, while the
  sampler differences, caches and labels by them.
* *Servers that fall silent.* `statvfs` on a network mount may block for as long as
  the server is down, and return at any moment after the scan has gone on.
* *Settings with several writers.* Copies of the widget, the shell and an editor
  write one entry of a file that everyone reads late.
* *Processes we do not control.* A helper may exit between two system calls,
  leave descendants with the pipe open, flood it or be stuck in the kernel.

### What makes each component correct

* Sampling loop: no lost wakeup; a panel or page just opened has its lists in the
  next line, with figures over a usable gap; slow passes stay paced; a quit, or a shell
  that stops reading, ends it; it implements the register of control values.
* Service and widgets: what the sampler was told and what is on its way is what
  the service wants; counts are those of the open panels; the focused page is
  the open one; the interval is the fastest asked for.
* Supervision: crash loops slow down, exits are recovered from, and none is
  started once the service is going away.
* Gates: an awake card nobody else uses falls asleep; one that sleeps when the
  gate looks is left alone; cards that never suspend stream.
* Public address: one lookup at a time, no request is forgotten, the address
  shown comes to be that of the network.
* Helpers: nothing is left behind, output is complete or dropped, `run` returns.
* Volumes: a dead mount costs one thread; each device is listed once, at its
  shortest mount that answers; the list follows what can be reached.
* Counters: figures never exceed what was used, and lose nothing that a counter
  can tell.
* Drives: graphs can be read against each other and are of one drive each.
* Sensors: every sensor is read from its chip, under an id of its own, and a
  readout shows the chip it was chosen for.
* Settings: every copy of the widget comes to show what the file says.

## 2. Modules

**`ControlLines`** is the protocol both sides share: a line is a record
`[op, arg]` and `Obey` what the listener does with it. Number parsing and
clamping are abstracted to the value the listener stores (the service clamps to
the same range before it sends).

**`SamplerLoop`** is the sampler process. `Listen(line)` is an iteration of the
listener under the lock; `Primed`, `Snapshot`, `StartTick`, `Emit` and `Woken`
are the loop's steps, cut where another thread can get in: at the lock, at the
sleeps, and at the wait. `StartTick` includes the whole slow pass. Time passes
only in `Elapse`, while the loop sleeps, reads or waits; ages stop counting at
the last value anything compares them with, so the state space is finite without
a bound. `reader` is whether the shell still reads stdout. `ReadSockets` may fail
(`ss` times out or says nothing, the socket limit is reached), in a slow pass or in
the warm-up; it then clears the time of the reading while the page stays primed, and
the reading after it is all zeros. `asked` and `sinceLost` are history variables:
whether the request has changed since the last slow pass, and how many readings ago
one failed.

**`ControlRegister`** is the abstract specification of the above: a register
whose value is wanted, a worker with the value it has applied, which may rest
only while the two agree. `SamplerLoop` implements it under the mapping
*wanted* ↦ the lasting part of `control`, *applied* ↦ the snapshot, *mode* ↦
ended / resting (waiting with the wake flag clear) / busy.

**`Panels`** is the shell's side. The service's methods are operators from the
service's state to its state, so that a widget's handler is one action with
every call it makes, in the order it makes them. The pipe is a sequence of
lines; what is not read when the sampler dies is gone. The sampler is reduced to
its listener. The constant
`LateService` says whether a panel may open before its widget has found the
service.

**`Supervisor`** keeps a sampler running: `OnExited`, the restart timer, the
once-a-minute health timer and the destruction. A tick is a second.

**`PublicIp`** follows a request for the public address from the widget to the
lookup and back. The process's life is that of `Panels`; the ten minutes after
which an unforced request is let through again are an event. `owed` is a history
variable: a request has been made since a lookup last ended.

**`ReadWindow`** is `decide`, the rule both gates share: when a card may be read,
and whether that opens a window. **`RuntimePm`** is one amdgpu card, the kernel's autosuspend timer and the gate.
A read is two steps: `Begin` (the clock and the card's state are looked at) and
`Finish` (the hardware is reached, some ticks later).

**`NvidiaGate`** is any number of NVIDIA cards, the gate in front of `nvidia-smi`
and its three uses: the stream, the one-shot query in the background and the
process query the loop waits for. `turn` is whose reading is next in the loop.
The gate looks at the cards when a call is decided (`Processes`, `SampleAll`), and
`nvidia-smi` is started later (`Start`), so that a card may suspend in between and
be woken by it; the two are in one tick, and what lies between them and the end of
the call is part of the call (`CallTimes`). `due` holds the calls decided and not
started; `foreign` and `dozed` are history variables: the cards others have used since
the window opened, and those that have suspended while a call was due. `nvidia-smi` is
installed and can be started. The driver leaves `autosuspend_delay_ms`
unreadable, so every card has the same delay, `DEFAULT_DELAY`.

**`HelperRun`** is one call of `run`: helper, descendant, group, pipe and the
caller, which the helper may overtake between any two of its system calls. A
helper may get stuck in the kernel, where a kill does not reach it, and may or
may not come back. The reuse of the id of a group that is empty is left out.

**`Volumes`** is `scan_volumes`, a mount of mountinfo per step, with
`statvfs_bounded` and its helper threads: `Ask` starts one and waits, `Return` and
`Fail` are a helper whose `statvfs` returns the space or an error, in time or not,
`Expire` is the time-out. A mount
is a record of what the scan looks at; the checks that leave a mount out are one
kind, `other`. A server that is up answers in time, and one that is waited for
does not come back up in the same instant as the time-out.

**`Meters`** is what every reader that differences counters does, each by its own
rules: processes' time and drives, processes' io (zero where it cannot be read), cores
(by position), interfaces, GPU clients and
sockets (for one of their holders, over a usable gap), energy packages (all or
none) and zones (each for itself), with wraparound. A behaviour is about counters
of one kind, which work, come, go, come back under the same key, wrap or cannot be
read. Figures are amounts; the code divides them by the gap. `used` and `missed` are
history variables: what was really used since the reading the next one is differenced
with, and what the io of a process had counted when that reading could not read it.

**`Drives`** follows a drive from the kernel to its graph: names and identities in
`disks.rs`, the series per name and the series of all drives in `ingest` and
`pushHistory`, with hotplug, late links of udev, lines without sections, changing
lengths and restarts. A sample is the drive that was read, so that a graph that
mixes two shows.

**`Sensors`** follows a chip from `/sys/class/hwmon` to the readout in the bar: scan,
copies of a board's chip, ids, readings by cached paths, and the search for a
saved id. Fans are read as temperatures are.

**`Settings`** follows a change from the panel to `shell.json` and back: `Persist`,
`Restore` (put off with `callLater`), `Load` (of the file, and in every widget
`prunePending`), and a shell that saves late, whole entries or single keys, and
may give a widget its first settings back (`Revert`, which asks for another
`Restore` as every change of the settings does).

**`Readers`** puts `HelperRun`, `Volumes` and `Meters` into one machine, and
**`Shell`** does so with `Supervisor`, `Drives`, `Sensors` and `Settings`. The
parts of each share no variable, so a behaviour of the machine is about one of
them, `part`, and the others stand still in one of their initial states: the state
space is the sum of those of the parts and not the product, and what holds of
a part here holds of it beside the others (by how the two modules are written: lemma
`PartsAlone` of each proof module).
**`MCReaders`** and **`MCShell`** give them mounts and chips, and start the part
that moves in any of its initial states (up to the names of users and meters, in
`Meters`) and the others in one. The theorems are about `Readers` and `Shell`,
from any initial state of every part.

Eight modules named `…_proofs` hold the theorems about the modules they are named
after: `SamplerLoop`, `Panels`, `RuntimePm`, `NvidiaGate`, `PublicIp`, `Volumes`,
`Readers` (with `HelperRun` and `Meters`) and `Shell` (with the four parts it is
made of).

## 3. Runs

Every `.cfg` states its own constants; the names are those of `PROJECT.json`.

| Run | Question | Bounds |
|---|---|---|
| `sampler_loop` | Safety, refinement and liveness of listener and loop | a second is 2 ticks, the warm-up 1, the usable gap 4; an interval of a second; reading takes 0 or 1 ticks; pages none, network, gpu, disks |
| `panels` | What the sampler is told, counts, focus, interval, demand | two widgets that find their service before they open, two intervals, three pages |
| `supervisor` | What the shell does besides counting panels: restarts, graphs, sensors, settings | restarts with the code's own values: 30 s, 2⁵, 60 s; two drives, two names, links of two ranks, series of 2 or 3 samples; a board with two chips that stay, two NVMe drives, every order at boot, a scan used for 1 tick; two widgets, two settings of two values, two edits, a patience of 1 tick |
| `runtime_pm` | The gate | a tick is 0.1 s: window 5, margin 10, delay 20, lags 2 |
| `helper_run` | What the sampler reads the machine with: helpers, volumes, counters | a helper: limit 3 reads, pipe of 2, deadline of 2 naps; two mounts of a share and two of a disk, the longer first, one too small and one not listed, at most 2 volumes, kept for 1 tick; two counters and two users, counts to 2, energy range 2, usable gap 2, at most 1 socket |
| `nvidia_gate` | NVIDIA cards | two cards; a tick is 1/8 s: window 4, margin 8, kernel lag 1, calls of 1 or 3; delay 10, a quarter of the code's |
| `public_ip` | Requests for the public address | two networks; fewer than 3 requests unread when another is made |

The bounds reach the interesting cases: control lines that end a wait at any tick of
the second (so the pacing matters) and readings that take half of it. Shorter
intervals than the second add iterations that the wakeups already make, and four times
the states; theorem `Paced` is for all of them. A second
widget that opens while the first is open; a backlog that survives a
crash; a pipe smaller than the output limit; one card that sleeps or never
suspends beside one that is awake, and a call longer than a round of the loop. The delay
of `nvidia_gate` is shortened because only its sum with the margin, against
window, call and lag, decides anything. Two users and two counters are enough for a
key that is recycled, shared or shown for the wrong one; two mounts of a device for
one that hides the other; three identities of two drives (none, a bad link, a good
one) for a stale one. Three caps remove behaviours: `MaxCount` (a counter in
`Meters` that does not wrap stops there), `MaxEdits` (in `Settings`; convergence
is about what follows the last edit) and `MaxBacklog` (in `Panels` and `PublicIp`): the user does not act while that many lines
(in `Panels`, more than that many) are unread. A single handler still writes up to three lines beyond it, and a replay
three more.

Five runs end in a counterexample, each about one sentence of the repository
(`PROJECT.json`, `findings`):

* `sampler_long_interval`: at a refresh interval of five seconds or more the
  Network and GPU pages only ever show zeros.
* `panels_late_service`: a panel that opens before its widget finds the service
  never takes its reference but gives one back.
* `nvidia_slow`: an `nvidia-smi` that takes a second and a half, within its
  time-out, keeps an awake card from ever suspending.
* `nvidia_stream`: a stream that exits is not started again (the fallback
  sampler does start it).
* `sensor_alone`: a readout chosen for one of two drives of a driver loses it when the
  other is unplugged, because the sensor that is left is renamed.

More disagreements and limits are known and have no run:

* Unfolding the process list and changing to the Disks page, which needs the
  processes of each drive, set none of the `cold_*` flags: the lines have the old list
  until the next slow pass, up to a second later. `main.rs:250` says that "a freshly
  opened panel or page reads at once". `ShownListsPresent` states what the code does:
  a panel, and the Network and GPU pages, are read at once; the other two may be late,
  after a change of the request and for less than a second.
* The reading of the sockets that follows one that failed has nothing to be compared
  with and gives the zeros of a first one, although the page is primed
  (`procs.rs:676`). `PageFiguresReal` allows for just that reading.
* A card that suspends between the gate's look at it and the start of the call that
  the look allowed is woken by the call (`gpu.rs:301`, `gpu.rs:330`).
  `SleepersLeftAlone` allows for no other.
* `run` waits without a bound for a helper that is stuck in the kernel.
* The IPC method `refresh` asks for the public address although the lookup is
  switched off (`OmaStatsService.qml:330`).
* The identity of a drive whose link in `/dev/disk/by-id` udev makes after the look-up
  is not looked up again until another drive comes or goes (`disks.rs:757`), and a
  drive that takes the name of another between two readings goes on under the
  identity and in the graph of the other. `GraphsTrue` allows for both.
* A chip that takes the hwmon number of another is read as the other until the next
  scan, for up to thirty seconds (`sensors.rs:243`). `SensorsFollow` is about
  what follows the last change.
* A change of settings that the shell never writes is shown until the file changes
  next: the ten seconds of `prunePending` are only looked at then (`Model.js:603`).
  `EditsConverge` says, of any files, that the widgets come to show the file with their
  waiting changes over it, and of files that go on changing that they come to show
  just the file.
* The name of a process is kept by its id, though it may execute another program
  or be another process (`procs.rs:514`); `Meters` has no names. A process whose `io`
  cannot be read counts as one that has done none, so that all it had counted falls
  into the interval in which it can be read (`procs.rs:480`): `FiguresTrue` allows for
  just that amount, once (`missed`).
* With two panels open the focused page is that of the last handler, and closing one
  panel clears the page of the other; `FocusIsShown` is about one open panel.
* Cores are differenced by their position (`cpu.rs:344`): when one goes off and
  another comes on between two readings, the figures of the cores between are of
  two different ones. `FiguresTrue` is about cores that stay.

### Fairness

Nothing is assumed of users, crashes, the shell's life or helpers. Weak fairness
is assumed of the loop's own steps and of time (`SamplerLoop`: its thread is
scheduled); of the delivery of the process's signals, its timer and the
listener's reads (`Panels`: the event loop runs and pipes deliver); of timers and
time (`Supervisor`); of time, the kernel's timer and a read that has begun
(`RuntimePm`); of time, the driver's timers, the loop and the start of a call (`NvidiaGate`); of
deliveries, the sampler's threads and a lookup, whose helper has a time limit
(`PublicIp`); of the caller's next step as a whole (`HelperRun`: which of
its steps is taken is the operating system's choice); of the sampling loop, the
clock and a helper thread whose server answers (`Volumes`); of the sampler's
readings and the clock (`Sensors`); and of the shell's saving, the loading of a file
that has changed, the clock and what was put off with `callLater` (`Settings`).
`Meters` and `Drives` have no liveness. In `Readers` and `Shell` each of these is
fairness of a step of the part the behaviour is about. No action of ours needs
strong fairness.

## 4. Theorems

`PROJECT.json` lists the theorems. Each is an invariant that is strengthened
until it is inductive, shown to hold initially and to be preserved action by
action, and then turned into a temporal statement by the prover's temporal step.

* *SamplerLoop.* `TypeOK` and a statement per place of the loop: from the
  snapshot to the wait, `~wake` implies that the snapshot is current; a list is
  present if the snapshot shows it and the iteration has passed `StartTick`, and is the
  one asked for unless the request has changed since the last slow pass, which is then
  less than a second ago (`ListsShown`); and
  a process list read earlier is at least `WARM_UP` old when it is differenced,
  because a first reading always sleeps before the second. Pacing follows from
  the flags: a page is cold only if the request has changed since the last slow
  pass. The refinement is proved for the safety part, with the same invariant.
  `PagesReal` is about the pages Network and GPU, whose lists need a reading that
  is neither the first nor a stale one. `PagesInv` bounds the age of a reading by
  a second, less a tick, unless the reading failed (`LostInv`), and `Budget`, what an iteration may add before the next
  one starts: the time it has spent reading, or the wait but for what is left of it.
  Its hypothesis `ShortIterations` is what `sampler_long_interval` shows to be
  needed: a second and an interval, and a second and a reading, stay within the
  usable gap.
* *Panels.* `Promise`: once told on start, for each of level, page and interval,
  what the listener will know when it has read the pipe is the service's value;
  before that, what it will know once told. It is preserved because every method
  that changes a value writes it, and a write is the last of its kind.
  `Registered` ties the interval to the settings of the bars, by the existence
  of a least element of a non-empty set of intervals (well-founded induction).
  `Balanced` and `FocusShown` assume `~LateService`, without which they are false
  (`panels_late_service`). Counts are the cardinalities of the open panels and of
  those unfolded (`RefsInv`): a handler moves one widget in or out of each set
  (`CountChanges`), and the service is called exactly when it does, because
  `fullHeld` is kept equal to what it stands for and a widget that has no service
  is closed (`Held`). The focus follows from the same invariant, for no other
  widget's handler sets the focus while only one panel is shown.
* *RuntimePm.* The key is `LagInv`: while nobody else uses the card, its idle
  time is at least the age of the window less the window and the lag of a read.
  When the cooldown ends the card would have to be idle longer than the kernel
  allows. This needs exactly the assumption `PmAssumption`: window and lags fit
  in the margin (0.5 s and 1 s in the code).
* *NvidiaGate.* No call is decided while a card sleeps (`NoneAsleep`), so while one is
  due every card that sleeps has fallen asleep since (`DozeInv`): `SleepersAreLeft`.
  The background query is decided only when none runs or is due, which bounds its time left. `CooldownLongEnough` is the
  safety behind `FallsAsleep`, as for `RuntimePm`: with `ShortCalls` (a window, a call
  and the kernel's lag fit in the margin; `nvidia_slow` is about calls that do not)
  a card that is still awake when the cooldown ends was used by somebody else.
  `LagInv` adds what is left of the calls to the lag of the timer behind the window,
  so that it covers a background query over which the next window opens; `DueInv`
  keeps the window open from the decision to the start of a call; `CallInv`
  says that a stream only runs on beside cards that others have just switched.
* *PublicIp.* A process that has ended has no lookup, and one that is not running
  no unread requests; hence a request the service knows of is somewhere on its
  way, or was sent to a process that has since died.
* *Shell.* Every step of the shell is a step of each part or a stutter
  (lemma `PartsAlone`, which is so by how `ShellNext` is written), so an invariant of a
  part is one of the shell.
  - *Supervisor.* The mark set by the service's destruction is there whenever it has
    begun (`Marked`), and of all actions only the restart timer starts a sampler.
    `SlowInv` relates the restarts the service counts to those of the burst, and
    the time since the burst began, with what is left of the timer, to the sum of
    the delays so far (`Seconds`), which the powers of two add up to (`Doublings`).
    The provers know no induction on exponents: `CodePower` takes the code's
    exponent, five, and leaves the cap of the delay and the period of health free
    from 16 and 30 upwards (the code has 30 and 60).
  - *Drives.* `GraphInv`: kernel, sampler and service hold drives under names and
    identities; and for every `k` the `k`-th newest sample of each series is that of
    the overall one, where it is long enough. `PushKeeps` says what `pushHistory`
    leaves of a series: the newest, as many as of any other of that length. A line
    that lacks the section, a change of the length and a restart each keep this.
  - *Sensors.* `SensorsApart`: at any time, and not only in the end as `SensorsFollow`
    has it, no two sensors of a line have one id, and one saved with its device is
    never found on another chip. A chip has one number (`Numbered`, at boot by counting:
    a surjection between sets of one size is an injection), so a scan has it once and
    a board's copies once together (`ScanKeeps`). `Distinguished`: chips of
    a name that are not copies of a board sit on devices of their own.
  - *Settings.* `EditsStay`, the invariant behind `EditsConverge`: a widget shows
    the file with its pending changes over it or a restore is asked for, whatever
    was changed, loaded or reverted and in whatever order. It is the repair in
    `onSettingsChanged` that keeps it over a revert. `SettingsInv` is the types, with
    entries handed over whole or in part.
* *Volumes.* A path is marked as stuck exactly while its one helper is there, which
  gives `OneHelperPerMount`. For the list, `ListInv`: at every step of a scan the
  mounts counted so far, less those that told no space and the one being asked, are
  at or behind the one listed for their device; the mount being asked is not, and
  either becomes the one listed or joins the silent.
* *Readers.* The lemma `PartsAlone` as for the shell.
  - *Volumes.* `OneHelper` and `ShortestListed` carry the invariants of
    `Volumes_proofs` over to the readers, where the runs check them.
  - *HelperRun.* `GroupInv`: while the helper has been reaped and its exit seen, its
    group is empty; `EofInv`: at the end of the file there is no writer and the pipe
    is empty.
  - *Meters, each counter.* `CountInv` says of every counter that two readings have
    what it has gained. A counter of energy gained what was used, less a round where
    it has wrapped (`Rounds`); any other never more than that, and just that
    unless something came or went (`Straight`); io that could not be read
    gains what it had counted on top (`missed`). It is needed in every state, not
    only when a reading is due. `CountersAreTrue` is what it comes to.
  - *Meters, the sums.* `FiguresTrue` adds up the shares shown to users and the
    amounts used by counters. The sum of the model is a fold over a set; that it
    can be taken apart is shown by induction over the parts of a finite set, in the
    form the provers can use: the smallest part of which a statement is false would
    have a smaller one (`EveryPart`, from `SomeLeast`). From it `SumOfParts`,
    `SumAtMost`, `SumExactly`, and `SumOfShares`: shares that hand each amount to one
    of its holders add up to the amounts. Cores are differenced by position:
    while none comes or goes, positions of the two readings are the same
    (`SamePlace`).

### Assumptions

Constants are constrained by the named `ASSUME`s of each module, no more than
the code does: the warm-up is shorter than a second and than the usable gap; the
initial interval is one of the intervals; there is a page; times, limits and
lengths are natural numbers (`ReadersAssumption`, `ShellAssumption`), the range of an
energy counter is not 0, counters and users are finitely many, and counters are
numbered, because cores and sockets are taken in their order. What a theorem needs
beyond that is in its statement: `ShortIterations` (`PagesReal`), `~LateService`
(`Balanced`, `FocusShown`), `ShortCalls` (`CooldownLongEnough` of `NvidiaGate`),
`CodePower` (`CrashesSlow`), `Distinguished` (`SensorsApart`), that a setting has
values (`EditsStay`), and `Numbers` in the theorems about `Volumes` alone, which
`ReadersAssumption` implies. The constants of the passing runs satisfy each of them.

### Only model-checked

Every safety invariant, and every action property, that a passing run checks is
also stated by a theorem. What is left to TLC is liveness (`QuitEnds`, `NoOrphan`,
`DemandReached`, `Recovers`, `FallsAsleep`, `RunReturns`, `ListFollows`,
`EditsConverge`, `SensorsFollow`, `StreamKept`, `StreamLasts`, `Answered`,
`AddressConverges`) and the fairness part of the refinement: TLAPS does not handle
ENABLED and fairness here.

## 5. Not modelled

* What is read from `/proc` and `/sys`, parsed and formatted: only its age,
  its identity and whether it is there matter to the properties above. Among these:
  the parsing of settings lines, numbers and fdinfo, percentages, frequencies,
  battery and memory.
* `--once`, `--version` and the size of the oversize record of `main.rs`.
* The fallback sampler, `sampler.py`: its loop is that of `main.rs` with an event in
  place of the condition variable. It clears the event before it reads the state, so a
  line handled between wait and clear is not slept over.
* In `disks.rs`: drive temperatures, ZFS figures, the checks that leave a mount out.
  In `net.rs`: the address and wifi caches. In `gpu.rs`: detection, the readings
  themselves and the stream's reader thread. In `procs.rs`: names, ranking, and the
  scan limits other than that of the sockets.
* In `OmaStatsService.qml` and `OmaStatsWidget.qml`: the theme watcher, the histories
  of cards, layout and input. In `Model.js`: ordering, clamping, labels, formatting.
* Views, release scripts and tests.

## 6. Plan

What remains, the most useful first:

1. Theorems: the steps towards the other liveness properties that are invariants
   (`ListFollows`, `AddressConverges`).
2. `Supervisor` and `PublicIp` over one sampler process, in place of the two
   models of its life.
3. The caches of `net.rs` (addresses by interface, wifi by association), and the
   held readings and reader thread of `gpu.rs`.
4. The pure functions of `Model.js` against reference definitions.
