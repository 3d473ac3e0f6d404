------------------------------ MODULE Supervisor ------------------------------
(***************************************************************************)
(* How OmaStatsService.qml keeps one sampler running: a sampler that exits *)
(* is started again after a delay that doubles with every exit, a sampler  *)
(* that has streamed for a minute resets the delay, and a service that is  *)
(* being destroyed starts none.  A tick is a second.                       *)
(***************************************************************************)
EXTENDS Integers

CONSTANTS
  MAX_DELAY,    \* the longest delay before a restart
  MAX_POWER,    \* the exponent of the delay grows no further
  HEALTHY       \* the period of the timer that resets the delay

ASSUME SupervisorAssumption ==
  /\ MAX_DELAY \in Nat \ {0}
  /\ MAX_POWER \in Nat \ {0}
  /\ HEALTHY \in Nat \ {0}

VARIABLES
  running,       \* the Process's property
  ready,         \* has a line been read since the sampler last exited?
  restartCount,  \* exits counted, up to MAX_POWER: more change nothing
  timer,         \* seconds left of restartTimer, or OFF
  health,        \* seconds the once-a-minute timer has run, 0 if stopped
  destroying,
  gone,          \* history: has the service's destruction begun?
  burst,         \* history: restarts since the crash loop began
  looping        \* history: seconds since it began, up to HEALTHY

history == <<gone, burst, looping>>
vars == <<running, ready, restartCount, timer, health, destroying, history>>

OFF == -1

\* Mutant: the delay does not grow.
DelayConstant(n) == 1

Delay(n) ==
  LET doubled == 2 ^ (IF n < MAX_POWER THEN n ELSE MAX_POWER)
  IN  IF doubled < MAX_DELAY THEN doubled ELSE MAX_DELAY

Init ==
  /\ running = TRUE
  /\ ready = FALSE
  /\ restartCount = 0
  /\ timer = OFF
  /\ health = 0
  /\ destroying = FALSE
  /\ gone = FALSE
  /\ burst = 0
  /\ looping = 0

\* ingest: a line of the sampler is accepted.  The health timer runs while
\* ready is set.
Ingest ==
  /\ running
  /\ ~ready
  /\ ready' = TRUE
  /\ UNCHANGED <<running, restartCount, timer, health, destroying, history>>

\* Mutant: a sampler that exits before its first line is given up.
OnExitedIfReady ==
  /\ running
  /\ running' = FALSE
  /\ ready' = FALSE
  /\ health' = 0
  /\ restartCount' = IF restartCount < MAX_POWER THEN restartCount + 1 ELSE MAX_POWER
  /\ timer' = IF ready /\ ~destroying THEN Delay(restartCount') ELSE timer
  /\ UNCHANGED <<destroying, history>>

\* onExited: the sampler crashed, was killed, or has quit.
OnExited ==
  /\ running
  /\ running' = FALSE
  /\ ready' = FALSE
  /\ health' = 0
  /\ IF destroying
     THEN UNCHANGED <<restartCount, timer>>
     ELSE /\ restartCount' = IF restartCount < MAX_POWER THEN restartCount + 1
                             ELSE MAX_POWER
          /\ timer' = Delay(restartCount')
  /\ UNCHANGED <<destroying, history>>

\* restartTimer.onTriggered
RestartFires ==
  /\ timer = 0
  /\ timer' = OFF
  /\ running' = (running \/ ~destroying)
  /\ burst' = IF running' /\ ~running /\ burst < MAX_POWER + 1 THEN burst + 1 ELSE burst
  /\ UNCHANGED <<ready, restartCount, health, destroying, gone, looping>>

\* A minute of streaming: the crash loop, if there was one, is over.
HealthFires ==
  /\ health = HEALTHY
  /\ health' = 0
  /\ restartCount' = 0
  /\ burst' = 0
  /\ looping' = 0
  /\ UNCHANGED <<running, ready, timer, destroying, gone>>

\* Mutant: the service does not mark that it is going away.
DestroyUnmarked ==
  /\ ~gone
  /\ gone' = TRUE
  /\ timer' = OFF
  /\ UNCHANGED <<running, ready, restartCount, health, destroying, burst, looping>>

\* Component.onDestruction.  A running sampler is told to quit and
\* terminated; that it has exited is seen later, if at all.
Destroy ==
  /\ ~gone
  /\ gone' = TRUE
  /\ destroying' = TRUE
  /\ timer' = OFF
  /\ UNCHANGED <<running, ready, restartCount, health, burst, looping>>

\* A second passes.  A timer that is due fires first.
Tick ==
  /\ timer # 0 /\ health # HEALTHY
  /\ timer' = IF timer = OFF THEN OFF ELSE timer - 1
  /\ health' = IF ready THEN health + 1 ELSE 0
  /\ looping' = IF restartCount > 0 /\ looping < HEALTHY THEN looping + 1 ELSE looping
  /\ UNCHANGED <<running, ready, restartCount, destroying, gone, burst>>

Next == Ingest \/ OnExited \/ RestartFires \/ HealthFires \/ Destroy \/ Tick

\* Timers fire and time passes; nothing is assumed of the sampler.
Fairness == WF_vars(RestartFires) /\ WF_vars(HealthFires) /\ WF_vars(Tick)

Spec == Init /\ [][Next]_vars /\ Fairness

-----------------------------------------------------------------------------
TypeOK ==
  /\ running \in BOOLEAN /\ ready \in BOOLEAN
  /\ restartCount \in 0 .. MAX_POWER
  /\ timer \in OFF .. MAX_DELAY
  /\ health \in 0 .. HEALTHY
  /\ destroying \in BOOLEAN /\ gone \in BOOLEAN
  /\ burst \in 0 .. MAX_POWER + 1
  /\ looping \in 0 .. HEALTHY

\* A service that is going away never starts a sampler it will not stop,
\* whatever was armed or still to be delivered when its destruction began.
NoStartOnceGone == [][gone => ~(~running /\ running')]_vars

\* A sampler that keeps failing is started at most once more per doubling:
\* burst restarts take at least 2 + 4 + ... seconds of a crash loop.
CrashLoopSlows == burst \in 1 .. MAX_POWER - 1 => looping >= 2 ^ (burst + 1) - 2

\* A sampler that exits is started again, unless the service goes away.
Recovers == ~running ~> running \/ gone
=============================================================================
