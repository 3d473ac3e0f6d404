----------------------------- MODULE NvidiaGate -----------------------------
(***************************************************************************)
(* The NVIDIA readings of sampler/src/gpu.rs.  Every nvidia-smi call opens *)
(* all NVIDIA cards, and keeps them awake while it runs.  When no card can *)
(* suspend, one nvidia-smi streams; when one can and all are awake, it is  *)
(* asked once, in a read window shared by the GPU and the process          *)
(* samplers; while one sleeps, nothing is asked.                           *)
(*                                                                         *)
(* The loop's thread runs the process query and waits for it; the reading  *)
(* of the cards runs in a thread of its own.  The gate looks at the cards  *)
(* first and the call it allows starts later, within the tick: a card may  *)
(* have suspended by then.  The driver leaves the delay unreadable: every  *)
(* card is given the same.                                                 *)
(***************************************************************************)
EXTENDS ReadWindow

CONSTANTS
  Cards,
  Delay,         \* DEFAULT_DELAY, and when the cards suspend
  KERNEL_LAG,    \* ticks from the end of the timer to the suspension, at most
  CallTimes      \* ticks the calls of nvidia-smi for one reading may take

ASSUME NvidiaAssumption ==
  /\ Delay \in Nat /\ KERNEL_LAG \in Nat
  /\ CallTimes \subseteq 1 .. Delay + MARGIN /\ CallTimes # {}

VARIABLES
  managed,      \* is power/control of the card "auto"?
  status,       \* its power/runtime_status: "active" or "suspended"
  idle,         \* ticks since it was last used, by anyone
  opened,       \* age of the cards' current window, or NEVER
  turn,         \* the loop's next reading: "procs" or "cards"
  due,          \* calls the gate has allowed and that have not started: "procs", "cards"
  pmon,         \* ticks left of the process query, which the loop waits for
  query,        \* ticks left of the query in the background
  stream,       \* self.child: "none", "running" or "dead"
  foreign,      \* history: which cards others have used since the window opened
  dozed         \* history: cards that suspended while a call was due

kernelVars == <<managed, status, idle>>
historyVars == <<foreign, dozed>>
vars == <<kernelVars, opened, turn, due, pmon, query, stream, historyVars>>

COOL == Delay + MARGIN

Init ==
  /\ managed \in [Cards -> BOOLEAN]
  /\ status = [c \in Cards |-> "active"]
  /\ idle = [c \in Cards |-> 0]
  /\ opened = NEVER
  /\ turn = "cards"
  /\ due = {}
  /\ pmon = 0
  /\ query = 0
  /\ stream = "none"
  /\ foreign = [c \in Cards |-> FALSE]
  /\ dozed = {}

Calling == pmon > 0 \/ query > 0 \/ stream = "running"

-----------------------------------------------------------------------------
(* The kernel and the cards' other users.                                    *)

Suspend(c) ==
  /\ managed[c] /\ status[c] = "active" /\ idle[c] >= Delay
  /\ ~Calling
  /\ status' = [status EXCEPT ![c] = "suspended"]
  /\ dozed' = IF due = {} THEN dozed ELSE dozed \cup {c}
  /\ UNCHANGED <<managed, idle, opened, turn, due, pmon, query, stream, foreign>>

Touched(c) ==
  /\ status' = [status EXCEPT ![c] = "active"]
  /\ idle' = [idle EXCEPT ![c] = 0]
  /\ foreign' = [foreign EXCEPT ![c] = TRUE]
  /\ dozed' = dozed \ {c}
  /\ UNCHANGED <<opened, turn, due, pmon, query, stream>>

Use(c) == Touched(c) /\ UNCHANGED managed

\* Power management tools switch power/control between AC and battery.
SetControl(c) == Touched(c) /\ managed' = [managed EXCEPT ![c] = ~@]

\* The streaming nvidia-smi exits on its own.
StreamDies ==
  /\ stream = "running"
  /\ stream' = "dead"
  /\ UNCHANGED <<kernelVars, opened, turn, due, pmon, query, historyVars>>

\* Time passes, no further than the timer of an awake card allows.  A call
\* starts in the tick in which it was decided.
Elapse ==
  /\ due = {}
  /\ \A c \in Cards :
       managed[c] /\ status[c] = "active" /\ ~Calling => idle[c] < Delay + KERNEL_LAG
  /\ idle' = [c \in Cards |-> IF Calling THEN 0 ELSE Older(idle[c], Delay + KERNEL_LAG)]
  /\ opened' = Older(opened, COOL)
  /\ pmon' = IF pmon > 0 THEN pmon - 1 ELSE 0
  /\ query' = IF query > 0 THEN query - 1 ELSE 0
  /\ UNCHANGED <<managed, status, turn, due, stream, historyVars>>

-----------------------------------------------------------------------------
(* The gate, decided again at every reading.                                 *)

Runtime(c) == CASE ~managed[c] -> "on"
                [] managed[c] /\ status[c] = "suspended" -> "asleep"
                [] OTHER -> "awake"

\* Mutant: only the cards that are awake are looked at.
AccessAwake ==
  CASE \A c \in Cards : Runtime(c) = "on"  -> "stream"
    [] Decide(opened, Delay).allowed       -> "query"
    [] OTHER                               -> "rest"

Access ==
  CASE \E c \in Cards : Runtime(c) = "asleep" -> "rest"
    [] \A c \in Cards : Runtime(c) = "on"     -> "stream"
    [] OTHER -> IF Decide(opened, Delay).allowed THEN "query" ELSE "rest"

\* Mutants: the child that is stopped is not forgotten; the stream is left
\* running when the cards may suspend.
StopKeeping == IF stream = "running" THEN "stopped" ELSE stream

StopNothing == stream

\* stop: the child is killed, waited for and forgotten.
Stop == "none"

Gate ==
  LET reopens == Access = "query" /\ Decide(opened, Delay).reopen
  IN  /\ opened' = IF reopens THEN 0 ELSE opened
      /\ foreign' = IF reopens THEN [c \in Cards |-> FALSE] ELSE foreign
      /\ stream' = CASE Access # "stream" -> Stop
                     [] Access = "stream" /\ stream = "none" -> "running"
                     [] OTHER -> stream

\* nvidia_processes, when the GPU page is shown and a slow pass is due.
Processes ==
  /\ turn = "procs" /\ pmon = 0
  /\ turn' = "cards"
  /\ \/ UNCHANGED <<opened, stream, foreign, due>>
     \/ /\ Gate
        /\ due' = IF Access = "rest" THEN due ELSE due \cup {"procs"}
  /\ UNCHANGED <<kernelVars, pmon, query, dozed>>

\* Mutant: a query is started although one is still running.
SampleAllStacking ==
  /\ turn = "cards" /\ pmon = 0 /\ "procs" \notin due
  /\ turn' = "procs"
  /\ Gate
  /\ due' = IF Access = "query" THEN due \cup {"cards"} ELSE due
  /\ UNCHANGED <<kernelVars, pmon, query, dozed>>

\* sample_all, once the process query has been waited for.  A query that is due
\* or running keeps the flag querying set.
SampleAll ==
  /\ turn = "cards" /\ pmon = 0 /\ "procs" \notin due
  /\ turn' = "procs"
  /\ Gate
  /\ due' = IF Access = "query" /\ query = 0 THEN due \cup {"cards"} ELSE due
  /\ UNCHANGED <<kernelVars, pmon, query, dozed>>

Loop == Processes \/ SampleAll

\* The nvidia-smi of a call starts and opens every card, whatever has become of
\* them since the gate looked.
Start(call) ==
  /\ call \in due
  /\ due' = due \ {call}
  /\ \/ call = "procs" /\ pmon' \in CallTimes /\ UNCHANGED query
     \/ call = "cards" /\ query' \in CallTimes /\ UNCHANGED pmon
  /\ status' = [c \in Cards |-> "active"]
  /\ idle' = [c \in Cards |-> 0]
  /\ dozed' = {}
  /\ UNCHANGED <<managed, opened, turn, stream, foreign>>

Next ==
  \/ \E c \in Cards : Suspend(c) \/ Use(c) \/ SetControl(c)
  \/ \E call \in {"procs", "cards"} : Start(call)
  \/ StreamDies \/ Elapse \/ Loop

\* Time passes, the kernel's timers fire, the loop goes on and threads run.
Fairness ==
  /\ WF_vars(Elapse) /\ WF_vars(Loop)
  /\ WF_vars(Start("procs")) /\ WF_vars(Start("cards"))
  /\ \A c \in Cards : WF_vars(Suspend(c))

Spec == Init /\ [][Next]_vars /\ Fairness

-----------------------------------------------------------------------------
TypeOK ==
  /\ managed \in [Cards -> BOOLEAN]
  /\ status \in [Cards -> {"active", "suspended"}]
  /\ idle \in [Cards -> 0 .. Delay + KERNEL_LAG]
  /\ opened \in NEVER .. COOL
  /\ turn \in {"procs", "cards"}
  /\ due \subseteq {"procs", "cards"}
  /\ pmon \in 0 .. COOL
  /\ query \in 0 .. COOL
  /\ stream \in {"none", "running", "dead"}
  /\ foreign \in [Cards -> BOOLEAN]
  /\ dozed \subseteq Cards
  /\ "procs" \in due => pmon = 0
  /\ "cards" \in due => query = 0

\* A card that sleeps is woken by others, or by a call that had been allowed
\* before it fell asleep: neither another card that is awake and has its window
\* open nor a call that is already under way lets a further one through.
SleepersLeftAlone ==
  [][\A c \in Cards :
       managed[c] /\ status[c] = "suspended" /\ status'[c] = "active"
         => foreign'[c] \/ c \in dozed]_vars

\* An awake card that nobody else uses falls asleep, whatever is shown of it.
FallsAsleep ==
  \A c \in Cards :
    Runtime(c) = "awake" /\ opened # NEVER /\ ~foreign[c]
      ~> status[c] = "suspended" \/ foreign[c]

AlwaysOn == \A c \in Cards : ~managed[c]

\* Cards that do not suspend any more come to stream, and go on until their
\* nvidia-smi exits.
StreamKept == <>[]AlwaysOn => <>[](stream = "running") \/ <>[](stream = "dead")

\* Cards that never suspend stream a reading every second.
StreamLasts == <>[]AlwaysOn => []<>(stream = "running")
=============================================================================
