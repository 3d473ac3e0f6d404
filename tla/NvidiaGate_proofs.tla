-------------------------- MODULE NvidiaGate_proofs --------------------------
(***************************************************************************)
(* Theorems about the gate in front of nvidia-smi, for any cards, delay,   *)
(* window, margin and call times.                                          *)
(***************************************************************************)
EXTENDS NvidiaGate, TLAPS

USE NvidiaAssumption, WindowAssumption

\* An age keeps counting up to its cap, and a missing one stays missing.
LEMMA OlderType ==
  ASSUME NEW cap \in Nat, NEW a \in NEVER .. cap
  PROVE  /\ Older(a, cap) \in NEVER .. cap
         /\ a # NEVER => Older(a, cap) \in 0 .. cap
BY DEF Older, NEVER

\* A reading leaves the window, the stream and the history well typed.
LEMMA GateType ==
  ASSUME TypeOK, Gate
  PROVE  /\ opened' \in NEVER .. COOL
         /\ stream' \in {"none", "running", "dead"}
         /\ foreign' \in [Cards -> BOOLEAN]
<1>1. opened' \in NEVER .. COOL
  BY DEF TypeOK, Gate, COOL, NEVER
<1>2. stream' \in {"none", "running", "dead"}
  BY DEF TypeOK, Gate, Stop
<1>3. foreign' \in [Cards -> BOOLEAN]
  BY DEF TypeOK, Gate
<1>. QED
  BY <1>1, <1>2, <1>3

\* A call of nvidia-smi is only allowed when no card sleeps.
LEMMA NoneAsleep ==
  ASSUME Access # "rest", NEW c \in Cards, managed[c]
  PROVE  status[c] # "suspended"
BY DEF Access, Runtime

LEMMA InitType == Init => TypeOK
<1>. SUFFICES ASSUME Init PROVE TypeOK
  OBVIOUS
<1>1. NEVER \in NEVER .. COOL /\ 0 \in 0 .. COOL /\ 0 \in 0 .. Delay + KERNEL_LAG
  BY DEF NEVER, COOL
<1>. QED
  BY <1>1 DEF Init, TypeOK

LEMMA StepType == TypeOK /\ [Next]_vars => TypeOK'
<1>. SUFFICES ASSUME TypeOK, [Next]_vars PROVE TypeOK'
  OBVIOUS
<1>. USE DEF kernelVars
<1>1. ASSUME NEW c \in Cards, Suspend(c) PROVE TypeOK'
  BY <1>1 DEF Suspend, historyVars, TypeOK
<1>2. ASSUME NEW c \in Cards, Touched(c), managed' \in [Cards -> BOOLEAN]
      PROVE  TypeOK'
  <2>1. 0 \in 0 .. Delay + KERNEL_LAG
    OBVIOUS
  <2>2. idle' \in [Cards -> 0 .. Delay + KERNEL_LAG]
    BY <1>2, <2>1 DEF Touched, TypeOK
  <2>. QED
    BY <1>2, <2>2 DEF Touched, TypeOK
<1>3. ASSUME NEW c \in Cards, Use(c) \/ SetControl(c) PROVE TypeOK'
  <2>1. Touched(c) /\ managed' \in [Cards -> BOOLEAN]
    BY <1>3 DEF Use, SetControl, TypeOK
  <2>. QED
    BY <1>2, <2>1
<1>4. CASE StreamDies
  BY <1>4 DEF StreamDies, historyVars, TypeOK
<1>5. CASE Elapse
  <2>1. ASSUME NEW c \in Cards
        PROVE  Older(idle[c], Delay + KERNEL_LAG) \in 0 .. Delay + KERNEL_LAG
    <3>1. /\ Delay + KERNEL_LAG \in Nat /\ idle[c] \in NEVER .. Delay + KERNEL_LAG
          /\ idle[c] # NEVER
      BY DEF TypeOK, NEVER
    <3>. QED
      BY <3>1, OlderType
  <2>2. idle' \in [Cards -> 0 .. Delay + KERNEL_LAG]
    BY <1>5, <2>1 DEF Elapse
  <2>3. opened' \in NEVER .. COOL
    BY <1>5, OlderType DEF Elapse, TypeOK, COOL
  <2>4. pmon' \in 0 .. COOL /\ query' \in 0 .. COOL
    BY <1>5 DEF Elapse, TypeOK, COOL
  <2>. QED
    BY <1>5, <2>2, <2>3, <2>4 DEF Elapse, historyVars, TypeOK
<1>6. ASSUME NEW t \in CallTimes PROVE t \in 0 .. COOL
  BY DEF COOL
<1>7. CASE Processes
  <2>1. CASE UNCHANGED <<opened, stream, foreign, due>>
    BY <1>7, <2>1 DEF Processes, TypeOK
  <2>2. CASE Gate /\ due' = IF Access = "rest" THEN due ELSE due \cup {"procs"}
    BY <1>7, <2>2, GateType DEF Processes, TypeOK
  <2>. QED
    BY <1>7, <2>1, <2>2 DEF Processes
<1>8. CASE SampleAll
  BY <1>8, GateType DEF SampleAll, TypeOK
<1>9. ASSUME NEW call \in {"procs", "cards"}, Start(call) PROVE TypeOK'
  <2>1. pmon' \in 0 .. COOL /\ query' \in 0 .. COOL
    BY <1>6, <1>9 DEF Start, TypeOK
  <2>2. ("procs" \in due' => pmon' = 0) /\ ("cards" \in due' => query' = 0)
    BY <1>9 DEF Start, TypeOK
  <2>. QED
    BY <1>9, <2>1, <2>2 DEF Start, TypeOK
<1>10. CASE UNCHANGED vars
  BY <1>10 DEF vars, historyVars, TypeOK
<1>. QED
  BY <1>1, <1>3, <1>4, <1>5, <1>7, <1>8, <1>9, <1>10 DEF Next, Loop

\* Every reachable state of cards, gate and calls is well typed; in particular
\* one background query at most is under way.
THEOREM TypeCorrect == Spec => []TypeOK
BY InitType, StepType, PTL DEF Spec

\* While a call is due, the cards that sleep are those that have fallen asleep
\* since the gate looked; when none is due, no card is excused.
DozeInv ==
  /\ due # {} => \A c \in Cards : managed[c] /\ status[c] = "suspended" => c \in dozed
  /\ due = {} => dozed = {}

LEMMA StepDoze == TypeOK /\ DozeInv /\ [Next]_vars => DozeInv'
<1>. SUFFICES ASSUME TypeOK, DozeInv, [Next]_vars PROVE DozeInv'
  OBVIOUS
<1>. USE DEF kernelVars, historyVars
<1>1. ASSUME NEW c \in Cards, Suspend(c) PROVE DozeInv'
  BY <1>1 DEF Suspend, DozeInv, TypeOK
<1>2. ASSUME NEW c \in Cards, Use(c) \/ SetControl(c) PROVE DozeInv'
  BY <1>2 DEF Use, SetControl, Touched, DozeInv, TypeOK
<1>3. CASE StreamDies \/ Elapse
  BY <1>3 DEF StreamDies, Elapse, DozeInv
<1>4. ASSUME UNCHANGED <<kernelVars, dozed>>,
             \/ due' = due
             \/ Access # "rest" /\ due' # {}
      PROVE  DozeInv'
  <2>1. CASE due' = due
    BY <1>4, <2>1 DEF DozeInv
  <2>2. CASE Access # "rest" /\ due' # {}
    BY <1>4, <2>2, NoneAsleep DEF DozeInv
  <2>. QED
    BY <1>4, <2>1, <2>2
<1>5. CASE Processes
  BY <1>4, <1>5 DEF Processes
<1>6. CASE SampleAll
  BY <1>4, <1>6 DEF SampleAll
<1>7. ASSUME NEW call \in {"procs", "cards"}, Start(call) PROVE DozeInv'
  BY <1>7 DEF Start, DozeInv
<1>8. CASE UNCHANGED vars
  BY <1>8 DEF vars, DozeInv
<1>. QED
  BY <1>1, <1>2, <1>3, <1>5, <1>6, <1>7, <1>8 DEF Next, Loop

\* No call wakes a card that slept when the gate looked, whichever of the cards
\* sleep and however looks and starts of the two kinds of calls interleave.
THEOREM SleepersAreLeft == Spec => SleepersLeftAlone
<1>1. Init => DozeInv
  BY DEF Init, DozeInv
<1>2. TypeOK /\ DozeInv /\ [Next]_vars =>
        [\A c \in Cards :
           managed[c] /\ status[c] = "suspended" /\ status'[c] = "active"
             => foreign'[c] \/ c \in dozed]_vars
  <2>. SUFFICES ASSUME TypeOK, DozeInv, Next,
                       NEW c \in Cards,
                       managed[c], status[c] = "suspended", status'[c] = "active"
                PROVE  foreign'[c] \/ c \in dozed
    BY Zenon DEF vars
  <2>. USE DEF kernelVars
  <2>1. ASSUME NEW d \in Cards, Suspend(d) PROVE FALSE
    BY <2>1 DEF Suspend, TypeOK
  <2>2. ASSUME NEW d \in Cards, Use(d) \/ SetControl(d) PROVE foreign'[c]
    BY <2>2 DEF Use, SetControl, Touched, TypeOK
  <2>3. ~(StreamDies \/ Elapse \/ Processes \/ SampleAll)
    BY DEF StreamDies, Elapse, Processes, SampleAll
  <2>4. ASSUME NEW call \in {"procs", "cards"}, Start(call) PROVE c \in dozed
    BY <2>4 DEF Start, DozeInv
  <2>. QED
    BY <2>1, <2>2, <2>3, <2>4 DEF Next, Loop
<1>. QED
  BY <1>1, <1>2, StepDoze, TypeCorrect, PTL DEF Spec, SleepersLeftAlone
-----------------------------------------------------------------------------
(* What a call may take without keeping a card awake.  A window, a call that *)
(* starts at its end, and the kernel's lag have to fit in the margin.        *)

ShortCalls == \A t \in CallTimes : WINDOW + t + KERNEL_LAG <= MARGIN

\* A card that may suspend and is still awake when the cooldown ends has been
\* used by others since the window opened.
CooldownSuffices ==
  \A c \in Cards :
    Runtime(c) = "awake" /\ opened # NEVER /\ Decide(opened, Delay).reopen => foreign[c]

LongestCall == MARGIN - WINDOW - KERNEL_LAG

\* A call uses every card until it ends.
\* A stream that runs on beside cards that may suspend is one that was there when
\* others switched them.
CallInv ==
  /\ pmon <= LongestCall /\ query <= LongestCall
  /\ pmon > 0 \/ query > 0 => \A c \in Cards : idle[c] = 0
  /\ stream = "running" => \A c \in Cards : managed[c] => foreign[c]

\* A call that is due starts in its window, or beside cards that stream.
DueInv ==
  /\ "procs" \in due => turn = "cards"
  /\ "cards" \in due => opened \in 0 .. WINDOW - 1
  /\ "procs" \in due => \/ opened \in 0 .. WINDOW - 1
                        \/ \A c \in Cards : managed[c] => foreign[c]

Ours(c) == managed[c] /\ status[c] = "active" /\ opened # NEVER /\ ~foreign[c]

\* While a card is ours alone its timer, once the calls that run now are over,
\* lags behind the window by less than a window and a call.
LagInv ==
  \A c \in Cards : Ours(c) =>
    /\ opened - idle[c] + pmon < WINDOW + LongestCall
    /\ opened - idle[c] + query < WINDOW + LongestCall

LEMMA Numbers ==
  ASSUME TypeOK
  PROVE  /\ opened \in Int /\ pmon \in Nat /\ query \in Nat /\ COOL \in Nat
         /\ \A c \in Cards : idle[c] \in 0 .. Delay + KERNEL_LAG
         /\ LongestCall \in Int
         /\ WINDOW \in Nat \ {0} /\ Delay \in Nat /\ KERNEL_LAG \in Nat
BY DEF TypeOK, COOL, NEVER, LongestCall

\* A reading that asks a card is in a window; a stream is for cards that are on.
LEMMA GateOpens ==
  ASSUME TypeOK, Gate
  PROVE  /\ Access = "query" => opened' \in 0 .. WINDOW - 1
         /\ Access # "query" => opened' = opened /\ foreign' = foreign
         /\ Access = "stream" => \A c \in Cards : ~managed[c]
         /\ stream' = "running" => Access = "stream"
<1>1. Access = "query" => Decide(opened, Delay).allowed
  BY DEF Access
<1>2. Access = "query" => opened' \in 0 .. WINDOW - 1
  BY <1>1, Numbers DEF Gate, Decide, NEVER, TypeOK
<1>3. Access = "stream" => \A c \in Cards : ~managed[c]
  BY DEF Access, Runtime
<1>. QED
  BY <1>2, <1>3 DEF Gate, Stop

LEMMA StepLag ==
  ASSUME ShortCalls, TypeOK, TypeOK', DueInv, CallInv, LagInv, [Next]_vars
  PROVE  CallInv' /\ LagInv'
<1>. USE Numbers DEF kernelVars, historyVars
<1>0. \A t \in CallTimes : t \in Nat /\ t > 0 /\ t <= LongestCall
  BY DEF ShortCalls, LongestCall
<1>1. ASSUME NEW d \in Cards, Suspend(d) PROVE CallInv' /\ LagInv'
  <2>1. \A c \in Cards : Ours(c)' => Ours(c)
    BY <1>1 DEF Suspend, Ours, TypeOK
  <2>. QED
    BY <1>1, <2>1 DEF Suspend, CallInv, LagInv
<1>2. ASSUME NEW d \in Cards, Use(d) \/ SetControl(d) PROVE CallInv' /\ LagInv'
  <2>1. /\ UNCHANGED <<opened, pmon, query, stream>>
        /\ foreign'[d] /\ idle' = [idle EXCEPT ![d] = 0]
        /\ \A c \in Cards \ {d} : /\ foreign'[c] = foreign[c] /\ managed'[c] = managed[c]
                                  /\ status'[c] = status[c] /\ idle'[c] = idle[c]
    BY <1>2 DEF Use, SetControl, Touched, TypeOK
  <2>2. CallInv'
    BY <2>1 DEF CallInv, TypeOK
  <2>3. ASSUME NEW c \in Cards, Ours(c)' PROVE c # d /\ Ours(c)
    BY <2>1, <2>3 DEF Ours
  <2>. QED
    BY <2>1, <2>2, <2>3 DEF LagInv
<1>3. CASE StreamDies
  BY <1>3 DEF StreamDies, CallInv, LagInv, Ours
<1>4. CASE Elapse
  <2>1. /\ UNCHANGED <<managed, status, stream, foreign>>
        /\ pmon' = (IF pmon > 0 THEN pmon - 1 ELSE 0)
        /\ query' = (IF query > 0 THEN query - 1 ELSE 0)
        /\ opened' = NEVER <=> opened = NEVER
        /\ opened' <= opened + 1 /\ opened' \in Int
    BY <1>4 DEF Elapse, Older, NEVER, TypeOK, COOL
  <2>2. CallInv'
    BY <1>4, <2>1 DEF CallInv, Calling, Elapse
  <2>3. ASSUME NEW c \in Cards, Ours(c)'
        PROVE  /\ opened' - idle'[c] + pmon' < WINDOW + LongestCall
               /\ opened' - idle'[c] + query' < WINDOW + LongestCall
    <3>1. Ours(c) /\ stream # "running"
      BY <2>1, <2>3 DEF Ours, CallInv
    <3>2. /\ opened - idle[c] + pmon < WINDOW + LongestCall
          /\ opened - idle[c] + query < WINDOW + LongestCall
      BY <3>1 DEF LagInv
    <3>3. CASE ~Calling
      <4>1. idle[c] < Delay + KERNEL_LAG /\ idle'[c] = Older(idle[c], Delay + KERNEL_LAG)
        BY <1>4, <3>1, <3>3 DEF Elapse, Ours
      <4>2. idle'[c] = idle[c] + 1
        BY <4>1 DEF Older, NEVER
      <4>3. pmon' = 0 /\ query' = 0 /\ pmon = 0 /\ query = 0
        BY <2>1, <3>3 DEF Calling
      <4>. QED
        BY <2>1, <3>2, <4>2, <4>3
    <3>4. CASE Calling
      <4>1. idle'[c] = 0
        BY <1>4, <3>4 DEF Elapse
      <4>2. (pmon > 0 \/ query > 0) /\ idle[c] = 0
        BY <3>1, <3>4 DEF Calling, CallInv
      <4>. QED
        BY <2>1, <3>2, <4>1, <4>2
    <3>. QED
      BY <3>3, <3>4
  <2>. QED
    BY <2>2, <2>3 DEF LagInv
<1>5. ASSUME Gate, UNCHANGED <<kernelVars, pmon, query>>
      PROVE  CallInv' /\ LagInv'
  <2>1. CallInv'
    BY <1>5, GateOpens DEF CallInv
  <2>2. ASSUME NEW c \in Cards, Ours(c)'
        PROVE  /\ opened' - idle'[c] + pmon' < WINDOW + LongestCall
               /\ opened' - idle'[c] + query' < WINDOW + LongestCall
    <3>1. CASE Access = "query"
      <4>1. opened' \in 0 .. WINDOW - 1
        BY <1>5, <3>1, GateOpens
      <4>2. idle'[c] \in Nat /\ pmon' \in Nat /\ query' \in Nat
        BY DEF TypeOK
      <4>. QED
        BY <2>1, <4>1, <4>2 DEF CallInv
    <3>2. CASE Access # "query"
      BY <1>5, <2>2, <3>2, GateOpens DEF LagInv, Ours
    <3>. QED
      BY <3>1, <3>2
  <2>. QED
    BY <2>1, <2>2 DEF LagInv
<1>6. ASSUME UNCHANGED <<managed, status, idle, opened, pmon, query, stream, foreign>>
      PROVE  CallInv' /\ LagInv'
  BY <1>6 DEF CallInv, LagInv, Ours
<1>7. CASE Processes
  BY <1>5, <1>6, <1>7 DEF Processes
<1>8. CASE SampleAll
  BY <1>5, <1>8 DEF SampleAll
<1>9. ASSUME NEW call \in {"procs", "cards"}, Start(call) PROVE CallInv' /\ LagInv'
  <2>1. /\ idle' = [c \in Cards |-> 0]
        /\ UNCHANGED <<managed, opened, stream, foreign>>
        /\ pmon' <= LongestCall /\ query' <= LongestCall
    BY <1>0, <1>9 DEF Start, CallInv
  <2>2. CallInv'
    BY <2>1 DEF CallInv
  <2>3. ASSUME NEW c \in Cards, Ours(c)'
        PROVE  /\ opened' - idle'[c] + pmon' < WINDOW + LongestCall
               /\ opened' - idle'[c] + query' < WINDOW + LongestCall
    <3>1. opened \in 0 .. WINDOW - 1
      BY <1>9, <2>1, <2>3 DEF Start, DueInv, Ours
    <3>. QED
      BY <2>1, <3>1 DEF TypeOK
  <2>. QED
    BY <2>2, <2>3 DEF LagInv
<1>. QED
  BY <1>1, <1>2, <1>3, <1>4, <1>6, <1>7, <1>8, <1>9 DEF Next, Loop, vars

\* Nothing but the gate moves the window or clears the history while a call is
\* due, and the gate is not asked while the process query is.
LEMMA StepDue ==
  ASSUME TypeOK, DueInv, [Next]_vars
  PROVE  DueInv'
<1>. USE DEF kernelVars, historyVars
<1>1. ASSUME NEW d \in Cards, Suspend(d) PROVE DueInv'
  BY <1>1 DEF Suspend, DueInv
<1>2. ASSUME NEW d \in Cards, Use(d) \/ SetControl(d) PROVE DueInv'
  BY <1>2 DEF Use, SetControl, Touched, DueInv, TypeOK
<1>3. CASE StreamDies \/ Elapse
  BY <1>3 DEF StreamDies, Elapse, DueInv
<1>4. ASSUME Gate, opened \in 0 .. WINDOW - 1 PROVE opened' \in 0 .. WINDOW - 1
  BY <1>4, GateOpens, Access \in {"query", "stream", "rest"} DEF Access
<1>5. CASE Processes
  <2>1. "procs" \notin due
    BY <1>5 DEF Processes, DueInv
  <2>2. CASE UNCHANGED <<opened, stream, foreign, due>>
    BY <1>5, <2>1, <2>2 DEF Processes, DueInv
  <2>3. CASE Gate /\ Access = "rest" /\ due' = due
    BY <1>4, <1>5, <2>1, <2>3 DEF Processes, DueInv
  <2>4. CASE Gate /\ Access = "query" /\ due' = due \cup {"procs"}
    BY <1>5, <2>4, GateOpens DEF Processes, DueInv
  <2>5. CASE Gate /\ Access = "stream" /\ due' = due \cup {"procs"}
    <3>1. \A c \in Cards : ~managed'[c]
      BY <1>5, <2>5, GateOpens DEF Processes
    <3>. QED
      BY <1>4, <1>5, <2>5, <3>1 DEF Processes, DueInv
  <2>. QED
    BY <1>5, <2>2, <2>3, <2>4, <2>5 DEF Processes, Access
<1>6. CASE SampleAll
  <2>1. "procs" \notin due'
    BY <1>6 DEF SampleAll
  <2>2. "cards" \in due' => "cards" \in due \/ Access = "query"
    BY <1>6 DEF SampleAll
  <2>3. "cards" \in due' => opened' \in 0 .. WINDOW - 1
    BY <1>4, <1>6, <2>2, GateOpens DEF SampleAll, DueInv
  <2>. QED
    BY <2>1, <2>3 DEF DueInv
<1>7. ASSUME NEW call \in {"procs", "cards"}, Start(call) PROVE DueInv'
  BY <1>7 DEF Start, DueInv
<1>8. CASE UNCHANGED vars
  BY <1>8 DEF vars, DueInv
<1>. QED
  BY <1>1, <1>2, <1>3, <1>5, <1>6, <1>7, <1>8 DEF Next, Loop

\* With calls short enough the sampler alone never keeps an NVIDIA card awake: the
\* cooldown of decide outlasts the timer, whichever of the process query and the
\* background query ended last, and whenever a window opened beside a running one.
THEOREM CooldownLongEnough == ASSUME ShortCalls PROVE Spec => []CooldownSuffices
<1>1. Init => DueInv /\ CallInv /\ LagInv
  <2>1. PICK t : t \in CallTimes
    OBVIOUS
  <2>2. LongestCall \in Nat
    BY <2>1 DEF ShortCalls, LongestCall
  <2>. QED
    BY <2>2 DEF Init, DueInv, CallInv, LagInv, Ours, NEVER
<1>2. /\ TypeOK /\ TypeOK' /\ DueInv /\ CallInv /\ LagInv /\ [Next]_vars
      => DueInv' /\ CallInv' /\ LagInv'
  BY StepLag, StepDue
<1>3. TypeOK /\ CallInv /\ LagInv => CooldownSuffices
  <2>. SUFFICES ASSUME TypeOK, CallInv, LagInv, NEW c \in Cards, ~foreign[c],
                       Runtime(c) = "awake", opened # NEVER, Decide(opened, Delay).reopen
                PROVE  FALSE
    BY DEF CooldownSuffices
  <2>1. Ours(c)
    BY DEF Ours, Runtime, TypeOK
  <2>2. opened >= Delay + MARGIN
    BY DEF Decide
  <2>3. opened - idle[c] + pmon < WINDOW + LongestCall
    BY <2>1 DEF LagInv
  <2>. QED
    BY <2>2, <2>3, Numbers DEF LongestCall
<1>. QED
  BY <1>1, <1>2, <1>3, TypeCorrect, PTL DEF Spec
=============================================================================
