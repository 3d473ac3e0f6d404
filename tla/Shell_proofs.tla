----------------------------- MODULE Shell_proofs -----------------------------
(***************************************************************************)
(* Theorems about the service's restart timer, the graphs of the drives,   *)
(* the names of the sensors and the settings of the widgets, in every      *)
(* behaviour of the shell.                                                 *)
(***************************************************************************)
EXTENDS Shell, FiniteSetTheorems, WellFoundedInduction, SequenceTheorems, TLAPS

USE SupervisorAssumption, ShellAssumption

LEMMA ShellSteps ==
  [ShellNext]_all => [Next]_vars /\ [D!Next]_drivesVars
BY DEF ShellNext, all, OnlySampler, OnlyDrives, OnlySensors, OnlySettings

\* Together the parts of the shell do what each of them does alone.
LEMMA PartsAlone ==
  ShellSpec => /\ Init   /\ [][Next]_vars
               /\ D!Init /\ [][D!Next]_drivesVars
               /\ N!Init /\ [][N!Next]_sensorsVars
               /\ S!Init /\ [][S!Next]_settingsVars
<1>1. ShellInit => Init /\ D!Init /\ N!Init /\ S!Init
  BY DEF ShellInit
<1>2. [ShellNext]_all => /\ [Next]_vars /\ [D!Next]_drivesVars
                        /\ [N!Next]_sensorsVars /\ [S!Next]_settingsVars
  BY DEF ShellNext, OnlySampler, OnlyDrives, OnlySensors, OnlySettings, all
<1>. QED
  BY <1>1, <1>2, PTL DEF ShellSpec

-----------------------------------------------------------------------------
(* The restart timer: destruction.                                           *)

\* The mark that onDestruction sets is there from its beginning on, and for good.
Marked == gone => destroying

LEMMA InitMarked == Init => Marked
  BY DEF Init, Marked

LEMMA StepMarked == Marked /\ [Next]_vars => Marked'
<1>. SUFFICES ASSUME Marked, [Next]_vars PROVE Marked'
  OBVIOUS
<1>. USE DEF Marked
<1>1. CASE Destroy
  BY <1>1 DEF Destroy
<1>2. CASE UNCHANGED <<gone, destroying>>
  BY <1>2
<1>. QED
  BY <1>1, <1>2
     DEF Next, vars, history, Ingest, OnExited, RestartFires, HealthFires, Tick

\* Only the restart timer starts a sampler, and not one that is marked.
LEMMA StepStartsNone ==
  ASSUME Marked, gone, [Next]_vars
  PROVE  ~(~running /\ running')
<1>1. CASE RestartFires
  BY <1>1, Zenon DEF RestartFires, Marked
<1>2. CASE OnExited
  BY <1>2 DEF OnExited
<1>3. CASE running' = running
  BY <1>3
<1>. QED
  BY <1>1, <1>2, <1>3 DEF Next, vars, Ingest, HealthFires, Destroy, Tick

\* A service whose destruction has begun never starts a sampler, whatever timer
\* was armed or exit undelivered then (onDestruction, restartTimer).
THEOREM NoneStarted == ShellSpec => NoStartOnceGone
<1>1. Marked /\ [Next]_vars => [gone => ~(~running /\ running')]_vars
  BY StepStartsNone
<1>2. ShellSpec => []Marked
  BY InitMarked, StepMarked, PartsAlone, PTL
<1>. QED
  BY <1>1, <1>2, PartsAlone, PTL DEF NoStartOnceGone

-----------------------------------------------------------------------------
(* The restart timer: a crash loop.  Every exit doubles the delay and every  *)
(* restart waits for it, so the restarts are told by the exits; a crash loop *)
(* ends only while a sampler runs.  The provers know powers of two of        *)
(* numbers only, hence the number: it is the code's.                         *)

CodePower == MAX_POWER = 5 /\ MAX_DELAY >= 16 /\ HEALTHY >= 30

LEMMA Powers ==
  ASSUME NEW n \in 0 .. 5
  PROVE  2 ^ n = CASE n = 0 -> 1 [] n = 1 -> 2 [] n = 2 -> 4 [] n = 3 -> 8
                   [] n = 4 -> 16 [] OTHER -> 32
<1>1. 2 ^ 0 = 1 /\ 2 ^ 1 = 2 /\ 2 ^ 2 = 4 /\ 2 ^ 3 = 8 /\ 2 ^ 4 = 16 /\ 2 ^ 5 = 32
  OBVIOUS
<1>2. /\ n = 0 => 2 ^ n = 2 ^ 0
      /\ n = 1 => 2 ^ n = 2 ^ 1
      /\ n = 2 => 2 ^ n = 2 ^ 2
      /\ n = 3 => 2 ^ n = 2 ^ 3
      /\ n = 4 => 2 ^ n = 2 ^ 4
      /\ n = 5 => 2 ^ n = 2 ^ 5
  BY Zenon
<1>3. /\ n = 0 => 2 ^ n = 1
      /\ n = 1 => 2 ^ n = 2
      /\ n = 2 => 2 ^ n = 4
      /\ n = 3 => 2 ^ n = 8
      /\ n = 4 => 2 ^ n = 16
      /\ n = 5 => 2 ^ n = 32
  BY <1>1, <1>2, Zenon
<1>. QED
  BY <1>3

LEMMA Delays ==
  ASSUME MAX_POWER = 5, NEW n \in 0 .. MAX_POWER
  PROVE  Delay(n) = IF 2 ^ n < MAX_DELAY THEN 2 ^ n ELSE MAX_DELAY
<1>1. (IF n < MAX_POWER THEN n ELSE MAX_POWER) = n
  OBVIOUS
<1>2. 2 ^ (IF n < MAX_POWER THEN n ELSE MAX_POWER) = 2 ^ n
  BY <1>1, Zenon
<1>. DEFINE power == 2 ^ (IF n < MAX_POWER THEN n ELSE MAX_POWER)
<1>3. Delay(n) = IF power < MAX_DELAY THEN power ELSE MAX_DELAY
  BY Zenon DEF Delay
<1>4. power = 2 ^ n
  BY <1>2
<1>. HIDE DEF power
<1>. QED
  BY <1>3, <1>4, Zenon

LEMMA DelayType == ASSUME MAX_POWER = 5, NEW n \in 0 .. MAX_POWER PROVE Delay(n) \in 1 .. MAX_DELAY
<1>. DEFINE power == 2 ^ n
<1>1. power \in 1 .. 32
  <2>1. power = CASE n = 0 -> 1 [] n = 1 -> 2 [] n = 2 -> 4 [] n = 3 -> 8
                  [] n = 4 -> 16 [] OTHER -> 32
    BY Powers, Zenon
  <2>. HIDE DEF power
  <2>. QED
    BY <2>1
<1>2. Delay(n) = IF power < MAX_DELAY THEN power ELSE MAX_DELAY
  BY Delays
<1>. HIDE DEF power
<1>. QED
  BY <1>1, <1>2

\* The seconds that this many restarts of a crash loop take.
Seconds(restarts) ==
  CASE restarts = 0 -> 0
    [] restarts = 1 -> 2
    [] restarts = 2 -> 6
    [] restarts = 3 -> 14
    [] OTHER -> 30

LEMMA Doublings ==
  ASSUME CodePower, NEW b \in 0 .. 4
  PROVE  /\ Seconds(b) = 2 ^ (b + 1) - 2
         /\ b < 4 => Delay(b + 1) = Seconds(b + 1) - Seconds(b)
         /\ Seconds(b) \in 0 .. HEALTHY
<1>. DEFINE n == b + 1
            power == 2 ^ n
<1>0. n = b + 1 /\ n \in 0 .. 5 /\ MAX_POWER = 5
  BY DEF CodePower
<1>. HIDE DEF n
<1>1. power = CASE n = 0 -> 1 [] n = 1 -> 2 [] n = 2 -> 4 [] n = 3 -> 8
                [] n = 4 -> 16 [] OTHER -> 32
  BY <1>0, Powers, Zenon
<1>2. Delay(n) = IF power < MAX_DELAY THEN power ELSE MAX_DELAY
  BY <1>0, Delays
<1>. HIDE DEF power
<1>3. Seconds(b) = power - 2 /\ Seconds(b) \in 0 .. HEALTHY
  BY <1>0, <1>1 DEF Seconds, CodePower
<1>4. b < 4 => Delay(n) = Seconds(n) - Seconds(b)
  BY <1>0, <1>1, <1>2 DEF Seconds, CodePower
<1>. QED
  BY <1>3, <1>4 DEF power, n

\* Exits counted and restarts counted.
Counting(exits, restarts) == restarts < MAX_POWER => exits = restarts

SlowInv ==
  /\ health > 0 => ready
  /\ ready => running
  /\ running => timer = OFF
  /\ ~running /\ timer = OFF => destroying
  /\ IF timer = OFF
     THEN running => Counting(restartCount, burst)
     ELSE Counting(restartCount, burst + 1) /\ restartCount > 0
  /\ burst <= 4 => looping >= Seconds(burst)
  /\ burst <= 3 /\ timer # OFF =>
       \/ looping + timer >= Seconds(burst + 1)
       \/ looping = HEALTHY

LEMMA StepSlow ==
  ASSUME CodePower, TypeOK, SlowInv, [Next]_vars
  PROVE  TypeOK' /\ SlowInv'
<1>. USE DEF TypeOK, SlowInv, OFF, Counting, history
<1>0. /\ MAX_POWER = 5 /\ HEALTHY \in Nat /\ HEALTHY >= 30
      /\ \A b \in 0 .. 4 : Seconds(b) \in 0 .. HEALTHY
      /\ Seconds(0) = 0
  BY Doublings DEF CodePower, Seconds
<1>1. CASE Ingest
  BY <1>1, <1>0 DEF Ingest
<1>2. CASE OnExited
  <2>1. CASE destroying
    <3>1. /\ running /\ running' = FALSE /\ ready' = FALSE /\ health' = 0
          /\ UNCHANGED <<restartCount, timer, destroying, gone, burst, looping>>
      BY <1>2, <2>1 DEF OnExited
    <3>2. running' \in BOOLEAN /\ ready' \in BOOLEAN
      BY <3>1, Zenon
    <3>3. TypeOK'
      BY <1>0, <3>1, <3>2
    <3>. QED
      BY <1>0, <2>1, <3>1, <3>3
  <2>2. CASE ~destroying
    <3>1. /\ restartCount' = IF restartCount < 5 THEN restartCount + 1 ELSE 5
          /\ timer' = Delay(restartCount')
          /\ running /\ running' = FALSE /\ ready' = FALSE /\ health' = 0
          /\ UNCHANGED <<destroying, gone, burst, looping>>
      BY <1>2, <2>2, <1>0 DEF OnExited
    <3>2. restartCount' \in 1 .. 5
      BY <1>0, <3>1
    <3>3. timer' \in 1 .. MAX_DELAY
      BY <1>0, <3>1, <3>2, DelayType
    <3>4. burst + 1 < 5 => restartCount' = burst + 1
      BY <1>0, <3>1
    <3>5. burst <= 3 => looping + timer' >= Seconds(burst + 1)
      BY <1>0, <3>1, <3>4, Doublings
    <3>6. running' \in BOOLEAN /\ ready' \in BOOLEAN
      BY <3>1, Zenon
    <3>7. TypeOK'
      BY <1>0, <3>1, <3>2, <3>3, <3>6
    <3>8. timer' # OFF /\ restartCount' > 0
      BY <3>2, <3>3
    <3>9. burst <= 4 => looping >= Seconds(burst)
      OBVIOUS
    <3>. QED
      BY <1>0, <3>1, <3>4, <3>5, <3>7, <3>8, <3>9
  <2>. QED
    BY <2>1, <2>2
<1>3. CASE RestartFires
  <2>1. /\ timer = 0 /\ timer' = OFF /\ running' = (running \/ ~destroying)
        /\ burst' = IF running' /\ ~running /\ burst < 6 THEN burst + 1 ELSE burst
        /\ UNCHANGED <<ready, restartCount, health, destroying, gone, looping>>
    BY <1>3, <1>0 DEF RestartFires
  <2>2. ~running
    BY <2>1
  <2>3. CASE destroying
    BY <1>0, <2>1, <2>2, <2>3
  <2>4. CASE ~destroying
    <3>1. running' = TRUE /\ burst' = IF burst < 6 THEN burst + 1 ELSE burst
      BY <2>1, <2>2, <2>4
    <3>2. burst <= 3 => looping >= Seconds(burst + 1)
      BY <1>0, <2>1
    <3>. QED
      BY <1>0, <2>1, <2>2, <3>1, <3>2
  <2>. QED
    BY <2>3, <2>4
<1>4. CASE HealthFires
  BY <1>4, <1>0 DEF HealthFires
<1>5. CASE Destroy
  BY <1>5, <1>0 DEF Destroy
<1>6. CASE Tick
  <2>1. /\ timer' = IF timer = OFF THEN OFF ELSE timer - 1
        /\ looping' = IF restartCount > 0 /\ looping < HEALTHY THEN looping + 1 ELSE looping
        /\ health' = IF ready THEN health + 1 ELSE 0
        /\ timer # 0 /\ health # HEALTHY
        /\ UNCHANGED <<running, ready, restartCount, destroying, gone, burst>>
    BY <1>6 DEF Tick
  <2>2. TypeOK'
    BY <1>0, <2>1
  <2>3. burst <= 4 => looping' >= Seconds(burst)
    BY <1>0, <2>1
  <2>4. burst <= 3 /\ timer' # OFF => looping' + timer' >= Seconds(burst + 1) \/ looping' = HEALTHY
    BY <1>0, <2>1
  <2>. QED
    BY <1>0, <2>1, <2>2, <2>3, <2>4
<1>7. CASE UNCHANGED vars
  BY <1>7 DEF vars
<1>. QED
  BY <1>1, <1>2, <1>3, <1>4, <1>5, <1>6, <1>7 DEF Next

\* With the delays of the code, a sampler that keeps failing is started at most
\* once more per doubling of the delay (onExited and the once-a-minute timer).
THEOREM CrashesSlow == ASSUME CodePower PROVE ShellSpec => []RestartsSlow
<1>1. ShellInit => TypeOK /\ SlowInv
  <2>. SUFFICES ASSUME ShellInit PROVE TypeOK /\ SlowInv
    OBVIOUS
  <2>. USE DEF OFF
  <2>1. TypeOK
    <3>1. Init /\ MAX_POWER \in Nat /\ HEALTHY \in Nat /\ MAX_DELAY \in Nat
      BY DEF ShellInit
    <3>2. /\ running \in BOOLEAN /\ ready \in BOOLEAN
          /\ destroying \in BOOLEAN /\ gone \in BOOLEAN
      BY <3>1, Zenon DEF Init
    <3>3. /\ restartCount = 0 /\ timer = OFF /\ health = 0 /\ burst = 0 /\ looping = 0
      BY <3>1, Zenon DEF Init
    <3>. QED
      BY <3>1, <3>2, <3>3 DEF TypeOK
  <2>2. Seconds(0) = 0
    BY DEF Seconds
  <2>3. /\ running /\ ~ready /\ restartCount = 0 /\ timer = OFF /\ health = 0
        /\ burst = 0 /\ looping = 0
    BY DEF ShellInit, Init
  <2>4. SlowInv
    BY <2>2, <2>3 DEF SlowInv, Counting
  <2>. QED
    BY <2>1, <2>4
<1>2. TypeOK /\ SlowInv /\ [ShellNext]_all => (TypeOK /\ SlowInv)'
  BY ShellSteps, StepSlow
<1>3. TypeOK /\ SlowInv => RestartsSlow
  <2>. SUFFICES ASSUME TypeOK, SlowInv, burst \in 1 .. MAX_POWER - 1
                PROVE  looping >= 2 ^ (burst + 1) - 2
    BY DEF RestartsSlow, CrashLoopSlows
  <2>1. burst \in 0 .. 4
    BY DEF CodePower
  <2>2. looping >= Seconds(burst) /\ looping \in Int
    BY <2>1 DEF SlowInv, TypeOK
  <2>3. Seconds(burst) = 2 ^ (burst + 1) - 2
    BY <2>1, Doublings
  <2>. QED
    BY <2>2, <2>3, Zenon
<1>. QED
  BY <1>1, <1>2, <1>3, PTL DEF ShellSpec

-----------------------------------------------------------------------------
(* The graphs of the drives.  The newest samples of a series are kept when   *)
(* one is added, and as many of them as of all drives.                       *)

\* How many of the samples there are pushHistory keeps.
KeptOf(count, length) ==
  LET keep == IF length - 1 > 1 THEN length - 1 ELSE 1
  IN  IF count > keep THEN keep ELSE count

LEMMA PushKeeps ==
  ASSUME NEW T, NEW s \in Seq(T), NEW x \in T, NEW length \in Nat,
         NEW p, p = D!Push(s, x, length)
  PROVE  /\ p \in Seq(T)
         /\ Len(p) = KeptOf(Len(s), length) + 1
         /\ D!Newest(p, 1) = x
         /\ \A k \in 2 .. Len(p) : D!Newest(p, k) = D!Newest(s, k - 1)
         /\ \A i \in 1 .. Len(p) : p[i] = x \/ \E j \in 1 .. Len(s) : p[i] = s[j]
<1>. DEFINE keep == IF length - 1 > 1 THEN length - 1 ELSE 1
            from == IF Len(s) > keep THEN Len(s) - keep + 1 ELSE 1
            tail == SubSeq(s, from, Len(s))
<1>1. p = Append(tail, x)
  BY DEF D!Push
<1>2. Len(s) \in Nat /\ \A i \in 1 .. Len(s) : s[i] \in T
  OBVIOUS
<1>3. keep \in Nat /\ keep >= 1 /\ KeptOf(Len(s), length) = IF Len(s) > keep THEN keep ELSE Len(s)
  BY DEF KeptOf
<1>. HIDE DEF keep
<1>4. from \in Int /\ from >= 1 /\ Len(s) - from + 1 = KeptOf(Len(s), length)
  BY <1>2, <1>3
<1>5. KeptOf(Len(s), length) \in 0 .. Len(s)
  BY <1>2, <1>3
<1>. HIDE DEF from
<1>6. \A i \in from .. Len(s) : s[i] \in T
  BY <1>2, <1>4
<1>7. /\ tail \in Seq(T) /\ Len(tail) = KeptOf(Len(s), length)
      /\ \A i \in 1 .. Len(tail) : tail[i] = s[from + i - 1]
  <2>1. /\ tail \in Seq(T)
        /\ Len(tail) = IF from <= Len(s) THEN Len(s) - from + 1 ELSE 0
        /\ \A i \in 1 .. Len(s) - from + 1 : tail[i] = s[from + i - 1]
    BY <1>2, <1>4, <1>6, SubSeqProperties
  <2>. HIDE DEF tail
  <2>. QED
    BY <1>2, <1>4, <1>5, <2>1
<1>. HIDE DEF tail
<1>8. /\ p \in Seq(T) /\ Len(p) = Len(tail) + 1
      /\ \A i \in 1 .. Len(tail) : p[i] = tail[i]
      /\ p[Len(tail) + 1] = x
  BY <1>1, <1>7, AppendProperties
<1>9. D!Newest(p, 1) = x
  BY <1>7, <1>8 DEF D!Newest
<1>10. ASSUME NEW k \in 2 .. Len(p)
       PROVE  D!Newest(p, k) = D!Newest(s, k - 1)
  <2>. DEFINE i == Len(p) + 1 - k
  <2>1. i \in 1 .. Len(tail) /\ from + i - 1 = Len(s) + 1 - (k - 1)
    BY <1>2, <1>4, <1>5, <1>7, <1>8
  <2>2. p[i] = s[from + i - 1]
    BY <1>7, <1>8, <2>1
  <2>3. p[i] = s[Len(s) + 1 - (k - 1)]
    BY <2>1, <2>2
  <2>. QED
    BY <2>3 DEF D!Newest
<1>11. ASSUME NEW i \in 1 .. Len(p)
       PROVE  p[i] = x \/ \E j \in 1 .. Len(s) : p[i] = s[j]
  <2>1. CASE i = Len(p)
    BY <1>8, <2>1
  <2>2. CASE i # Len(p)
    <3>1. i \in 1 .. Len(tail) /\ from + i - 1 \in 1 .. Len(s)
      BY <1>2, <1>4, <1>5, <1>7, <1>8, <2>2
    <3>2. p[i] = s[from + i - 1]
      BY <1>7, <1>8, <3>1
    <3>. QED
      BY <3>1, <3>2
  <2>. QED
    BY <2>1, <2>2
<1>. QED
  BY <1>7, <1>8, <1>9, <1>10, <1>11

\* A machine's drives, or the drives of a line, by name.
SomeDrives == UNION {[some -> Drives] : some \in SUBSET Names}

Alone(n, drive) ==
  /\ \A i \in 1 .. Len(series[n]) : series[n][i] = drive
  /\ snapshot[n] \in {<<n>>} \cup D!Identities(drive)

Aligned(n) ==
  /\ Len(series[n]) <= Len(overall)
  /\ \A k \in 1 .. Len(series[n]) :
       /\ n \in DOMAIN D!Newest(overall, k)
       /\ D!Newest(series[n], k) = D!Newest(overall, k)[n]

World ==
  /\ plugged \in SomeDrives
  /\ links \in [Names -> SUBSET Ranks]
  /\ \A n \in Names \ DOMAIN plugged : links[n] = {}

\* What the sampler remembers is of the last reading: the names, and the
\* identities of all drives that have not changed behind their names since.
Sampler ==
  /\ was \in SomeDrives /\ prev \subseteq Names /\ swapped \subseteq Names
  /\ prev = {} \/ prev = DOMAIN was
  /\ DOMAIN ids \subseteq prev
  /\ \A n \in DOMAIN ids : \E d \in Drives : ids[n] \in D!Identities(d)
  /\ \A n \in DOMAIN ids \ swapped : ids[n] \in D!Identities(was[n])

Graphs ==
  /\ overall \in Seq(SomeDrives)
  /\ DOMAIN snapshot = DOMAIN series /\ DOMAIN series \subseteq Names
  /\ \A n \in DOMAIN series : series[n] \in Seq(Drives) /\ Aligned(n)
  /\ \A n \in DOMAIN series \ swapped : n \in DOMAIN was /\ Alone(n, was[n])

GraphInv == World /\ Sampler /\ Graphs

LEMMA SomeDrivesType ==
  ASSUME NEW f
  PROVE  f \in SomeDrives <=> /\ f \in [DOMAIN f -> Drives]
                              /\ DOMAIN f \subseteq Names
<1>1. ASSUME f \in SomeDrives
      PROVE  f \in [DOMAIN f -> Drives] /\ DOMAIN f \subseteq Names
  <2>1. PICK some \in SUBSET Names : f \in [some -> Drives]
    BY <1>1 DEF SomeDrives
  <2>2. DOMAIN f = some
    BY <2>1
  <2>. QED
    BY <2>1, <2>2
<1>2. ASSUME f \in [DOMAIN f -> Drives], DOMAIN f \subseteq Names
      PROVE  f \in SomeDrives
  BY <1>2 DEF SomeDrives
<1>. QED
  BY <1>1, <1>2

LEMMA NoDrives == D!None \in SomeDrives /\ DOMAIN D!None = {}
<1>1. DOMAIN D!None = {} /\ D!None \in [{} -> Drives]
  BY DEF D!None
<1>. QED
  BY <1>1, SomeDrivesType

LEMMA SomeLeast ==
  ASSUME NEW numbers, numbers \subseteq Nat, numbers # {}
  PROVE  \E x \in numbers : \A y \in numbers : x <= y
<1>1. PICK x \in numbers : \A y \in numbers : ~(<<y, x>> \in OpToRel(<, Nat))
  BY NatLessThanWellFounded, WFMin
<1>2. ASSUME NEW y \in numbers PROVE x <= y
  <2>1. <<y, x>> \in Nat \X Nat /\ <<y, x>>[1] = y /\ <<y, x>>[2] = x
    OBVIOUS
  <2>2. ~(<<y, x>>[1] < <<y, x>>[2])
    BY <1>1, <2>1, Zenon DEF OpToRel
  <2>3. ~(y < x)
    BY <2>1, <2>2
  <2>. QED
    BY <2>3
<1>. QED
  BY <1>2

\* scan_disk_ids finds identities of the drives that are there.
LEMMA ScanFinds ==
  ASSUME World, NEW n \in DOMAIN D!ScanIds
  PROVE  n \in DOMAIN plugged /\ D!ScanIds[n] \in D!Identities(plugged[n])
<1>. DEFINE best == CHOOSE r \in links[n] : \A q \in links[n] : r <= q
<1>1. n \in DOMAIN plugged /\ links[n] # {} /\ D!ScanIds[n] = <<plugged[n], best>>
  BY DEF D!ScanIds, D!Attached
<1>2. n \in Names
  BY <1>1, SomeDrivesType DEF World
<1>3. links[n] \subseteq Ranks
  BY <1>2 DEF World
<1>4. \E r \in links[n] : \A q \in links[n] : r <= q
  BY <1>1, <1>3, SomeLeast
<1>5. best \in Ranks
  BY <1>3, <1>4
<1>. QED
  BY <1>1, <1>5 DEF D!Identities

LEMMA SampleSampler ==
  ASSUME World, Sampler, D!Sample
  PROVE  /\ Sampler'
         /\ \A n \in DOMAIN ids' \ swapped' : ids'[n] \in D!Identities(plugged[n])
<1>1. /\ ids' = IF DOMAIN plugged # prev THEN D!ScanIds ELSE ids
      /\ prev' = DOMAIN plugged /\ was' = plugged
      /\ swapped' = {n \in DOMAIN plugged : n \in swapped \/ (n \in DOMAIN was /\ was[n] # plugged[n])}
  BY DEF D!Sample, D!Ids, D!Attached
<1>2. plugged \in [DOMAIN plugged -> Drives] /\ DOMAIN plugged \subseteq Names
  BY SomeDrivesType DEF World
<1>3. was' \in SomeDrives /\ prev' \subseteq Names /\ swapped' \subseteq Names
  BY <1>1, <1>2 DEF World
<1>4. CASE DOMAIN plugged # prev
  <2>1. ids' = D!ScanIds
    BY <1>1, <1>4
  <2>2. \A n \in DOMAIN ids' : n \in DOMAIN plugged /\ ids'[n] \in D!Identities(plugged[n])
    BY <2>1, ScanFinds
  <2>3. \A n \in DOMAIN ids' : plugged[n] \in Drives
    BY <1>2, <2>2
  <2>. QED
    BY <1>1, <1>3, <2>2, <2>3 DEF Sampler
<1>5. CASE DOMAIN plugged = prev
  <2>1. ids' = ids
    BY <1>1, <1>5
  <2>2. ASSUME NEW n \in DOMAIN ids' \ swapped'
        PROVE  ids'[n] \in D!Identities(plugged[n])
    <3>1. n \in DOMAIN ids /\ n \in DOMAIN plugged /\ n \in DOMAIN was
      BY <1>5, <2>1 DEF Sampler
    <3>2. n \notin swapped /\ was[n] = plugged[n]
      BY <1>1, <3>1
    <3>. QED
      BY <2>1, <3>1, <3>2 DEF Sampler
  <2>3. \A n \in DOMAIN ids' : \E d \in Drives : ids'[n] \in D!Identities(d)
    BY <2>1 DEF Sampler
  <2>4. DOMAIN ids' \subseteq prev'
    BY <1>1, <1>5, <2>1 DEF Sampler
  <2>. QED
    BY <1>1, <1>3, <2>2, <2>3, <2>4 DEF Sampler
<1>. QED
  BY <1>4, <1>5

\* A line reaches the graphs.
LEMMA SampleGraphs ==
  ASSUME GraphInv, D!Sample
  PROVE  Graphs'
<1>1. PICK line \in D!Lines, length \in Lengths : D!Ingest(line, length)
  BY DEF D!Sample
<1>2. /\ line \in SomeDrives /\ length \in Nat
      /\ line = plugged \/ DOMAIN line = {}
  BY NoDrives DEF D!Lines, GraphInv, World
<1>3. line \in [DOMAIN line -> Drives] /\ DOMAIN line \subseteq Names
  BY <1>2, SomeDrivesType
<1>4. /\ overall' = D!Push(overall, line, length)
      /\ series' = [n \in DOMAIN line |-> D!Push(D!SeriesOf(n), line[n], length)]
      /\ snapshot' = [n \in DOMAIN line |-> D!Identity(n)]
  BY <1>1 DEF D!Ingest
<1>5. overall \in Seq(SomeDrives)
  BY DEF GraphInv, Graphs
<1>6. /\ overall' \in Seq(SomeDrives)
      /\ Len(overall') = KeptOf(Len(overall), length) + 1
      /\ D!Newest(overall', 1) = line
      /\ \A k \in 2 .. Len(overall') : D!Newest(overall', k) = D!Newest(overall, k - 1)
  BY <1>2, <1>4, <1>5, PushKeeps
<1>7. ASSUME NEW n \in DOMAIN line
      PROVE  /\ series'[n] \in Seq(Drives)
             /\ Aligned(n)'
             /\ n \notin swapped' => n \in DOMAIN was' /\ Alone(n, was[n])'
  <2>1. /\ D!SeriesOf(n) = IF n \in DOMAIN series THEN series[n] ELSE <<>>
        /\ D!SeriesOf(n) \in Seq(Drives)
    BY DEF D!SeriesOf, GraphInv, Graphs
  <2>2. n \in DOMAIN series => Aligned(n)
    BY DEF GraphInv, Graphs
  <2>. PICK after : after = series'[n]
    OBVIOUS
  <2>3. PICK before \in Seq(Drives), drive \in Drives :
           before = D!SeriesOf(n) /\ drive = line[n]
    BY <1>3, <2>1
  <2>4. after = D!Push(before, drive, length)
    BY <1>4, <2>3
  <2>5. n \notin DOMAIN series => Len(before) = 0
    BY <2>1, <2>3
  <2>6. /\ after \in Seq(Drives)
        /\ Len(after) = KeptOf(Len(before), length) + 1
        /\ D!Newest(after, 1) = drive
        /\ \A k \in 2 .. Len(after) : D!Newest(after, k) = D!Newest(before, k - 1)
        /\ \A i \in 1 .. Len(after) : after[i] = drive \/ \E j \in 1 .. Len(before) : after[i] = before[j]
    BY <1>2, <2>4, PushKeeps
  <2>7. Len(before) \in Nat /\ Len(overall) \in Nat /\ Len(before) <= Len(overall)
    BY <1>5, <2>1, <2>2, <2>3, <2>5 DEF Aligned
  <2>8. /\ KeptOf(Len(before), length) <= KeptOf(Len(overall), length)
        /\ KeptOf(Len(before), length) \in 0 .. Len(before)
        /\ KeptOf(Len(overall), length) \in Nat
    BY <1>2, <2>7 DEF KeptOf
  <2>9. Len(after) <= Len(overall')
    BY <1>6, <2>6, <2>8
  <2>10. ASSUME NEW k \in 1 .. Len(after)
         PROVE  /\ n \in DOMAIN D!Newest(overall', k)
                /\ D!Newest(after, k) = D!Newest(overall', k)[n]
    <3>1. CASE k = 1
      BY <1>6, <2>3, <2>6, <3>1
    <3>2. CASE k # 1
      <4>1. /\ k \in 2 .. Len(after) /\ k \in 2 .. Len(overall')
            /\ k - 1 \in 1 .. Len(before)
        BY <1>6, <2>6, <2>8, <2>9, <3>2
      <4>2. n \in DOMAIN series /\ before = series[n]
        BY <2>1, <2>3, <2>5, <2>7, <4>1
      <4>3. /\ n \in DOMAIN D!Newest(overall, k - 1)
            /\ D!Newest(before, k - 1) = D!Newest(overall, k - 1)[n]
        BY <2>2, <4>1, <4>2 DEF Aligned
      <4>4. /\ D!Newest(after, k) = D!Newest(before, k - 1)
            /\ D!Newest(overall', k) = D!Newest(overall, k - 1)
        BY <1>6, <2>6, <4>1
      <4>. QED
        BY <4>3, <4>4, Zenon
    <3>. QED
      BY <3>1, <3>2
  <2>11. Aligned(n)'
    BY <2>3, <2>9, <2>10 DEF Aligned
  <2>12. ASSUME n \notin swapped'
         PROVE  n \in DOMAIN was' /\ Alone(n, was[n])'
    <3>1. /\ line = plugged /\ was' = plugged /\ n \in DOMAIN plugged
          /\ n \notin swapped /\ (n \in DOMAIN was => was[n] = plugged[n])
      BY <1>2, <2>12 DEF D!Sample, D!Attached
    <3>2. \A j \in 1 .. Len(before) : before[j] = plugged[n]
      <4>1. CASE n \in DOMAIN series
        BY <2>1, <2>3, <3>1, <4>1 DEF GraphInv, Graphs, Alone
      <4>2. CASE n \notin DOMAIN series
        BY <2>5, <4>2
      <4>. QED
        BY <4>1, <4>2
    <3>3. \A i \in 1 .. Len(after) : after[i] = plugged[n]
      BY <2>3, <2>6, <3>1, <3>2
    <3>4. snapshot'[n] \in {<<n>>} \cup D!Identities(plugged[n])
      <4>1. snapshot'[n] = IF n \in DOMAIN ids' THEN ids'[n] ELSE <<n>>
        BY <1>4 DEF D!Identity
      <4>2. n \in DOMAIN ids' => ids'[n] \in D!Identities(plugged[n])
        BY <2>12, SampleSampler DEF GraphInv
      <4>. QED
        BY <4>1, <4>2
    <3>. QED
      BY <2>3, <3>1, <3>3, <3>4 DEF Alone
  <2>. QED
    BY <2>3, <2>6, <2>11, <2>12
<1>8. DOMAIN series' = DOMAIN line /\ DOMAIN snapshot' = DOMAIN line
  BY <1>4
<1>. QED
  BY <1>3, <1>6, <1>7, <1>8 DEF Graphs

LEMMA StepGraphs ==
  ASSUME GraphInv, [D!Next]_drivesVars
  PROVE  GraphInv'
<1>. USE DEF GraphInv, D!world, D!sampler, D!service, D!Attached
<1>1. plugged \in [DOMAIN plugged -> Drives] /\ DOMAIN plugged \subseteq Names
  BY SomeDrivesType DEF World
<1>2. ASSUME NEW n \in Names, NEW d \in Drives, D!Plug(n, d)
      PROVE  GraphInv'
  <2>1. /\ plugged' = [m \in DOMAIN plugged \cup {n} |-> IF m = n THEN d ELSE plugged[m]]
        /\ UNCHANGED <<links, prev, ids, snapshot, series, overall, was, swapped>>
    BY <1>2 DEF D!Plug
  <2>2. DOMAIN plugged' = DOMAIN plugged \cup {n} /\ plugged' \in [DOMAIN plugged' -> Drives]
    BY <1>1, <2>1
  <2>3. plugged' \in SomeDrives
    BY <1>1, <2>2, SomeDrivesType
  <2>. QED
    BY <2>1, <2>2, <2>3 DEF World, Sampler, Graphs, Aligned, Alone
<1>3. ASSUME NEW n \in Names, D!Unplug(n)
      PROVE  GraphInv'
  <2>1. /\ plugged' = [m \in DOMAIN plugged \ {n} |-> plugged[m]]
        /\ links' = [links EXCEPT ![n] = {}]
        /\ UNCHANGED <<prev, ids, snapshot, series, overall, was, swapped>>
    BY <1>3 DEF D!Unplug
  <2>2. DOMAIN plugged' = DOMAIN plugged \ {n} /\ plugged' \in [DOMAIN plugged' -> Drives]
    BY <1>1, <2>1
  <2>3. plugged' \in SomeDrives
    BY <1>1, <2>2, SomeDrivesType
  <2>4. World'
    BY <2>1, <2>2, <2>3 DEF World
  <2>. QED
    BY <2>1, <2>4 DEF Sampler, Graphs, Aligned, Alone
<1>4. ASSUME NEW n \in Names, NEW r \in Ranks, D!Link(n, r)
      PROVE  GraphInv'
  <2>1. /\ links' = [links EXCEPT ![n] = @ \cup {r}] /\ n \in DOMAIN plugged
        /\ UNCHANGED <<plugged, prev, ids, snapshot, series, overall, was, swapped>>
    BY <1>4 DEF D!Link
  <2>2. World'
    BY <2>1 DEF World
  <2>. QED
    BY <2>1, <2>2 DEF Sampler, Graphs, Aligned, Alone
<1>5. CASE D!Sample
  <2>1. World'
    BY <1>5 DEF D!Sample, World
  <2>. QED
    BY <1>5, <2>1, SampleSampler, SampleGraphs
<1>6. CASE D!Restart
  <2>1. /\ prev' = {} /\ ids' = D!None
        /\ UNCHANGED <<plugged, links, snapshot, series, overall, was, swapped>>
    BY <1>6 DEF D!Restart
  <2>. QED
    BY <2>1, NoDrives DEF World, Sampler, Graphs, Aligned, Alone
<1>7. CASE UNCHANGED drivesVars
  BY <1>7 DEF drivesVars, World, Sampler, Graphs, Aligned, Alone
<1>. QED
  BY <1>2, <1>3, <1>4, <1>5, <1>6, <1>7 DEF D!Next

\* The newest samples of a drive's graph and of all drives' are of the same
\* lines, and the graph shown for a drive is of that drive alone, however drives
\* are plugged in and out, samplers restarted and lines left without sections
\* (ingest and pushHistory of OmaStatsService.qml, sample of disks.rs).
THEOREM GraphsAlike == ShellSpec => []GraphsTrue
<1>1. ShellInit => GraphInv
  <2>. SUFFICES ASSUME ShellInit PROVE GraphInv
    OBVIOUS
  <2>1. D!Init
    BY DEF ShellInit
  <2>2. /\ plugged = D!None /\ links = [n \in Names |-> {}] /\ prev = {} /\ ids = D!None
        /\ snapshot = D!None /\ series = D!None /\ overall = <<>>
        /\ was = D!None /\ swapped = {}
    BY <2>1 DEF D!Init
  <2>. QED
    BY <2>2, NoDrives DEF GraphInv, World, Sampler, Graphs
<1>2. GraphInv /\ [ShellNext]_all => GraphInv'
  BY ShellSteps, StepGraphs
<1>3. GraphInv => GraphsTrue
  <2>. SUFFICES ASSUME GraphInv PROVE GraphsTrue
    OBVIOUS
  <2>. USE DEF GraphInv
  <2>1. /\ plugged \in [DOMAIN plugged -> Drives] /\ DOMAIN plugged \subseteq Names
        /\ was \in [DOMAIN was -> Drives] /\ DOMAIN was \subseteq Names
    BY SomeDrivesType DEF World, Sampler
  <2>2. D!TypeOK
    BY <2>1 DEF World, Sampler, Graphs, D!TypeOK, D!Attached
  <2>3. ASSUME NEW n \in DOMAIN series, NEW k \in 1 .. Len(series[n]), n \notin swapped
        PROVE  snapshot[n] \in {<<n>>} \cup D!Identities(D!Newest(series[n], k))
    <3>1. series[n] \in Seq(Drives) /\ Alone(n, was[n])
      BY <2>3 DEF Graphs
    <3>2. Len(series[n]) + 1 - k \in 1 .. Len(series[n])
      BY <3>1
    <3>3. D!Newest(series[n], k) = was[n]
      BY <3>1, <3>2 DEF Alone, D!Newest
    <3>. QED
      BY <3>1, <3>3 DEF Alone
  <2>4. D!GraphsTrue
    BY <2>3 DEF Graphs, Aligned, D!GraphsTrue
  <2>. QED
    BY <2>2, <2>4 DEF GraphsTrue
<1>. QED
  BY <1>1, <1>2, <1>3, PTL DEF ShellSpec
-----------------------------------------------------------------------------
(* The sensors.  A chip has one number, and a scan keeps one copy of a board *)
(* and every other chip; so what tells chips of a name apart is the device.  *)

\* Chips of a name that are no copies of a board sit on devices of their own.
Distinguished ==
  /\ IsFiniteSet(Chips)
  /\ \A c \in Chips : c.labels \in Nat
  /\ \A c, d \in Chips : c # d /\ c.name = d.name => c.name \in Boards \/ c.device # d.device

\* No two sensors of a line have the same id; and an id that says the device is
\* that of the chip it was chosen for, in whatever line it is looked up.
SensorsNamed ==
  /\ \A s, t \in sensors : s.id = t.id => s = t
  /\ \A s \in N!Named(picked), c \in chosen :
       picked = <<c.name, c.device>> => s.chip = c

Numbered ==
  /\ DOMAIN hwmon \subseteq Nat
  /\ \A n \in DOMAIN hwmon : hwmon[n] \in Chips
  /\ \A n, m \in DOMAIN hwmon : hwmon[n] = hwmon[m] => n = m

Scanned ==
  \A e, o \in chips :
    /\ e = [number |-> e.number, chip |-> e.chip] /\ e.number \in Nat /\ e.chip \in Chips
    /\ e.number = o.number \/ e.chip = o.chip => e = o
    /\ e.chip.name = o.chip.name /\ e.chip.name \in Boards => e = o

\* The id of a sensor tells its chip, where it says the device.
Told(s) ==
  /\ s.chip \in Chips
  /\ \/ s.id = <<s.chip.name>>
     \/ s.id = <<s.chip.name, s.chip.device>> /\ s.chip.name \notin Boards

Lined ==
  /\ \A s, t \in sensors : s.id = t.id => s = t
  /\ \A s \in sensors : Told(s)
  /\ chosen \subseteq Chips

SensorInv == Numbered /\ Scanned /\ Lined

LEMMA InitNumbered == ASSUME Distinguished, N!Init PROVE Numbered
<1>1. PICK there \in SUBSET Chips :
        hwmon \in {f \in [0 .. N!Cardinality(there) - 1 -> there] :
                     \A c \in there : \E n \in DOMAIN f : f[n] = c}
  BY DEF N!Init
<1>. DEFINE numbers == 0 .. Cardinality(there) - 1
<1>2. N!Cardinality(there) = Cardinality(there)
  BY DEF N!Cardinality, Cardinality
<1>3. IsFiniteSet(there) /\ Cardinality(there) \in Nat
  BY FS_Subset, FS_CardinalityType DEF Distinguished
<1>4. IsFiniteSet(numbers) /\ Cardinality(numbers) = Cardinality(there)
  <2>1. PICK last \in Int : last = Cardinality(there) - 1 /\ last >= -1
    BY <1>3
  <2>2. /\ IsFiniteSet(0 .. last)
        /\ Cardinality(0 .. last) = IF 0 > last THEN 0 ELSE last - 0 + 1
    BY FS_Interval
  <2>3. Cardinality(0 .. last) = last + 1
    BY <2>1, <2>2
  <2>. QED
    BY <1>3, <2>1, <2>2, <2>3
<1>5. hwmon \in Surjection(numbers, there)
  BY <1>1, <1>2 DEF Surjection
<1>6. hwmon \in Injection(numbers, there)
  BY <1>4, <1>5, FS_Surjection
<1>. QED
  BY <1>3, <1>6 DEF Numbered, Injection, IsInjective

\* A scan keeps a chip once.
LEMMA ScanKeeps == ASSUME Distinguished, Numbered, chips' = N!Scan PROVE Scanned'
<1>. DEFINE found == {[number |-> n, chip |-> hwmon[n]] : n \in DOMAIN hwmon}
<1>1. chips' = {e \in found : N!Kept(e, found)}
  BY DEF N!Scan, N!Attached
<1>2. \A e \in found : /\ e = [number |-> e.number, chip |-> e.chip]
                       /\ e.number \in DOMAIN hwmon /\ e.chip = hwmon[e.number]
  OBVIOUS
<1>. HIDE DEF found
<1>. SUFFICES ASSUME NEW e \in chips', NEW o \in chips'
              PROVE  /\ e = [number |-> e.number, chip |-> e.chip]
                     /\ e.number \in Nat /\ e.chip \in Chips
                     /\ e.number = o.number \/ e.chip = o.chip => e = o
                     /\ e.chip.name = o.chip.name /\ e.chip.name \in Boards => e = o
  BY DEF Scanned
<1>3. e \in found /\ o \in found /\ N!Kept(e, found) /\ N!Kept(o, found)
  BY <1>1
<1>4. /\ e = [number |-> e.number, chip |-> e.chip] /\ o = [number |-> o.number, chip |-> o.chip]
      /\ e.number \in Nat /\ o.number \in Nat /\ e.chip \in Chips /\ o.chip \in Chips
      /\ e.number = o.number <=> e.chip = o.chip
  BY <1>2, <1>3 DEF Numbered
<1>5. e.number = o.number => e = o
  BY <1>4
<1>6. ASSUME e.chip.name = o.chip.name, e.chip.name \in Boards PROVE e = o
  <2>1. \/ e.chip.labels > o.chip.labels
        \/ e.chip.labels = o.chip.labels /\ e.number <= o.number
    BY <1>3, <1>6 DEF N!Kept
  <2>2. \/ o.chip.labels > e.chip.labels
        \/ o.chip.labels = e.chip.labels /\ o.number <= e.number
    BY <1>3, <1>6 DEF N!Kept
  <2>3. e.chip.labels \in Nat /\ o.chip.labels \in Nat
    BY <1>4 DEF Distinguished
  <2>. QED
    BY <1>4, <1>5, <2>1, <2>2, <2>3
<1>. QED
  BY <1>4, <1>5, <1>6

\* The ids of a scan's chips differ, and tell the chip where they say the device.
LEMMA IdsDiffer ==
  ASSUME Distinguished, Scanned', NEW e \in chips', NEW o \in chips'
  PROVE  /\ N!SensorId(e) = N!SensorId(o) => e = o
         /\ \/ N!SensorId(e) = <<e.chip.name>>
            \/ N!SensorId(e) = <<e.chip.name, e.chip.device>> /\ e.chip.name \notin Boards
<1>1. ASSUME NEW f \in chips'
      PROVE  \/ /\ N!SensorId(f) = <<f.chip.name>>
                /\ ~N!Shared(f) \/ f.chip.device = NoDevice
             \/ N!SensorId(f) = <<f.chip.name, f.chip.device>> /\ N!Shared(f)
  BY DEF N!SensorId
<1>2. N!Shared(e) => e.chip.name \notin Boards
  BY DEF N!Shared, Scanned
<1>3. ASSUME N!SensorId(e) = N!SensorId(o), e # o PROVE FALSE
  <2>1. e.chip.name = o.chip.name
    BY <1>1, <1>3
  <2>2. N!Shared(e) /\ N!Shared(o)
    BY <1>3, <2>1 DEF N!Shared
  <2>3. e.chip.device = o.chip.device
    BY <1>1, <1>3, <2>2
  <2>4. e.chip # o.chip /\ e.chip \in Chips /\ o.chip \in Chips
    BY <1>3 DEF Scanned
  <2>. QED
    BY <1>2, <2>1, <2>2, <2>3, <2>4 DEF Distinguished
<1>. QED
  BY <1>1, <1>2, <1>3

LEMMA StepSensors ==
  ASSUME Distinguished, SensorInv, [N!Next]_sensorsVars
  PROVE  SensorInv'
<1>. USE DEF SensorInv, N!world, N!sampler
<1>1. ASSUME NEW c \in Chips, N!Plug(c) PROVE SensorInv'
  <2>1. PICK n : /\ n \in 0 .. N!Cardinality(N!Attached) /\ n \notin DOMAIN hwmon
                 /\ hwmon' = [m \in DOMAIN hwmon \cup {n} |-> IF m = n THEN c ELSE hwmon[m]]
    BY <1>1 DEF N!Plug, N!Attached
  <2>2. n \in Nat /\ c \notin {hwmon[m] : m \in DOMAIN hwmon}
    BY <1>1, <2>1 DEF N!Plug, N!Present, N!Attached
  <2>3. Numbered'
    BY <2>1, <2>2 DEF Numbered
  <2>. QED
    BY <1>1, <2>3 DEF N!Plug, Scanned, Lined, Told
<1>2. ASSUME NEW n, N!Unplug(n) PROVE SensorInv'
  BY <1>2 DEF N!Unplug, N!Attached, Numbered, Scanned, Lined, Told
<1>3. CASE N!Tick
  BY <1>3 DEF N!Tick, Numbered, Scanned, Lined, Told
<1>4. CASE N!Sample
  <2>1. Scanned'
    <3>1. CASE chips' = N!Scan
      BY <3>1, ScanKeeps
    <3>2. CASE chips' = chips
      BY <3>2 DEF Scanned
    <3>. QED
      BY <1>4, <3>1, <3>2 DEF N!Sample
  <2>2. PICK heard \in SUBSET DOMAIN hwmon :
          sensors' = {[id |-> N!SensorId(e), number |-> e.number, chip |-> e.chip,
                       of |-> hwmon[e.number]] : e \in {s \in chips' : s.number \in heard}}
    BY <1>4 DEF N!Sample, N!Attached
  <2>3. ASSUME NEW s \in sensors'
        PROVE  \E e \in chips' :
                 s = [id |-> N!SensorId(e), number |-> e.number, chip |-> e.chip,
                      of |-> hwmon[e.number]]
    BY <2>2
  <2>4. ASSUME NEW s \in sensors', NEW t \in sensors', s.id = t.id PROVE s = t
    <3>1. PICK e \in chips' :
            s = [id |-> N!SensorId(e), number |-> e.number, chip |-> e.chip,
                 of |-> hwmon[e.number]]
      BY <2>3
    <3>2. PICK o \in chips' :
            t = [id |-> N!SensorId(o), number |-> o.number, chip |-> o.chip,
                 of |-> hwmon[o.number]]
      BY <2>3
    <3>3. e = o
      BY <2>1, <2>4, <3>1, <3>2, IdsDiffer
    <3>. QED
      BY <3>1, <3>2, <3>3
  <2>5. ASSUME NEW s \in sensors' PROVE Told(s)
    <3>1. PICK e \in chips' :
            s = [id |-> N!SensorId(e), number |-> e.number, chip |-> e.chip,
                 of |-> hwmon[e.number]]
      BY <2>3
    <3>2. e.chip \in Chips
      BY <2>1 DEF Scanned
    <3>. QED
      BY <2>1, <3>1, <3>2, IdsDiffer DEF Told
  <2>6. UNCHANGED <<hwmon, chosen>>
    BY <1>4 DEF N!Sample
  <2>7. Lined'
    BY <2>4, <2>5, <2>6 DEF Lined, Told
  <2>. QED
    BY <2>1, <2>6, <2>7 DEF Numbered
<1>5. ASSUME NEW s \in sensors, N!Choose(s) PROVE SensorInv'
  BY <1>5 DEF N!Choose, Numbered, Scanned, Lined, Told
<1>6. CASE N!Adopt
  BY <1>6 DEF N!Adopt, Numbered, Scanned, Lined, Told
<1>7. CASE UNCHANGED sensorsVars
  BY <1>7 DEF sensorsVars, Numbered, Scanned, Lined, Told
<1>. QED
  BY <1>1, <1>2, <1>3, <1>4, <1>5, <1>6, <1>7 DEF N!Next

\* Whatever chips come and go and however old the scan, the ids of a line are
\* those of different chips, and a readout that has saved a device shows the
\* chip of that device or none (scan and sensor_id of sensors.rs).
THEOREM SensorsApart == ASSUME Distinguished PROVE ShellSpec => []SensorsNamed
<1>1. ShellInit => SensorInv
  <2>1. N!Init => Scanned /\ Lined
    BY DEF N!Init, Scanned, Lined
  <2>. QED
    BY <2>1, InitNumbered DEF ShellInit, SensorInv
<1>2. SensorInv /\ [ShellNext]_all => SensorInv'
  <2>1. [ShellNext]_all => [N!Next]_sensorsVars
    BY DEF ShellNext, all, OnlySampler, OnlyDrives, OnlySensors, OnlySettings
  <2>. QED
    BY <2>1, StepSensors
<1>3. SensorInv => SensorsNamed
  <2>. SUFFICES ASSUME SensorInv, NEW s \in sensors, NEW c \in chosen,
                       s.id = <<c.name, c.device>>
                PROVE  s.chip = c
    BY DEF SensorInv, Lined, SensorsNamed, N!Named
  <2>1. Told(s) /\ c \in Chips
    BY DEF SensorInv, Lined
  <2>2. s.chip.name = c.name /\ s.chip.device = c.device /\ s.chip.name \notin Boards
    BY <2>1 DEF Told
  <2>. QED
    BY <2>1, <2>2 DEF Told, Distinguished
<1>. QED
  BY <1>1, <1>2, <1>3, PTL DEF ShellSpec
-----------------------------------------------------------------------------
(* The settings.  A widget shows the file as last loaded, with its own       *)
(* changes over it.                                                          *)

Shows(w) == saved # S!NoEntry => settings[w] = S!WithPending(w)

\* Whatever has undone that, a file that was loaded or the shell, a call of
\* restoreSavedSettings is due to put it right.
EditsShown == \A w \in Widgets : Shows(w) \/ w \in restoring

\* Entries, and parts of them.
Parts   == UNION {[some -> Values] : some \in SUBSET Keys}
Pending == [value : Values, age : Nat]

SettingsInv ==
  /\ settings \in [Widgets -> S!Entries]
  /\ DOMAIN pending = Widgets
  /\ \A w \in Widgets :
       /\ DOMAIN pending[w] \subseteq Keys
       /\ pending[w] \in [DOMAIN pending[w] -> Pending]
  /\ saved = S!NoEntry \/ saved \in S!Entries
  /\ file \in S!Entries
  /\ writes \in Seq(Parts)

LEMMA PartsType ==
  ASSUME NEW f
  PROVE  f \in Parts <=> f \in [DOMAIN f -> Values] /\ DOMAIN f \subseteq Keys
<1>1. ASSUME f \in Parts PROVE f \in [DOMAIN f -> Values] /\ DOMAIN f \subseteq Keys
  <2>1. PICK some \in SUBSET Keys : f \in [some -> Values]
    BY <1>1 DEF Parts
  <2>. QED
    BY <2>1
<1>2. ASSUME f \in [DOMAIN f -> Values], DOMAIN f \subseteq Keys PROVE f \in Parts
  BY <1>2 DEF Parts
<1>. QED
  BY <1>1, <1>2

LEMMA OriginalType == ASSUME Values # {} PROVE S!Original \in S!Entries
<1>1. PICK v : v \in Values
  OBVIOUS
<1>2. /\ [k \in Keys |-> v] \in S!Entries
      /\ \A k, j \in Keys : [i \in Keys |-> v][k] = [i \in Keys |-> v][j]
  BY <1>1 DEF S!Entries
<1>. QED
  BY <1>2 DEF S!Original

\* Changes over an entry.
LEMMA ChangesOver ==
  ASSUME NEW changes, NEW entry, entry \in S!Entries,
         DOMAIN changes \subseteq Keys, changes \in [DOMAIN changes -> Pending],
         NEW over, over = S!Over([k \in DOMAIN changes |-> changes[k].value], entry)
  PROVE  /\ over \in S!Entries
         /\ over = [k \in Keys |-> IF k \in DOMAIN changes THEN changes[k].value ELSE entry[k]]
<1>1. entry \in [Keys -> Values]
  BY DEF S!Entries
<1>2. DOMAIN changes \cup DOMAIN entry = Keys
  BY <1>1
<1>3. over = [k \in Keys |-> IF k \in DOMAIN changes THEN changes[k].value ELSE entry[k]]
  BY <1>2 DEF S!Over
<1>4. \A k \in DOMAIN changes : changes[k].value \in Values
  BY DEF Pending
<1>. QED
  BY <1>1, <1>3, <1>4 DEF S!Entries

\* What a widget makes of the file and its changes.
LEMMA WithPendingType ==
  ASSUME SettingsInv, saved # S!NoEntry, NEW w \in Widgets
  PROVE  /\ S!WithPending(w) \in S!Entries
         /\ S!WithPending(w) = [k \in Keys |-> IF k \in DOMAIN pending[w] THEN pending[w][k].value
                                                                       ELSE saved[k]]
BY ChangesOver DEF SettingsInv, S!WithPending, S!Changes

LEMMA WithPendingNext ==
  ASSUME SettingsInv', saved' # S!NoEntry, NEW w \in Widgets
  PROVE  S!WithPending(w)' = [k \in Keys |-> IF k \in DOMAIN pending'[w] THEN pending'[w][k].value
                                                                       ELSE saved'[k]]
BY ChangesOver DEF SettingsInv, S!WithPending, S!Changes

\* Two states that have the same of a widget show the same.
LEMMA SameShown ==
  ASSUME SettingsInv, SettingsInv', NEW w \in Widgets,
         saved' = saved, DOMAIN pending'[w] = DOMAIN pending[w],
         \A k \in DOMAIN pending[w] : pending'[w][k].value = pending[w][k].value
  PROVE  saved # S!NoEntry => S!WithPending(w)' = S!WithPending(w)
<1>. SUFFICES ASSUME saved # S!NoEntry
              PROVE  S!WithPending(w)' = S!WithPending(w)
  OBVIOUS
<1>1. S!WithPending(w)' = [k \in Keys |-> IF k \in DOMAIN pending'[w] THEN pending'[w][k].value
                                                                     ELSE saved'[k]]
  BY WithPendingNext
<1>2. S!WithPending(w) = [k \in Keys |-> IF k \in DOMAIN pending[w] THEN pending[w][k].value
                                                                   ELSE saved[k]]
  BY WithPendingType
<1>. QED
  BY <1>1, <1>2

LEMMA PersistSettings ==
  ASSUME SettingsInv, NEW w \in Widgets, NEW key \in Keys, NEW value \in Values,
         S!Persist(w, key, value)
  PROVE  /\ SettingsInv' /\ restoring' = restoring \cup {w}
         /\ \A v \in Widgets : Shows(v) \/ v = w => Shows(v)'
<1>. DEFINE current == IF saved = S!NoEntry THEN settings[w] ELSE S!WithPending(w)
            next    == [current EXCEPT ![key] = value]
            entry   == [k \in {key} |-> [value |-> value, age |-> 0]]
            after   == S!Over(entry, pending[w])
<1>1. /\ settings' = [settings EXCEPT ![w] = next]
      /\ pending' = [pending EXCEPT ![w] = after]
      /\ \E write \in {next, S!Restrict(next, {key})} : writes' = Append(writes, write)
      /\ restoring' = restoring \cup {w}
      /\ UNCHANGED <<saved, file>>
  BY DEF S!Persist
<1>2. current \in S!Entries
  BY WithPendingType DEF SettingsInv
<1>. HIDE DEF current
<1>3. next \in S!Entries /\ next \in Parts /\ S!Restrict(next, {key}) \in Parts
  <2>1. next \in [Keys -> Values]
    BY <1>2 DEF S!Entries
  <2>. HIDE DEF next
  <2>2. S!Restrict(next, {key}) \in [{key} -> Values]
    BY <2>1 DEF S!Restrict
  <2>. QED
    BY <2>1, <2>2 DEF S!Entries, Parts
<1>4. /\ DOMAIN after = DOMAIN pending[w] \cup {key}
      /\ after[key] = [value |-> value, age |-> 0]
      /\ \A k \in DOMAIN pending[w] \ {key} : after[k] = pending[w][k]
      /\ after = [k \in DOMAIN after |-> after[k]]
  BY DEF S!Over
<1>. HIDE DEF after
<1>5. after \in [DOMAIN after -> Pending] /\ DOMAIN after \subseteq Keys
  <2>1. DOMAIN pending[w] \subseteq Keys /\ \A k \in DOMAIN pending[w] : pending[w][k] \in Pending
    BY DEF SettingsInv
  <2>2. [value |-> value, age |-> 0] \in Pending
    BY DEF Pending
  <2>. QED
    BY <1>4, <2>1, <2>2
<1>6. writes' \in Seq(Parts)
  <2>. HIDE DEF next
  <2>. QED
    BY <1>1, <1>3 DEF SettingsInv
<1>7. SettingsInv'
  <2>1. settings' \in [Widgets -> S!Entries]
    BY <1>1, <1>3 DEF SettingsInv
  <2>2. DOMAIN pending' = Widgets
    BY <1>1 DEF SettingsInv
  <2>3. \A v \in Widgets : /\ DOMAIN pending'[v] \subseteq Keys
                           /\ pending'[v] \in [DOMAIN pending'[v] -> Pending]
    BY <1>1, <1>5 DEF SettingsInv
  <2>. QED
    BY <1>1, <1>6, <2>1, <2>2, <2>3 DEF SettingsInv
<1>8. ASSUME NEW v \in Widgets, v # w, Shows(v) PROVE Shows(v)'
  <2>1. settings'[v] = settings[v] /\ pending'[v] = pending[v]
    BY <1>1, <1>8 DEF SettingsInv
  <2>. QED
    BY <1>1, <1>7, <1>8, <2>1, SameShown DEF Shows
<1>9. Shows(w)'
  <2>. SUFFICES ASSUME saved # S!NoEntry PROVE settings'[w] = S!WithPending(w)'
    BY <1>1 DEF Shows
  <2>1. settings'[w] = next /\ pending'[w] = after
    BY <1>1 DEF SettingsInv
  <2>2. S!WithPending(w)' = [k \in Keys |-> IF k \in DOMAIN pending'[w] THEN pending'[w][k].value
                                                                       ELSE saved'[k]]
    BY <1>1, <1>7, WithPendingNext
  <2>3. current = [k \in Keys |-> IF k \in DOMAIN pending[w] THEN pending[w][k].value
                                                            ELSE saved[k]]
    BY WithPendingType DEF current
  <2>4. \A k \in Keys : next[k] = S!WithPending(w)'[k]
    BY <1>1, <1>4, <2>1, <2>2, <2>3
  <2>5. DOMAIN next = Keys /\ next = [k \in Keys |-> next[k]]
    BY <2>3
  <2>. QED
    BY <2>1, <2>2, <2>4, <2>5
<1>. QED
  BY <1>1, <1>7, <1>8, <1>9
\* A step that leaves a widget alone leaves it showing what it showed.
LEMMA LeftAlone ==
  ASSUME SettingsInv, SettingsInv', NEW w \in Widgets, Shows(w),
         UNCHANGED saved, settings'[w] = settings[w], pending'[w] = pending[w]
  PROVE  Shows(w)'
BY SameShown DEF Shows

LEMMA StepSettings ==
  ASSUME Values # {}, SettingsInv, EditsShown, [S!Next]_settingsVars
  PROVE  SettingsInv' /\ EditsShown'
<1>. DEFINE Kept == SettingsInv' /\ EditsShown'
<1>. USE DEF EditsShown
<1>1. ASSUME NEW w \in Widgets, NEW k \in Keys, NEW v \in Values, S!Persist(w, k, v)
      PROVE  Kept
  <2>1. /\ SettingsInv' /\ restoring' = restoring \cup {w}
        /\ \A u \in Widgets : Shows(u) \/ u = w => Shows(u)'
    BY <1>1, PersistSettings
  <2>. QED
    BY <2>1
<1>2. ASSUME NEW w \in Widgets, S!Restore(w) PROVE Kept
  <2>1. UNCHANGED <<pending, saved, file, writes>>
    BY <1>2 DEF S!Restore
  <2>2. CASE saved # S!NoEntry /\ settings[w] # S!WithPending(w)
    <3>1. settings' = [settings EXCEPT ![w] = S!WithPending(w)] /\ restoring' = restoring
      BY <1>2, <2>2 DEF S!Restore
    <3>2. SettingsInv'
      BY <2>1, <2>2, <3>1, WithPendingType DEF SettingsInv
    <3>3. \A u \in Widgets \ {w} : settings'[u] = settings[u] /\ pending'[u] = pending[u]
      BY <2>1, <3>1 DEF SettingsInv
    <3>4. \A u \in Widgets \ {w} : Shows(u) => Shows(u)'
      BY <2>1, <3>2, <3>3, LeftAlone
    <3>5. w \in restoring'
      BY <1>2, <3>1 DEF S!Restore
    <3>. QED
      BY <3>1, <3>2, <3>4, <3>5
  <2>3. CASE ~(saved # S!NoEntry /\ settings[w] # S!WithPending(w))
    <3>1. settings' = settings /\ restoring' = restoring \ {w}
      BY <1>2, <2>3 DEF S!Restore
    <3>2. SettingsInv'
      BY <2>1, <3>1 DEF SettingsInv
    <3>3. Shows(w)
      BY <2>3 DEF Shows
    <3>4. \A u \in Widgets : Shows(u) => Shows(u)'
      BY <2>1, <3>1, <3>2, LeftAlone
    <3>. QED
      BY <3>1, <3>2, <3>3, <3>4
  <2>. QED
    BY <2>2, <2>3
<1>3. ASSUME NEW w \in Widgets, S!Revert(w) PROVE Kept
  <2>1. /\ settings' = [settings EXCEPT ![w] = S!Original] /\ restoring' = restoring \cup {w}
        /\ UNCHANGED <<pending, saved, file, writes>>
    BY <1>3 DEF S!Revert
  <2>2. SettingsInv'
    BY <2>1, OriginalType DEF SettingsInv
  <2>3. \A u \in Widgets \ {w} : settings'[u] = settings[u] /\ pending'[u] = pending[u]
    BY <2>1 DEF SettingsInv
  <2>4. \A u \in Widgets \ {w} : Shows(u) => Shows(u)'
    BY <2>1, <2>2, <2>3, LeftAlone
  <2>. QED
    BY <2>1, <2>2, <2>4
<1>4. CASE S!Load
  <2>1. /\ saved' = file /\ restoring' = Widgets /\ UNCHANGED <<settings, file, writes>>
        /\ pending' = [w \in Widgets |->
                         S!Restrict(pending[w], {k \in S!Changes(w) : S!Waiting(w, k)})]
    BY <1>4 DEF S!Load
  <2>2. ASSUME NEW w \in Widgets
        PROVE  DOMAIN pending'[w] \subseteq Keys /\ pending'[w] \in [DOMAIN pending'[w] -> Pending]
    <3>1. PICK some \in SUBSET DOMAIN pending[w] : pending'[w] = [k \in some |-> pending[w][k]]
      BY <2>1 DEF S!Restrict, S!Changes
    <3>. QED
      BY <3>1 DEF SettingsInv
  <2>3. SettingsInv'
    BY <2>1, <2>2 DEF SettingsInv
  <2>. QED
    BY <1>4, <2>1, <2>3
<1>5. ASSUME UNCHANGED <<settings, pending, restoring, saved>>,
             file' \in S!Entries, writes' \in Seq(Parts)
      PROVE  Kept
  <2>1. SettingsInv'
    BY <1>5 DEF SettingsInv
  <2>. QED
    BY <1>5, <2>1, LeftAlone
<1>6. CASE S!Save
  <2>1. /\ writes # <<>> /\ file' = S!Over(Head(writes), file) /\ writes' = Tail(writes)
        /\ UNCHANGED <<settings, pending, restoring, saved>>
    BY <1>6 DEF S!Save
  <2>2. Head(writes) \in Parts /\ writes' \in Seq(Parts)
    BY <2>1 DEF SettingsInv
  <2>3. file' \in S!Entries
    <3>1. PICK write \in Parts : write = Head(writes)
      BY <2>2
    <3>2. write \in [DOMAIN write -> Values] /\ DOMAIN write \subseteq Keys /\ file \in [Keys -> Values]
      BY PartsType DEF SettingsInv, S!Entries
    <3>3. DOMAIN write \cup DOMAIN file = Keys
      BY <3>2
    <3>4. file' = [k \in Keys |-> IF k \in DOMAIN write THEN write[k] ELSE file[k]]
      BY <2>1, <3>1, <3>3 DEF S!Over
    <3>. QED
      BY <3>2, <3>4 DEF S!Entries
  <2>. QED
    BY <1>5, <2>1, <2>2, <2>3
<1>7. CASE S!Touch
  BY <1>5, <1>7 DEF S!Touch, S!widgetVars, SettingsInv
<1>8. CASE S!Tick
  <2>1. /\ UNCHANGED <<settings, restoring, saved, file, writes>>
        /\ pending' = [w \in Widgets |-> [k \in S!Changes(w) |->
             [pending[w][k] EXCEPT !.age = IF @ <= PATIENCE THEN @ + 1 ELSE @]]]
    BY <1>8 DEF S!Tick
  <2>2. ASSUME NEW w \in Widgets
        PROVE  /\ DOMAIN pending'[w] = DOMAIN pending[w]
               /\ \A k \in DOMAIN pending[w] : /\ pending'[w][k] \in Pending
                                               /\ pending'[w][k].value = pending[w][k].value
               /\ pending'[w] \in [DOMAIN pending[w] -> Pending]
    <3>1. pending'[w] = [k \in DOMAIN pending[w] |->
            [pending[w][k] EXCEPT !.age = IF @ <= PATIENCE THEN @ + 1 ELSE @]]
      BY <2>1 DEF S!Changes
    <3>2. ASSUME NEW entry \in Pending
          PROVE  /\ [entry EXCEPT !.age = IF @ <= PATIENCE THEN @ + 1 ELSE @] \in Pending
                 /\ [entry EXCEPT !.age = IF @ <= PATIENCE THEN @ + 1 ELSE @].value = entry.value
      BY DEF Pending
    <3>3. \A k \in DOMAIN pending[w] : pending[w][k] \in Pending
      BY DEF SettingsInv
    <3>. QED
      BY <3>1, <3>2, <3>3
  <2>3. SettingsInv'
    BY <2>1, <2>2 DEF SettingsInv
  <2>4. ASSUME NEW w \in Widgets, Shows(w) PROVE Shows(w)'
    BY <2>1, <2>2, <2>3, <2>4, SameShown DEF Shows
  <2>. QED
    BY <2>1, <2>3, <2>4
<1>9. CASE UNCHANGED settingsVars
  BY <1>5, <1>9 DEF settingsVars, SettingsInv
<1>. QED
  BY <1>1, <1>2, <1>3, <1>4, <1>6, <1>7, <1>8, <1>9 DEF S!Next

\* A widget shows the file it has loaded with its own changes that still wait
\* over it, or a call that will make it do so is due: whatever is changed,
\* saved, timed or loaded, and whatever the shell gives back (persist,
\* restoreSavedSettings and onSettingsChanged of OmaStatsWidget.qml, prunePending
\* of Model.js).
THEOREM EditsStay == ASSUME Values # {} PROVE ShellSpec => []EditsShown
<1>1. ShellInit => SettingsInv /\ EditsShown
  <2>. SUFFICES ASSUME S!Init PROVE SettingsInv /\ EditsShown
    BY DEF ShellInit
  <2>1. /\ settings = [w \in Widgets |-> S!Original] /\ pending = [w \in Widgets |-> <<>>]
        /\ saved = S!NoEntry /\ file = S!Original /\ writes = <<>>
    BY DEF S!Init
  <2>. QED
    BY <2>1, OriginalType DEF SettingsInv, EditsShown, Shows
<1>2. [ShellNext]_all => [S!Next]_settingsVars
  BY DEF ShellNext, all, OnlySampler, OnlyDrives, OnlySensors, OnlySettings
<1>3. SettingsInv /\ EditsShown /\ [ShellNext]_all => SettingsInv' /\ EditsShown'
  BY <1>2, StepSettings
<1>. QED
  BY <1>1, <1>3, PTL DEF ShellSpec
=============================================================================
