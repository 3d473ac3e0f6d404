---------------------------- MODULE Panels_proofs ----------------------------
(***************************************************************************)
(* Theorems about the shell side of the control protocol, for every set of *)
(* widgets, intervals and pages, and whether or not the shell lets two     *)
(* panels be open or a panel open before its widget finds the service.     *)
(***************************************************************************)
EXTENDS Panels, FiniteSetTheorems, SequenceTheorems, TLAPS

USE ControlAssumption, PanelsAssumption

-----------------------------------------------------------------------------
(* The least of a set of numbers is in it.                                   *)

LEMMA MinExists ==
  ASSUME NEW S, S \subseteq Nat, S # {}
  PROVE  Min(S) \in S /\ \A y \in S : Min(S) <= y
<1>1. PICK x \in S : \A y \in S : ~(<<y, x>> \in OpToRel(<, Nat))
  BY NatLessThanWellFounded, WFMin
<1>2. ASSUME NEW y \in S PROVE x <= y
  <2>1. <<y, x>> \in Nat \X Nat /\ <<y, x>>[1] = y /\ <<y, x>>[2] = x
    OBVIOUS
  <2>2. ~(<<y, x>>[1] < <<y, x>>[2])
    BY <1>1, <2>1, Zenon DEF OpToRel
  <2>3. ~(y < x)
    BY <2>1, <2>2
  <2>. QED
    BY <2>3
<1>. QED
  BY <1>2 DEF Min

LEMMA FastestType ==
  ASSUME NEW settings \in [Widgets -> Intervals \cup {NOTHING}]
  PROVE  Fastest(settings) \in Intervals
<1>. DEFINE asked == {settings[w] : w \in Widgets} \ {NOTHING}
<1>1. asked \subseteq Intervals /\ asked \subseteq Nat
  BY DEF NOTHING
<1>2. asked # {} => Min(asked) \in Intervals
  BY <1>1, MinExists
<1>. QED
  BY <1>2 DEF Fastest

-----------------------------------------------------------------------------
(* What the listener will know, as lines are written and read.               *)

LEMMA WillKnowWritten ==
  ASSUME NEW pipe \in Seq(Line), NEW known, NEW kind, NEW value,
         [op |-> kind, arg |-> value] \in Line
  PROVE  WillKnow(known, Append(pipe, [op |-> kind, arg |-> value]), kind, value)
<1>. DEFINE line == [op |-> kind, arg |-> value]
            longer == Append(pipe, line)
<1>1. Len(longer) = Len(pipe) + 1 /\ longer[Len(longer)] = line
  OBVIOUS
<1>2. Len(longer) \in 1 .. Len(longer)
  BY <1>1
<1>3. \A j \in Len(longer) + 1 .. Len(longer) : longer[j].op # kind
  BY <1>1
<1>. HIDE DEF longer
<1>4. \E i \in 1 .. Len(longer) :
        /\ longer[i] = line
        /\ \A j \in i + 1 .. Len(longer) : longer[j].op # kind
  BY <1>1, <1>2, <1>3
<1>. QED
  BY <1>4 DEF WillKnow, longer

LEMMA WillKnowOther ==
  ASSUME NEW pipe \in Seq(Line), NEW known, NEW kind, NEW value,
         NEW line \in Line, line.op # kind,
         WillKnow(known, pipe, kind, value)
  PROVE  WillKnow(known, Append(pipe, line), kind, value)
<1>. DEFINE longer == Append(pipe, line)
<1>1. /\ Len(longer) = Len(pipe) + 1
      /\ longer[Len(longer)] = line
      /\ \A i \in 1 .. Len(pipe) : longer[i] = pipe[i]
  OBVIOUS
<1>. HIDE DEF longer
<1>2. CASE /\ \A i \in 1 .. Len(pipe) : pipe[i].op # kind
           /\ known = value
  <2>1. \A i \in 1 .. Len(longer) : longer[i].op # kind
    BY <1>1, <1>2
  <2>. QED
    BY <1>2, <2>1 DEF WillKnow, longer
<1>3. CASE \E i \in 1 .. Len(pipe) :
             /\ pipe[i] = [op |-> kind, arg |-> value]
             /\ \A j \in i + 1 .. Len(pipe) : pipe[j].op # kind
  <2>1. PICK i \in 1 .. Len(pipe) :
               /\ pipe[i] = [op |-> kind, arg |-> value]
               /\ \A j \in i + 1 .. Len(pipe) : pipe[j].op # kind
    BY <1>3
  <2>2. /\ i \in 1 .. Len(longer)
        /\ longer[i] = [op |-> kind, arg |-> value]
        /\ \A j \in i + 1 .. Len(longer) : longer[j].op # kind
    BY <1>1, <2>1
  <2>. QED
    BY <2>2 DEF WillKnow, longer
<1>. QED
  BY <1>2, <1>3 DEF WillKnow

LEMMA WillKnowRead ==
  ASSUME NEW pipe \in Seq(Line), pipe # <<>>, NEW known, NEW kind, NEW value,
         NEW later, later = IF Head(pipe).op = kind THEN Head(pipe).arg ELSE known,
         WillKnow(known, pipe, kind, value)
  PROVE  WillKnow(later, Tail(pipe), kind, value)
<1>. DEFINE rest == Tail(pipe)
<1>1. /\ Len(pipe) \in Nat /\ Len(pipe) >= 1
      /\ Len(rest) = Len(pipe) - 1
      /\ Head(pipe) = pipe[1]
      /\ \A i \in 1 .. Len(rest) : rest[i] = pipe[i + 1]
  BY HeadTailProperties, EmptySeq
<1>. HIDE DEF rest
<1>2. CASE /\ \A i \in 1 .. Len(pipe) : pipe[i].op # kind
           /\ known = value
  <2>1. \A i \in 1 .. Len(rest) : rest[i].op # kind
    BY <1>1, <1>2
  <2>2. later = value
    BY <1>1, <1>2
  <2>. QED
    BY <2>1, <2>2 DEF WillKnow, rest
<1>3. CASE \E i \in 1 .. Len(pipe) :
             /\ pipe[i] = [op |-> kind, arg |-> value]
             /\ \A j \in i + 1 .. Len(pipe) : pipe[j].op # kind
  <2>1. PICK i \in 1 .. Len(pipe) :
               /\ pipe[i] = [op |-> kind, arg |-> value]
               /\ \A j \in i + 1 .. Len(pipe) : pipe[j].op # kind
    BY <1>3
  <2>2. CASE i = 1
    <3>1. later = value
      BY <1>1, <2>1, <2>2
    <3>2. \A k \in 1 .. Len(rest) : rest[k].op # kind
      BY <1>1, <2>1, <2>2
    <3>. QED
      BY <3>1, <3>2 DEF WillKnow, rest
  <2>3. CASE i # 1
    <3>1. /\ i - 1 \in 1 .. Len(rest)
          /\ rest[i - 1] = [op |-> kind, arg |-> value]
      BY <1>1, <2>1, <2>3
    <3>2. \A j \in (i - 1) + 1 .. Len(rest) : rest[j].op # kind
      BY <1>1, <2>1, <2>3
    <3>. QED
      BY <3>1, <3>2 DEF WillKnow, rest
  <2>. QED
    BY <2>2, <2>3
<1>. QED
  BY <1>2, <1>3 DEF WillKnow
-----------------------------------------------------------------------------
(* The service's methods keep the service well formed and keep the promise   *)
(* of SamplerIsTold.  Before onStarted the promise holds only for what has   *)
(* its default value or has changed since the process was started; `full`    *)
(* says whether it holds of everything.                                      *)

Promise(s, c, full) ==
  IF s.running
  THEN /\ full \/ s.sentDetail = 0 => WillKnow(c.detail, s.pipe, "detail", s.sentDetail)
       /\ full \/ s.focusPage = "none" => WillKnow(c.focus, s.pipe, "focus", s.focusPage)
       /\ full \/ s.intervalSeconds = SECOND =>
            WillKnow(c.interval, s.pipe, "interval", s.intervalSeconds)
  ELSE s.pipe = <<>>

\* What every call of a panel leaves of the service's state.
Kept(s, t) ==
  t.running = s.running /\ t.settings = s.settings /\ t.intervalSeconds = s.intervalSeconds

LEMMA LineTypes ==
  /\ \A v \in Levels : [op |-> "detail", arg |-> v] \in Line
  /\ \A v \in Pages : [op |-> "focus", arg |-> v] \in Line
  /\ \A v \in Intervals : [op |-> "interval", arg |-> v] \in Line
BY DEF Line

\* Two states of the service that differ in nothing but the pipe.
Alike(s, t) ==
  /\ Kept(s, t)
  /\ t.sentDetail = s.sentDetail /\ t.focusPage = s.focusPage

LEMMA PipeReplaced ==
  ASSUME NEW s \in Service, NEW p \in Seq(Line), NEW t, t = [s EXCEPT !.pipe = p]
  PROVE  t \in Service /\ t.pipe = p /\ Alike(s, t)
<1>1. t \in Service /\ t.pipe = p
  BY DEF Service
<1>2. /\ t.settings = s.settings /\ t.intervalSeconds = s.intervalSeconds
      /\ t.sentDetail = s.sentDetail /\ t.focusPage = s.focusPage
  BY DEF Service
<1>3. t.running = s.running
  BY DEF Service
<1>. QED
  BY <1>1, <1>2, <1>3 DEF Alike, Kept

\* A line that is sent is known once read; what was known of the others still
\* is.  Nothing but the pipe changes.
LEMMA SendTells ==
  ASSUME NEW s \in Service, NEW kind, NEW value, NEW t,
         [op |-> kind, arg |-> value] \in Line,
         t = Send(s, kind, value)
  PROVE  /\ t \in Service
         /\ Alike(s, t)
         /\ ~s.running => t.pipe = s.pipe
         /\ s.running => \A known : WillKnow(known, t.pipe, kind, value)
         /\ s.running => \A known, k, v : k # kind /\ WillKnow(known, s.pipe, k, v)
                                            => WillKnow(known, t.pipe, k, v)
<1>. DEFINE line == [op |-> kind, arg |-> value]
            longer == Append(s.pipe, line)
<1>1. s.pipe \in Seq(Line) /\ longer \in Seq(Line)
  BY DEF Service
<1>2. CASE s.running
  <2>1. t = [s EXCEPT !.pipe = longer]
    BY <1>2 DEF Send, Service
  <2>2. t \in Service /\ t.pipe = longer /\ Alike(s, t)
    <3>. HIDE DEF longer
    <3>. QED
      BY <1>1, <2>1, PipeReplaced
  <2>3. \A known : WillKnow(known, t.pipe, kind, value)
    BY <1>1, <2>2, WillKnowWritten
  <2>4. ASSUME NEW known, NEW k, NEW v, k # kind, WillKnow(known, s.pipe, k, v)
        PROVE  WillKnow(known, t.pipe, k, v)
    <3>1. line.op # k
      BY <2>4
    <3>. QED
      BY <1>1, <2>2, <2>4, <3>1, WillKnowOther
  <2>. QED
    BY <1>2, <2>2, <2>3, <2>4
<1>3. CASE ~s.running
  BY <1>3 DEF Send, Alike, Kept
<1>. QED
  BY <1>2, <1>3

LEMMA SendDetail ==
  ASSUME NEW s \in Service, NEW c, NEW full \in BOOLEAN, Promise(s, c, full),
         NEW v \in Levels, NEW t,
         t = Send([s EXCEPT !.sentDetail = v], "detail", v)
  PROVE  t \in Service /\ Promise(t, c, full) /\ Kept(s, t)
<1>. DEFINE u == [s EXCEPT !.sentDetail = v]
<1>1. u \in Service /\ u.sentDetail = v /\ Kept(s, u)
  BY DEF Service, Kept
<1>2. u.focusPage = s.focusPage /\ u.pipe = s.pipe
  BY DEF Service
<1>3. t = Send(u, "detail", v)
  OBVIOUS
<1>. HIDE DEF u
<1>4. /\ t \in Service /\ Alike(u, t)
      /\ ~u.running => t.pipe = u.pipe
      /\ u.running => \A known : WillKnow(known, t.pipe, "detail", v)
      /\ u.running => \A known, k, w : k # "detail" /\ WillKnow(known, u.pipe, k, w)
                                         => WillKnow(known, t.pipe, k, w)
  BY <1>1, <1>3, SendTells, LineTypes
<1>5. Kept(s, t) /\ t.focusPage = s.focusPage /\ t.sentDetail = v
  BY <1>1, <1>2, <1>4 DEF Kept, Alike
<1>6. CASE s.running
  BY <1>1, <1>2, <1>4, <1>5, <1>6 DEF Promise, Kept
<1>7. CASE ~s.running
  BY <1>1, <1>2, <1>4, <1>5, <1>7 DEF Promise, Kept
<1>. QED
  BY <1>4, <1>5, <1>6, <1>7

LEMMA SendFocus ==
  ASSUME NEW s \in Service, NEW c, NEW full \in BOOLEAN, Promise(s, c, full),
         NEW v \in Pages, NEW t,
         t = Send([s EXCEPT !.focusPage = v], "focus", v)
  PROVE  t \in Service /\ Promise(t, c, full) /\ Kept(s, t)
<1>. DEFINE u == [s EXCEPT !.focusPage = v]
<1>1. u \in Service /\ u.focusPage = v /\ Kept(s, u)
  BY DEF Service, Kept
<1>2. u.sentDetail = s.sentDetail /\ u.pipe = s.pipe
  BY DEF Service
<1>3. t = Send(u, "focus", v)
  OBVIOUS
<1>. HIDE DEF u
<1>4. /\ t \in Service /\ Alike(u, t)
      /\ ~u.running => t.pipe = u.pipe
      /\ u.running => \A known : WillKnow(known, t.pipe, "focus", v)
      /\ u.running => \A known, k, w : k # "focus" /\ WillKnow(known, u.pipe, k, w)
                                         => WillKnow(known, t.pipe, k, w)
  BY <1>1, <1>3, SendTells, LineTypes
<1>5. Kept(s, t) /\ t.sentDetail = s.sentDetail /\ t.focusPage = v
  BY <1>1, <1>2, <1>4 DEF Kept, Alike
<1>6. CASE s.running
  BY <1>1, <1>2, <1>4, <1>5, <1>6 DEF Promise, Kept
<1>7. CASE ~s.running
  BY <1>1, <1>2, <1>4, <1>5, <1>7 DEF Promise, Kept
<1>. QED
  BY <1>4, <1>5, <1>6, <1>7

LEMMA SendInterval ==
  ASSUME NEW s \in Service, NEW c, NEW full \in BOOLEAN, Promise(s, c, full),
         NEW v \in Intervals, NEW t,
         t = Send([s EXCEPT !.intervalSeconds = v], "interval", v)
  PROVE  /\ t \in Service /\ Promise(t, c, full) /\ t.intervalSeconds = v
         /\ t.running = s.running /\ t.settings = s.settings
<1>. DEFINE u == [s EXCEPT !.intervalSeconds = v]
<1>1. /\ u \in Service /\ u.intervalSeconds = v
      /\ u.running = s.running /\ u.settings = s.settings
  BY DEF Service
<1>2. u.sentDetail = s.sentDetail /\ u.focusPage = s.focusPage /\ u.pipe = s.pipe
  BY DEF Service
<1>3. t = Send(u, "interval", v)
  OBVIOUS
<1>. HIDE DEF u
<1>4. /\ t \in Service /\ Alike(u, t)
      /\ ~u.running => t.pipe = u.pipe
      /\ u.running => \A known : WillKnow(known, t.pipe, "interval", v)
      /\ u.running => \A known, k, w : k # "interval" /\ WillKnow(known, u.pipe, k, w)
                                         => WillKnow(known, t.pipe, k, w)
  BY <1>1, <1>3, SendTells, LineTypes
<1>5. /\ t.running = s.running /\ t.settings = s.settings /\ t.intervalSeconds = v
      /\ t.focusPage = s.focusPage /\ t.sentDetail = s.sentDetail
  BY <1>1, <1>2, <1>4 DEF Kept, Alike
<1>6. CASE s.running
  BY <1>1, <1>2, <1>4, <1>5, <1>6 DEF Promise, Kept
<1>7. CASE ~s.running
  BY <1>1, <1>2, <1>4, <1>5, <1>7 DEF Promise, Kept
<1>. QED
  BY <1>4, <1>5, <1>6, <1>7

\* What a method makes of the service when a panel calls it.
Good(s, t, c, full) == t \in Service /\ Promise(t, c, full) /\ Kept(s, t)

LEMMA GoodGood ==
  ASSUME NEW s, NEW t, NEW u, NEW c, NEW full, Good(s, t, c, full), Good(t, u, c, full)
  PROVE  Good(s, u, c, full)
BY DEF Good, Kept

LEMMA SyncDetailGood ==
  ASSUME NEW s \in Service, NEW c, NEW full \in BOOLEAN, Promise(s, c, full)
  PROVE  Good(s, SyncDetail(s), c, full)
<1>. DEFINE level == IF s.detailRefs > 0 THEN (IF s.fullRefs > 0 THEN 2 ELSE 1) ELSE 0
<1>1. level \in Levels
  BY DEF Levels
<1>2. CASE level = s.sentDetail
  <2>1. SyncDetail(s) = s
    BY <1>2 DEF SyncDetail
  <2>. QED
    BY <2>1 DEF Good, Kept
<1>3. CASE level # s.sentDetail
  <2>1. SyncDetail(s) = Send([s EXCEPT !.sentDetail = level], "detail", level)
    BY <1>3 DEF SyncDetail
  <2>. HIDE DEF level
  <2>. QED
    BY <1>1, <2>1, SendDetail DEF Good
<1>. QED
  BY <1>2, <1>3

LEMMA RefsGood ==
  ASSUME NEW s \in Service, NEW c, NEW full \in BOOLEAN, Promise(s, c, full)
  PROVE  /\ \A n \in Nat : Good(s, [s EXCEPT !.detailRefs = n], c, full)
         /\ \A n \in Nat : Good(s, [s EXCEPT !.fullRefs = n], c, full)
<1>1. ASSUME NEW n \in Nat, NEW t,
             t \in {[s EXCEPT !.detailRefs = n], [s EXCEPT !.fullRefs = n]}
      PROVE  Good(s, t, c, full)
  <2>1. t \in Service /\ Kept(s, t)
    BY <1>1 DEF Service, Kept
  <2>2. /\ t.sentDetail = s.sentDetail /\ t.focusPage = s.focusPage
        /\ t.pipe = s.pipe
    BY <1>1 DEF Service
  <2>3. Promise(t, c, full)
    BY <2>1, <2>2 DEF Promise, Kept
  <2>. QED
    BY <2>1, <2>3 DEF Good
<1>. QED
  BY <1>1

\* The reference counts are taken and released.
LEMMA CountsGood ==
  ASSUME NEW s \in Service, NEW c, NEW full \in BOOLEAN, Promise(s, c, full)
  PROVE  /\ Good(s, AcquireDetail(s), c, full)
         /\ Good(s, ReleaseDetail(s), c, full)
         /\ Good(s, AcquireFull(s), c, full)
         /\ Good(s, ReleaseFull(s), c, full)
<1>1. /\ s.detailRefs + 1 \in Nat /\ Dec(s.detailRefs) \in Nat
      /\ s.fullRefs + 1 \in Nat /\ Dec(s.fullRefs) \in Nat
  BY DEF Service, Dec
<1>2. ASSUME NEW t, Good(s, t, c, full)
      PROVE  Good(s, SyncDetail(t), c, full)
  <2>1. Good(t, SyncDetail(t), c, full)
    BY <1>2, SyncDetailGood DEF Good
  <2>. QED
    BY <1>2, <2>1, GoodGood
<1>3. /\ Good(s, [s EXCEPT !.detailRefs = @ + 1], c, full)
      /\ Good(s, [s EXCEPT !.detailRefs = Dec(@)], c, full)
      /\ Good(s, [s EXCEPT !.fullRefs = @ + 1], c, full)
      /\ Good(s, [s EXCEPT !.fullRefs = Dec(@)], c, full)
  BY <1>1, RefsGood
<1>. QED
  BY <1>2, <1>3 DEF AcquireDetail, ReleaseDetail, AcquireFull, ReleaseFull

LEMMA SetFocusGood ==
  ASSUME NEW s \in Service, NEW c, NEW full \in BOOLEAN, Promise(s, c, full),
         NEW page \in Pages
  PROVE  Good(s, SetFocus(s, page), c, full)
<1>1. CASE page = s.focusPage
  <2>1. SetFocus(s, page) = s
    BY <1>1 DEF SetFocus
  <2>. QED
    BY <2>1 DEF Good, Kept
<1>2. CASE page # s.focusPage
  <2>1. SetFocus(s, page) = Send([s EXCEPT !.focusPage = page], "focus", page)
    BY <1>2 DEF SetFocus
  <2>. QED
    BY <2>1, SendFocus DEF Good
<1>. QED
  BY <1>1, <1>2

LEMMA SyncFullGood ==
  ASSUME NEW s \in Service, NEW c, NEW full \in BOOLEAN, Promise(s, c, full), NEW x
  PROVE  Good(s, SyncFull(s, x), c, full)
<1>1. Good(s, s, c, full)
  BY DEF Good, Kept
<1>. QED
  BY <1>1, CountsGood DEF SyncFull

LEMMA RecomputeGood ==
  ASSUME NEW s \in Service, NEW c, NEW full \in BOOLEAN, Promise(s, c, full), NEW t,
         t = Recompute(s)
  PROVE  /\ t \in Service /\ Promise(t, c, full)
         /\ t.running = s.running /\ t.settings = s.settings
         /\ t.intervalSeconds = Fastest(s.settings)
<1>. DEFINE v == Fastest(s.settings)
<1>1. v \in Intervals
  BY FastestType DEF Service
<1>. HIDE DEF v
<1>2. CASE v = s.intervalSeconds
  <2>1. t = s
    BY <1>2 DEF Recompute, v
  <2>. QED
    BY <1>2, <2>1 DEF v
<1>3. CASE v # s.intervalSeconds
  <2>1. t = Send([s EXCEPT !.intervalSeconds = v], "interval", v)
    BY <1>3 DEF Recompute, v
  <2>. QED
    BY <1>1, <2>1, SendInterval DEF v
<1>. QED
  BY <1>2, <1>3

\* A widget registers another interval, or none.
LEMMA SettingsGood ==
  ASSUME NEW s \in Service, NEW c, NEW full \in BOOLEAN, Promise(s, c, full),
         NEW w \in Widgets, NEW v \in Intervals \cup {NOTHING}, NEW t,
         t = Recompute([s EXCEPT !.settings[w] = v])
  PROVE  /\ t \in Service /\ Promise(t, c, full)
         /\ t.running = s.running
         /\ t.settings = [s.settings EXCEPT ![w] = v]
         /\ t.intervalSeconds = Fastest(t.settings)
<1>. DEFINE u == [s EXCEPT !.settings[w] = v]
<1>1. /\ u \in Service
      /\ u.settings = [s.settings EXCEPT ![w] = v]
  BY DEF Service
<1>2. /\ u.sentDetail = s.sentDetail /\ u.focusPage = s.focusPage
      /\ u.intervalSeconds = s.intervalSeconds /\ u.pipe = s.pipe
  BY DEF Service
<1>3. u.running = s.running
  BY DEF Service
<1>4. Promise(u, c, full)
  BY <1>2, <1>3 DEF Promise
<1>5. t = Recompute(u)
  OBVIOUS
<1>. HIDE DEF u
<1>. QED
  BY <1>1, <1>3, <1>4, <1>5, RecomputeGood

\* What one line does to a running service.
Tells(s, t, kind, value) ==
  /\ t \in Service /\ Alike(s, t)
  /\ \A known : WillKnow(known, t.pipe, kind, value)
  /\ \A known, k, v : k # kind /\ WillKnow(known, s.pipe, k, v)
                       => WillKnow(known, t.pipe, k, v)

LEMMA RunningTold ==
  ASSUME NEW s \in Service, s.running, NEW kind, NEW value,
         [op |-> kind, arg |-> value] \in Line
  PROVE  Tells(s, Send(s, kind, value), kind, value)
<1>. DEFINE t == Send(s, kind, value)
<1>1. t = Send(s, kind, value)
  OBVIOUS
<1>. HIDE DEF t
<1>2. Tells(s, t, kind, value)
  BY <1>1, SendTells DEF Tells
<1>. QED
  BY <1>1, <1>2

\* Once told on start, a sampler knows, or is about to read, all of it.
LEMMA ReplayTells ==
  ASSUME NEW s \in Service, NEW c, s.running, Promise(s, c, FALSE)
  PROVE  Good(s, Replay(s), c, TRUE)
<1>. DEFINE d == IF s.sentDetail > 0 THEN Send(s, "detail", s.sentDetail) ELSE s
            f == IF s.focusPage # "none" THEN Send(d, "focus", s.focusPage) ELSE d
            i == IF s.intervalSeconds # SECOND
                 THEN Send(f, "interval", s.intervalSeconds) ELSE f
<1>1. Replay(s) = i
  BY DEF Replay
<1>2. /\ [op |-> "detail", arg |-> s.sentDetail] \in Line
      /\ [op |-> "focus", arg |-> s.focusPage] \in Line
      /\ [op |-> "interval", arg |-> s.intervalSeconds] \in Line
  BY LineTypes DEF Service
<1>3. /\ s.sentDetail = 0 => WillKnow(c.detail, s.pipe, "detail", s.sentDetail)
      /\ s.focusPage = "none" => WillKnow(c.focus, s.pipe, "focus", s.focusPage)
      /\ s.intervalSeconds = SECOND =>
           WillKnow(c.interval, s.pipe, "interval", s.intervalSeconds)
  BY DEF Promise
<1>4. Alike(s, s) /\ (s.sentDetail > 0 <=> s.sentDetail # 0)
  BY DEF Alike, Kept, Service, Levels
<1>5. /\ d \in Service /\ Alike(s, d)
      /\ WillKnow(c.detail, d.pipe, "detail", s.sentDetail)
      /\ s.focusPage = "none" => WillKnow(c.focus, d.pipe, "focus", s.focusPage)
      /\ s.intervalSeconds = SECOND =>
           WillKnow(c.interval, d.pipe, "interval", s.intervalSeconds)
  <2>1. CASE s.sentDetail > 0
    <3>1. d = Send(s, "detail", s.sentDetail)
      BY <2>1
    <3>2. Tells(s, d, "detail", s.sentDetail)
      BY <1>2, <3>1, RunningTold
    <3>. HIDE DEF d
    <3>. QED
      BY <1>3, <3>2 DEF Tells
  <2>2. CASE ~(s.sentDetail > 0)
    BY <1>3, <1>4, <2>2
  <2>. QED
    BY <2>1, <2>2
<1>. HIDE DEF d
<1>6. d.running /\ d.focusPage = s.focusPage /\ d.intervalSeconds = s.intervalSeconds
  BY <1>5 DEF Alike, Kept
<1>7. /\ f \in Service /\ Alike(d, f)
      /\ WillKnow(c.detail, f.pipe, "detail", s.sentDetail)
      /\ WillKnow(c.focus, f.pipe, "focus", s.focusPage)
      /\ s.intervalSeconds = SECOND =>
           WillKnow(c.interval, f.pipe, "interval", s.intervalSeconds)
  <2>1. CASE s.focusPage # "none"
    <3>1. f = Send(d, "focus", s.focusPage)
      BY <2>1
    <3>2. Tells(d, f, "focus", s.focusPage)
      BY <1>2, <1>5, <1>6, <3>1, RunningTold
    <3>. HIDE DEF f
    <3>. QED
      BY <1>5, <3>2 DEF Tells
  <2>2. CASE s.focusPage = "none"
    <3>1. f = d /\ Alike(d, d)
      BY <2>2 DEF Alike, Kept
    <3>. QED
      BY <1>5, <2>2, <3>1
  <2>. QED
    BY <2>1, <2>2
<1>. HIDE DEF f
<1>8. Alike(s, f) /\ f.running
  BY <1>5, <1>6, <1>7 DEF Alike, Kept
<1>9. /\ i \in Service /\ Alike(f, i)
      /\ WillKnow(c.detail, i.pipe, "detail", s.sentDetail)
      /\ WillKnow(c.focus, i.pipe, "focus", s.focusPage)
      /\ WillKnow(c.interval, i.pipe, "interval", s.intervalSeconds)
  <2>1. CASE s.intervalSeconds # SECOND
    <3>1. i = Send(f, "interval", s.intervalSeconds)
      BY <2>1
    <3>2. Tells(f, i, "interval", s.intervalSeconds)
      BY <1>2, <1>7, <1>8, <3>1, RunningTold
    <3>. HIDE DEF i
    <3>. QED
      BY <1>7, <3>2 DEF Tells
  <2>2. CASE s.intervalSeconds = SECOND
    <3>1. i = f /\ Alike(f, f)
      BY <2>2 DEF Alike, Kept
    <3>. QED
      BY <1>7, <2>2, <3>1
  <2>. QED
    BY <2>1, <2>2
<1>. HIDE DEF i
<1>10. Alike(s, i)
  BY <1>8, <1>9 DEF Alike, Kept
<1>. QED
  BY <1>1, <1>9, <1>10 DEF Good, Promise, Alike, Kept

-----------------------------------------------------------------------------
(* The inductive invariant.                                                  *)

\* The service holds the interval of each bound widget, and the fastest of
\* them.
Registered ==
  /\ \A w \in Widgets : service.settings[w] = IF w \in bound THEN widget[w].interval
                                              ELSE NOTHING
  /\ service.intervalSeconds = Fastest(service.settings)

IInv == TypeOK /\ Promise(service, control, started) /\ Registered

LEMMA WidgetTypes ==
  /\ \A x \in Widget : HoldFull(x) \in Widget /\ HoldFull(x).interval = x.interval
  /\ \A i \in Intervals : NewWidget(i) \in Widget /\ NewWidget(i).interval = i
<1>1. ASSUME NEW x \in Widget
      PROVE  HoldFull(x) \in Widget /\ HoldFull(x).interval = x.interval
  <2>1. WantsFull(x) \in BOOLEAN
    BY DEF WantsFull, Widget
  <2>. HIDE DEF WantsFull
  <2>. QED
    BY <2>1 DEF HoldFull, Widget
<1>2. ASSUME NEW i \in Intervals
      PROVE  NewWidget(i) \in Widget /\ NewWidget(i).interval = i
  <2>1. (CHOOSE t \in Tabs : TRUE) \in Tabs
    BY DEF Tabs
  <2>. QED
    BY <2>1 DEF NewWidget, Widget
<1>. QED
  BY <1>1, <1>2

LEMMA InitIInv == Init => IInv
<1>. SUFFICES ASSUME Init PROVE IInv
  OBVIOUS
<1>1. service \in Service /\ service.running
  <2>1. <<>> \in Seq(Line) /\ [w \in Widgets |-> NOTHING] \in [Widgets -> Intervals \cup {NOTHING}]
    OBVIOUS
  <2>. QED
    BY <2>1 DEF Init, Service, Levels
<1>2. widget \in [Widgets -> Widget]
  BY WidgetTypes DEF Init
<1>3. control \in Control
  BY DEF Init, FreshControl, Control, Levels
<1>4. TypeOK
  BY <1>1, <1>2, <1>3 DEF Init, TypeOK
<1>5. Promise(service, control, started)
  <2>1. /\ service.pipe = <<>> /\ service.sentDetail = 0 /\ service.focusPage = "none"
        /\ service.intervalSeconds = SECOND
        /\ control.detail = 0 /\ control.focus = "none" /\ control.interval = SECOND
    BY DEF Init, FreshControl
  <2>. QED
    BY <1>1, <2>1 DEF Promise, WillKnow
<1>6. Registered
  <2>1. /\ \A w \in Widgets : service.settings[w] = NOTHING
        /\ bound = {} /\ service.intervalSeconds = SECOND
    BY DEF Init
  <2>2. {service.settings[w] : w \in Widgets} \ {NOTHING} = {}
    BY <2>1
  <2>. QED
    BY <2>1, <2>2 DEF Registered, Fastest
<1>. QED
  BY <1>4, <1>5, <1>6 DEF IInv

\* A handler that leaves the widgets' settings alone.
LEMMA PanelStep ==
  ASSUME IInv, Good(service, service', control, started), widget' \in [Widgets -> Widget],
         \A w \in bound : widget'[w].interval = widget[w].interval,
         UNCHANGED <<present, bound, samplerVars>>
  PROVE  IInv'
<1>1. TypeOK'
  BY DEF IInv, TypeOK, Good, samplerVars
<1>2. Promise(service, control, started)'
  BY DEF Good, samplerVars
<1>3. /\ service'.settings = service.settings
      /\ service'.intervalSeconds = service.intervalSeconds
  BY DEF Good, Kept
<1>4. Registered'
  BY <1>3 DEF IInv, Registered
<1>. QED
  BY <1>1, <1>2, <1>4 DEF IInv

\* A handler that registers the interval v of widget w, or none.
LEMMA SettingsStep ==
  ASSUME IInv, NEW w \in Widgets, NEW v \in Intervals \cup {NOTHING},
         NEW s \in Service, Good(service, s, control, started),
         service' = Recompute([s EXCEPT !.settings[w] = v]),
         widget' \in [Widgets -> Widget],
         bound' \subseteq present', present' \subseteq Widgets,
         v = IF w \in bound' THEN widget'[w].interval ELSE NOTHING,
         \A x \in Widgets \ {w} : /\ x \in bound' <=> x \in bound
                                  /\ widget'[x].interval = widget[x].interval,
         UNCHANGED samplerVars
  PROVE  IInv'
<1>1. started \in BOOLEAN /\ Promise(s, control, started) /\ s.settings = service.settings
  BY DEF IInv, TypeOK, Good, Kept
<1>2. /\ service' \in Service /\ Promise(service', control, started)
      /\ service'.settings = [service.settings EXCEPT ![w] = v]
      /\ service'.intervalSeconds = Fastest(service'.settings)
  BY <1>1, SettingsGood
<1>3. TypeOK'
  BY <1>2 DEF IInv, TypeOK, samplerVars
<1>4. Promise(service, control, started)'
  BY <1>2 DEF samplerVars
<1>5. service.settings \in [Widgets -> Intervals \cup {NOTHING}]
  BY DEF IInv, TypeOK, Service
<1>6. \A x \in Widgets : service'.settings[x] = IF x \in bound' THEN widget'[x].interval
                                                ELSE NOTHING
  BY <1>2, <1>5 DEF IInv, Registered
<1>. QED
  BY <1>2, <1>3, <1>4, <1>6 DEF IInv, Registered

\* What the calls of onOpenedChanged make of the service.
LEMMA OpenCalls ==
  ASSUME NEW s \in Service, NEW full \in BOOLEAN, NEW c, Promise(s, c, full),
         NEW page \in Pages, NEW x
  PROVE  /\ Good(s, SyncFull(SetFocus(AcquireDetail(s), page), x), c, full)
         /\ Good(s, SyncFull(SetFocus(ReleaseDetail(s), page), x), c, full)
<1>1. ASSUME NEW t, Good(s, t, c, full)
      PROVE  Good(s, SyncFull(SetFocus(t, page), x), c, full)
  <2>1. Good(t, SetFocus(t, page), c, full)
    BY <1>1, SetFocusGood DEF Good
  <2>. DEFINE u == SetFocus(t, page)
  <2>2. Good(s, u, c, full)
    BY <1>1, <2>1, GoodGood
  <2>. HIDE DEF u
  <2>3. Good(u, SyncFull(u, x), c, full)
    BY <2>2, SyncFullGood DEF Good
  <2>4. Good(s, SyncFull(u, x), c, full)
    BY <2>2, <2>3, GoodGood
  <2>. QED
    BY <2>4 DEF u
<1>. QED
  BY <1>1, CountsGood

LEMMA Inductive == IInv /\ [Next]_vars => IInv'
<1>. SUFFICES ASSUME IInv, [Next]_vars
              PROVE  IInv'
  OBVIOUS
<1>. USE DEF samplerVars
<1>1. /\ service \in Service /\ started \in BOOLEAN /\ control \in Control
      /\ Promise(service, control, started)
      /\ widget \in [Widgets -> Widget]
      /\ present \subseteq Widgets /\ bound \subseteq present
  BY DEF IInv, TypeOK
<1>2. Good(service, service, control, started)
  BY <1>1 DEF Good, Kept
<1>3. \A w \in Widgets : \A x \in Widget : [widget EXCEPT ![w] = x] \in [Widgets -> Widget]
  BY <1>1
<1>4. ASSUME NEW w \in Widgets, Create(w)
      PROVE  IInv'
  <2>1. PICK i \in Intervals : widget' = [widget EXCEPT ![w] = NewWidget(i)]
    BY <1>4 DEF Create
  <2>2. widget' \in [Widgets -> Widget]
    BY <1>3, <2>1, WidgetTypes
  <2>3. TypeOK'
    BY <1>1, <1>4, <2>2 DEF Create, IInv, TypeOK
  <2>4. \A x \in bound : widget'[x] = widget[x]
    BY <1>1, <1>4, <2>1 DEF Create
  <2>5. Registered'
    BY <1>4, <2>4 DEF Create, IInv, Registered
  <2>. QED
    BY <1>4, <2>3, <2>5 DEF Create, IInv
<1>5. ASSUME NEW w \in Widgets, Bind(w)
      PROVE  IInv'
  <2>1. widget[w].interval \in Intervals
    BY <1>1 DEF Widget
  <2>2. service' = Recompute([service EXCEPT !.settings[w] = widget[w].interval])
    BY <1>5 DEF Bind, RegisterSettings
  <2>3. bound' = bound \cup {w} /\ present' = present /\ widget' = widget
    BY <1>5 DEF Bind
  <2>4. bound' \subseteq present'
    BY <1>1, <1>5 DEF Bind
  <2>. QED
    BY <1>1, <1>2, <1>5, <2>1, <2>2, <2>3, <2>4, SettingsStep DEF Bind
<1>6. ASSUME NEW w \in Widgets, NEW i \in Intervals, ChangeSettings(w, i)
      PROVE  IInv'
  <2>1. widget' = [widget EXCEPT ![w].interval = i] /\ bound' = bound /\ present' = present
    BY <1>6 DEF ChangeSettings
  <2>2. widget' \in [Widgets -> Widget] /\ widget'[w].interval = i
    BY <1>1, <2>1 DEF Widget
  <2>3. \A x \in Widgets \ {w} : widget'[x] = widget[x]
    BY <1>1, <2>1
  <2>4. CASE w \in bound
    <3>1. service' = Recompute([service EXCEPT !.settings[w] = i])
      BY <1>6, <2>4 DEF ChangeSettings, RegisterSettings
    <3>. QED
      BY <1>1, <1>2, <1>6, <2>1, <2>2, <2>3, <2>4, <3>1, SettingsStep DEF ChangeSettings
  <2>5. CASE w \notin bound
    <3>1. service' = service /\ \A x \in bound : widget'[x].interval = widget[x].interval
      BY <1>1, <1>6, <2>3, <2>5 DEF ChangeSettings
    <3>. QED
      BY <1>2, <1>6, <2>2, <3>1, PanelStep DEF ChangeSettings
  <2>. QED
    BY <2>4, <2>5
<1>7. ASSUME NEW w \in Widgets, NEW x \in Widget, x.interval = widget[w].interval,
             widget' = [widget EXCEPT ![w] = x],
             Good(service, service', control, started),
             UNCHANGED <<present, bound, samplerVars>>
      PROVE  IInv'
  <2>1. widget' \in [Widgets -> Widget]
    BY <1>3, <1>7
  <2>2. \A y \in bound : widget'[y].interval = widget[y].interval
    BY <1>1, <1>7
  <2>. QED
    BY <1>7, <2>1, <2>2, PanelStep
<1>8. ASSUME NEW w \in Widgets, Open(w)
      PROVE  IInv'
  <2>. DEFINE x == [widget[w] EXCEPT !.opened = TRUE]
  <2>1. x \in Widget /\ x.interval = widget[w].interval /\ x.tab \in Pages
    BY <1>1 DEF Widget, Tabs
  <2>. HIDE DEF x
  <2>2. CASE w \in bound
    <3>1. /\ service' = SyncFull(SetFocus(AcquireDetail(service), x.tab), x)
          /\ widget' = [widget EXCEPT ![w] = HoldFull(x)]
      BY <1>8, <2>2 DEF Open, x
    <3>2. HoldFull(x) \in Widget /\ HoldFull(x).interval = widget[w].interval
      BY <2>1, WidgetTypes
    <3>3. Good(service, service', control, started)
      BY <1>1, <2>1, <3>1, OpenCalls
    <3>. QED
      BY <1>7, <1>8, <3>1, <3>2, <3>3 DEF Open
  <2>3. CASE w \notin bound
    <3>1. service' = service /\ widget' = [widget EXCEPT ![w] = x]
      BY <1>8, <2>3 DEF Open, x
    <3>. QED
      BY <1>2, <1>7, <1>8, <2>1, <3>1 DEF Open
  <2>. QED
    BY <2>2, <2>3
<1>9. ASSUME NEW w \in Widgets, Close(w)
      PROVE  IInv'
  <2>. DEFINE x == [widget[w] EXCEPT !.opened = FALSE]
  <2>1. x \in Widget /\ x.interval = widget[w].interval
    BY <1>1 DEF Widget
  <2>. HIDE DEF x
  <2>2. CASE w \in bound
    <3>1. /\ service' = SyncFull(SetFocus(ReleaseDetail(service), "none"), x)
          /\ widget' = [widget EXCEPT ![w] = HoldFull(x)]
      BY <1>9, <2>2 DEF Close, x
    <3>2. HoldFull(x) \in Widget /\ HoldFull(x).interval = widget[w].interval
      BY <2>1, WidgetTypes
    <3>3. Good(service, service', control, started)
      BY <1>1, <3>1, OpenCalls
    <3>. QED
      BY <1>7, <1>9, <3>1, <3>2, <3>3 DEF Close
  <2>3. CASE w \notin bound
    <3>1. service' = service /\ widget' = [widget EXCEPT ![w] = x]
      BY <1>9, <2>3 DEF Close, x
    <3>. QED
      BY <1>2, <1>7, <1>9, <2>1, <3>1 DEF Close
  <2>. QED
    BY <2>2, <2>3
<1>10. ASSUME NEW w \in Widgets, NEW t \in Tabs, SelectTab(w, t)
       PROVE  IInv'
  <2>. DEFINE x == [widget[w] EXCEPT !.tab = t]
  <2>1. /\ x \in Widget /\ x.interval = widget[w].interval
        /\ widget' = [widget EXCEPT ![w] = x]
    BY <1>1, <1>10 DEF Widget, SelectTab
  <2>. HIDE DEF x
  <2>2. Good(service, SetFocus(service, t), control, started)
    BY <1>1, SetFocusGood DEF Tabs
  <2>3. Good(service, service', control, started)
    BY <1>2, <1>10, <2>2 DEF SelectTab
  <2>. QED
    BY <1>7, <1>10, <2>1, <2>3 DEF SelectTab
<1>11. ASSUME NEW w \in Widgets, SetExpanded(w)
       PROVE  IInv'
  <2>. DEFINE x == [widget[w] EXCEPT !.expanded = ~@]
  <2>1. x \in Widget /\ x.interval = widget[w].interval
    BY <1>1 DEF Widget
  <2>. HIDE DEF x
  <2>2. CASE w \in bound
    <3>1. /\ service' = SyncFull(service, x)
          /\ widget' = [widget EXCEPT ![w] = HoldFull(x)]
      BY <1>11, <2>2 DEF SetExpanded, x
    <3>2. HoldFull(x) \in Widget /\ HoldFull(x).interval = widget[w].interval
      BY <2>1, WidgetTypes
    <3>3. Good(service, service', control, started)
      BY <1>1, <3>1, SyncFullGood
    <3>. QED
      BY <1>7, <1>11, <3>1, <3>2, <3>3 DEF SetExpanded
  <2>3. CASE w \notin bound
    <3>1. service' = service /\ widget' = [widget EXCEPT ![w] = x]
      BY <1>11, <2>3 DEF SetExpanded, x
    <3>. QED
      BY <1>2, <1>7, <1>11, <2>1, <3>1 DEF SetExpanded
  <2>. QED
    BY <2>2, <2>3
<1>12. ASSUME NEW w \in Widgets, Destroy(w)
       PROVE  IInv'
  <2>1. /\ widget' = [widget EXCEPT ![w] = NewWidget(SECOND)]
        /\ present' = present \ {w} /\ bound' = bound \ {w}
    BY <1>12 DEF Destroy
  <2>2. widget' \in [Widgets -> Widget] /\ \A x \in Widgets \ {w} : widget'[x] = widget[x]
    BY <1>1, <1>3, <2>1, WidgetTypes
  <2>3. CASE w \in bound
    <3>. DEFINE less == IF widget[w].opened THEN ReleaseDetail(service) ELSE service
                rest == IF widget[w].fullHeld THEN ReleaseFull(less) ELSE less
    <3>1. Good(service, less, control, started)
      BY <1>1, <1>2, CountsGood
    <3>2. service' = Recompute([rest EXCEPT !.settings[w] = NOTHING])
      BY <1>12, <2>3 DEF Destroy, UnregisterSettings
    <3>. HIDE DEF less
    <3>3. Good(less, ReleaseFull(less), control, started)
      BY <1>1, <3>1, CountsGood DEF Good
    <3>4. Good(service, rest, control, started)
      BY <3>1, <3>3, GoodGood
    <3>. HIDE DEF rest
    <3>5. rest \in Service
      BY <3>4 DEF Good
    <3>. QED
      BY <1>1, <1>12, <2>1, <2>2, <3>2, <3>4, <3>5, SettingsStep DEF Destroy
  <2>4. CASE w \notin bound
    <3>1. service' = service /\ bound' = bound
      BY <1>12, <2>1, <2>4 DEF Destroy
    <3>2. TypeOK'
      BY <1>1, <1>12, <2>1, <2>2, <2>4, <3>1 DEF Destroy, IInv, TypeOK
    <3>3. Registered'
      BY <2>2, <2>4, <3>1 DEF IInv, Registered
    <3>. QED
      BY <1>12, <3>1, <3>2, <3>3 DEF Destroy, IInv
  <2>. QED
    BY <2>3, <2>4
<1>13. CASE OnStarted
  <2>1. service.running /\ started = FALSE /\ started' = TRUE /\ service' = Replay(service)
    BY <1>1, <1>13 DEF OnStarted
  <2>2. Good(service, service', control, TRUE)
    BY <1>1, <2>1, ReplayTells
  <2>3. TypeOK'
    BY <1>1, <1>13, <2>1, <2>2 DEF OnStarted, IInv, TypeOK, Good
  <2>4. Registered'
    BY <1>13, <2>2 DEF OnStarted, IInv, Registered, Good, Kept
  <2>. QED
    BY <1>13, <2>1, <2>2, <2>3, <2>4 DEF OnStarted, IInv, Good
<1>14. CASE Listen
  <2>. DEFINE pipe == service.pipe
              rest == Tail(pipe)
              line == Head(pipe)
  <2>1. /\ pipe \in Seq(Line) /\ pipe # <<>> /\ line \in Line /\ rest \in Seq(Line)
        /\ service' = [service EXCEPT !.pipe = rest]
        /\ control' = Obey(control, line)
    BY <1>1, <1>14, HeadTailProperties DEF Listen, Service
  <2>2. service' \in Service /\ service'.pipe = rest /\ Alike(service, service')
    <3>. HIDE DEF rest
    <3>. QED
      BY <1>1, <2>1, PipeReplaced
  <2>3. control' \in Control
    BY <1>1, <2>1 DEF Obey, Control, Line, Levels
  <2>4. /\ control'.detail = IF line.op = "detail" THEN line.arg ELSE control.detail
        /\ control'.focus = IF line.op = "focus" THEN line.arg ELSE control.focus
        /\ control'.interval = IF line.op = "interval" THEN line.arg ELSE control.interval
    BY <2>1 DEF Obey
  <2>5. /\ \A v : WillKnow(control.detail, pipe, "detail", v)
                    => WillKnow(control'.detail, rest, "detail", v)
        /\ \A v : WillKnow(control.focus, pipe, "focus", v)
                    => WillKnow(control'.focus, rest, "focus", v)
        /\ \A v : WillKnow(control.interval, pipe, "interval", v)
                    => WillKnow(control'.interval, rest, "interval", v)
    BY <2>1, <2>4, WillKnowRead
  <2>6. service.running
    BY <1>1, <2>1 DEF Promise
  <2>. HIDE DEF rest, line, pipe
  <2>7. Promise(service', control', started)
    BY <1>1, <2>2, <2>5, <2>6 DEF Promise, Alike, Kept, pipe
  <2>8. TypeOK'
    BY <1>14, <2>2, <2>3 DEF Listen, IInv, TypeOK
  <2>9. Registered'
    BY <1>14, <2>2 DEF Listen, IInv, Registered, Alike, Kept
  <2>. QED
    BY <1>14, <2>7, <2>8, <2>9 DEF Listen, IInv
<1>15. CASE Exit
  BY <1>15 DEF Exit, IInv, TypeOK, Registered
<1>16. CASE OnExited
  <2>1. service' = [service EXCEPT !.running = FALSE, !.pipe = <<>>]
    BY <1>16 DEF OnExited
  <2>2. /\ service' \in Service /\ ~service'.running /\ service'.pipe = <<>>
        /\ service'.settings = service.settings
        /\ service'.intervalSeconds = service.intervalSeconds
    <3>1. <<>> \in Seq(Line)
      OBVIOUS
    <3>2. service' \in Service
      BY <1>1, <2>1, <3>1 DEF Service
    <3>3. ~service'.running /\ service'.pipe = <<>>
      BY <1>1, <2>1 DEF Service
    <3>4. service'.settings = service.settings
      BY <1>1, <2>1 DEF Service
    <3>5. service'.intervalSeconds = service.intervalSeconds
      BY <1>1, <2>1 DEF Service
    <3>. QED
      BY <3>2, <3>3, <3>4, <3>5
  <2>3. TypeOK'
    BY <1>16, <2>2 DEF OnExited, IInv, TypeOK
  <2>4. Promise(service, control, started)'
    BY <2>2 DEF Promise
  <2>5. Registered'
    BY <1>16, <2>2 DEF OnExited, IInv, Registered
  <2>. QED
    BY <2>3, <2>4, <2>5 DEF IInv
<1>17. CASE Restart
  <2>1. /\ service' = [service EXCEPT !.running = TRUE] /\ started' = FALSE /\ alive' = TRUE
        /\ control' = FreshControl
    BY <1>17 DEF Restart
  <2>2. service.pipe = <<>>
    BY <1>1, <1>17 DEF Restart, Promise
  <2>3. /\ service' \in Service /\ service'.running /\ service'.pipe = <<>>
        /\ service'.settings = service.settings
        /\ service'.intervalSeconds = service.intervalSeconds
    BY <1>1, <2>1, <2>2 DEF Service
  <2>4. /\ control' \in Control
        /\ control'.detail = 0 /\ control'.focus = "none" /\ control'.interval = SECOND
    BY <2>1 DEF FreshControl, Control, Levels
  <2>5. TypeOK'
    BY <1>17, <2>1, <2>3, <2>4 DEF Restart, IInv, TypeOK
  <2>6. Promise(service, control, started)'
    BY <2>1, <2>3, <2>4 DEF Promise, WillKnow
  <2>7. Registered'
    BY <1>17, <2>3 DEF Restart, IInv, Registered
  <2>. QED
    BY <2>5, <2>6, <2>7 DEF IInv
<1>18. CASE UNCHANGED vars
  BY <1>18 DEF vars, IInv, TypeOK, Registered
<1>. QED
  BY <1>4, <1>5, <1>6, <1>8, <1>9, <1>10, <1>11, <1>12, <1>13, <1>14, <1>15, <1>16,
     <1>17, <1>18 DEF Next, Sampler

LEMMA Invariant == Spec => []IInv
BY InitIInv, Inductive, PTL DEF Spec

\* Every state of the widgets, the service and the listener is well formed
\* (the properties of OmaStatsWidget.qml and OmaStatsService.qml).
THEOREM TypeCorrect == Spec => []TypeOK
<1>1. IInv => TypeOK
  BY DEF IInv
<1>. QED
  BY <1>1, Invariant, PTL

\* Whatever panels do while samplers crash and restart, a sampler that has
\* been told on start (onStarted in OmaStatsService.qml) knows, or is about to
\* read, the service's level of detail, page and interval.
THEOREM SamplerTold == Spec => []SamplerIsTold
<1>1. IInv => SamplerIsTold
  BY DEF IInv, Promise, SamplerIsTold
<1>. QED
  BY <1>1, Invariant, PTL

\* The interval the service asks for is the fastest any bar asks for
\* (recomputeSettings in OmaStatsService.qml).
THEOREM FastestAsked == Spec => []IntervalIsFastest
<1>1. IInv => IntervalIsFastest
  <2>. SUFFICES ASSUME IInv
                PROVE  IntervalIsFastest
    OBVIOUS
  <2>. DEFINE asked == {service.settings[w] : w \in Widgets} \ {NOTHING}
              held == {widget[w].interval : w \in bound}
  <2>1. /\ bound \subseteq Widgets
        /\ \A w \in Widgets : widget[w].interval # NOTHING
        /\ \A w \in Widgets : service.settings[w] = IF w \in bound THEN widget[w].interval
                                                    ELSE NOTHING
    BY DEF IInv, TypeOK, Registered, Widget, NOTHING
  <2>2. asked = held
    BY <2>1
  <2>3. held = {} <=> bound = {}
    OBVIOUS
  <2>4. service.intervalSeconds = IF asked = {} THEN SECOND ELSE Min(asked)
    BY DEF IInv, Registered, Fastest
  <2>. QED
    BY <2>2, <2>3, <2>4 DEF IntervalIsFastest
<1>. QED
  BY <1>1, Invariant, PTL

-----------------------------------------------------------------------------
(* What the methods make of the reference counts and of the page.            *)

Holds(s, details, fulls, page) ==
  s.detailRefs = details /\ s.fullRefs = fulls /\ s.focusPage = page

\* A count of those who hold a reference, as one of them takes or drops it.
Counted(n, held, holds) ==
  CASE ~held /\ holds -> n + 1
    [] held /\ ~holds -> Dec(n)
    [] OTHER -> n

LEMMA SendHolds ==
  ASSUME NEW s \in Service, NEW kind, NEW value
  PROVE  Holds(Send(s, kind, value), s.detailRefs, s.fullRefs, s.focusPage)
<1>. DEFINE longer == Append(s.pipe, [op |-> kind, arg |-> value])
<1>1. Send(s, kind, value) \in {s, [s EXCEPT !.pipe = longer]}
  BY DEF Send
<1>. HIDE DEF longer
<1>. QED
  BY <1>1 DEF Holds, Service

LEMMA SyncDetailHolds ==
  ASSUME NEW s \in Service
  PROVE  Holds(SyncDetail(s), s.detailRefs, s.fullRefs, s.focusPage)
<1>. DEFINE level == IF s.detailRefs > 0 THEN (IF s.fullRefs > 0 THEN 2 ELSE 1) ELSE 0
            u == [s EXCEPT !.sentDetail = level]
<1>1. level \in Levels
  BY DEF Levels
<1>2. SyncDetail(s) \in {s, Send(u, "detail", level)}
  BY DEF SyncDetail
<1>. HIDE DEF level
<1>3. u \in Service /\ Holds(u, s.detailRefs, s.fullRefs, s.focusPage)
  BY <1>1 DEF Service, Holds
<1>. HIDE DEF u
<1>. QED
  BY <1>2, <1>3, SendHolds DEF Holds

LEMMA CountsHold ==
  ASSUME NEW s \in Service
  PROVE  /\ Holds(AcquireDetail(s), s.detailRefs + 1, s.fullRefs, s.focusPage)
         /\ Holds(ReleaseDetail(s), Dec(s.detailRefs), s.fullRefs, s.focusPage)
         /\ Holds(AcquireFull(s), s.detailRefs, s.fullRefs + 1, s.focusPage)
         /\ Holds(ReleaseFull(s), s.detailRefs, Dec(s.fullRefs), s.focusPage)
<1>1. ASSUME NEW n \in Nat
      PROVE  /\ Holds(SyncDetail([s EXCEPT !.detailRefs = n]), n, s.fullRefs, s.focusPage)
             /\ Holds(SyncDetail([s EXCEPT !.fullRefs = n]), s.detailRefs, n, s.focusPage)
  <2>. DEFINE d == [s EXCEPT !.detailRefs = n]
              f == [s EXCEPT !.fullRefs = n]
  <2>1. /\ d \in Service /\ Holds(d, n, s.fullRefs, s.focusPage)
        /\ f \in Service /\ Holds(f, s.detailRefs, n, s.focusPage)
    BY DEF Service, Holds
  <2>. HIDE DEF d, f
  <2>2. /\ Holds(SyncDetail(d), n, s.fullRefs, s.focusPage)
        /\ Holds(SyncDetail(f), s.detailRefs, n, s.focusPage)
    BY <2>1, SyncDetailHolds DEF Holds
  <2>. QED
    BY <2>2 DEF d, f
<1>2. /\ s.detailRefs + 1 \in Nat /\ Dec(s.detailRefs) \in Nat
      /\ s.fullRefs + 1 \in Nat /\ Dec(s.fullRefs) \in Nat
  BY DEF Service, Dec
<1>. QED
  BY <1>1, <1>2 DEF AcquireDetail, ReleaseDetail, AcquireFull, ReleaseFull

LEMMA SetFocusHolds ==
  ASSUME NEW s \in Service, NEW page \in Pages
  PROVE  Holds(SetFocus(s, page), s.detailRefs, s.fullRefs, page)
<1>. DEFINE u == [s EXCEPT !.focusPage = page]
<1>1. u \in Service /\ Holds(u, s.detailRefs, s.fullRefs, page)
  BY DEF Service, Holds
<1>2. SetFocus(s, page) = IF page = s.focusPage THEN s ELSE Send(u, "focus", page)
  BY DEF SetFocus
<1>. HIDE DEF u
<1>. QED
  BY <1>1, <1>2, SendHolds DEF Holds

LEMMA RecomputeHolds ==
  ASSUME NEW s \in Service, NEW w \in Widgets, NEW v \in Intervals \cup {NOTHING}
  PROVE  Holds(Recompute([s EXCEPT !.settings[w] = v]),
               s.detailRefs, s.fullRefs, s.focusPage)
<1>. DEFINE u == [s EXCEPT !.settings[w] = v]
            i == Fastest(u.settings)
            t == [u EXCEPT !.intervalSeconds = i]
<1>1. u \in Service /\ Holds(u, s.detailRefs, s.fullRefs, s.focusPage)
  BY DEF Service, Holds
<1>2. Recompute(u) = IF i = u.intervalSeconds THEN u ELSE Send(t, "interval", i)
  BY DEF Recompute
<1>. HIDE DEF u
<1>3. i \in Intervals
  BY <1>1, FastestType DEF Service
<1>. HIDE DEF i
<1>4. t \in Service /\ Holds(t, s.detailRefs, s.fullRefs, s.focusPage)
  BY <1>1, <1>3 DEF Service, Holds
<1>. HIDE DEF t
<1>5. Holds(Recompute(u), s.detailRefs, s.fullRefs, s.focusPage)
  BY <1>1, <1>2, <1>4, SendHolds DEF Holds
<1>. QED
  BY <1>5 DEF u

LEMMA SyncFullHolds ==
  ASSUME NEW s \in Service, NEW x \in Widget
  PROVE  Holds(SyncFull(s, x), s.detailRefs,
               Counted(s.fullRefs, x.fullHeld, WantsFull(x)), s.focusPage)
<1>1. WantsFull(x) \in BOOLEAN /\ x.fullHeld \in BOOLEAN
  BY DEF WantsFull, Widget
<1>. HIDE DEF WantsFull
<1>. QED
  BY <1>1, CountsHold DEF SyncFull, Counted, Holds

\* The calls of onOpenedChanged, of a panel that opens and of one that closes.
LEMMA OpenHolds ==
  ASSUME NEW s \in Service, NEW full \in BOOLEAN, NEW c, Promise(s, c, full),
         NEW page \in Pages, NEW x \in Widget
  PROVE  /\ Holds(SyncFull(SetFocus(AcquireDetail(s), page), x), s.detailRefs + 1,
                  Counted(s.fullRefs, x.fullHeld, WantsFull(x)), page)
         /\ Holds(SyncFull(SetFocus(ReleaseDetail(s), page), x), Dec(s.detailRefs),
                  Counted(s.fullRefs, x.fullHeld, WantsFull(x)), page)
<1>1. ASSUME NEW t, NEW n, Good(s, t, c, full), Holds(t, n, s.fullRefs, s.focusPage)
      PROVE  Holds(SyncFull(SetFocus(t, page), x), n,
                   Counted(s.fullRefs, x.fullHeld, WantsFull(x)), page)
  <2>. DEFINE u == SetFocus(t, page)
  <2>1. u \in Service
    BY <1>1, SetFocusGood DEF Good
  <2>2. Holds(u, n, s.fullRefs, page)
    BY <1>1, SetFocusHolds DEF Good, Holds
  <2>. HIDE DEF u
  <2>3. Holds(SyncFull(u, x), u.detailRefs,
              Counted(u.fullRefs, x.fullHeld, WantsFull(x)), u.focusPage)
    BY <2>1, SyncFullHolds
  <2>4. u.detailRefs = n /\ u.fullRefs = s.fullRefs /\ u.focusPage = page
    BY <2>2 DEF Holds
  <2>5. Holds(SyncFull(u, x), n, Counted(s.fullRefs, x.fullHeld, WantsFull(x)), page)
    BY <2>3, <2>4
  <2>. QED
    BY <2>5 DEF u
<1>. QED
  BY <1>1, CountsGood, CountsHold

\* What a sampler is told on start changes none of them.
LEMMA ReplayHolds ==
  ASSUME NEW s \in Service, NEW c, s.running, Promise(s, c, FALSE)
  PROVE  Holds(Replay(s), s.detailRefs, s.fullRefs, s.focusPage)
<1>. DEFINE d == IF s.sentDetail > 0 THEN Send(s, "detail", s.sentDetail) ELSE s
            f == IF s.focusPage # "none" THEN Send(d, "focus", s.focusPage) ELSE d
<1>1. /\ \A v \in Levels : [op |-> "detail", arg |-> v] \in Line
      /\ [op |-> "focus", arg |-> s.focusPage] \in Line
      /\ s.sentDetail \in Levels
  BY LineTypes DEF Service
<1>2. ASSUME NEW t \in Service, NEW kind, NEW value, [op |-> kind, arg |-> value] \in Line,
             Holds(t, s.detailRefs, s.fullRefs, s.focusPage)
      PROVE  /\ Send(t, kind, value) \in Service
             /\ Holds(Send(t, kind, value), s.detailRefs, s.fullRefs, s.focusPage)
  <2>. DEFINE u == Send(t, kind, value)
  <2>1. u \in Service
    BY <1>2, SendTells
  <2>2. Holds(u, t.detailRefs, t.fullRefs, t.focusPage)
    BY <1>2, SendHolds
  <2>. HIDE DEF u
  <2>3. Holds(u, s.detailRefs, s.fullRefs, s.focusPage)
    BY <1>2, <2>2 DEF Holds
  <2>. QED
    BY <2>1, <2>3 DEF u
<1>3. Replay(s) = IF s.intervalSeconds # SECOND
                  THEN Send(f, "interval", s.intervalSeconds) ELSE f
  BY DEF Replay
<1>4. Holds(s, s.detailRefs, s.fullRefs, s.focusPage)
  BY DEF Holds
<1>5. d \in Service /\ Holds(d, s.detailRefs, s.fullRefs, s.focusPage)
  BY <1>1, <1>2, <1>4
<1>. HIDE DEF d
<1>6. f \in Service /\ Holds(f, s.detailRefs, s.fullRefs, s.focusPage)
  BY <1>1, <1>2, <1>5
<1>. HIDE DEF f
<1>. QED
  BY <1>3, <1>6, SendHolds DEF Holds

-----------------------------------------------------------------------------
(* The references.  When every widget finds the service before its panel can *)
(* open, only a bound widget is open and its fullHeld is what it wants.      *)

Held ==
  \A w \in Widgets :
    /\ w \notin bound => ~widget[w].opened
    /\ widget[w].fullHeld = WantsFull(widget[w])

Unfolded == {w \in bound : WantsFull(widget[w])}

RefsInv == Held /\ RefsBalanced

\* One widget joins a set of widgets, leaves it, or stays.
LEMMA CountChanges ==
  ASSUME NEW S, S \subseteq Widgets, NEW T, NEW w \in Widgets, T \ {w} = S \ {w}
  PROVE  Cardinality(T) = Counted(Cardinality(S), w \in S, w \in T)
<1>1. IsFiniteSet(S)
  BY FS_Subset
<1>2. Cardinality(S) \in Nat /\ (Cardinality(S) = 0 <=> S = {})
  BY <1>1, FS_CardinalityType, FS_EmptySet
<1>3. CASE w \notin S /\ w \in T
  <2>1. T = S \cup {w}
    BY <1>3
  <2>2. Cardinality(T) = Cardinality(S) + 1
    BY <1>1, <1>3, <2>1, FS_AddElement
  <2>. QED
    BY <1>3, <2>2 DEF Counted
<1>4. CASE w \in S /\ w \notin T
  <2>1. T = S \ {w}
    BY <1>4
  <2>2. Cardinality(T) = Cardinality(S) - 1
    BY <1>1, <1>4, <2>1, FS_RemoveElement
  <2>. QED
    BY <1>2, <1>4, <2>2 DEF Counted, Dec
<1>5. CASE w \in S <=> w \in T
  <2>1. T = S
    BY <1>5
  <2>. QED
    BY <1>5, <2>1 DEF Counted
<1>. QED
  BY <1>3, <1>4, <1>5

\* A handler of widget w that counts what it takes and drops.
LEMMA RefsStep ==
  ASSUME IInv, RefsInv, NEW w \in Widgets, NEW y \in Widget,
         widget' = [widget EXCEPT ![w] = y],
         bound' \ {w} = bound \ {w}, w \notin bound' => ~y.opened,
         y.fullHeld = WantsFull(y),
         service'.detailRefs = Counted(service.detailRefs, widget[w].opened, y.opened),
         service'.fullRefs = Counted(service.fullRefs, widget[w].fullHeld, y.fullHeld)
  PROVE  RefsInv'
<1>1. /\ bound \subseteq Widgets /\ widget \in [Widgets -> Widget]
      /\ widget[w].opened \in BOOLEAN /\ widget[w].fullHeld \in BOOLEAN
      /\ y.opened \in BOOLEAN /\ y.fullHeld \in BOOLEAN
  BY DEF IInv, TypeOK, Widget
<1>2. widget'[w] = y /\ \A v \in Widgets \ {w} : widget'[v] = widget[v]
  BY <1>1
<1>3. Held'
  BY <1>2 DEF RefsInv, Held, WantsFull
<1>4. /\ (w \in Showing) = widget[w].opened
      /\ (w \in Showing') = y.opened
      /\ Showing' \ {w} = Showing \ {w}
  BY <1>1, <1>2 DEF RefsInv, Held, Showing
<1>5. Cardinality(Showing') = service'.detailRefs
  <2>1. Cardinality(Showing') = Counted(Cardinality(Showing), w \in Showing, w \in Showing')
    BY <1>1, <1>4, CountChanges DEF Showing
  <2>. QED
    BY <1>4, <2>1 DEF RefsInv, RefsBalanced
<1>6. /\ (w \in Unfolded) = widget[w].fullHeld
      /\ (w \in Unfolded') = y.fullHeld
      /\ Unfolded' \ {w} = Unfolded \ {w}
  BY <1>1, <1>2 DEF RefsInv, Held, Unfolded, WantsFull
<1>7. Cardinality(Unfolded') = service'.fullRefs
  <2>1. Cardinality(Unfolded') = Counted(Cardinality(Unfolded), w \in Unfolded, w \in Unfolded')
    BY <1>1, <1>6, CountChanges DEF Unfolded
  <2>2. Cardinality(Unfolded) = service.fullRefs
    BY DEF RefsInv, RefsBalanced, Unfolded
  <2>. QED
    BY <1>6, <2>1, <2>2
<1>. QED
  BY <1>3, <1>5, <1>7 DEF RefsInv, RefsBalanced, Unfolded

\* A step that opens, closes, unfolds and folds nothing.
LEMMA RefsKept ==
  ASSUME RefsInv, service'.detailRefs = service.detailRefs,
         service'.fullRefs = service.fullRefs, UNCHANGED <<widget, bound>>
  PROVE  RefsInv'
BY DEF RefsInv, RefsBalanced, Held, Showing

LEMMA NewWidgetCloses ==
  \A i \in Intervals : ~NewWidget(i).opened /\ NewWidget(i).fullHeld = WantsFull(NewWidget(i))
BY DEF NewWidget, WantsFull

\* What a handler makes of a widget's fullHeld is what the widget wants.
LEMMA HoldFullHolds ==
  ASSUME NEW x \in Widget
  PROVE  /\ HoldFull(x) \in Widget
         /\ HoldFull(x).fullHeld = WantsFull(HoldFull(x))
         /\ HoldFull(x).fullHeld = WantsFull(x)
         /\ HoldFull(x).opened = x.opened
<1>1. WantsFull(x) \in BOOLEAN
  BY DEF WantsFull, Widget
<1>2. HoldFull(x).fullHeld = WantsFull(x)
  BY DEF HoldFull, Widget
<1>3. HoldFull(x).opened = x.opened /\ HoldFull(x).expanded = x.expanded
  BY DEF HoldFull, Widget
<1>. QED
  BY <1>2, <1>3, WidgetTypes DEF WantsFull

LEMMA RefsInductive == ~LateService /\ IInv /\ RefsInv /\ [Next]_vars => RefsInv'
<1>. SUFFICES ASSUME ~LateService, IInv, RefsInv, [Next]_vars
              PROVE  RefsInv'
  OBVIOUS
<1>1. /\ service \in Service /\ started \in BOOLEAN
      /\ Promise(service, control, started)
      /\ widget \in [Widgets -> Widget]
      /\ present \subseteq Widgets /\ bound \subseteq present
  BY DEF IInv, TypeOK
<1>2. \A n, b : Counted(n, b, b) = n
  BY DEF Counted
<1>3. \A w \in Widgets : /\ widget[w] \in Widget
                         /\ widget[w].fullHeld = WantsFull(widget[w])
                         /\ w \notin bound => ~widget[w].opened
  BY <1>1 DEF RefsInv, Held
\* A handler of a widget that is not bound calls nothing and opens nothing.
<1>4. ASSUME NEW w \in Widgets, NEW y \in Widget, w \notin bound,
             widget' = [widget EXCEPT ![w] = y], ~y.opened, y.fullHeld = WantsFull(y),
             UNCHANGED <<bound, service>>
      PROVE  RefsInv'
  <2>1. ~widget[w].opened /\ ~widget[w].fullHeld /\ ~y.fullHeld
    BY <1>3, <1>4 DEF WantsFull
  <2>2. /\ service'.detailRefs = Counted(service.detailRefs, widget[w].opened, y.opened)
        /\ service'.fullRefs = Counted(service.fullRefs, widget[w].fullHeld, y.fullHeld)
    BY <1>4, <2>1 DEF Counted
  <2>. QED
    BY <1>4, <2>2, RefsStep
\* One that leaves both references as they are.
<1>5. ASSUME NEW w \in Widgets, NEW y \in Widget,
             widget' = [widget EXCEPT ![w] = y], bound' = bound,
             y.opened = widget[w].opened, y.fullHeld = widget[w].fullHeld,
             y.expanded = widget[w].expanded,
             service'.detailRefs = service.detailRefs,
             service'.fullRefs = service.fullRefs
      PROVE  RefsInv'
  <2>1. y.fullHeld = WantsFull(y) /\ (w \notin bound => ~y.opened)
    BY <1>3, <1>5 DEF WantsFull
  <2>. QED
    BY <1>2, <1>5, <2>1, RefsStep
<1>6. ASSUME NEW w \in Widgets, Create(w)
      PROVE  RefsInv'
  <2>1. PICK i \in Intervals : widget' = [widget EXCEPT ![w] = NewWidget(i)]
    BY <1>6 DEF Create
  <2>2. w \notin bound /\ UNCHANGED <<bound, service>>
    BY <1>1, <1>6 DEF Create
  <2>3. NewWidget(i) \in Widget
    BY WidgetTypes
  <2>. HIDE DEF NewWidget
  <2>. QED
    BY <1>4, <2>1, <2>2, <2>3, NewWidgetCloses
<1>7. ASSUME NEW w \in Widgets, Bind(w)
      PROVE  RefsInv'
  <2>1. service' = Recompute([service EXCEPT !.settings[w] = widget[w].interval])
    BY <1>7 DEF Bind, RegisterSettings
  <2>2. widget[w].interval \in Intervals
    BY <1>3 DEF Widget
  <2>3. Holds(service', service.detailRefs, service.fullRefs, service.focusPage)
    BY <1>1, <2>1, <2>2, RecomputeHolds
  <2>4. w \notin bound /\ bound' = bound \cup {w} /\ widget' = widget
    BY <1>7 DEF Bind
  <2>5. Held'
    BY <2>4 DEF RefsInv, Held
  <2>6. Showing' = Showing
    BY <1>3, <2>4 DEF Showing
  <2>7. {v \in bound : WantsFull(widget[v])}' = {v \in bound : WantsFull(widget[v])}
    BY <1>3, <2>4 DEF WantsFull
  <2>. QED
    BY <2>3, <2>5, <2>6, <2>7 DEF RefsInv, RefsBalanced, Holds
<1>8. ASSUME NEW w \in Widgets, NEW i \in Intervals, ChangeSettings(w, i)
      PROVE  RefsInv'
  <2>. DEFINE y == [widget[w] EXCEPT !.interval = i]
  <2>1. /\ widget' = [widget EXCEPT ![w] = y] /\ bound' = bound
        /\ y \in Widget /\ y.opened = widget[w].opened
        /\ y.fullHeld = widget[w].fullHeld /\ y.expanded = widget[w].expanded
    BY <1>3, <1>8 DEF ChangeSettings, Widget
  <2>2. service' \in {service, Recompute([service EXCEPT !.settings[w] = i])}
    BY <1>8 DEF ChangeSettings, RegisterSettings
  <2>3. Holds(service', service.detailRefs, service.fullRefs, service.focusPage)
    BY <1>1, <2>2, RecomputeHolds DEF Holds
  <2>. HIDE DEF y
  <2>. QED
    BY <1>5, <2>1, <2>3 DEF Holds
<1>9. ASSUME NEW w \in Widgets, Open(w)
      PROVE  RefsInv'
  <2>. DEFINE x == [widget[w] EXCEPT !.opened = TRUE]
              y == HoldFull(x)
  <2>1. /\ x \in Widget /\ x.opened /\ x.tab \in Pages
        /\ x.fullHeld = widget[w].fullHeld
    BY <1>3 DEF Widget, Tabs
  <2>2. /\ w \in bound /\ ~widget[w].opened /\ bound' = bound
        /\ widget' = [widget EXCEPT ![w] = y]
        /\ service' = SyncFull(SetFocus(AcquireDetail(service), x.tab), x)
    BY <1>9 DEF Open
  <2>. HIDE DEF x
  <2>3. /\ y \in Widget /\ y.opened
        /\ y.fullHeld = WantsFull(y) /\ y.fullHeld = WantsFull(x)
    BY <2>1, HoldFullHolds
  <2>4. Holds(service', service.detailRefs + 1,
              Counted(service.fullRefs, x.fullHeld, WantsFull(x)), x.tab)
    BY <1>1, <2>1, <2>2, OpenHolds
  <2>. HIDE DEF y
  <2>5. service'.detailRefs = Counted(service.detailRefs, widget[w].opened, y.opened)
    BY <2>2, <2>3, <2>4 DEF Holds, Counted
  <2>6. service'.fullRefs = Counted(service.fullRefs, widget[w].fullHeld, y.fullHeld)
    BY <2>1, <2>3, <2>4 DEF Holds
  <2>. QED
    BY <2>2, <2>3, <2>5, <2>6, RefsStep
<1>10. ASSUME NEW w \in Widgets, Close(w)
       PROVE  RefsInv'
  <2>. DEFINE x == [widget[w] EXCEPT !.opened = FALSE]
              y == HoldFull(x)
  <2>1. x \in Widget /\ ~x.opened /\ x.fullHeld = widget[w].fullHeld
    BY <1>3 DEF Widget
  <2>2. /\ widget[w].opened /\ bound' = bound
        /\ w \in bound
    BY <1>3, <1>10 DEF Close
  <2>3. /\ widget' = [widget EXCEPT ![w] = y]
        /\ service' = SyncFull(SetFocus(ReleaseDetail(service), "none"), x)
    BY <1>10, <2>2 DEF Close
  <2>. HIDE DEF x
  <2>4. /\ y \in Widget /\ ~y.opened
        /\ y.fullHeld = WantsFull(y) /\ y.fullHeld = WantsFull(x)
    BY <2>1, HoldFullHolds
  <2>5. Holds(service', Dec(service.detailRefs),
              Counted(service.fullRefs, x.fullHeld, WantsFull(x)), "none")
    BY <1>1, <2>1, <2>3, OpenHolds
  <2>. HIDE DEF y
  <2>6. service'.detailRefs = Counted(service.detailRefs, widget[w].opened, y.opened)
    BY <2>2, <2>4, <2>5 DEF Holds, Counted
  <2>7. service'.fullRefs = Counted(service.fullRefs, widget[w].fullHeld, y.fullHeld)
    BY <2>1, <2>4, <2>5 DEF Holds
  <2>. QED
    BY <2>2, <2>3, <2>4, <2>6, <2>7, RefsStep
<1>11. ASSUME NEW w \in Widgets, NEW t \in Tabs, SelectTab(w, t)
       PROVE  RefsInv'
  <2>. DEFINE y == [widget[w] EXCEPT !.tab = t]
  <2>1. /\ widget' = [widget EXCEPT ![w] = y] /\ bound' = bound
        /\ y \in Widget /\ y.opened = widget[w].opened
        /\ y.fullHeld = widget[w].fullHeld /\ y.expanded = widget[w].expanded
    BY <1>3, <1>11 DEF SelectTab, Widget
  <2>2. service' \in {service, SetFocus(service, t)}
    BY <1>11 DEF SelectTab
  <2>3. service'.detailRefs = service.detailRefs /\ service'.fullRefs = service.fullRefs
    BY <1>1, <2>2, SetFocusHolds DEF Holds, Tabs
  <2>. HIDE DEF y
  <2>. QED
    BY <1>5, <2>1, <2>3
<1>12. ASSUME NEW w \in Widgets, SetExpanded(w)
       PROVE  RefsInv'
  <2>. DEFINE x == [widget[w] EXCEPT !.expanded = ~@]
              y == HoldFull(x)
  <2>1. /\ x \in Widget /\ x.opened = widget[w].opened
        /\ x.fullHeld = widget[w].fullHeld
    BY <1>3 DEF Widget
  <2>2. bound' = bound
    BY <1>12 DEF SetExpanded
  <2>3. CASE w \in bound
    <3>1. /\ widget' = [widget EXCEPT ![w] = y]
          /\ service' = SyncFull(service, x)
      BY <1>12, <2>3 DEF SetExpanded
    <3>. HIDE DEF x
    <3>2. /\ y \in Widget /\ y.opened = widget[w].opened
          /\ y.fullHeld = WantsFull(y) /\ y.fullHeld = WantsFull(x)
      BY <2>1, HoldFullHolds
    <3>3. Holds(service', service.detailRefs,
                Counted(service.fullRefs, x.fullHeld, WantsFull(x)), service.focusPage)
      BY <1>1, <2>1, <3>1, SyncFullHolds
    <3>. HIDE DEF y
    <3>4. service'.detailRefs = Counted(service.detailRefs, widget[w].opened, y.opened)
      BY <1>2, <3>2, <3>3 DEF Holds
    <3>5. service'.fullRefs = Counted(service.fullRefs, widget[w].fullHeld, y.fullHeld)
      BY <2>1, <3>2, <3>3 DEF Holds
    <3>. QED
      BY <2>2, <2>3, <3>1, <3>2, <3>4, <3>5, RefsStep
  <2>4. CASE w \notin bound
    <3>1. widget' = [widget EXCEPT ![w] = x] /\ service' = service
      BY <1>12, <2>4 DEF SetExpanded
    <3>. HIDE DEF x
    <3>2. ~x.opened /\ x.fullHeld = WantsFull(x)
      BY <1>3, <2>1, <2>4 DEF WantsFull
    <3>. QED
      BY <1>4, <2>1, <2>2, <2>4, <3>1, <3>2
  <2>. QED
    BY <2>3, <2>4
<1>13. ASSUME NEW w \in Widgets, Destroy(w)
       PROVE  RefsInv'
  <2>. DEFINE y == NewWidget(SECOND)
  <2>1. /\ y \in Widget /\ ~y.opened /\ ~y.fullHeld /\ y.fullHeld = WantsFull(y)
    BY WidgetTypes, NewWidgetCloses DEF WantsFull
  <2>2. widget' = [widget EXCEPT ![w] = y] /\ bound' = bound \ {w}
    BY <1>13 DEF Destroy
  <2>. HIDE DEF y
  <2>3. widget[w].opened \in BOOLEAN /\ widget[w].fullHeld \in BOOLEAN
    BY <1>3 DEF Widget
  <2>4. CASE w \in bound
    <3>. DEFINE less == IF widget[w].opened THEN ReleaseDetail(service) ELSE service
                rest == IF widget[w].fullHeld THEN ReleaseFull(less) ELSE less
    <3>1. service' = Recompute([rest EXCEPT !.settings[w] = NOTHING])
      BY <1>13, <2>4 DEF Destroy, UnregisterSettings
    <3>2. /\ less \in Service
          /\ less.detailRefs = Counted(service.detailRefs, widget[w].opened, FALSE)
          /\ less.fullRefs = service.fullRefs
          /\ Promise(less, control, started)
      <4>1. CASE widget[w].opened
        BY <1>1, <4>1, CountsGood, CountsHold DEF Good, Holds, Counted
      <4>2. CASE ~widget[w].opened
        BY <1>1, <4>2 DEF Counted
      <4>. QED
        BY <4>1, <4>2
    <3>. HIDE DEF less
    <3>3. /\ rest \in Service
          /\ rest.detailRefs = less.detailRefs
          /\ rest.fullRefs = Counted(less.fullRefs, widget[w].fullHeld, FALSE)
      <4>1. CASE widget[w].fullHeld
        BY <1>1, <3>2, <4>1, CountsGood, CountsHold DEF Good, Holds, Counted
      <4>2. CASE ~widget[w].fullHeld
        BY <3>2, <4>2 DEF Counted
      <4>. QED
        BY <2>3, <4>1, <4>2
    <3>. HIDE DEF rest
    <3>4. Holds(service', rest.detailRefs, rest.fullRefs, rest.focusPage)
      BY <3>1, <3>3, RecomputeHolds
    <3>5. y.opened = FALSE /\ y.fullHeld = FALSE
      BY <2>1 DEF Widget
    <3>6. /\ service'.detailRefs = Counted(service.detailRefs, widget[w].opened, y.opened)
          /\ service'.fullRefs = Counted(service.fullRefs, widget[w].fullHeld, y.fullHeld)
      BY <3>2, <3>3, <3>4, <3>5 DEF Holds
    <3>7. bound' \ {w} = bound \ {w}
      BY <2>2
    <3>. QED
      BY <2>1, <2>2, <3>6, <3>7, RefsStep
  <2>5. CASE w \notin bound
    <3>1. bound' = bound /\ service' = service
      BY <1>13, <2>2, <2>5 DEF Destroy
    <3>. QED
      BY <1>4, <2>1, <2>2, <2>5, <3>1
  <2>. QED
    BY <2>4, <2>5
<1>14. CASE OnStarted
  <2>1. service.running /\ started = FALSE /\ service' = Replay(service)
    BY <1>1, <1>14 DEF OnStarted
  <2>2. Holds(service', service.detailRefs, service.fullRefs, service.focusPage)
    BY <1>1, <2>1, ReplayHolds
  <2>. QED
    BY <1>14, <2>2, RefsKept DEF OnStarted, Holds
<1>15. CASE Listen
  <2>1. service' = [service EXCEPT !.pipe = Tail(@)]
    BY <1>15 DEF Listen
  <2>2. service'.detailRefs = service.detailRefs /\ service'.fullRefs = service.fullRefs
    BY <1>1, <2>1 DEF Service
  <2>. QED
    BY <1>15, <2>2, RefsKept DEF Listen
<1>16. CASE Exit
  BY <1>16, RefsKept DEF Exit
<1>17. CASE OnExited
  <2>1. service' = [service EXCEPT !.running = FALSE, !.pipe = <<>>]
    BY <1>17 DEF OnExited
  <2>2. service'.detailRefs = service.detailRefs /\ service'.fullRefs = service.fullRefs
    BY <1>1, <2>1 DEF Service
  <2>. QED
    BY <1>17, <2>2, RefsKept DEF OnExited
<1>18. CASE Restart
  <2>1. service' = [service EXCEPT !.running = TRUE]
    BY <1>18 DEF Restart
  <2>2. service'.detailRefs = service.detailRefs /\ service'.fullRefs = service.fullRefs
    BY <1>1, <2>1 DEF Service
  <2>. QED
    BY <1>18, <2>2, RefsKept DEF Restart
<1>19. CASE UNCHANGED vars
  BY <1>19, RefsKept DEF vars
<1>. QED
  BY <1>6, <1>7, <1>8, <1>9, <1>10, <1>11, <1>12, <1>13, <1>14, <1>15, <1>16,
     <1>17, <1>18, <1>19 DEF Next, Sampler

LEMMA RefsInvariant == ASSUME ~LateService PROVE Spec => []RefsInv
<1>1. Init => RefsInv
  <2>. SUFFICES ASSUME Init PROVE RefsInv
    OBVIOUS
  <2>1. /\ bound = {} /\ service.detailRefs = 0 /\ service.fullRefs = 0
        /\ widget = [w \in Widgets |-> NewWidget(SECOND)]
    BY DEF Init
  <2>2. \A w \in Widgets : ~widget[w].opened /\ widget[w].fullHeld = WantsFull(widget[w])
    BY <2>1, NewWidgetCloses
  <2>3. Showing = {} /\ {w \in bound : WantsFull(widget[w])} = {}
    BY <2>1 DEF Showing
  <2>. QED
    BY <2>1, <2>2, <2>3, FS_EmptySet DEF RefsInv, Held, RefsBalanced
<1>. QED
  BY <1>1, RefsInductive, Invariant, PTL DEF Spec

\* Every reference the service counts is that of an open panel, or of an open
\* panel with its process list unfolded, and every such panel has one: the
\* counts of acquireDetail and acquireFullProcesses (OmaStatsService.qml) never
\* drift, however panels open, fold, move and go away, when no panel opens
\* before its widget has found the service.
THEOREM Balanced == ASSUME ~LateService PROVE Spec => []RefsBalanced
<1>1. RefsInv => RefsBalanced
  BY DEF RefsInv
<1>. QED
  BY <1>1, RefsInvariant, PTL

\* The focused page is the page of the open panel when one opens alone, and
\* stays so while no other opens (onOpenedChanged and onCurrentTabChanged in
\* OmaStatsWidget.qml), under the same condition.
THEOREM FocusShown == ASSUME ~LateService PROVE Spec => FocusIsShown
<1>1. IInv /\ RefsInv /\ [Next]_vars =>
        [\A w \in Widgets :
           /\ Showing \subseteq {w} /\ Showing' = {w}
           /\ w \in Showing => service.focusPage = widget[w].tab
           => service'.focusPage = widget'[w].tab]_vars
  <2>. SUFFICES ASSUME IInv, RefsInv, [Next]_vars, NEW w \in Widgets,
                       Showing \subseteq {w}, Showing' = {w},
                       w \in Showing => service.focusPage = widget[w].tab
                PROVE  service'.focusPage = widget'[w].tab \/ UNCHANGED vars
    BY Zenon
  <2>1. /\ service \in Service /\ started \in BOOLEAN
        /\ Promise(service, control, started)
        /\ widget \in [Widgets -> Widget]
        /\ present \subseteq Widgets /\ bound \subseteq present
    BY DEF IInv, TypeOK
  <2>2. \A v \in Widgets : /\ widget[v] \in Widget
                           /\ v \notin bound => ~widget[v].opened
                           /\ widget[v].opened => v = w
    BY <2>1 DEF RefsInv, Held, Showing
  <2>3. w \in bound' /\ widget'[w].opened
    BY DEF Showing
  <2>4. ASSUME service'.focusPage = service.focusPage, w \in bound, widget[w].opened,
               widget'[w].tab = widget[w].tab
        PROVE  service'.focusPage = widget'[w].tab
    BY <2>4 DEF Showing
  <2>5. ASSUME NEW v \in Widgets, Create(v)
        PROVE  service'.focusPage = widget'[w].tab
    <3>1. w # v /\ service' = service /\ bound' = bound
      BY <2>1, <2>3, <2>5 DEF Create
    <3>2. widget'[w] = widget[w]
      BY <2>1, <2>5, <3>1 DEF Create
    <3>. QED
      BY <2>3, <2>4, <3>1, <3>2
  <2>6. ASSUME NEW v \in Widgets, Bind(v)
        PROVE  service'.focusPage = widget'[w].tab
    <3>1. service' = Recompute([service EXCEPT !.settings[v] = widget[v].interval])
      BY <2>6 DEF Bind, RegisterSettings
    <3>2. widget[v].interval \in Intervals
      BY <2>2 DEF Widget
    <3>3. service'.focusPage = service.focusPage
      BY <2>1, <3>1, <3>2, RecomputeHolds DEF Holds
    <3>4. widget' = widget /\ w \in bound
      BY <2>2, <2>3, <2>6 DEF Bind
    <3>. QED
      BY <2>3, <2>4, <3>3, <3>4
  <2>7. ASSUME NEW v \in Widgets, NEW i \in Intervals, ChangeSettings(v, i)
        PROVE  service'.focusPage = widget'[w].tab
    <3>1. service' \in {service, Recompute([service EXCEPT !.settings[v] = i])}
      BY <2>7 DEF ChangeSettings, RegisterSettings
    <3>2. service'.focusPage = service.focusPage
      BY <2>1, <3>1, RecomputeHolds DEF Holds
    <3>3. /\ bound' = bound /\ widget'[w].opened = widget[w].opened
          /\ widget'[w].tab = widget[w].tab
      BY <2>1, <2>2, <2>7 DEF ChangeSettings, Widget
    <3>. QED
      BY <2>3, <2>4, <3>2, <3>3
  <2>8. ASSUME NEW v \in Widgets, Open(v)
        PROVE  service'.focusPage = widget'[w].tab
    <3>. DEFINE x == [widget[v] EXCEPT !.opened = TRUE]
    <3>1. x \in Widget /\ x.opened /\ x.tab \in Pages /\ v \in bound /\ bound' = bound
      BY <2>2, <2>8 DEF Widget, Tabs, Open
    <3>2. /\ widget' = [widget EXCEPT ![v] = HoldFull(x)]
          /\ service' = SyncFull(SetFocus(AcquireDetail(service), x.tab), x)
      BY <2>8, <3>1 DEF Open
    <3>. HIDE DEF x
    <3>3. HoldFull(x).opened /\ HoldFull(x).tab = x.tab
      BY <3>1 DEF HoldFull, Widget
    <3>4. v = w
      BY <2>1, <3>1, <3>2, <3>3 DEF Showing
    <3>5. service'.focusPage = x.tab
      BY <2>1, <3>1, <3>2, OpenHolds DEF Holds
    <3>. QED
      BY <2>1, <3>2, <3>3, <3>4, <3>5
  <2>9. ASSUME NEW v \in Widgets, Close(v)
        PROVE  service'.focusPage = widget'[w].tab
    <3>. DEFINE x == [widget[v] EXCEPT !.opened = FALSE]
    <3>1. v = w /\ v \in bound /\ x \in Widget /\ ~x.opened
      BY <2>2, <2>9 DEF Close, Widget
    <3>2. widget' = [widget EXCEPT ![v] = HoldFull(x)]
      BY <2>9, <3>1 DEF Close
    <3>. HIDE DEF x
    <3>3. ~widget'[w].opened
      BY <2>1, <3>1, <3>2, HoldFullHolds
    <3>. QED
      BY <2>3, <3>3
  <2>10. ASSUME NEW v \in Widgets, NEW t \in Tabs, SelectTab(v, t)
         PROVE  service'.focusPage = widget'[w].tab
    <3>1. /\ widget' = [widget EXCEPT ![v].tab = t] /\ bound' = bound
          /\ service' = IF widget[v].opened /\ v \in bound THEN SetFocus(service, t)
                        ELSE service
      BY <2>10 DEF SelectTab
    <3>2. CASE v = w
      <4>1. widget'[w].opened = widget[w].opened /\ widget'[w].tab = t
        BY <2>1, <2>2, <3>1, <3>2 DEF Widget
      <4>2. service' = SetFocus(service, t)
        BY <2>3, <3>1, <3>2, <4>1
      <4>. QED
        BY <2>1, <4>1, <4>2, SetFocusHolds DEF Holds, Tabs
    <3>3. CASE v # w
      <4>1. service' = service /\ widget'[w] = widget[w]
        BY <2>1, <2>2, <3>1, <3>3
      <4>. QED
        BY <2>3, <2>4, <3>1, <4>1
    <3>. QED
      BY <3>2, <3>3
  <2>11. ASSUME NEW v \in Widgets, SetExpanded(v)
         PROVE  service'.focusPage = widget'[w].tab
    <3>. DEFINE x == [widget[v] EXCEPT !.expanded = ~@]
    <3>1. /\ x \in Widget /\ x.opened = widget[v].opened /\ x.tab = widget[v].tab
          /\ bound' = bound
          /\ \/ service' = SyncFull(service, x) /\ widget' = [widget EXCEPT ![v] = HoldFull(x)]
             \/ service' = service /\ widget' = [widget EXCEPT ![v] = x]
      BY <2>2, <2>11 DEF SetExpanded, Widget
    <3>. HIDE DEF x
    <3>2. HoldFull(x).opened = x.opened /\ HoldFull(x).tab = x.tab
      BY <3>1 DEF HoldFull, Widget
    <3>3. /\ widget'[w].opened = widget[w].opened
          /\ widget'[w].tab = widget[w].tab
      BY <2>1, <3>1, <3>2
    <3>4. service'.focusPage = service.focusPage
      BY <2>1, <3>1, SyncFullHolds DEF Holds
    <3>. QED
      BY <2>3, <2>4, <3>1, <3>3, <3>4
  <2>12. ASSUME NEW v \in Widgets, Destroy(v)
         PROVE  service'.focusPage = widget'[w].tab
    <3>1. v # w /\ bound' = bound \ {v} /\ widget'[w] = widget[w]
      BY <2>1, <2>3, <2>12 DEF Destroy
    <3>2. ~widget[v].opened
      BY <2>2, <3>1
    <3>3. ~widget[v].fullHeld
      BY <3>2 DEF RefsInv, Held, WantsFull
    <3>4. service' \in {service, Recompute([service EXCEPT !.settings[v] = NOTHING])}
      BY <2>12, <3>2, <3>3 DEF Destroy, UnregisterSettings
    <3>5. service'.focusPage = service.focusPage
      BY <2>1, <3>4, RecomputeHolds DEF Holds
    <3>. QED
      BY <2>3, <2>4, <3>1, <3>5
  <2>13. CASE Sampler
    <3>1. widget' = widget /\ bound' = bound
      BY <2>13 DEF Sampler, OnStarted, Listen, Exit, OnExited, Restart
    <3>2. service'.focusPage = service.focusPage
      <4>1. CASE OnStarted
        <5>1. service.running /\ started = FALSE /\ service' = Replay(service)
          BY <2>1, <4>1 DEF OnStarted
        <5>. QED
          BY <2>1, <5>1, ReplayHolds DEF Holds
      <4>2. CASE Listen
        BY <2>1, <4>2 DEF Listen, Service
      <4>3. CASE Exit
        BY <4>3 DEF Exit
      <4>4. CASE OnExited
        BY <2>1, <4>4 DEF OnExited, Service
      <4>5. CASE Restart
        BY <2>1, <4>5 DEF Restart, Service
      <4>. QED
        BY <2>13, <4>1, <4>2, <4>3, <4>4, <4>5 DEF Sampler
    <3>. QED
      BY <2>3, <2>4, <3>1, <3>2
  <2>. QED
    BY <2>5, <2>6, <2>7, <2>8, <2>9, <2>10, <2>11, <2>12, <2>13 DEF Next
<1>. QED
  BY <1>1, RefsInvariant, Invariant, PTL DEF Spec, FocusIsShown
=============================================================================
