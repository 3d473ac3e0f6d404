------------------------------- MODULE Panels -------------------------------
(***************************************************************************)
(* The shell side of the control protocol: the bar widgets                 *)
(* (OmaStatsWidget.qml, one per bar per monitor), the service they share   *)
(* (OmaStatsService.qml) and the pipe to the sampler it runs.              *)
(*                                                                         *)
(* The widgets' handlers call the service synchronously, so the service's  *)
(* methods are operators from its state to its state, and an action is a   *)
(* handler with every call it makes.  The sampler is reduced to the        *)
(* listener thread: module SamplerLoop has the rest, and module Supervisor *)
(* when it is restarted.                                                   *)
(***************************************************************************)
EXTENDS ControlLines, Sequences, FiniteSets

CONSTANTS
  Widgets,       \* the bars of every monitor
  LateService,   \* may a panel open before its widget finds the service?
  MaxBacklog     \* bound: lines unread when the user acts again

ASSUME PanelsAssumption ==
  /\ IsFiniteSet(Widgets)
  /\ LateService \in BOOLEAN
  /\ MaxBacklog \in Nat
  /\ Pages \ {"none"} # {}

VARIABLES
  widget,     \* the widgets' properties
  present,    \* the widgets that exist
  bound,      \* those whose service property is set
  service,    \* the service's properties, and the sampler's stdin
  started,    \* has onStarted run for the current sampler process?
  alive,      \* does that process still run?
  control     \* what its listener has read so far

vars == <<widget, present, bound, service, started, alive, control>>

Tabs    == Pages \ {"none"}
NOTHING == 0                   \* no settings registered

Min(S) == CHOOSE x \in S : \A y \in S : x <= y

-----------------------------------------------------------------------------
(* The service's methods.  s.running is the Process's property: what is      *)
(* written while it is set goes to the sampler's stdin.                      *)

Send(s, kind, value) ==
  IF s.running
  THEN [s EXCEPT !.pipe = Append(@, [op |-> kind, arg |-> value])]
  ELSE s

SyncDetail(s) ==
  LET level == IF s.detailRefs > 0 THEN (IF s.fullRefs > 0 THEN 2 ELSE 1) ELSE 0
  IN  IF level = s.sentDetail THEN s
      ELSE Send([s EXCEPT !.sentDetail = level], "detail", level)

Dec(refs) == IF refs > 0 THEN refs - 1 ELSE 0

AcquireDetail(s) == SyncDetail([s EXCEPT !.detailRefs = @ + 1])
ReleaseDetail(s) == SyncDetail([s EXCEPT !.detailRefs = Dec(@)])
AcquireFull(s)   == SyncDetail([s EXCEPT !.fullRefs = @ + 1])
ReleaseFull(s)   == SyncDetail([s EXCEPT !.fullRefs = Dec(@)])

\* Mutant: a page chosen while the sampler is down is forgotten.
SetFocusIfRunning(s, page) ==
  IF page = s.focusPage \/ ~s.running THEN s
  ELSE Send([s EXCEPT !.focusPage = page], "focus", page)

SetFocus(s, page) ==
  IF page = s.focusPage THEN s
  ELSE Send([s EXCEPT !.focusPage = page], "focus", page)

\* Mutant: a bar that has gone away counts as asking for an interval of zero.
FastestOfAll(settings) == Min({settings[w] : w \in Widgets})

\* The fastest interval any registered widget asks for, one second if none.
Fastest(settings) ==
  LET asked == {settings[w] : w \in Widgets} \ {NOTHING}
  IN  IF asked = {} THEN SECOND ELSE Min(asked)

Recompute(s) ==
  LET interval == Fastest(s.settings)
  IN  IF interval = s.intervalSeconds THEN s
      ELSE Send([s EXCEPT !.intervalSeconds = interval], "interval", interval)

RegisterSettings(s, w, interval) == Recompute([s EXCEPT !.settings[w] = interval])
\* Mutant: the interval is not recomputed when a bar goes away.
UnregisterOnly(s, w) == [s EXCEPT !.settings[w] = NOTHING]

UnregisterSettings(s, w) == Recompute([s EXCEPT !.settings[w] = NOTHING])

\* Mutants: a new sampler is not told the level of detail; it is not told the
\* page.
ReplayWithoutDetail(s) ==
  IF s.focusPage # "none" THEN Send(s, "focus", s.focusPage) ELSE s

ReplayWithoutFocus(s) ==
  LET detail == IF s.sentDetail > 0 THEN Send(s, "detail", s.sentDetail) ELSE s
  IN  IF s.intervalSeconds # SECOND
      THEN Send(detail, "interval", s.intervalSeconds)
      ELSE detail

\* A sampler that has just started knows nothing of what its predecessor was
\* told: the service tells it what differs from the defaults.
Replay(s) ==
  LET detail == IF s.sentDetail > 0 THEN Send(s, "detail", s.sentDetail) ELSE s
      focus  == IF s.focusPage # "none" THEN Send(detail, "focus", s.focusPage)
                ELSE detail
  IN  IF s.intervalSeconds # SECOND
      THEN Send(focus, "interval", s.intervalSeconds)
      ELSE focus

-----------------------------------------------------------------------------
(* A widget's hold on the full process list.                                 *)

WantsFull(x) == x.opened /\ x.expanded

HoldFull(x) == [x EXCEPT !.fullHeld = WantsFull(x)]

SyncFull(s, x) ==
  CASE WantsFull(x) /\ ~x.fullHeld -> AcquireFull(s)
    [] ~WantsFull(x) /\ x.fullHeld -> ReleaseFull(s)
    [] OTHER -> s

-----------------------------------------------------------------------------
NewWidget(interval) ==
  [opened |-> FALSE, tab |-> CHOOSE t \in Tabs : TRUE, expanded |-> FALSE,
   fullHeld |-> FALSE, interval |-> interval]

Init ==
  /\ widget = [w \in Widgets |-> NewWidget(SECOND)]
  /\ present = {}
  /\ bound = {}
  /\ service = [detailRefs |-> 0, fullRefs |-> 0, sentDetail |-> 0,
                focusPage |-> "none", intervalSeconds |-> SECOND,
                settings |-> [w \in Widgets |-> NOTHING],
                running |-> TRUE, pipe |-> <<>>]
  /\ started = FALSE
  /\ alive = TRUE
  /\ control = FreshControl

samplerVars == <<started, alive, control>>

\* The user is slow compared with the listener.
Quiet == Len(service.pipe) <= MaxBacklog

\* A bar is created, with the settings saved for it.
Create(w) ==
  /\ w \notin present
  /\ present' = present \cup {w}
  /\ \E i \in Intervals : widget' = [widget EXCEPT ![w] = NewWidget(i)]
  /\ UNCHANGED <<bound, service, samplerVars>>

\* onServiceChanged, or onCompleted when the service is there from the start.
Bind(w) ==
  /\ Quiet
  /\ w \in present \ bound
  /\ bound' = bound \cup {w}
  /\ service' = RegisterSettings(service, w, widget[w].interval)
  /\ UNCHANGED <<widget, present, samplerVars>>

\* onSettingsChanged with another refresh interval.
ChangeSettings(w, interval) ==
  /\ Quiet
  /\ w \in present
  /\ widget[w].interval # interval
  /\ widget' = [widget EXCEPT ![w].interval = interval]
  /\ service' = IF w \in bound THEN RegisterSettings(service, w, interval) ELSE service
  /\ UNCHANGED <<present, bound, samplerVars>>

\* onOpenedChanged.  Without a service it returns at once.
Open(w) ==
  /\ Quiet
  /\ w \in present /\ ~widget[w].opened
  /\ w \in bound \/ LateService
  /\ LET x == [widget[w] EXCEPT !.opened = TRUE]
     IN  IF w \in bound
         THEN /\ service' = SyncFull(SetFocus(AcquireDetail(service), x.tab), x)
              /\ widget' = [widget EXCEPT ![w] = HoldFull(x)]
         ELSE /\ widget' = [widget EXCEPT ![w] = x]
              /\ UNCHANGED service
  /\ UNCHANGED <<present, bound, samplerVars>>

Close(w) ==
  /\ Quiet
  /\ w \in present /\ widget[w].opened
  /\ LET x == [widget[w] EXCEPT !.opened = FALSE]
     IN  IF w \in bound
         THEN /\ service' = SyncFull(SetFocus(ReleaseDetail(service), "none"), x)
              /\ widget' = [widget EXCEPT ![w] = HoldFull(x)]
         ELSE /\ widget' = [widget EXCEPT ![w] = x]
              /\ UNCHANGED service
  /\ UNCHANGED <<present, bound, samplerVars>>

\* onCurrentTabChanged.
SelectTab(w, t) ==
  /\ Quiet
  /\ w \in present /\ widget[w].tab # t
  /\ widget' = [widget EXCEPT ![w].tab = t]
  /\ service' = IF widget[w].opened /\ w \in bound THEN SetFocus(service, t) ELSE service
  /\ UNCHANGED <<present, bound, samplerVars>>

\* setProcessesExpanded.
SetExpanded(w) ==
  /\ Quiet
  /\ w \in present
  /\ LET x == [widget[w] EXCEPT !.expanded = ~@]
     IN  IF w \in bound
         THEN /\ service' = SyncFull(service, x)
              /\ widget' = [widget EXCEPT ![w] = HoldFull(x)]
         ELSE /\ widget' = [widget EXCEPT ![w] = x]
              /\ UNCHANGED service
  /\ UNCHANGED <<present, bound, samplerVars>>

\* Mutant: a widget that goes away keeps its hold on the full list.
DestroyKeepingFull(w) ==
  /\ Quiet
  /\ w \in present
  /\ present' = present \ {w}
  /\ bound' = bound \ {w}
  /\ widget' = [widget EXCEPT ![w] = NewWidget(SECOND)]
  /\ service' = IF w \notin bound THEN service
                ELSE UnregisterSettings(IF widget[w].opened THEN ReleaseDetail(service)
                                        ELSE service, w)
  /\ UNCHANGED samplerVars

\* onDestruction: the monitor is unplugged or the widget removed.
Destroy(w) ==
  /\ Quiet
  /\ w \in present
  /\ present' = present \ {w}
  /\ bound' = bound \ {w}
  /\ widget' = [widget EXCEPT ![w] = NewWidget(SECOND)]
  /\ IF w \in bound
     THEN LET x    == widget[w]
              less == IF x.opened THEN ReleaseDetail(service) ELSE service
              rest == IF x.fullHeld THEN ReleaseFull(less) ELSE less
          IN  service' = UnregisterSettings(rest, w)
     ELSE UNCHANGED service
  /\ UNCHANGED samplerVars

-----------------------------------------------------------------------------
(* The sampler process, as the service sees it and as it is.                 *)

OnStarted ==
  /\ service.running /\ ~started
  /\ started' = TRUE
  /\ service' = Replay(service)
  /\ UNCHANGED <<widget, present, bound, alive, control>>

\* The listener reads the next line.
Listen ==
  /\ alive
  /\ service.pipe # <<>>
  /\ control' = Obey(control, Head(service.pipe))
  /\ service' = [service EXCEPT !.pipe = Tail(@)]
  /\ UNCHANGED <<widget, present, bound, started, alive>>

\* The process ends on its own; the service learns of it later.
Exit ==
  /\ alive
  /\ alive' = FALSE
  /\ UNCHANGED <<widget, present, bound, service, started, control>>

\* onExited; what the process had not read is lost with it.
OnExited ==
  /\ service.running /\ started /\ ~alive
  /\ service' = [service EXCEPT !.running = FALSE, !.pipe = <<>>]
  /\ UNCHANGED <<widget, present, bound, samplerVars>>

\* restartTimer.onTriggered.
Restart ==
  /\ ~service.running
  /\ service' = [service EXCEPT !.running = TRUE]
  /\ started' = FALSE
  /\ alive' = TRUE
  /\ control' = FreshControl
  /\ UNCHANGED <<widget, present, bound>>

Sampler == OnStarted \/ Listen \/ Exit \/ OnExited \/ Restart

Next ==
  \/ \E w \in Widgets :
       \/ Create(w) \/ Bind(w) \/ Open(w) \/ Close(w) \/ SetExpanded(w) \/ Destroy(w)
       \/ \E i \in Intervals : ChangeSettings(w, i)
       \/ \E t \in Tabs : SelectTab(w, t)
  \/ Sampler

\* The event loop delivers the process's signals and its timer, and the
\* listener reads what is written; users and crashes are free.
Fairness == WF_vars(OnStarted) /\ WF_vars(Listen) /\ WF_vars(OnExited) /\ WF_vars(Restart)

Spec == Init /\ [][Next]_vars /\ Fairness

-----------------------------------------------------------------------------
Widget == [opened : BOOLEAN, tab : Tabs, expanded : BOOLEAN, fullHeld : BOOLEAN,
           interval : Intervals]

Service == [detailRefs : Nat, fullRefs : Nat, sentDetail : Levels,
            focusPage : Pages, intervalSeconds : Intervals,
            settings : [Widgets -> Intervals \cup {NOTHING}],
            running : BOOLEAN, pipe : Seq(Line)]

TypeOK ==
  /\ widget \in [Widgets -> Widget]
  /\ present \subseteq Widgets
  /\ bound \subseteq present
  /\ service \in Service
  /\ started \in BOOLEAN
  /\ alive \in BOOLEAN
  /\ control \in Control

\* What the listener will know of one kind of line when it has read the pipe:
\* the last such line in it or, if there is none, what it knows now.
WillKnow(known, pipe, kind, value) ==
  \/ /\ \A i \in 1 .. Len(pipe) : pipe[i].op # kind
     /\ known = value
  \/ \E i \in 1 .. Len(pipe) :
       /\ pipe[i] = [op |-> kind, arg |-> value]
       /\ \A j \in i + 1 .. Len(pipe) : pipe[j].op # kind

\* Nothing the service told an earlier sampler, or left unsaid because it had
\* said it before, is lost on the one that runs: once told on start, it knows
\* or is about to read the service's level of detail, page and interval.
SamplerIsTold ==
  service.running /\ started =>
    /\ WillKnow(control.detail, service.pipe, "detail", service.sentDetail)
    /\ WillKnow(control.focus, service.pipe, "focus", service.focusPage)
    /\ WillKnow(control.interval, service.pipe, "interval", service.intervalSeconds)

Showing == {w \in bound : widget[w].opened}

\* Every reference is held by an open panel, or an open panel with its process
\* list unfolded, and every such panel holds one.
RefsBalanced ==
  /\ service.detailRefs = Cardinality(Showing)
  /\ service.fullRefs = Cardinality({w \in bound : WantsFull(widget[w])})

\* The focused page is the page of the open panel: it is when a first panel
\* opens, and stays so as long as no other opens.
FocusIsShown ==
  [][\A w \in Widgets :
       /\ Showing \subseteq {w} /\ Showing' = {w}
       /\ w \in Showing => service.focusPage = widget[w].tab
       => service'.focusPage = widget'[w].tab]_vars

\* The interval is the fastest any bar asks for.
IntervalIsFastest ==
  service.intervalSeconds =
    IF bound = {} THEN SECOND ELSE Min({widget[w].interval : w \in bound})

\* The level of detail the open panels call for.
Demand ==
  CASE Showing = {} -> 0
    [] \E w \in Showing : widget[w].expanded -> 2
    [] OTHER -> 1

\* While panels and sampler stay as they are, the sampler comes to sample what
\* the panels show, through every restart and every line in flight.
DemandReached ==
  \A level \in Levels :
    <>[](alive /\ Demand = level) => <>[](control.detail = level)
=============================================================================
