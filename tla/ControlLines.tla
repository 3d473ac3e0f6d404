---------------------------- MODULE ControlLines ----------------------------
(***************************************************************************)
(* The control protocol between the shell and the sampler: the lines       *)
(* OmaStatsService.qml writes to the sampler's stdin and what the          *)
(* listener thread of sampler/src/main.rs does with each of them.          *)
(*                                                                         *)
(* A line is a record [op, arg].  Its text, and the parsing of numbers,    *)
(* are abstracted: arg is the value the listener ends up with.  Lines it   *)
(* does not know, which it skips, are left out.                            *)
(***************************************************************************)
EXTENDS Integers

CONSTANTS
  Intervals,   \* sampling intervals, in ticks, after clamping to 0.1 - 30 s
  Pages,       \* panel pages; "none" is how the service says there is none
  SECOND       \* ticks in a second, the interval the sampler starts with

ASSUME ControlAssumption ==
  /\ Intervals \subseteq Nat \ {0}
  /\ SECOND \in Intervals
  /\ "none" \in Pages

Levels == 0 .. 2   \* 0 no processes, 1 the top ones, 2 every one

Line == [op : {"detail"},   arg : Levels]    \cup
        [op : {"focus"},    arg : Pages]     \cup
        [op : {"interval"}, arg : Intervals] \cup
        [op : {"pubip", "quit"}, arg : {"none"}]

Control == [interval : Intervals, detail : Levels, focus : Pages,
            pubip : BOOLEAN, stop : BOOLEAN]

Request == [interval : Intervals, detail : Levels, focus : Pages, stop : BOOLEAN]

\* What a sampler started with "--interval 1" knows before it reads a line.
\* No page and the page "none" are the same to every reader of the field.
FreshControl == [interval |-> SECOND, detail |-> 0, focus |-> "none",
                 pubip |-> FALSE, stop |-> FALSE]

\* Mutant: the level of detail is taken as a change of the present one.
ObeyAdding(c, line) ==
  [c EXCEPT !.detail = IF line.op = "detail" THEN @ + line.arg ELSE @]

\* Mutant: a line after the quit takes it back.
ObeyLastLine(c, line) ==
  [interval |-> IF line.op = "interval" THEN line.arg ELSE c.interval,
   detail   |-> IF line.op = "detail"   THEN line.arg ELSE c.detail,
   focus    |-> IF line.op = "focus"    THEN line.arg ELSE c.focus,
   pubip    |-> c.pubip \/ line.op = "pubip",
   stop     |-> line.op = "quit"]

\* The control state after the listener has handled a line.
Obey(c, line) ==
  [interval |-> IF line.op = "interval" THEN line.arg ELSE c.interval,
   detail   |-> IF line.op = "detail"   THEN line.arg ELSE c.detail,
   focus    |-> IF line.op = "focus"    THEN line.arg ELSE c.focus,
   pubip    |-> c.pubip \/ line.op = "pubip",
   stop     |-> c.stop \/ line.op = "quit"]

\* The part of the control state that lasts: what to sample, how often, and
\* whether to go on.  The public IP request is consumed by one iteration.
Wanted(c) == [interval |-> c.interval, detail |-> c.detail,
              focus |-> c.focus, stop |-> c.stop]
=============================================================================
